---------------------------- MODULE Handshakes ----------------------------
(***************************************************************************)
(* Whether an agent and a controller with given settings get a control     *)
(* connection: TLS, then the agent's proof.  OpenSSL and HMAC are taken at *)
(* what they promise: a certificate convinces those who trust its issuer   *)
(* and look for its name, and a proof is right for one secret.             *)
(***************************************************************************)
EXTENDS Settings

CONSTANTS
    Certificates,  \* the certificates by path: key, issuer and name
    Authorities,   \* the issuer each CA file names, by path
    SystemIssuers  \* the issuers trusted without a CA file

\* Channel::server: the certificate and its key load and belong together.
ServerReady(tunnel) ==
    LET path == tunnel.value["tls_cert"]
    IN path \in DOMAIN Certificates /\ Certificates[path].key = tunnel.value["tls_key"]

\* Bug: SSL_VERIFY_NONE whenever there is no CA file.
TrustsAnyIssuer(agent, certificate) ==
    LET ca == agent.value["tls_ca"]
    IN \/ agent.insecure \/ ca = <<>>
       \/ certificate.issuer = Authorities[ca]

\* Channel::client: unless told not to look, the agent wants a certificate of
\* an issuer it trusts, for the host it dials.
Trusts(agent, certificate) ==
    LET ca == agent.value["tls_ca"]
    IN \/ agent.insecure
       \/ /\ IF ca = <<>> THEN certificate.issuer \in SystemIssuers
             ELSE ca \in DOMAIN Authorities /\ certificate.issuer = Authorities[ca]
          /\ certificate.name = parse_host_port(agent.value["tunnel"], 0).host

\* The two ends of the socket agree on TLS, or no frame gets through.
Secured(agent, tunnel) ==
    \/ ~agent.tls /\ ~tunnel.tls
    \/ /\ agent.tls /\ tunnel.tls /\ ServerReady(tunnel)
       /\ Trusts(agent, Certificates[tunnel.value["tls_cert"]])

Proof(secret, id) == <<secret, id>>

\* authenticate_agent: Django is asked if there is somewhere to ask, with the
\* answer yes; otherwise the controller computes the proof itself.
Authentic(agent, tunnel, yes) ==
    IF tunnel.value["auth_url"] # <<>> /\ tunnel.value["auth_token"] # <<>> THEN yes
    ELSE Proof(agent.value["secret"], agent.value["id"])
         = Proof(tunnel.value["secret"], agent.value["id"])
=============================================================================
