--------------------------- MODULE ServiceContract ---------------------------
(***************************************************************************)
(* What the service promises the clients of its API while it is            *)
(* reconfigured (README.md, Runtime configuration and API). There is one   *)
(* configuration in force. It is replaced in one step, never by one that   *)
(* would open a public listener to everybody; it alone decides who is      *)
(* admitted, and every answer shows it as it is at that moment.            *)
(***************************************************************************)
CONSTANTS
  Clients,
  Credentials,   \* what a request can present
  NoToken,       \* no credential, and no token required
  Views,         \* what clients can tell of a configuration
  NoAnswer

VARIABLES
  up,            \* the service takes requests
  loopback,      \* the listener is not public
  inForce,       \* the configuration in force
  session        \* the request of each client

vars == <<up, loopback, inForce, session>>

Idle == [stage |-> "idle", credential |-> NoToken, shown |-> NoAnswer]

Guarded(public, view) == public => view.token # NoToken \/ view.optIn

Answers(view) == {<<"hosts", view.hosts>>, <<"modules", view.modules>>}

Init ==
  /\ up = FALSE
  /\ session = [c \in Clients |-> Idle]

Start ==
  /\ ~up
  /\ up' = TRUE
  /\ inForce' \in Views
  /\ Guarded(~loopback', inForce')
  /\ UNCHANGED session

\* A reload.
Switch ==
  /\ up
  /\ inForce' \in Views
  /\ Guarded(~loopback, inForce')
  /\ UNCHANGED <<up, loopback, session>>

Stop ==
  /\ up
  /\ up' = FALSE
  /\ session' = [c \in Clients |-> Idle]

Ask(c, credential) ==
  /\ up
  /\ session[c].stage = "idle"
  /\ session' = [session EXCEPT ![c].stage = "asked", ![c].credential = credential]
  /\ UNCHANGED <<up, loopback, inForce>>

Admits(credential) == inForce.token \in {NoToken, credential}

Decide(c) ==
  /\ up
  /\ session[c].stage = "asked"
  /\ session' = [session EXCEPT ![c].stage = IF Admits(session[c].credential)
                                               THEN "admitted" ELSE "refused"]
  /\ UNCHANGED <<up, loopback, inForce>>

Answer(c) ==
  /\ up
  /\ session[c].stage = "admitted"
  /\ \E a \in Answers(inForce) :
       session' = [session EXCEPT ![c].stage = "answered", ![c].shown = a]
  /\ UNCHANGED <<up, loopback, inForce>>

Leave(c) ==
  /\ session[c].stage \in {"refused", "answered"}
  /\ session' = [session EXCEPT ![c] = Idle]
  /\ UNCHANGED <<up, loopback, inForce>>

Next ==
  \/ Start \/ Switch \/ Stop
  \/ \E c \in Clients : \/ \E credential \in Credentials : Ask(c, credential)
                        \/ Decide(c) \/ Answer(c) \/ Leave(c)

Spec == Init /\ [][Next]_vars
=============================================================================
