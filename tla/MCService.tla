----------------------------- MODULE MCService -----------------------------
(* Service on small instances.                                             *)
EXTENDS Service, TLC

Own == [enabled |-> Unset, interval |-> Unset, timeout |-> Unset]

Plain(id, address) ==
  [id |-> id, address |-> address, groups |-> {}, modules |-> [m \in Modules |-> Own],
   verify |-> Unset, checks |-> <<"ssh">>]

Lab(hosts) == [g \in Identifiers |-> IF g = "lab" THEN hosts ELSE Unset]

On == [enabled |-> TRUE, interval |-> 2, timeout |-> 1, concurrency |-> 1]

\* Two hosts in one group; usage is off.
Base ==
  [parses |-> TRUE, loopback |-> TRUE, token |-> NoToken, optIn |-> FALSE,
   workers |-> Unset, retention |-> 3,
   history |-> [tiers |-> [i \in 1 .. 4 |-> 3], events |-> 3],
   maintenance |-> [intervals |-> [i \in 1 .. 4 |-> 2], batch |-> 1, pages |-> 1,
                    percent |-> 1, bytes |-> 1],
   modules |-> [icmp |-> On, tcp |-> On, usage |-> [On EXCEPT !.enabled = FALSE]],
   thresholds |-> <<2, 1>>, verify |-> TRUE, samples |-> 3,
   members |-> Lab({"a", "b"}), tuned |-> {},
   settings |-> [g \in Identifiers |-> Unset],
   hosts |-> <<Plain("a", "x"), Plain("b", "y")>>]

\* Who may come in.
Access ==
  {[Base EXCEPT !.loopback = l, !.token = t, !.optIn = o] :
     l \in BOOLEAN, t \in Credentials, o \in BOOLEAN}

\* What the first host has on, with or without the module.
Enabling ==
  {[Base EXCEPT !.modules[m].enabled = global, !.hosts[1].modules[m].enabled = own] :
     m \in {"icmp", "usage"}, global \in BOOLEAN, own \in Option(BOOLEAN)}

\* TCP checks, a new address, a host less, and who verifies.
Others ==
  {[Base EXCEPT !.hosts[1].checks = checks] :
     checks \in {<<>>, <<"ssh", "ssh">>, <<"ssh", "web">>, <<"ssh", "web", "dns">>}}
  \cup {[Base EXCEPT !.hosts[2].address = "z"],
        [Base EXCEPT !.hosts = <<Plain("a", "x")>>, !.members = Lab({"a"})]}
  \cup {[Base EXCEPT !.verify = global, !.hosts[1].verify = own, !.hosts[1].groups = {"it"},
                     !.tuned = {"lab", "it"},
                     !.settings["lab"] = lab, !.settings["it"] = it] :
          global \in {TRUE}, own \in {Unset}, lab \in Option(BOOLEAN), it \in {TRUE}}

\* Durations at and beyond their bounds.
Durations ==
  {[Base EXCEPT !.hosts[1].modules[m].interval = d] : m \in Modules, d \in {0, 1, 9}}
  \cup {[Base EXCEPT !.modules["usage"].timeout = d] : d \in {0, 1, 9}}
  \cup {[Base EXCEPT !.retention = 0], [Base EXCEPT !.samples = 9]}
  \cup {[Base EXCEPT !.history.tiers[i] = d] : i \in {1, 4}, d \in {2, 1, 4}}
  \cup {[Base EXCEPT !.history.events = 1], [Base EXCEPT !.maintenance.intervals[4] = 1],
        [Base EXCEPT !.maintenance.batch = 0], [Base EXCEPT !.maintenance.percent = 2]}

\* Files that are turned down for their names.
Misnamed ==
  {[Base EXCEPT !.parses = FALSE], [Base EXCEPT !.hosts = <<>>, !.members["lab"] = Unset],
   [Base EXCEPT !.hosts[2].id = "a", !.members = Lab({"a"})],
   [Base EXCEPT !.hosts[2].id = "-o", !.members = Lab({"a", "-o"})],
   [Base EXCEPT !.hosts[2].address = "-o"], [Base EXCEPT !.members = Lab({"a"})],
   [Base EXCEPT !.members = Lab({"a", "b", "c"})],
   [Base EXCEPT !.members["it"] = {}],
   [Base EXCEPT !.tuned = {"it"}], [Base EXCEPT !.workers = 2],
   [Base EXCEPT !.modules["icmp"].concurrency = 0], [Base EXCEPT !.thresholds = <<0, 1>>]}

MCFiles == Access \cup Enabling \cup Others \cup Durations \cup Misnamed
=============================================================================
