------------------------ MODULE MCMonitorGenerations ------------------------
(* MonitorGenerations on small instances.                                  *)
EXTENDS MonitorGenerationsInv, TLC

\* Hosts and addresses are interchangeable.
Symmetry == Permutations(Hosts) \cup Permutations(Addresses)

\* A process that was started again applies one reload only.
ThreeBeginnings == starts + generation <= 3

\* A write fails, or the process is started again.
OneFault == starts + storeErrors <= 2

\* Every valid configuration.
AllConfigs == ValidConfig

\* All hosts, or all but one, all with ICMP enabled: reloads add and remove a host.
AddAndRemove ==
  LET gone == CHOOSE h \in Hosts : TRUE
  IN  {c \in ValidConfig : /\ c.icmp = Configured(c.address)
                           /\ Hosts \ {gone} \subseteq c.icmp}
=============================================================================
