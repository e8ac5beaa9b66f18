------------------------------ MODULE MCDashboard ------------------------------
\* Service Bus instances, which take one port and one loopback address each.
EXTENDS Dashboard

CONSTANTS c1, c2

MCStep == ServiceBus :> 1
Symmetry == Permutations(Clients)

\* With two group ids and two engine ids drawn, one request at a time and no new names.
NewName == \/ \E g \in DOMAIN groups : groups[g] = Changed
           \/ \E e \in Registered : engines[e].name = Changed
Small == next_group_seq = 3 /\ next_seq = 3 => ~NewName /\ \E c \in Clients : request[c] = Idle
=============================================================================
