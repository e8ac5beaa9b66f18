---------------------------- MODULE EngineRegistry ----------------------------
(***************************************************************************)
(* The registry of the emulator's engines and resource groups              *)
(* (services/engine), and the factories that the composition root          *)
(* (ui/gui/src/main.rs) gives it, with their counters of ports and         *)
(* loopback addresses.                                                     *)
(*                                                                         *)
(* An engine's id is its kind and a number that is drawn for all kinds     *)
(* together; here it is the number.  Names are what they were made with    *)
(* or what they were changed to.  Each operator is what is done under one  *)
(* hold of the registry's lock, or by one atomic operation of a factory,   *)
(* and leaves alone what it does not name.                                 *)
(***************************************************************************)
EXTENDS Buckets

CONSTANTS
  Kinds,       \* the kinds of resource, with a factory each
  ServiceBus,  \* the one whose instances have a loopback address each
  Step,        \* the number of ports an instance of each kind takes
  Span,        \* number of values of an address octet, 256
  MaxEngines,  \* bound: number of engine ids
  MaxGroups,   \* bound: number of group ids
  MaxChanged   \* bound: number of things whose name was changed, and their ids

VARIABLES
  groups,      \* the name of each resource group
  engines,     \* the group and name of each registered engine
  made,        \* what the factories built and their own registries keep, by id
  running,     \* the engines whose state is Some
  next_seq, next_group_seq,
  next_port,   \* by kind, from a base of 0
  next_addr,   \* next_seq of the factory for Service Bus
  spent        \* history: the last octet has been given, in this process or before

registryVars == <<groups, engines, made, running,
                  next_seq, next_group_seq, next_port, next_addr, spent>>

EngineIds == 1..MaxEngines
GroupIds  == 1..MaxGroups
Nothing   == [x \in {} |-> x]
Given     == "given"
Changed   == "changed"

ASSUME RegistryAssumption ==
  /\ ServiceBus \in Kinds /\ Step \in [Kinds -> Nat \ {0}]
  /\ Span \in Nat /\ Span > 2 /\ MaxEngines \in Nat \ {0}
  /\ MaxGroups \in Nat \ {0} /\ MaxChanged \in Nat

Registered == DOMAIN engines
InGroup(g) == {e \in Registered : engines[e].group = g}
AtMost(m, n) == IF m < n THEN m ELSE n
Renameable(id) ==
  /\ id <= MaxChanged
  /\ Cardinality({g \in DOMAIN groups : groups[g] = Changed}) +
       Cardinality({e \in Registered : engines[e].name = Changed}) < MaxChanged
Greatest(S)  == CHOOSE n \in S : \A m \in S : m <= n

RegistryInit ==
  /\ groups = Nothing /\ engines = Nothing /\ made = Nothing
  /\ running = {}
  /\ next_seq = 1 /\ next_group_seq = 1
  /\ next_port = [k \in Kinds |-> 0]
  /\ next_addr = 2
  /\ spent = FALSE

-----------------------------------------------------------------------------
\* create_group of a new group.
create_group ==
  /\ next_group_seq \in GroupIds
  /\ groups' = With(groups, next_group_seq, Given)
  /\ next_group_seq' = next_group_seq + 1
  /\ UNCHANGED <<engines, made, running, next_seq, next_port, next_addr, spent>>

rename_group(g) ==
  /\ g \in DOMAIN groups /\ Renameable(g)
  /\ groups' = [groups EXCEPT ![g] = Changed]
  /\ UNCHANGED <<engines, made, running, next_seq, next_group_seq, next_port, next_addr, spent>>

\* The last step of delete_group, once its engines are removed.
retain_groups(g) ==
  /\ groups' = Drop(groups, {g})
  /\ UNCHANGED <<engines, made, running, next_seq, next_group_seq, next_port, next_addr, spent>>

\* create up to where it lets go of the lock: the number of the engine's id.
create(g) ==
  /\ g \in DOMAIN groups /\ next_seq \in EngineIds
  /\ next_seq' = next_seq + 1
  /\ UNCHANGED <<groups, engines, made, running, next_group_seq, next_port, next_addr, spent>>

\* The factory of kind k runs without the lock.  It takes a port from one counter ...
resolve_port(k) ==
  /\ next_port' = [next_port EXCEPT ![k] = @ + Step[k]]
  /\ UNCHANGED <<groups, engines, made, running, next_seq, next_group_seq, next_addr, spent>>

\* ... and then, for Service Bus, an octet from another, which wraps.
build(e, k, port) ==
  /\ made' = With(made, e, [kind |-> k, port |-> port,
       addr |-> IF k # ServiceBus THEN 0 ELSE IF next_addr = 0 THEN 1 ELSE next_addr])
  /\ next_addr' = IF k = ServiceBus THEN (next_addr + 1) % Span ELSE next_addr
  /\ spent' = (spent \/ (k = ServiceBus /\ next_addr = Span - 1))
  /\ UNCHANGED <<groups, engines, running, next_seq, next_group_seq, next_port>>

\* create after a successful start.
insert(e, g) ==
  /\ engines' = With(engines, e, [group |-> g, name |-> Given])
  /\ UNCHANGED <<groups, made, running, next_seq, next_group_seq, next_port, next_addr, spent>>

\* remove up to the engine's stop; the factories' registries keep it.
unregister(e) ==
  /\ engines' = Drop(engines, {e})
  /\ UNCHANGED <<groups, made, running, next_seq, next_group_seq, next_port, next_addr, spent>>

rename(e) ==
  /\ e \in Registered /\ Renameable(e)
  /\ engines' = [engines EXCEPT ![e].name = Changed]
  /\ UNCHANGED <<groups, made, running, next_seq, next_group_seq, next_port, next_addr, spent>>

\* start() and stop() of an engine have no effect when there is nothing to do.
start(e) ==
  /\ running' = running \cup {e}
  /\ UNCHANGED <<groups, engines, made, next_seq, next_group_seq, next_port, next_addr, spent>>

stop(e) ==
  /\ running' = running \ {e}
  /\ UNCHANGED <<groups, engines, made, next_seq, next_group_seq, next_port, next_addr, spent>>

\* Looks at the ids of one group only.
bump_next_seq_Mistake(ids) == IF Cardinality(ids) # 1 THEN 1 ELSE Greatest(ids) + 1
\* The counter of ids past everything that was restored.
bump_next_seq(ids) == Greatest({0} \cup ids) + 1

\* Bumps to the last port that was restored.
BumpedPort_Mistake(k, found) ==
  Greatest({0} \cup {found[e].port : e \in {e \in DOMAIN found : found[e].kind = k}})
\* The counters of main.rs after load_all_groups.
BumpedPort(k, found) ==
  Greatest({0} \cup {found[e].port + Step[k] : e \in {e \in DOMAIN found : found[e].kind = k}})

\* Adds one to an octet without saturating.
BumpedAddr_Mistake(found) ==
  Greatest({2} \cup {found[e].addr + 1 : e \in {e \in DOMAIN found : found[e].kind = ServiceBus}})
BumpedAddr(found) ==
  Greatest({2} \cup {AtMost(found[e].addr + 1, Span - 1) :
                       e \in {e \in DOMAIN found : found[e].kind = ServiceBus}})

\* restore_group and create_with_config for each of the snapshots kept, a set of
\* them: nothing is started.  An id that several have goes to the first to come.
restore(kept) ==
  LET ids == UNION {DOMAIN s.resources : s \in kept}
      Having(e) == {s \in kept : e \in DOMAIN s.resources}
  IN /\ groups' = [g \in {s.id : s \in kept} |-> (CHOOSE s \in kept : s.id = g).name]
     /\ \E from \in [ids -> kept] :
          /\ \A e \in ids : from[e] \in Having(e)
          /\ engines' = [e \in ids |-> [group |-> from[e].id, name |-> from[e].resources[e].name]]
          /\ made' = [e \in ids |-> from[e].resources[e].config]
     /\ running' = {}
     /\ next_seq' = bump_next_seq(ids)
     /\ next_group_seq' = Greatest({0} \cup DOMAIN groups') + 1
     /\ next_port' = [k \in Kinds |-> BumpedPort(k, made')]
     /\ next_addr' = BumpedAddr(made')
     /\ UNCHANGED spent

\* The resources that snapshot_group finds in a group.
Resources(g) == [e \in InGroup(g) |-> [name |-> engines[e].name, config |-> made[e]]]

-----------------------------------------------------------------------------
RegistryTypeOK ==
  /\ groups \in [DOMAIN groups -> {Given, Changed}] /\ DOMAIN groups \subseteq GroupIds
  /\ Registered \subseteq DOMAIN made /\ DOMAIN made \subseteq EngineIds
  /\ \A e \in Registered : engines[e] \in [group : GroupIds, name : {Given, Changed}]
  /\ \A e \in DOMAIN made : made[e] \in [kind : Kinds, port : Nat, addr : 0..(Span - 1)]
  /\ running \subseteq DOMAIN made
  /\ next_port \in [Kinds -> Nat] /\ next_addr \in 0..(Span - 1) /\ spent \in BOOLEAN
=============================================================================
