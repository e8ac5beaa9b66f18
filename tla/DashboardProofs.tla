---------------------------- MODULE DashboardProofs ----------------------------
(***************************************************************************)
(* Proofs about Dashboard, for any number of clients, groups, engines and  *)
(* kinds: what the ids, addresses and files of resources rely on while     *)
(* requests interleave and the process restarts.                           *)
(***************************************************************************)
EXTENDS Dashboard, BucketsProofs

\* The names, the snapshots and what a request may have left to do.
Names    == {Given, Changed}
Config   == [kind : Kinds, port : Nat, addr : 0..(Span - 1)]
Resource == [name : Names, config : Config]
Snapshot == [id : GroupIds, name : Names,
             resources : UNION {[D -> Resource] : D \in SUBSET EngineIds}]
File     == {Absent, Garbled} \cup {Whole(s) : s \in Snapshot}
Request  ==
  {Idle}
  \cup [step : {"snapshot", "unlink"}, group : GroupIds]
  \cup [step : {"collect"}, group : GroupIds, name : Names]
  \cup [step : {"truncate", "write"}, snapshot : Snapshot]
  \cup [step : {"empty"}, group : GroupIds, todo : SUBSET EngineIds]
  \cup [step : {"stop_next"}, group : GroupIds, todo : SUBSET EngineIds, engine : EngineIds]
  \cup [step : {"port"}, engine : EngineIds, group : GroupIds, kind : Kinds]
  \cup [step : {"octet"}, engine : EngineIds, group : GroupIds, kind : Kinds, port : Nat]
  \cup [step : {"start_new", "insert", "remove", "stop_removed"},
        engine : EngineIds, group : GroupIds]
  \cup [step : {"group_of"}, engine : EngineIds]
  \cup [step : {"start", "stop"}, todo : SUBSET EngineIds]

\* The types of every variable; the engines a request goes on with were all made.
RegistryTyped ==
  /\ groups \in [DOMAIN groups -> Names] /\ DOMAIN groups \subseteq GroupIds
  /\ engines \in [Registered -> [group : GroupIds, name : Names]]
  /\ made \in [DOMAIN made -> Config]
  /\ Registered \subseteq DOMAIN made /\ DOMAIN made \subseteq EngineIds
  /\ running \subseteq DOMAIN made
  /\ next_seq \in Nat \ {0} /\ next_group_seq \in Nat
  /\ next_port \in [Kinds -> Nat] /\ next_addr \in 0..(Span - 1) /\ spent \in BOOLEAN
HistoryTyped == calm \in BOOLEAN /\ contested \subseteq EngineIds
FilesTyped ==
  /\ files \in [GroupIds -> File]
  /\ \A g \in GroupIds : files[g].state = "whole" => files[g].snapshot.id = g
Going(r) ==
  /\ r.step \in {"stop_next", "start_new", "insert", "remove", "stop_removed", "group_of"} =>
       r.engine \in DOMAIN made
  /\ r.step \in {"empty", "stop_next", "start", "stop"} => r.todo \subseteq DOMAIN made
Typed ==
  /\ RegistryTyped /\ FilesTyped
  /\ request \in [Clients -> Request] /\ \A c \in Clients : Going(request[c])
  /\ HistoryTyped

\* A snapshot says of an engine what was made.
True(s) == \A e \in DOMAIN s.resources : e \in DOMAIN made /\ s.resources[e].config = made[e]

\* Who is about to write a snapshot, and who is creating an engine, built yet or not.
Writing(r)  == r.step \in {"truncate", "write"}
Making(r)   == r.step \in {"port", "octet"}
Creating(r) == Making(r) \/ r.step \in {"start_new", "insert"}

\* An id belongs to a group that has its engine, or has had it in a snapshot that is in
\* the group's file or about to go there.
Belongs(e, g) ==
  \/ e \in Registered /\ engines[e].group = g
  \/ files[g].state = "whole" /\ e \in DOMAIN files[g].snapshot.resources
  \/ \E c \in Clients : /\ Writing(request[c]) /\ request[c].snapshot.id = g
                        /\ e \in DOMAIN request[c].snapshot.resources

\* Every id was drawn, and belongs to one group, or to the one request that creates it.
SnapshotsTrue ==
  /\ \A g \in GroupIds : files[g].state = "whole" => True(files[g].snapshot)
  /\ \A c \in Clients : Writing(request[c]) => True(request[c].snapshot)
IdsOwned ==
  /\ \A e \in DOMAIN made : e < next_seq
  /\ \A e \in EngineIds, g, h \in GroupIds : Belongs(e, g) /\ Belongs(e, h) => g = h
  /\ \A c \in Clients : Making(request[c]) => request[c].engine \notin DOMAIN made
  /\ \A c \in Clients : Creating(request[c]) =>
       /\ request[c].engine < next_seq
       /\ \A g \in GroupIds : ~Belongs(request[c].engine, g)
       /\ \A d \in Clients \ {c} :
            Creating(request[d]) => request[d].engine # request[c].engine

\* Two instances of kind k with these ports are apart.
Apart(p, q, k) == p + Step[k] <= q \/ q + Step[k] <= p

\* The ports given are behind the counter and apart, also those of requests that have yet
\* to build; so are the addresses, until the last one is given.
Asked(r) == r.step = "octet"
PortsOwned ==
  /\ \A e \in DOMAIN made : made[e].port + Step[made[e].kind] <= next_port[made[e].kind]
  /\ \A e, f \in DOMAIN made : e # f /\ made[e].kind = made[f].kind =>
       Apart(made[e].port, made[f].port, made[e].kind)
  /\ \A c \in Clients : Asked(request[c]) =>
       /\ request[c].port + Step[request[c].kind] <= next_port[request[c].kind]
       /\ \A e \in DOMAIN made : made[e].kind = request[c].kind =>
            Apart(made[e].port, request[c].port, request[c].kind)
       /\ \A d \in Clients \ {c} : Asked(request[d]) /\ request[d].kind = request[c].kind =>
            Apart(request[d].port, request[c].port, request[c].kind)
OctetsOwned ==
  ~spent =>
    /\ 2 <= next_addr
    /\ \A e \in DOMAIN made : made[e].kind = ServiceBus => made[e].addr < next_addr
    /\ \A e, f \in DOMAIN made :
         e # f /\ made[e].kind = ServiceBus /\ made[f].kind = ServiceBus =>
           made[e].addr # made[f].addr
AddressesOwned == PortsOwned /\ OctetsOwned

\* What requests may do to engine e that is not contested: one that runs is registered or
\* held; one to be started is registered and not to be removed; one that is created comes
\* to a group that stays; and one in a group to be deleted is to be removed.
Holding(r) == r.step \in {"insert", "stop_removed", "stop_next"}
Held(e)    == \E c \in Clients : Holding(request[c]) /\ e = request[c].engine
Reach(e) ==
  /\ e \in running => e \in Registered \/ Held(e)
  /\ \A c \in Clients : e \in Starts(request[c]) =>
       e \in Registered /\ \A d \in Clients : e \notin Removes(request[d])
  /\ \A c \in Clients : e \in Creates(request[c]) =>
       /\ request[c].group \in DOMAIN groups
       /\ \A d \in Clients : request[c].group \notin Deletes(request[d])
  /\ e \in Registered =>
       /\ engines[e].group \in DOMAIN groups
       /\ \A d \in Clients : engines[e].group \in Deletes(request[d]) => e \in request[d].todo
ReachOwned == \A e \in EngineIds \ contested : Reach(e)

\* The group whose file request r has yet to bring up to date.
Behind(r, g) ==
  \/ r.step \in {"snapshot", "collect", "unlink", "empty", "stop_next", "stop_removed"}
       /\ g = r.group
  \/ Writing(r) /\ g = r.snapshot.id
  \/ r.step = "group_of" /\ g = engines[r.engine].group
Current(g) == [id |-> g, name |-> groups[g], resources |-> Resources(g)]
InSync(g)  == IF g \in DOMAIN groups THEN files[g] = Whole(Current(g))
              ELSE files[g].state # "whole"

\* What a request that is alone finds to be still so.
Found(r) ==
  /\ r.step \in {"snapshot", "collect", "port", "octet", "start_new", "insert", "remove",
                 "stop_removed"} => r.group \in DOMAIN groups
  /\ r.step = "collect" => r.name = groups[r.group]
  /\ Writing(r) =>
       r.snapshot.id \in DOMAIN groups /\ r.snapshot = Current(r.snapshot.id)
  /\ r.step = "write" => files[r.snapshot.id] = Garbled
  /\ r.step = "unlink" => r.group \notin DOMAIN groups
  /\ r.step \in {"empty", "stop_next"} => r.todo = InGroup(r.group)
  /\ r.step = "remove" => r.engine \in Registered /\ engines[r.engine].group = r.group
  /\ r.step = "group_of" => r.engine \in Registered
Pending == {request[c] : c \in Clients}
Alone ==
  calm =>
    /\ \A c, d \in Clients : c # d => request[c] = Idle \/ request[d] = Idle
    /\ \A r \in Pending : Found(r)
    /\ \A g \in GroupIds : (\A r \in Pending : ~Behind(r, g)) => InSync(g)
    /\ \A e \in Registered : engines[e].group \in DOMAIN groups

\* The inductive invariant.
Inv == Typed /\ SnapshotsTrue /\ IdsOwned /\ AddressesOwned /\ ReachOwned /\ Alone

-----------------------------------------------------------------------------
\* The greatest of a bounded set of numbers is one of them.
LEMMA GreatestType ==
  ASSUME NEW S \in SUBSET Nat, S # {}, NEW b \in Nat, \A s \in S : s <= b
  PROVE  Greatest(S) \in S /\ \A s \in S : s <= Greatest(S)
  <1> DEFINE T == {s + 1 : s \in S}
             c == Cardinality(T)
  <1>1. T \in SUBSET (1..(b + 1)) /\ b + 1 \in Nat /\ T # {}
    <2>1. \A s \in S : s + 1 \in 1..(b + 1)
      OBVIOUS
    <2>2. T \subseteq 1..(b + 1)
      BY <2>1
    <2>3. T # {}
      <3>1. PICK s \in S : TRUE
        OBVIOUS
      <3>2. s + 1 \in T
        OBVIOUS
      <3> QED BY <3>2
    <2>4. b + 1 \in Nat
      OBVIOUS
    <2> HIDE DEF T
    <2> QED BY <2>2, <2>3, <2>4
  <1> HIDE DEF T
  <1>2. IsFiniteSet(T) /\ c \in Nat
    BY <1>1, RankType
  <1>3. c # 0
    BY <1>1, <1>2, FS_EmptySet
  <1>4. PICK i \in T : Rank(T, i) = c
    <2>1. \A k \in 1..c : Nth(T, k) \in T /\ Rank(T, Nth(T, k)) = k
      BY <1>1, RankNth
    <2>2. c \in 1..c
      BY <1>2, <1>3
    <2> QED BY <2>1, <2>2
  <1>5. {j \in T : j <= i} = T
    BY <1>2, <1>4, FS_Subset DEF Rank
  <1>6. PICK m \in S : i = m + 1
    BY DEF T
  <1>7. \A s \in S : s + 1 <= m + 1
    BY <1>5, <1>6 DEF T
  <1>8. \A s \in S : s <= m
    BY <1>7
  <1> QED BY <1>8 DEF Greatest

\* A step of client c's request, with r to do then.
LEMMA RequestStep ==
  ASSUME Typed, NEW c \in Clients, NEW r \in Request, request' = [request EXCEPT ![c] = r]
  PROVE  /\ request' \in [Clients -> Request] /\ request'[c] = r
         /\ \A d \in Clients \ {c} : request'[d] = request[d]
  BY DEF Typed

\* What requests are, by their step.
LEMMA RequestType ==
  ASSUME NEW r \in Request
  PROVE  /\ r.step \in {"snapshot", "collect", "unlink", "empty", "stop_next", "port", "octet",
                        "start_new", "insert", "remove", "stop_removed"} => r.group \in GroupIds
         /\ r.step = "collect" => r.name \in Names
         /\ r.step \in {"truncate", "write"} =>
              r.snapshot \in Snapshot /\ r = [step |-> r.step, snapshot |-> r.snapshot]
         /\ r.step \in {"empty", "stop_next", "start", "stop"} => r.todo \in SUBSET EngineIds
         /\ r.step \in {"stop_next", "port", "octet", "start_new", "insert", "remove",
                        "stop_removed", "group_of"} => r.engine \in EngineIds
         /\ r.step \in {"port", "octet"} => r.kind \in Kinds
         /\ r.step = "octet" => r.port \in Nat
         /\ r.step \in Steps
  BY DEF Request, Idle, Steps

\* What a snapshot and a file are.
LEMMA SnapshotType ==
  ASSUME NEW s \in Snapshot
  PROVE  /\ s.id \in GroupIds /\ s.name \in Names /\ DOMAIN s.resources \subseteq EngineIds
         /\ s.resources \in [DOMAIN s.resources -> Resource]
         /\ s = [id |-> s.id, name |-> s.name, resources |-> s.resources]
         /\ Whole(s) \in File /\ Whole(s).state = "whole" /\ Whole(s).snapshot = s
  <1>1. PICK D \in SUBSET EngineIds : s.resources \in [D -> Resource]
    BY DEF Snapshot
  <1> QED BY <1>1 DEF Snapshot, Whole, File

\* What a file is.
LEMMA FileType ==
  ASSUME NEW f \in File
  PROVE  /\ f.state = "whole" => f.snapshot \in Snapshot /\ f = Whole(f.snapshot)
         /\ f.state # "whole" => f = Absent \/ f = Garbled
         /\ Absent \in File /\ Garbled \in File
         /\ Absent.state = "absent" /\ Garbled.state = "garbled" /\ Absent # Garbled
  <1>1. Absent.state = "absent" /\ Garbled.state = "garbled"
    BY DEF Absent, Garbled
  <1>2. \A s : Whole(s).state = "whole" /\ Whole(s).snapshot = s
    BY DEF Whole
  <1> QED BY <1>1, <1>2 DEF File

\* What is found in a group.
LEMMA ResourcesType ==
  ASSUME Typed, NEW g \in GroupIds
  PROVE  /\ DOMAIN Resources(g) = InGroup(g) /\ InGroup(g) \subseteq Registered
         /\ Resources(g) \in [InGroup(g) -> Resource]
         /\ \A n \in Names : [id |-> g, name |-> n, resources |-> Resources(g)] \in Snapshot
  <1>1. InGroup(g) \subseteq Registered
    BY DEF InGroup
  <1>2. Resources(g) \in [InGroup(g) -> Resource]
    BY <1>1 DEF Typed, RegistryTyped, Resources, Resource
  <1>3. InGroup(g) \in SUBSET EngineIds
    BY <1>1 DEF Typed, RegistryTyped
  <1> HIDE DEF InGroup, Resources
  <1>4. Resources(g) \in UNION {[D -> Resource] : D \in SUBSET EngineIds}
    BY <1>2, <1>3
  <1> QED BY <1>1, <1>2, <1>4 DEF Snapshot

-----------------------------------------------------------------------------
\* What a step of client c leaves of the requests, where it makes no engine.
LEMMA RequestsTyped ==
  ASSUME Typed, NEW c \in Clients, NEW r \in Request, request' = [request EXCEPT ![c] = r],
         DOMAIN made \subseteq DOMAIN made', Going(r)'
  PROVE  request' \in [Clients -> Request] /\ \A d \in Clients : Going(request[d])'
  <1>1. /\ request' \in [Clients -> Request] /\ request'[c] = r
        /\ \A d \in Clients \ {c} : request'[d] = request[d]
    BY RequestStep
  <1> QED BY <1>1 DEF Typed, Going

\* Beginnings of a request, and its next steps.
LEMMA BeginStep ==
  ASSUME Typed, NEW c \in Clients, NEW r, Begin(c, r)
  PROVE  /\ request' = [request EXCEPT ![c] = r] /\ UNCHANGED files
         /\ request[c] = Idle /\ HistoryTyped'
         /\ calm' => calm /\ \A d \in Clients : request[d] = Idle
  <1>1. \A q, p : Fought(q, p) \subseteq EngineIds
    BY DEF Fought
  <1>2. contested' \subseteq EngineIds
    BY <1>1 DEF Begin, Typed, HistoryTyped
  <1> QED BY <1>2 DEF Begin, Typed, HistoryTyped

LEMMA GoStep ==
  ASSUME Typed, NEW c \in Clients, NEW s, NEW r, Go(c, s, r)
  PROVE  /\ request' = [request EXCEPT ![c] = r] /\ request[c].step = s
         /\ request[c] \in Request /\ Going(request[c])
         /\ UNCHANGED <<calm, contested>> /\ HistoryTyped'
  BY DEF Go, Typed, HistoryTyped

\* The steps that only change requests and files keep the types.
LEMMA WriterTyped ==
  ASSUME Typed, NEW c \in Clients,
         \/ Lookup(c) \/ Collect(c) \/ Truncate(c) \/ Write(c) \/ delete_group_file(c)
  PROVE  Typed'
  <1>1. request[c] \in Request /\ RegistryTyped /\ FilesTyped /\ HistoryTyped
    BY DEF Typed
  <1> DEFINE r == request[c]
  <1>a. ASSUME UNCHANGED registryVars PROVE RegistryTyped'
    BY <1>1, <1>a DEF registryVars, RegistryTyped, Registered
  <1>b. ASSUME UNCHANGED files PROVE FilesTyped'
    BY <1>1, <1>b DEF FilesTyped
  <1>2. CASE Lookup(c)
    <2>1. /\ UNCHANGED <<registryVars, files>> /\ r.step = "snapshot"
          /\ r.group \in GroupIds /\ HistoryTyped'
      BY <1>1, <1>2, GoStep, RequestType DEF Lookup, Go
    <2>2. PICK g \in GroupIds : g = r.group
      BY <2>1
    <2>3. PICK q \in Request :
            /\ request' = [request EXCEPT ![c] = q] /\ q.step \in {"collect", "idle"}
      <3>1. CASE g \in DOMAIN groups
        <4>1. groups[g] \in Names
          BY <1>1, <3>1 DEF RegistryTyped
        <4>2. [step |-> "collect", group |-> g, name |-> groups[g]] \in Request
          BY <4>1 DEF Request
        <4> QED BY <1>2, <2>2, <3>1, <4>2 DEF Lookup, Go
      <3>2. CASE g \notin DOMAIN groups
        <4>1. Idle \in Request /\ Idle.step = "idle"
          BY DEF Request, Idle
        <4>2. request' = [request EXCEPT ![c] = Idle]
          BY <1>2, <2>2, <3>2 DEF Lookup, Go
        <4> QED BY <4>1, <4>2
      <3> QED BY <3>1, <3>2
    <2>4. Going(q)' /\ made' = made
      BY <2>1, <2>3 DEF Going, registryVars
    <2> QED BY <1>1, <1>a, <1>b, <2>1, <2>3, <2>4, RequestsTyped DEF Typed
  <1>3. CASE Collect(c)
    <2>1. /\ UNCHANGED <<registryVars, files>> /\ r.step = "collect"
          /\ r.group \in GroupIds /\ r.name \in Names /\ HistoryTyped'
      BY <1>1, <1>3, GoStep, RequestType DEF Collect, Go
    <2>2. [id |-> r.group, name |-> r.name, resources |-> Resources(r.group)] \in Snapshot
      BY <2>1, ResourcesType
    <2>3. PICK q \in Request :
            /\ request' = [request EXCEPT ![c] = q] /\ q.step = "truncate"
      <3> DEFINE s == [id |-> r.group, name |-> r.name, resources |-> Resources(r.group)]
                 q == [step |-> "truncate", snapshot |-> s]
      <3>1. q \in Request
        BY <2>2 DEF Request
      <3>2. request' = [request EXCEPT ![c] = q] /\ q.step = "truncate"
        BY <1>3 DEF Collect, Go
      <3> QED BY <3>1, <3>2
    <2>4. Going(q)' /\ made' = made
      BY <2>1, <2>3 DEF Going, registryVars
    <2> QED BY <1>1, <1>a, <1>b, <2>1, <2>3, <2>4, RequestsTyped DEF Typed
  <1>4. CASE Truncate(c)
    <2>1. /\ UNCHANGED registryVars /\ r.step = "truncate"
          /\ r.snapshot \in Snapshot /\ r = [step |-> r.step, snapshot |-> r.snapshot]
          /\ HistoryTyped' /\ files' = [files EXCEPT ![r.snapshot.id] = Garbled]
      BY <1>1, <1>4, GoStep, RequestType DEF Truncate, Go
    <2>2. PICK q \in Request : request' = [request EXCEPT ![c] = q] /\ q.step = "write"
      <3>1. [r EXCEPT !.step = "write"] = [step |-> "write", snapshot |-> r.snapshot]
        BY <2>1
      <3>2. [step |-> "write", snapshot |-> r.snapshot] \in Request
        BY <2>1 DEF Request
      <3> QED BY <1>4, <3>1, <3>2 DEF Truncate, Go
    <2>3. Going(q)' /\ made' = made
      BY <2>1, <2>2 DEF Going, registryVars
    <2>4. FilesTyped'
      BY <1>1, <2>1, FileType, SnapshotType DEF FilesTyped
    <2> QED BY <1>1, <1>a, <2>1, <2>2, <2>3, <2>4, RequestsTyped DEF Typed
  <1>5. CASE Write(c)
    <2>1. /\ UNCHANGED registryVars /\ r.step = "write" /\ r.snapshot \in Snapshot
          /\ HistoryTyped' /\ request' = [request EXCEPT ![c] = Idle]
      BY <1>1, <1>5, GoStep, RequestType DEF Write, Go
    <2>2. PICK g \in GroupIds, s \in Snapshot : s = r.snapshot /\ g = s.id
      BY <2>1, SnapshotType
    <2>3. PICK new \in {Whole(s), Garbled} :
            files' = [files EXCEPT ![g] = IF @ = Absent THEN Absent ELSE new]
      BY <1>5, <2>2 DEF Write
    <2>4. FilesTyped'
      <3>1. new \in File /\ (new.state = "whole" => new.snapshot.id = g)
        BY <2>2, <2>3, FileType, SnapshotType
      <3> QED BY <1>1, <2>3, <3>1, FileType DEF FilesTyped
    <2>5. Idle \in Request /\ Going(Idle)' /\ made' = made
      BY <2>1 DEF Going, registryVars, Request, Idle
    <2> QED BY <1>1, <1>a, <2>1, <2>4, <2>5, RequestsTyped DEF Typed
  <1>6. CASE delete_group_file(c)
    <2>1. /\ UNCHANGED registryVars /\ r.step = "unlink" /\ r.group \in GroupIds
          /\ HistoryTyped' /\ request' = [request EXCEPT ![c] = Idle]
          /\ files' = [files EXCEPT ![r.group] = Absent]
      BY <1>1, <1>6, GoStep, RequestType DEF delete_group_file, Go
    <2>2. FilesTyped'
      BY <1>1, <2>1, FileType DEF FilesTyped
    <2>3. Idle \in Request /\ Going(Idle)' /\ made' = made
      BY <2>1 DEF Going, registryVars, Request, Idle
    <2> QED BY <1>1, <1>a, <2>1, <2>2, <2>3, RequestsTyped DEF Typed
  <1> QED BY <1>2, <1>3, <1>4, <1>5, <1>6

-----------------------------------------------------------------------------
\* What requests have to do next.
LEMMA NewRequest ==
  /\ Idle \in Request /\ Idle.step = "idle"
  /\ \A g \in GroupIds : /\ Persist(g) \in Request
                         /\ Persist(g).step = "snapshot" /\ Persist(g).group = g
  /\ \A g \in GroupIds, S \in SUBSET EngineIds :
       /\ [step |-> "empty", group |-> g, todo |-> S] \in Request
       /\ \A e \in EngineIds :
            [step |-> "stop_next", group |-> g, todo |-> S, engine |-> e] \in Request
  /\ \A g \in GroupIds : [step |-> "unlink", group |-> g] \in Request
  /\ \A g \in GroupIds, e \in EngineIds,
        s \in {"start_new", "insert", "remove", "stop_removed"} :
       [step |-> s, engine |-> e, group |-> g] \in Request
  /\ \A g \in GroupIds, e \in EngineIds, k \in Kinds :
       /\ [step |-> "port", engine |-> e, group |-> g, kind |-> k] \in Request
       /\ \A p \in Nat :
            [step |-> "octet", engine |-> e, group |-> g, kind |-> k, port |-> p] \in Request
  /\ \A e \in EngineIds : [step |-> "group_of", engine |-> e] \in Request
  /\ \A S \in SUBSET EngineIds, s \in {"start", "stop"} : [step |-> s, todo |-> S] \in Request
  BY DEF Request, Idle, Persist

\* What it takes to keep the types in a step of client c.
LEMMA StepTyped ==
  ASSUME Typed, NEW c \in Clients, NEW r \in Request, request' = [request EXCEPT ![c] = r],
         RegistryTyped', UNCHANGED files, HistoryTyped',
         DOMAIN made \subseteq DOMAIN made', Going(r)'
  PROVE  Typed'
  <1>1. FilesTyped'
    BY DEF Typed, FilesTyped
  <1> QED BY <1>1, RequestsTyped DEF Typed

\* The steps that begin, or go on, without a change of the registry.
LEMMA QuietTyped ==
  ASSUME Typed, NEW c \in Clients, NEW r \in Request, request' = [request EXCEPT ![c] = r],
         UNCHANGED <<registryVars, files>>, HistoryTyped', Going(r)
  PROVE  Typed'
  <1>1. RegistryTyped'
    BY DEF Typed, registryVars, RegistryTyped, Registered
  <1>2. Going(r)' /\ made' = made
    BY DEF Going, registryVars
  <1> QED BY <1>1, <1>2, StepTyped

\* The steps of requests for groups keep the types.
LEMMA GroupTyped ==
  ASSUME Typed, NEW c \in Clients, NEW g \in GroupIds, NEW e \in EngineIds,
         \/ create_resource_group(c) \/ rename_resource_group(c, g)
         \/ delete_resource_group(c, g) \/ remove_next(c, e) \/ stop_next(c)
         \/ delete_group(c)
  PROVE  Typed'
  <1>1. request[c] \in Request /\ RegistryTyped /\ Going(request[c])
    BY DEF Typed
  <1>2. CASE create_resource_group(c)
    <2>1. PICK h \in GroupIds : h = next_group_seq
      BY <1>2 DEF create_resource_group, create_group
    <2>2. /\ request' = [request EXCEPT ![c] = Persist(h)] /\ UNCHANGED files
          /\ HistoryTyped'
      BY <1>2, <2>1, BeginStep DEF create_resource_group
    <2>3. RegistryTyped' /\ made' = made
      <3>1. /\ groups' = With(groups, h, Given) /\ next_group_seq' = h + 1
            /\ UNCHANGED <<engines, made, running, next_seq, next_port, next_addr, spent>>
        BY <1>2, <2>1 DEF create_resource_group, create_group
      <3>2. groups' \in [DOMAIN groups' -> Names] /\ DOMAIN groups' \subseteq GroupIds
        BY <1>1, <3>1 DEF With, RegistryTyped, Names
      <3> QED BY <1>1, <2>2, <3>1, <3>2 DEF RegistryTyped, Registered, GroupIds
    <2>4. Going(Persist(h))'
      BY NewRequest DEF Going
    <2> QED BY <2>2, <2>3, <2>4, NewRequest, StepTyped
  <1>3. CASE rename_resource_group(c, g)
    <2>2. /\ request' = [request EXCEPT ![c] = Persist(g)] /\ UNCHANGED files
          /\ HistoryTyped'
      BY <1>3, BeginStep DEF rename_resource_group
    <2>3. RegistryTyped' /\ made' = made
      BY <1>1, <1>3, <2>2
      DEF rename_resource_group, rename_group, RegistryTyped, Registered, Names
    <2>4. Going(Persist(g))'
      BY NewRequest DEF Going
    <2> QED BY <2>2, <2>3, <2>4, NewRequest, StepTyped
  <1>4. CASE delete_resource_group(c, g)
    <2>1. PICK S \in SUBSET EngineIds : S = InGroup(g) /\ S \subseteq DOMAIN made
      BY <1>1 DEF RegistryTyped, InGroup
    <2> DEFINE q == [step |-> "empty", group |-> g, todo |-> S]
    <2>2. /\ request' = [request EXCEPT ![c] = q]
          /\ UNCHANGED <<registryVars, files>> /\ HistoryTyped'
      BY <1>4, <2>1, BeginStep DEF delete_resource_group
    <2>3. Going(q) /\ q \in Request
      BY <2>1, NewRequest DEF Going
    <2> QED BY <2>2, <2>3, QuietTyped
  <1>5. CASE remove_next(c, e)
    <2>1. /\ request[c].step = "empty" /\ e \in request[c].todo
          /\ request[c].todo \subseteq DOMAIN made
      BY <1>1, <1>5 DEF remove_next, Going
    <2>2. PICK h \in GroupIds, S \in SUBSET EngineIds :
            h = request[c].group /\ S = request[c].todo \ {e}
      BY <1>1, <2>1, RequestType
    <2> DEFINE p == [step |-> "empty", group |-> h, todo |-> S]
               t == [step |-> "stop_next", group |-> h, todo |-> S, engine |-> e]
    <2>3. PICK q \in {p, t} : /\ request' = [request EXCEPT ![c] = q] /\ UNCHANGED files
                              /\ HistoryTyped'
      BY <1>5, <2>2, GoStep DEF remove_next, Go
    <2>4. RegistryTyped' /\ made' = made
      <3>1. /\ engines' = Drop(engines, {e})
            /\ UNCHANGED <<groups, made, running, next_seq, next_group_seq, next_port,
                           next_addr, spent>>
        BY <1>5 DEF remove_next, unregister
      <3>2. /\ engines' \in [Registered' -> [group : GroupIds, name : Names]]
            /\ Registered' \subseteq Registered
        BY <1>1, <3>1 DEF Drop, Restrict, RegistryTyped, Registered
      <3> QED BY <1>1, <3>1, <3>2 DEF RegistryTyped
    <2>5. Going(q)' /\ q \in Request
      <3>1. p \in Request /\ t \in Request
        BY NewRequest
      <3>2. e \in DOMAIN made' /\ S \subseteq DOMAIN made'
        BY <2>1, <2>2, <2>4
      <3>3. Going(p)' /\ Going(t)'
        BY <3>2 DEF Going
      <3> QED BY <2>3, <3>1, <3>3
    <2> QED BY <2>3, <2>4, <2>5, StepTyped
  <1>6. CASE stop_next(c)
    <2>1. request[c].step = "stop_next" /\ request[c].todo \subseteq DOMAIN made
      BY <1>1, <1>6 DEF stop_next, Go, Going
    <2>2. PICK h \in GroupIds, S \in SUBSET EngineIds :
            h = request[c].group /\ S = request[c].todo
      BY <1>1, <2>1, RequestType
    <2> DEFINE q == [step |-> "empty", group |-> h, todo |-> S]
    <2>3. /\ request' = [request EXCEPT ![c] = q] /\ UNCHANGED files
          /\ HistoryTyped'
      BY <1>6, <2>2, GoStep DEF stop_next
    <2>4. RegistryTyped' /\ made' = made
      BY <1>1, <1>6, <2>3 DEF stop_next, stop, RegistryTyped, Registered
    <2>5. Going(q)' /\ q \in Request
      BY <2>1, <2>2, <2>4, NewRequest DEF Going
    <2> QED BY <2>3, <2>4, <2>5, StepTyped
  <1>7. CASE delete_group(c)
    <2>1. request[c].step = "empty"
      BY <1>7 DEF delete_group
    <2>2. PICK h \in GroupIds : h = request[c].group
      BY <1>1, <2>1, RequestType
    <2> DEFINE q == [step |-> "unlink", group |-> h]
    <2>3. /\ request' = [request EXCEPT ![c] = q] /\ UNCHANGED files
          /\ HistoryTyped'
      BY <1>7, <2>2, GoStep DEF delete_group
    <2>4. RegistryTyped' /\ made' = made
      <3>1. /\ groups' = Drop(groups, {h})
            /\ UNCHANGED <<engines, made, running, next_seq, next_group_seq, next_port, next_addr, spent>>
        BY <1>7, <2>2 DEF delete_group, retain_groups
      <3>2. groups' \in [DOMAIN groups' -> Names] /\ DOMAIN groups' \subseteq GroupIds
        BY <1>1, <3>1 DEF Drop, Restrict, RegistryTyped
      <3> QED BY <1>1, <2>3, <3>1, <3>2 DEF RegistryTyped, Registered
    <2>5. Going(q)' /\ q \in Request
      BY NewRequest DEF Going
    <2> QED BY <2>3, <2>4, <2>5, StepTyped
  <1> QED BY <1>2, <1>3, <1>4, <1>5, <1>6, <1>7

\* What is left of a request that starts or stops engines.
LEMMA RestType ==
  ASSUME Typed, NEW c \in Clients, NEW e, NEW s \in {"start", "stop"}, Go(c, s, Rest(c, e))
  PROVE  \E q \in Request :
           /\ request' = [request EXCEPT ![c] = q] /\ Going(q)
           /\ q = Idle \/ \E S \in SUBSET EngineIds : q = [step |-> s, todo |-> S]
  <1>1. request[c] \in Request /\ Going(request[c]) /\ request[c].step = s
    BY DEF Typed, Go
  <1>2. PICK S \in SUBSET EngineIds : /\ request[c] = [step |-> s, todo |-> S]
                                      /\ S \subseteq DOMAIN made
    BY <1>1 DEF Request, Going, Idle
  <1> DEFINE D == S \ {e}
             q == [step |-> s, todo |-> D]
  <1>3. [request[c] EXCEPT !.todo = @ \ {e}] = q
    BY <1>2
  <1>4. q \in Request /\ Going(q) /\ Idle \in Request /\ Going(Idle)
    BY <1>2, NewRequest DEF Going
  <1> QED BY <1>3, <1>4 DEF Go, Rest

\* The next octet.
LEMMA OctetType ==
  ASSUME NEW a \in 0..(Span - 1)
  PROVE  /\ (a + 1) % Span \in 0..(Span - 1)
         /\ a # Span - 1 => (a + 1) % Span = a + 1
         /\ (IF a = 0 THEN 1 ELSE a) \in 0..(Span - 1) /\ 0 \in 0..(Span - 1)
  BY RegistryAssumption

\* A request to create an engine goes on with what it has.
LEMMA MakingType ==
  ASSUME NEW r \in Request, Making(r)
  PROVE  /\ r.engine \in EngineIds /\ r.group \in GroupIds /\ r.kind \in Kinds
         /\ r.step = "octet" => r.port \in Nat
  BY RequestType DEF Making

\* create_engine draws a number, and take_port a port.
LEMMA CreateTyped ==
  ASSUME Typed, NEW c \in Clients, NEW k \in Kinds, NEW g \in GroupIds,
         create_engine(c, k, g) \/ take_port(c)
  PROVE  Typed'
  <1>1. request[c] \in Request /\ RegistryTyped
    BY DEF Typed
  <1>2. CASE create_engine(c, k, g)
    <2>1. PICK e \in EngineIds : e = next_seq
      BY <1>2 DEF create_engine, create
    <2> DEFINE q == [step |-> "port", engine |-> e, group |-> g, kind |-> k]
    <2>2. /\ request' = [request EXCEPT ![c] = q] /\ UNCHANGED files /\ HistoryTyped'
      BY <1>2, <2>1, BeginStep DEF create_engine
    <2>3. /\ next_seq' = e + 1 /\ e + 1 \in Nat \ {0}
          /\ UNCHANGED <<groups, engines, made, running, next_group_seq, next_port, next_addr,
                         spent>>
      BY <1>2, <2>1 DEF create_engine, create, EngineIds
    <2>4. RegistryTyped'
      BY <1>1, <2>3 DEF RegistryTyped, Registered
    <2>5. Going(q)' /\ q \in Request
      BY NewRequest DEF Going
    <2> QED BY <2>2, <2>3, <2>4, <2>5, StepTyped
  <1>3. CASE take_port(c)
    <2>1. request[c].step = "port"
      BY <1>3 DEF take_port, Go
    <2>2. PICK e \in EngineIds, h \in GroupIds, i \in Kinds :
            e = request[c].engine /\ h = request[c].group /\ i = request[c].kind
      BY <1>1, <2>1, RequestType
    <2>3. PICK n \in Nat : n = next_port[i] /\ n + Step[i] \in Nat
      BY <1>1, RegistryAssumption DEF RegistryTyped
    <2> DEFINE q == [step |-> "octet", engine |-> e, group |-> h, kind |-> i, port |-> n]
    <2>4. /\ request' = [request EXCEPT ![c] = q] /\ UNCHANGED files /\ HistoryTyped'
      BY <1>3, <2>2, <2>3, GoStep DEF take_port
    <2>5. /\ next_port' = [next_port EXCEPT ![i] = n + Step[i]]
          /\ UNCHANGED <<groups, engines, made, running, next_seq, next_group_seq, next_addr,
                         spent>>
      BY <1>3, <2>2, <2>3 DEF take_port, resolve_port
    <2>6. next_port' \in [Kinds -> Nat]
      BY <1>1, <2>3, <2>5 DEF RegistryTyped
    <2>7. RegistryTyped'
      BY <1>1, <2>5, <2>6 DEF RegistryTyped, Registered
    <2>8. Going(q)' /\ q \in Request
      BY NewRequest DEF Going
    <2> QED BY <2>4, <2>5, <2>7, <2>8, StepTyped
  <1> QED BY <1>2, <1>3

\* What take_octet builds, and what it leaves.
LEMMA OctetStep ==
  ASSUME Typed, NEW c \in Clients, take_octet(c)
  PROVE  \E e \in EngineIds, h \in GroupIds, b \in Config :
           /\ request[c].step = "octet" /\ e = request[c].engine /\ h = request[c].group
           /\ b.kind = request[c].kind /\ b.port = request[c].port
           /\ b.kind = ServiceBus => b.addr = IF next_addr = 0 THEN 1 ELSE next_addr
           /\ request' = [request EXCEPT ![c] =
                            [step |-> "start_new", engine |-> e, group |-> h]]
           /\ made' = With(made, e, b) /\ next_addr' \in 0..(Span - 1)
           /\ next_addr' = IF b.kind = ServiceBus THEN (next_addr + 1) % Span ELSE next_addr
           /\ spent' = (spent \/ (b.kind = ServiceBus /\ next_addr = Span - 1))
           /\ UNCHANGED <<groups, engines, running, next_seq, next_group_seq, next_port, files>>
  <1>1. request[c] \in Request /\ RegistryTyped /\ request[c].step = "octet"
    BY DEF Typed, take_octet, Go
  <1>2. PICK e \in EngineIds, h \in GroupIds, k \in Kinds, n \in Nat :
          /\ e = request[c].engine /\ h = request[c].group
          /\ k = request[c].kind /\ n = request[c].port
    BY <1>1, RequestType
  <1>3. PICK a \in 0..(Span - 1) : a = next_addr
    BY <1>1 DEF RegistryTyped
  <1>4. PICK x : x = IF k # ServiceBus THEN 0 ELSE IF a = 0 THEN 1 ELSE a
    OBVIOUS
  <1>5. x \in 0..(Span - 1) /\ (a + 1) % Span \in 0..(Span - 1)
    BY <1>4, OctetType
  <1> DEFINE b == [kind |-> k, port |-> n, addr |-> x]
  <1>6. b \in Config /\ b.kind = k /\ b.port = n /\ b.addr = x
    BY <1>5 DEF Config
  <1>7. build(e, k, n) /\ UNCHANGED files
    BY <1>2 DEF take_octet
  <1>8. /\ made' = With(made, e, b)
        /\ next_addr' = IF k = ServiceBus THEN (a + 1) % Span ELSE a
        /\ spent' = (spent \/ (k = ServiceBus /\ a = Span - 1))
        /\ UNCHANGED <<groups, engines, running, next_seq, next_group_seq, next_port>>
    BY <1>3, <1>4, <1>7 DEF build
  <1>9. request' = [request EXCEPT ![c] = [step |-> "start_new", engine |-> e, group |-> h]]
    BY <1>2 DEF take_octet, Go
  <1>10. next_addr' \in 0..(Span - 1)
    BY <1>3, <1>5, <1>8
  <1> HIDE DEF b
  <1>11. b.kind = ServiceBus => b.addr = IF next_addr = 0 THEN 1 ELSE next_addr
    BY <1>3, <1>4, <1>6
  <1>12. /\ next_addr' = IF b.kind = ServiceBus THEN (next_addr + 1) % Span ELSE next_addr
         /\ spent' = (spent \/ (b.kind = ServiceBus /\ next_addr = Span - 1))
    BY <1>3, <1>6, <1>8
  <1>13. b.kind = request[c].kind /\ b.port = request[c].port
    BY <1>2, <1>6
  <1> QED BY <1>1, <1>2, <1>6, <1>7, <1>8, <1>9, <1>10, <1>11, <1>12, <1>13

\* It keeps the types.
LEMMA OctetTyped ==
  ASSUME Typed, NEW c \in Clients, take_octet(c)
  PROVE  Typed'
  <1>1. request[c] \in Request /\ RegistryTyped /\ HistoryTyped'
    BY GoStep DEF Typed, take_octet
  <1>2. PICK e \in EngineIds, h \in GroupIds, b \in Config :
          /\ request' = [request EXCEPT ![c] = [step |-> "start_new", engine |-> e, group |-> h]]
          /\ made' = With(made, e, b) /\ next_addr' \in 0..(Span - 1)
          /\ spent' = (spent \/ (b.kind = ServiceBus /\ next_addr = Span - 1))
          /\ UNCHANGED <<groups, engines, running, next_seq, next_group_seq, next_port, files>>
    BY OctetStep
  <1> DEFINE q == [step |-> "start_new", engine |-> e, group |-> h]
  <1>3. /\ made' \in [DOMAIN made' -> Config] /\ DOMAIN made' = DOMAIN made \cup {e}
        /\ DOMAIN made' \subseteq EngineIds
    BY <1>1, <1>2 DEF With, RegistryTyped
  <1>4. RegistryTyped'
    BY <1>1, <1>2, <1>3 DEF RegistryTyped, Registered
  <1>5. Going(q)' /\ q \in Request
    BY <1>3, NewRequest DEF Going
  <1> QED BY <1>1, <1>2, <1>3, <1>4, <1>5, StepTyped

\* The steps of a request that creates an engine, or deletes one, keep the types.
LEMMA EngineTyped ==
  ASSUME Typed, NEW c \in Clients, NEW e \in EngineIds,
         \/ start_new(c) \/ insert_new(c) \/ remove(c) \/ stop_removed(c)
         \/ e \in Registered /\ delete_engine(c, e)
  PROVE  Typed'
  <1>1. request[c] \in Request /\ RegistryTyped /\ Going(request[c])
    BY DEF Typed
  <1>2. CASE start_new(c)
    <2>1. /\ request[c].step = "start_new" /\ UNCHANGED files /\ HistoryTyped'
      BY <1>2, GoStep DEF start_new, Go
    <2>2. PICK g \in GroupIds, f \in DOMAIN made :
            /\ f \in EngineIds /\ f = request[c].engine
            /\ request[c] = [step |-> "start_new", engine |-> f, group |-> g]
      BY <1>1, <2>1, RequestType DEF Request, Going, Idle
    <2> DEFINE q == [step |-> "insert", engine |-> f, group |-> g]
    <2>3. [request[c] EXCEPT !.step = "insert"] = q
      BY <2>2
    <2>4. CASE start(f) /\ request' = [request EXCEPT ![c] = q]
      <3>1. RegistryTyped' /\ made' = made
        BY <1>1, <2>1, <2>2, <2>4 DEF start, RegistryTyped, Registered
      <3>2. Going(q)' /\ q \in Request
        BY <2>2, <3>1, NewRequest DEF Going
      <3> QED BY <2>1, <2>4, <3>1, <3>2, StepTyped
    <2>5. CASE UNCHANGED registryVars /\ request' = [request EXCEPT ![c] = Idle]
      <3>1. Going(Idle) /\ Idle \in Request
        BY NewRequest DEF Going
      <3> QED BY <2>1, <2>5, <3>1, QuietTyped
    <2> QED BY <1>2, <2>2, <2>3, <2>4, <2>5 DEF start_new, Go
  <1>3. CASE insert_new(c)
    <2>1. request[c].step = "insert"
      BY <1>3 DEF insert_new, Go
    <2>2. PICK g \in GroupIds, f \in DOMAIN made :
            f \in EngineIds /\ f = request[c].engine /\ g = request[c].group
      BY <1>1, <2>1, RequestType DEF Going
    <2>3. /\ request' = [request EXCEPT ![c] = Persist(g)] /\ UNCHANGED files
          /\ HistoryTyped'
      BY <1>3, <2>2, GoStep DEF insert_new
    <2>4. RegistryTyped' /\ made' = made
      <3>1. /\ engines' = With(engines, f, [group |-> g, name |-> Given])
            /\ UNCHANGED <<groups, made, running, next_seq, next_group_seq, next_port, next_addr, spent>>
        BY <1>3, <2>2 DEF insert_new, insert
      <3>2. /\ engines' \in [Registered' -> [group : GroupIds, name : Names]]
            /\ Registered' = Registered \cup {f}
        BY <1>1, <3>1 DEF With, RegistryTyped, Registered, Names
      <3> QED BY <1>1, <2>2, <2>3, <3>1, <3>2 DEF RegistryTyped
    <2>5. Going(Persist(g))'
      BY NewRequest DEF Going
    <2> QED BY <2>3, <2>4, <2>5, NewRequest, StepTyped
  <1>4. CASE remove(c)
    <2>1. request[c].step = "remove"
      BY <1>4 DEF remove, Go
    <2>2. PICK g \in GroupIds, f \in DOMAIN made :
            /\ f \in EngineIds /\ f = request[c].engine /\ g = request[c].group
            /\ request[c] = [step |-> "remove", engine |-> f, group |-> g]
      BY <1>1, <2>1, RequestType DEF Request, Going, Idle
    <2> DEFINE p == [step |-> "stop_removed", engine |-> f, group |-> g]
    <2>a. p \in Request /\ Persist(g) \in Request
      <3>1. p \in Request
        BY <2>2, NewRequest
      <3>2. Persist(g) \in Request
        BY NewRequest
      <3> QED BY <3>1, <3>2
    <2>3. PICK q \in {p, Persist(g)} : request' = [request EXCEPT ![c] = q]
      <3>1. [request[c] EXCEPT !.step = "stop_removed"] = p
        BY <2>2
      <3> QED BY <1>4, <2>2, <3>1 DEF remove, Go
    <2>4. UNCHANGED files /\ HistoryTyped'
      BY <1>4, GoStep DEF remove
    <2>5. RegistryTyped' /\ made' = made
      <3>1. /\ engines' = Drop(engines, {f})
            /\ UNCHANGED <<groups, made, running, next_seq, next_group_seq, next_port, next_addr, spent>>
        BY <1>4, <2>2 DEF remove, unregister
      <3>2. /\ engines' \in [Registered' -> [group : GroupIds, name : Names]]
            /\ Registered' \subseteq Registered
        BY <1>1, <3>1 DEF Drop, Restrict, RegistryTyped, Registered
      <3> QED BY <1>1, <2>4, <3>1, <3>2 DEF RegistryTyped
    <2>6. Going(q)' /\ q \in Request
      <3>1. Going(p)' /\ Going(Persist(g))'
        BY <2>2, <2>5, NewRequest DEF Going
      <3> QED BY <2>a, <2>3, <3>1
    <2> QED BY <2>3, <2>4, <2>5, <2>6, StepTyped
  <1>5. CASE stop_removed(c)
    <2>1. request[c].step = "stop_removed"
      BY <1>5 DEF stop_removed, Go
    <2>2. PICK g \in GroupIds : g = request[c].group
      BY <1>1, <2>1, RequestType
    <2>3. /\ request' = [request EXCEPT ![c] = Persist(g)] /\ UNCHANGED files
          /\ HistoryTyped'
      BY <1>5, <2>2, GoStep DEF stop_removed
    <2>4. RegistryTyped' /\ made' = made
      BY <1>1, <1>5, <2>3 DEF stop_removed, stop, RegistryTyped, Registered
    <2>5. Going(Persist(g))'
      BY NewRequest DEF Going
    <2> QED BY <2>3, <2>4, <2>5, NewRequest, StepTyped
  <1>6. CASE e \in Registered /\ delete_engine(c, e)
    <2>1. PICK g \in GroupIds : g = engines[e].group /\ e \in DOMAIN made
      BY <1>1, <1>6 DEF RegistryTyped
    <2> DEFINE q == [step |-> "remove", engine |-> e, group |-> g]
    <2>2. /\ request' = [request EXCEPT ![c] = q]
          /\ UNCHANGED <<registryVars, files>> /\ HistoryTyped'
      BY <1>6, <2>1, BeginStep DEF delete_engine
    <2>3. Going(q) /\ q \in Request
      BY <2>1, NewRequest DEF Going
    <2> QED BY <2>2, <2>3, QuietTyped
  <1> QED BY <1>2, <1>3, <1>4, <1>5, <1>6

\* So do those of a request that renames an engine, or starts or stops some.
LEMMA NamedTyped ==
  ASSUME Typed, NEW c \in Clients, NEW e \in EngineIds, NEW S \in SUBSET Registered,
         \/ rename_engine(c, e) \/ group_of(c) \/ start_one(c, e) \/ stop_one(c, e)
         \/ start_engines(c, S) \/ stop_engines(c, S)
  PROVE  Typed'
  <1>1. request[c] \in Request /\ RegistryTyped /\ Going(request[c])
    BY DEF Typed
  <1>2. CASE rename_engine(c, e)
    <2> DEFINE q == [step |-> "group_of", engine |-> e]
    <2>1. /\ request' = [request EXCEPT ![c] = q] /\ UNCHANGED files
          /\ HistoryTyped' /\ e \in Registered /\ e \in DOMAIN made
      BY <1>1, <1>2, BeginStep DEF rename_engine, Renamed, rename, RegistryTyped
    <2>2. RegistryTyped' /\ made' = made
      BY <1>1, <1>2, <2>1
      DEF rename_engine, rename, RegistryTyped, Registered, Names
    <2>3. Going(q)' /\ q \in Request
      BY <2>1, <2>2, NewRequest DEF Going
    <2> QED BY <2>1, <2>2, <2>3, StepTyped
  <1>3. CASE group_of(c)
    <2>1. request[c].step = "group_of"
      BY <1>3 DEF group_of, Go
    <2>2. PICK f \in EngineIds : f = request[c].engine
      BY <1>1, <2>1, RequestType
    <2>3. PICK q \in Request : request' = [request EXCEPT ![c] = q] /\ Going(q)
      <3>1. CASE f \in Registered
        <4>1. PICK g \in GroupIds : g = engines[f].group
          BY <1>1, <3>1 DEF RegistryTyped
        <4>2. Going(Persist(g)) /\ Persist(g) \in Request
          BY NewRequest DEF Going
        <4> QED BY <1>3, <2>2, <3>1, <4>1, <4>2 DEF group_of, Go
      <3>2. CASE f \notin Registered
        <4>1. Going(Idle) /\ Idle \in Request
          BY NewRequest DEF Going
        <4> QED BY <1>3, <2>2, <3>2, <4>1 DEF group_of, Go
      <3> QED BY <3>1, <3>2
    <2>4. UNCHANGED <<registryVars, files>> /\ HistoryTyped'
      BY <1>3, GoStep DEF group_of
    <2> QED BY <2>3, <2>4, QuietTyped
  <1>4. CASE start_one(c, e)
    <2>1. /\ request[c].step = "start" /\ e \in request[c].todo /\ e \in DOMAIN made
          /\ request[c].todo \subseteq DOMAIN made /\ UNCHANGED files /\ HistoryTyped'
      BY <1>1, <1>4, GoStep DEF start_one, Going
    <2>2. CASE start(e) /\ Go(c, "start", Rest(c, e))
      <3>1. PICK q \in Request : request' = [request EXCEPT ![c] = q] /\ Going(q)
        BY <1>1, <2>1, <2>2, RestType
      <3>2. RegistryTyped' /\ made' = made
        BY <1>1, <2>1, <2>2 DEF start, RegistryTyped, Registered
      <3>3. Going(q)'
        BY <3>1, <3>2 DEF Going
      <3> QED BY <2>1, <3>1, <3>2, <3>3, StepTyped
    <2>3. CASE Go(c, "start", Idle) /\ UNCHANGED registryVars
      <3>1. Going(Idle) /\ Idle \in Request /\ request' = [request EXCEPT ![c] = Idle]
        BY <2>3, NewRequest DEF Going, Go
      <3> QED BY <2>1, <2>3, <3>1, QuietTyped
    <2> QED BY <1>4, <2>2, <2>3 DEF start_one
  <1>5. CASE stop_one(c, e)
    <2>1. /\ request[c].step = "stop" /\ e \in request[c].todo
          /\ UNCHANGED files /\ HistoryTyped' /\ Go(c, "stop", Rest(c, e))
      BY <1>5, GoStep DEF stop_one
    <2>2. PICK q \in Request : request' = [request EXCEPT ![c] = q] /\ Going(q)
      BY <1>1, <2>1, RestType
    <2>3. RegistryTyped' /\ made' = made
      BY <1>1, <1>5, <2>1 DEF stop_one, stop, RegistryTyped, Registered
    <2>4. Going(q)'
      BY <2>2, <2>3 DEF Going
    <2> QED BY <2>1, <2>2, <2>3, <2>4, StepTyped
  <1>6. CASE start_engines(c, S) \/ stop_engines(c, S)
    <2>1. PICK D \in SUBSET EngineIds : D = S /\ D \subseteq DOMAIN made
      BY <1>1 DEF RegistryTyped
    <2>2. PICK s \in {"start", "stop"} :
            /\ request' = [request EXCEPT ![c] = [step |-> s, todo |-> D]]
            /\ UNCHANGED <<registryVars, files>> /\ HistoryTyped'
      BY <1>6, <2>1, BeginStep DEF start_engines, stop_engines
    <2> DEFINE q == [step |-> s, todo |-> D]
    <2>3. Going(q) /\ q \in Request
      BY <2>1, NewRequest DEF Going
    <2> QED BY <2>2, <2>3, QuietTyped
  <1> QED BY <1>2, <1>3, <1>4, <1>5, <1>6

-----------------------------------------------------------------------------
\* The groups that come back with the next start of the process.
Kept == {g \in GroupIds : files[g].state = "whole"}

\* Each engine has one of their files, and comes back as it was made.
LEMMA RestoredMaps ==
  ASSUME Typed, SnapshotsTrue, IdsOwned, Restart
  PROVE  /\ DOMAIN groups' = Kept /\ \A g \in Kept : groups'[g] = files[g].snapshot.name
         /\ groups' \in [DOMAIN groups' -> Names]
         /\ \A g \in Kept : \A e \in DOMAIN files[g].snapshot.resources :
              /\ e \in Registered' /\ e \in DOMAIN made /\ made'[e] = made[e]
              /\ engines'[e] = [group |-> g, name |-> files[g].snapshot.resources[e].name]
         /\ \A e \in Registered' :
              \E g \in Kept : e \in DOMAIN files[g].snapshot.resources
         /\ engines' \in [Registered' -> [group : GroupIds, name : Names]]
         /\ made' \in [DOMAIN made' -> Config] /\ DOMAIN made' = Registered'
         /\ Registered' \subseteq DOMAIN made
  <1>1. FilesTyped /\ RegistryTyped
    BY DEF Typed
  <1>2. \A g \in Kept : /\ files[g].snapshot \in Snapshot /\ files[g].snapshot.id = g
                        /\ g \in GroupIds /\ True(files[g].snapshot)
    BY <1>1, FileType DEF FilesTyped, Kept, SnapshotsTrue
  <1>3. PICK K \in SUBSET Snapshot : K = {files[g].snapshot : g \in Kept}
    BY <1>2
  <1>4. \A s \in K : s.id \in Kept /\ files[s.id].snapshot = s /\ s \in Snapshot
    BY <1>2, <1>3
  <1>5. restore(K)
    BY <1>3 DEF Restart, Kept
  <1>6. PICK I : I = UNION {DOMAIN s.resources : s \in K}
    OBVIOUS
  <1>7. PICK from \in [I -> K] :
          /\ \A e \in I : from[e] \in {s \in K : e \in DOMAIN s.resources}
          /\ engines' = [e \in I |-> [group |-> from[e].id, name |-> from[e].resources[e].name]]
          /\ made' = [e \in I |-> from[e].resources[e].config]
    BY <1>5, <1>6 DEF restore
  <1>8. /\ DOMAIN groups' = Kept /\ \A g \in Kept : groups'[g] = files[g].snapshot.name
    <2>1. groups' = [g \in {s.id : s \in K} |-> (CHOOSE s \in K : s.id = g).name]
      BY <1>5 DEF restore
    <2>2. {s.id : s \in K} = Kept
      BY <1>2, <1>3
    <2>3. \A g \in Kept : (CHOOSE s \in K : s.id = g) = files[g].snapshot
      <3> SUFFICES ASSUME NEW g \in Kept
                   PROVE  (CHOOSE s \in K : s.id = g) = files[g].snapshot
        OBVIOUS
      <3>1. files[g].snapshot \in K /\ files[g].snapshot.id = g
        BY <1>2, <1>3
      <3>2. \A s \in K : s.id = g => s = files[g].snapshot
        BY <1>4
      <3> QED BY <3>1, <3>2
    <2> QED BY <2>1, <2>2, <2>3
  <1>9. groups' \in [DOMAIN groups' -> Names]
    <2>1. \A g \in Kept : files[g].snapshot.name \in Names
      BY <1>2, SnapshotType
    <2>2. groups' = [g \in DOMAIN groups' |-> groups'[g]]
      BY <1>5 DEF restore
    <2> QED BY <1>8, <2>1, <2>2
  <1>10. Registered' = I /\ DOMAIN made' = I
    BY <1>7 DEF Registered
  <1>11. \A e \in I : /\ from[e] \in Snapshot /\ e \in DOMAIN from[e].resources
                      /\ from[e].id \in Kept /\ files[from[e].id].snapshot = from[e]
    BY <1>4, <1>7
  <1>12. \A g \in Kept : \A e \in DOMAIN files[g].snapshot.resources :
           e \in I /\ from[e] = files[g].snapshot
    <2> SUFFICES ASSUME NEW g \in Kept, NEW e \in DOMAIN files[g].snapshot.resources
                 PROVE  e \in I /\ from[e] = files[g].snapshot
      OBVIOUS
    <2>1. files[g].snapshot \in K
      BY <1>3
    <2>2. e \in I
      BY <1>6, <2>1
    <2>3. PICK h \in Kept : h = from[e].id
      BY <1>11, <2>2
    <2>4. e \in EngineIds
      BY <1>2, SnapshotType
    <2>5. Belongs(e, g) /\ Belongs(e, h) /\ g \in GroupIds /\ h \in GroupIds
      BY <1>11, <2>2, <2>3 DEF Belongs, Kept
    <2>6. g = h
      BY <2>4, <2>5 DEF IdsOwned
    <2> QED BY <1>11, <2>2, <2>3, <2>6
  <1>13. \A g \in Kept : \A e \in DOMAIN files[g].snapshot.resources :
           /\ e \in DOMAIN made /\ made'[e] = made[e]
           /\ engines'[e] = [group |-> g, name |-> files[g].snapshot.resources[e].name]
    BY <1>2, <1>7, <1>12 DEF True
  <1>14. \A e \in I : /\ \E g \in Kept : e \in DOMAIN files[g].snapshot.resources
                      /\ e \in DOMAIN made /\ made'[e] = made[e]
                      /\ engines'[e] \in [group : GroupIds, name : Names]
    <2> SUFFICES ASSUME NEW e \in I
                 PROVE  /\ \E g \in Kept : e \in DOMAIN files[g].snapshot.resources
                        /\ e \in DOMAIN made /\ made'[e] = made[e]
                        /\ engines'[e] \in [group : GroupIds, name : Names]
      OBVIOUS
    <2>1. PICK g \in Kept, s \in Snapshot : s = files[g].snapshot /\ e \in DOMAIN s.resources
      BY <1>11
    <2>2. s.resources[e].name \in Names
      <3>1. s.resources[e] \in Resource
        BY <2>1, SnapshotType
      <3> QED BY <3>1 DEF Resource
    <2>3. e \in DOMAIN files[g].snapshot.resources /\ g \in GroupIds
      BY <1>2, <2>1
    <2>4. engines'[e] = [group |-> g, name |-> s.resources[e].name]
      BY <1>13, <2>1, <2>3
    <2>5. engines'[e] \in [group : GroupIds, name : Names]
      BY <2>2, <2>3, <2>4
    <2>6. e \in DOMAIN made /\ made'[e] = made[e]
      BY <1>13, <2>3
    <2> QED BY <2>3, <2>5, <2>6
  <1>15. engines' \in [I -> [group : GroupIds, name : Names]] /\ made' \in [I -> Config]
    BY <1>1, <1>7, <1>14 DEF RegistryTyped
  <1> QED BY <1>8, <1>9, <1>10, <1>12, <1>13, <1>14, <1>15

\* And the counters are past everything that came back.
LEMMA RestoredCounters ==
  ASSUME Typed, SnapshotsTrue, IdsOwned, AddressesOwned, Restart
  PROVE  /\ next_seq' \in Nat \ {0} /\ \A e \in Registered' : e < next_seq'
         /\ next_group_seq' \in Nat
         /\ next_port' \in [Kinds -> Nat]
         /\ \A e \in Registered' :
              made'[e].port + Step[made'[e].kind] <= next_port'[made'[e].kind]
         /\ next_addr' \in 2..(Span - 1)
         /\ \A e \in Registered' :
              made'[e].kind = ServiceBus => AtMost(made'[e].addr + 1, Span - 1) <= next_addr'
         /\ \/ next_addr' = 2
            \/ \E e \in Registered' : /\ made'[e].kind = ServiceBus
                                      /\ next_addr' = AtMost(made'[e].addr + 1, Span - 1)
  <1>1. /\ DOMAIN groups' = Kept /\ DOMAIN made' = Registered' /\ made' \in [DOMAIN made' -> Config]
        /\ \A e \in Registered' : e \in DOMAIN made /\ made'[e] = made[e]
        /\ Registered' \subseteq DOMAIN made
    BY RestoredMaps
  <1>2. PICK I, m : I = Registered' /\ m = made' /\ m \in [I -> Config] /\ I \subseteq EngineIds
    BY <1>1 DEF Typed, RegistryTyped
  <1>3. I = UNION {DOMAIN s.resources : s \in {files[g].snapshot : g \in Kept}}
    BY <1>2 DEF Restart, restore, Registered, Kept
  <1>4. /\ next_seq' = bump_next_seq(I)
        /\ next_group_seq' = Greatest({0} \cup Kept) + 1
        /\ next_port' = [k \in Kinds |-> BumpedPort(k, m)]
        /\ next_addr' = BumpedAddr(m)
    BY <1>1, <1>2, <1>3 DEF Restart, restore, Kept
  <1>5. /\ Step \in [Kinds -> Nat \ {0}] /\ Span \in Nat /\ Span > 2
        /\ MaxEngines \in Nat /\ MaxGroups \in Nat /\ ServiceBus \in Kinds
    BY RegistryAssumption
  <1>6. \A e \in I : /\ e \in DOMAIN made /\ m[e] = made[e] /\ m[e].kind \in Kinds
                     /\ m[e].port \in Nat /\ m[e].addr \in 0..(Span - 1)
    BY <1>1, <1>2 DEF Config
  <1>7. next_seq' \in Nat \ {0} /\ \A e \in I : e < next_seq'
    <2>1. PICK S : S = {0} \cup I
      OBVIOUS
    <2>2. S \in SUBSET Nat /\ S # {} /\ \A s \in S : s <= MaxEngines
      BY <1>2, <1>5, <2>1 DEF EngineIds
    <2>3. Greatest(S) \in S /\ \A s \in S : s <= Greatest(S)
      BY <1>5, <2>2, GreatestType
    <2>4. next_seq' = Greatest(S) + 1
      BY <1>4, <2>1 DEF bump_next_seq
    <2> HIDE DEF Greatest
    <2> QED BY <2>1, <2>2, <2>3, <2>4
  <1>8. next_group_seq' \in Nat
    <2>1. PICK S : S = {0} \cup Kept
      OBVIOUS
    <2>2. S \in SUBSET Nat /\ S # {} /\ \A s \in S : s <= MaxGroups
      BY <1>5, <2>1 DEF GroupIds, Kept
    <2>3. Greatest(S) \in S
      BY <1>5, <2>2, GreatestType
    <2> QED BY <1>4, <2>1, <2>2, <2>3
  <1>9. ASSUME NEW k \in Kinds
        PROVE  /\ BumpedPort(k, m) \in Nat
               /\ \A e \in I : m[e].kind = k => m[e].port + Step[k] <= BumpedPort(k, m)
    <2>1. PICK S : S = {0} \cup {m[e].port + Step[k] : e \in {e \in I : m[e].kind = k}}
      OBVIOUS
    <2>2. next_port[k] \in Nat /\ Step[k] \in Nat
      BY <1>5 DEF Typed, RegistryTyped
    <2>3. \A e \in I : m[e].kind = k =>
            m[e].port + Step[k] \in Nat /\ m[e].port + Step[k] <= next_port[k]
      BY <1>6, <2>2 DEF AddressesOwned, PortsOwned
    <2>4. S \in SUBSET Nat /\ S # {} /\ \A s \in S : s <= next_port[k]
      BY <2>1, <2>2, <2>3
    <2>5. PICK b \in Nat : b = next_port[k]
      BY <2>2
    <2>6. Greatest(S) \in S /\ \A s \in S : s <= Greatest(S)
      BY <2>4, <2>5, GreatestType
    <2>7. BumpedPort(k, m) = Greatest(S)
      BY <1>2, <2>1 DEF BumpedPort
    <2>8. \A e \in I : m[e].kind = k => m[e].port + Step[k] \in S
      BY <2>1
    <2> QED BY <2>4, <2>6, <2>7, <2>8
  <1>10. /\ next_port' \in [Kinds -> Nat]
         /\ \A e \in I : m[e].port + Step[m[e].kind] <= next_port'[m[e].kind]
    BY <1>4, <1>6, <1>9
  <1>11. /\ next_addr' \in 2..(Span - 1)
         /\ \A e \in I : m[e].kind = ServiceBus => AtMost(m[e].addr + 1, Span - 1) <= next_addr'
         /\ \/ next_addr' = 2
            \/ \E e \in I : /\ m[e].kind = ServiceBus
                            /\ next_addr' = AtMost(m[e].addr + 1, Span - 1)
    <2> DEFINE F == {e \in I : m[e].kind = ServiceBus}
    <2>1. PICK S : S = {2} \cup {AtMost(m[e].addr + 1, Span - 1) : e \in F}
      OBVIOUS
    <2>2. \A e \in F : AtMost(m[e].addr + 1, Span - 1) \in 0..(Span - 1)
      BY <1>5, <1>6 DEF AtMost
    <2>3. S \in SUBSET (0..(Span - 1))
      BY <1>5, <2>1, <2>2
    <2>4. S \in SUBSET Nat /\ S # {} /\ (\A s \in S : s <= Span) /\ 2 \in S
      BY <1>5, <2>1, <2>3
    <2>5. Greatest(S) \in S /\ \A s \in S : s <= Greatest(S)
      BY <1>5, <2>4, GreatestType
    <2>6. next_addr' = Greatest(S)
      BY <1>2, <1>4, <2>1 DEF BumpedAddr
    <2>7. next_addr' \in 2..(Span - 1)
      <3>1. next_addr' \in 0..(Span - 1) /\ 2 <= next_addr'
        BY <2>3, <2>4, <2>5, <2>6
      <3> QED BY <1>5, <3>1
    <2>8. \A e \in F : AtMost(m[e].addr + 1, Span - 1) \in S
      BY <2>1
    <2>9. next_addr' = 2 \/ \E e \in F : next_addr' = AtMost(m[e].addr + 1, Span - 1)
      BY <2>1, <2>5, <2>6
    <2> QED BY <2>5, <2>6, <2>7, <2>8, <2>9
  <1> QED BY <1>2, <1>7, <1>8, <1>10, <1>11

\* A restart keeps the types.
LEMMA RestartTyped ==
  ASSUME Typed, SnapshotsTrue, IdsOwned, AddressesOwned, Restart
  PROVE  Typed'
  <1>1. /\ files' = files /\ request' = [c \in Clients |-> Idle] /\ HistoryTyped'
        /\ running' = {} /\ spent' = spent /\ spent \in BOOLEAN
    BY DEF Restart, restore, HistoryTyped, Typed, RegistryTyped
  <1>2. RegistryTyped'
    <2>1. Kept \subseteq GroupIds /\ Span > 2 /\ Span \in Nat
      BY RegistryAssumption DEF Kept
    <2>2. next_addr' \in 0..(Span - 1)
      BY <2>1, RestoredCounters
    <2>3. DOMAIN made \subseteq EngineIds
      BY DEF Typed, RegistryTyped
    <2>4. /\ groups' \in [DOMAIN groups' -> Names] /\ DOMAIN groups' = Kept
          /\ engines' \in [Registered' -> [group : GroupIds, name : Names]]
          /\ made' \in [DOMAIN made' -> Config] /\ DOMAIN made' = Registered'
          /\ Registered' \subseteq DOMAIN made
      BY RestoredMaps
    <2>5. next_seq' \in Nat \ {0} /\ next_group_seq' \in Nat /\ next_port' \in [Kinds -> Nat]
      BY RestoredCounters
    <2> QED BY <1>1, <2>1, <2>2, <2>3, <2>4, <2>5 DEF RegistryTyped
  <1>3. FilesTyped'
    BY <1>1 DEF Typed, FilesTyped
  <1>4. /\ request' \in [Clients -> Request]
        /\ \A c \in Clients : request'[c] = Idle
    BY <1>1, NewRequest
  <1>5. \A c \in Clients : Going(request[c])'
    BY <1>4, NewRequest DEF Going
  <1> QED BY <1>1, <1>2, <1>3, <1>4, <1>5 DEF Typed

-----------------------------------------------------------------------------
\* A step of client c that creates no engine, puts none into a group and writes no
\* snapshot.
Narrow(c) ==
  /\ \A d \in Clients \ {c} : request'[d] = request[d]
  /\ UNCHANGED <<files, made, next_seq, next_port, next_addr, spent>>
  /\ ~Writing(request'[c])
  /\ ~Making(request'[c])
  /\ Creating(request'[c]) => Creating(request[c]) /\ request'[c].engine = request[c].engine
  /\ Registered' \subseteq Registered
  /\ \A e \in Registered' : engines'[e].group = engines[e].group

\* Most steps are like that.
LEMMA NarrowStep ==
  ASSUME Typed, NEW c \in Clients, NEW g \in GroupIds, NEW e \in EngineIds,
         NEW S \in SUBSET Registered,
         \/ Lookup(c) \/ create_resource_group(c) \/ rename_resource_group(c, g)
         \/ delete_resource_group(c, g) \/ remove_next(c, e) \/ stop_next(c)
         \/ delete_group(c) \/ start_new(c) \/ remove(c) \/ stop_removed(c)
         \/ delete_engine(c, e) \/ rename_engine(c, e) \/ group_of(c)
         \/ start_one(c, e) \/ stop_one(c, e) \/ start_engines(c, S) \/ stop_engines(c, S)
  PROVE  Narrow(c)
  <1>1. request \in [Clients -> Request] /\ request[c] \in Request /\ RegistryTyped
    BY DEF Typed
  <1>a. ASSUME UNCHANGED engines
        PROVE  /\ Registered' \subseteq Registered
               /\ \A x \in Registered' : engines'[x].group = engines[x].group
    BY <1>a DEF Registered
  <1>b. ASSUME NEW x, engines' = Drop(engines, {x})
        PROVE  /\ Registered' \subseteq Registered
               /\ \A y \in Registered' : engines'[y].group = engines[y].group
    BY <1>1, <1>b DEF Drop, Restrict, Registered
  <1>2. CASE Lookup(c)
    <2>1. /\ \A d \in Clients \ {c} : request'[d] = request[d]
          /\ request'[c].step \in {"idle", "collect"}
      BY <1>1, <1>2 DEF Lookup, Go, Idle
    <2>2. ~Writing(request'[c]) /\ ~Making(request'[c]) /\ ~Creating(request'[c])
      BY <2>1 DEF Writing, Making, Creating
    <2> QED BY <1>2, <1>a, <2>1, <2>2 DEF Lookup, Narrow, registryVars
  <1>3. CASE create_resource_group(c) \/ rename_resource_group(c, g)
    <2>1. /\ \A d \in Clients \ {c} : request'[d] = request[d]
          /\ request'[c].step = "snapshot"
      BY <1>1, <1>3 DEF create_resource_group, rename_resource_group, Begin, Persist
    <2>2. ~Writing(request'[c]) /\ ~Making(request'[c]) /\ ~Creating(request'[c])
      BY <2>1 DEF Writing, Making, Creating
    <2>3. UNCHANGED <<files, engines, made, next_seq, next_port, next_addr, spent>>
      BY <1>3 DEF create_resource_group, rename_resource_group, Begin, create_group, rename_group
    <2> QED BY <1>a, <2>1, <2>2, <2>3 DEF Narrow
  <1>4. CASE delete_resource_group(c, g) \/ delete_engine(c, e)
    <2>1. /\ \A d \in Clients \ {c} : request'[d] = request[d]
          /\ request'[c].step \in {"empty", "remove"}
      BY <1>1, <1>4 DEF delete_resource_group, delete_engine, Begin
    <2>2. ~Writing(request'[c]) /\ ~Making(request'[c]) /\ ~Creating(request'[c])
      BY <2>1 DEF Writing, Making, Creating
    <2> QED BY <1>4, <1>a, <2>1, <2>2
        DEF delete_resource_group, delete_engine, Begin, Narrow, registryVars
  <1>5. CASE remove_next(c, e)
    <2>1. /\ \A d \in Clients \ {c} : request'[d] = request[d]
          /\ request'[c].step \in {"empty", "stop_next"}
      BY <1>1, <1>5 DEF remove_next, Go
    <2>2. ~Writing(request'[c]) /\ ~Making(request'[c]) /\ ~Creating(request'[c])
      BY <2>1 DEF Writing, Making, Creating
    <2>3. /\ engines' = Drop(engines, {e})
          /\ UNCHANGED <<files, made, next_seq, next_port, next_addr, spent>>
      BY <1>5 DEF remove_next, unregister
    <2> QED BY <1>b, <2>1, <2>2, <2>3 DEF Narrow
  <1>6. CASE stop_next(c) \/ delete_group(c)
    <2>1. /\ \A d \in Clients \ {c} : request'[d] = request[d]
          /\ request'[c].step \in {"empty", "unlink"}
      BY <1>1, <1>6 DEF stop_next, delete_group, Go
    <2>2. ~Writing(request'[c]) /\ ~Making(request'[c]) /\ ~Creating(request'[c])
      BY <2>1 DEF Writing, Making, Creating
    <2>3. UNCHANGED <<files, engines, made, next_seq, next_port, next_addr, spent>>
      BY <1>6 DEF stop_next, delete_group, stop, retain_groups
    <2> QED BY <1>a, <2>1, <2>2, <2>3 DEF Narrow
  <1>7. CASE start_new(c)
    <2>1. /\ request[c].step = "start_new"
          /\ UNCHANGED <<files, engines, made, next_seq, next_port, next_addr, spent>>
      BY <1>7 DEF start_new, Go, start, registryVars
    <2>2. request[c] \in [step : {"start_new"}, engine : EngineIds, group : GroupIds]
      BY <1>1, <2>1 DEF Request, Idle
    <2>3. /\ \A d \in Clients \ {c} : request'[d] = request[d]
          /\ request'[c] = Idle \/ request'[c] = [request[c] EXCEPT !.step = "insert"]
      BY <1>1, <1>7 DEF start_new, Go
    <2>4. /\ ~Writing(request'[c]) /\ ~Making(request'[c]) /\ Creating(request[c])
          /\ Creating(request'[c]) => request'[c].engine = request[c].engine
      BY <2>2, <2>3, NewRequest DEF Writing, Making, Creating
    <2> QED BY <1>a, <2>1, <2>3, <2>4 DEF Narrow
  <1>8. CASE remove(c)
    <2>1. request[c].step = "remove"
      BY <1>8 DEF remove, Go
    <2>2. request[c] \in [step : {"remove"}, engine : EngineIds, group : GroupIds]
      BY <1>1, <2>1 DEF Request, Idle
    <2>3. /\ \A d \in Clients \ {c} : request'[d] = request[d]
          /\ request'[c].step \in {"snapshot", "stop_removed"}
      BY <1>1, <1>8, <2>2 DEF remove, Go, Persist
    <2>4. ~Writing(request'[c]) /\ ~Making(request'[c]) /\ ~Creating(request'[c])
      BY <2>3 DEF Writing, Making, Creating
    <2>5. PICK f : f = request[c].engine
      OBVIOUS
    <2>6. /\ engines' = Drop(engines, {f})
          /\ UNCHANGED <<files, made, next_seq, next_port, next_addr, spent>>
      BY <1>8, <2>5 DEF remove, unregister
    <2> QED BY <1>b, <2>3, <2>4, <2>6 DEF Narrow
  <1>9. CASE stop_removed(c)
    <2>1. /\ \A d \in Clients \ {c} : request'[d] = request[d]
          /\ request'[c].step = "snapshot"
      BY <1>1, <1>9 DEF stop_removed, Go, Persist
    <2>2. ~Writing(request'[c]) /\ ~Making(request'[c]) /\ ~Creating(request'[c])
      BY <2>1 DEF Writing, Making, Creating
    <2>3. UNCHANGED <<files, engines, made, next_seq, next_port, next_addr, spent>>
      BY <1>9 DEF stop_removed, stop
    <2> QED BY <1>a, <2>1, <2>2, <2>3 DEF Narrow
  <1>10. CASE rename_engine(c, e)
    <2>1. /\ \A d \in Clients \ {c} : request'[d] = request[d]
          /\ request'[c].step = "group_of"
      BY <1>1, <1>10 DEF rename_engine, Begin, Renamed
    <2>2. ~Writing(request'[c]) /\ ~Making(request'[c]) /\ ~Creating(request'[c])
      BY <2>1 DEF Writing, Making, Creating
    <2>3. UNCHANGED <<files, made, next_seq, next_port, next_addr, spent>>
      BY <1>10 DEF rename_engine, rename, Begin
    <2>4. /\ Registered' \subseteq Registered
          /\ \A y \in Registered' : engines'[y].group = engines[y].group
      BY <1>1, <1>10 DEF rename_engine, rename, Registered, RegistryTyped
    <2> QED BY <2>1, <2>2, <2>3, <2>4 DEF Narrow
  <1>11. CASE group_of(c)
    <2>1. /\ \A d \in Clients \ {c} : request'[d] = request[d]
          /\ request'[c].step \in {"idle", "snapshot"}
      BY <1>1, <1>11 DEF group_of, Go, Persist, Idle
    <2>2. ~Writing(request'[c]) /\ ~Making(request'[c]) /\ ~Creating(request'[c])
      BY <2>1 DEF Writing, Making, Creating
    <2> QED BY <1>11, <1>a, <2>1, <2>2 DEF group_of, Narrow, registryVars
  <1>12. CASE start_one(c, e) \/ stop_one(c, e)
    <2>1. request[c].step \in {"start", "stop"}
      BY <1>12 DEF start_one, stop_one
    <2>2. request[c] \in [step : {"start", "stop"}, todo : SUBSET EngineIds]
      BY <1>1, <2>1 DEF Request, Idle
    <2>3. /\ \A d \in Clients \ {c} : request'[d] = request[d]
          /\ request'[c] \in {Idle, Rest(c, e)}
      BY <1>1, <1>12 DEF start_one, stop_one, Go
    <2>4. Rest(c, e).step \in {"idle", "start", "stop"}
      BY <2>2, NewRequest DEF Rest
    <2>5. ~Writing(request'[c]) /\ ~Making(request'[c]) /\ ~Creating(request'[c])
      BY <2>3, <2>4, NewRequest DEF Writing, Making, Creating
    <2>6. UNCHANGED <<files, engines, made, next_seq, next_port, next_addr, spent>>
      BY <1>12 DEF start_one, stop_one, start, stop, registryVars
    <2> QED BY <1>a, <2>3, <2>5, <2>6 DEF Narrow
  <1>13. CASE start_engines(c, S) \/ stop_engines(c, S)
    <2>1. /\ \A d \in Clients \ {c} : request'[d] = request[d]
          /\ request'[c].step \in {"start", "stop"}
      BY <1>1, <1>13 DEF start_engines, stop_engines, Begin
    <2>2. ~Writing(request'[c]) /\ ~Making(request'[c]) /\ ~Creating(request'[c])
      BY <2>1 DEF Writing, Making, Creating
    <2> QED BY <1>13, <1>a, <2>1, <2>2
        DEF start_engines, stop_engines, Begin, Narrow, registryVars
  <1> QED BY <1>2, <1>3, <1>4, <1>5, <1>6, <1>7, <1>8, <1>9, <1>10, <1>11, <1>12, <1>13

\* Such a step leaves each id with its group, or with the request that creates it.
LEMMA NarrowOwned ==
  ASSUME Typed, SnapshotsTrue, IdsOwned, NEW c \in Clients, Narrow(c)
  PROVE  SnapshotsTrue' /\ IdsOwned'
  <1>1. \A d \in Clients : Writing(request'[d]) => d # c /\ request'[d] = request[d]
    BY DEF Narrow
  <1>2. SnapshotsTrue'
    BY <1>1 DEF Narrow, SnapshotsTrue, True
  <1>3. \A e, g : Belongs(e, g)' => Belongs(e, g)
    BY <1>1 DEF Narrow, Belongs
  <1>4. \A d \in Clients : Creating(request'[d]) =>
          Creating(request[d]) /\ request'[d].engine = request[d].engine
    BY DEF Narrow
  <1>a. \A d \in Clients : Making(request'[d]) => request'[d].engine \notin DOMAIN made'
    BY DEF Narrow, IdsOwned
  <1>5. \A e \in DOMAIN made' : e < next_seq'
    BY DEF Narrow, IdsOwned
  <1>6. \A e \in EngineIds, g, h \in GroupIds : Belongs(e, g)' /\ Belongs(e, h)' => g = h
    BY <1>3 DEF IdsOwned
  <1>7. ASSUME NEW d \in Clients, NEW e, Creating(request'[d]), e = request'[d].engine
        PROVE  /\ e < next_seq'
               /\ \A g \in GroupIds : ~Belongs(e, g)'
               /\ \A f \in Clients \ {d} : Creating(request'[f]) => request'[f].engine # e
    <2>1. e = request[d].engine /\ Creating(request[d])
      BY <1>4, <1>7
    <2>2. e < next_seq' /\ \A g \in GroupIds : ~Belongs(e, g)
      BY <2>1 DEF IdsOwned, Narrow
    <2>3. \A f \in Clients \ {d} : Creating(request[f]) => request[f].engine # e
      BY <2>1 DEF IdsOwned
    <2> QED BY <1>3, <1>4, <2>2, <2>3
  <1> QED BY <1>2, <1>a, <1>5, <1>6, <1>7 DEF IdsOwned, Making, Creating, Belongs

\* What belongs to a group was made, and so has a number below the next.
LEMMA BelongsMade ==
  ASSUME Typed, SnapshotsTrue, NEW e, NEW g \in GroupIds, Belongs(e, g)
  PROVE  e \in DOMAIN made
  BY DEF Typed, RegistryTyped, SnapshotsTrue, True, Belongs

\* A step that changes only the requests, of which none comes to create an engine, and
\* files, keeps the ids with their groups if it gives none to another group.
LEMMA OwnedFrame ==
  ASSUME Typed, SnapshotsTrue, IdsOwned, NEW c \in Clients,
         \A d \in Clients \ {c} : request'[d] = request[d],
         UNCHANGED registryVars, ~Creating(request'[c]),
         \A e \in EngineIds, g \in GroupIds : Belongs(e, g)' => Belongs(e, g)
  PROVE  IdsOwned'
  <1>1. \A d \in Clients : Creating(request'[d]) => d # c /\ request'[d] = request[d]
    OBVIOUS
  <1>a. \A d \in Clients : Making(request'[d]) => request'[d].engine \notin DOMAIN made'
    BY <1>1 DEF registryVars, IdsOwned, Creating
  <1>2. \A e \in DOMAIN made' : e < next_seq'
    BY DEF registryVars, IdsOwned
  <1>3. \A e \in EngineIds, g, h \in GroupIds : Belongs(e, g)' /\ Belongs(e, h)' => g = h
    BY DEF IdsOwned
  <1>4. ASSUME NEW d \in Clients, NEW e, Creating(request'[d]), e = request'[d].engine
        PROVE  /\ e < next_seq'
               /\ \A g \in GroupIds : ~Belongs(e, g)'
               /\ \A f \in Clients \ {d} : Creating(request'[f]) => request'[f].engine # e
    <2>1. request[d] \in Request /\ e = request[d].engine /\ Creating(request[d])
      BY <1>1, <1>4 DEF Typed
    <2>2. e \in EngineIds
      BY <2>1, RequestType DEF Making, Creating
    <2>3. e < next_seq' /\ \A g \in GroupIds : ~Belongs(e, g)
      BY <2>1 DEF IdsOwned, registryVars
    <2>4. \A f \in Clients \ {d} : Creating(request[f]) => request[f].engine # e
      BY <2>1 DEF IdsOwned
    <2> QED BY <1>1, <2>2, <2>3, <2>4
  <1> QED BY <1>2, <1>a, <1>3, <1>4 DEF IdsOwned, Making, Creating, Belongs

\* Nor do the steps that write the file of a group.
LEMMA WriterOwned ==
  ASSUME Typed, SnapshotsTrue, IdsOwned, NEW c \in Clients,
         Collect(c) \/ Truncate(c) \/ Write(c) \/ delete_group_file(c)
  PROVE  SnapshotsTrue' /\ IdsOwned'
  <1>1. /\ request \in [Clients -> Request] /\ request[c] \in Request
        /\ files \in [GroupIds -> File]
    BY DEF Typed, FilesTyped
  <1>2. /\ UNCHANGED registryVars
        /\ \A d \in Clients \ {c} : request'[d] = request[d]
    BY <1>1 DEF Collect, Truncate, Write, delete_group_file, Go
  <1>3. UNCHANGED <<engines, made>>
    BY <1>2 DEF registryVars
  <1>4. CASE Collect(c)
    <2>1. request[c].step = "collect"
      BY <1>4 DEF Collect, Go
    <2>2. PICK g \in GroupIds, n \in Names : g = request[c].group /\ n = request[c].name
      BY <1>1, <2>1, RequestType
    <2>3. PICK R : R = Resources(g)
      OBVIOUS
    <2>4. /\ UNCHANGED files
          /\ request'[c] = [step |-> "truncate",
                            snapshot |-> [id |-> g, name |-> n, resources |-> R]]
      BY <1>1, <1>4, <2>2, <2>3 DEF Collect, Go
    <2>5. DOMAIN R = InGroup(g) /\ \A e \in InGroup(g) : R[e].config = made[e]
      BY <2>3 DEF Resources
    <2>6. \A e \in DOMAIN R : Belongs(e, g) /\ e \in DOMAIN made
      BY <2>5 DEF InGroup, Belongs, Typed, RegistryTyped
    <2>7. SnapshotsTrue'
      <3>1. \A e \in DOMAIN R : e \in DOMAIN made' /\ R[e].config = made'[e]
        BY <1>3, <2>5, <2>6
      <3>2. request'[c].snapshot.resources = R
        BY <2>4
      <3> QED BY <1>2, <1>3, <2>4, <3>1, <3>2 DEF SnapshotsTrue, True, Writing
    <2>8. \A e \in EngineIds, h \in GroupIds : Belongs(e, h)' => Belongs(e, h)
      BY <1>2, <1>3, <2>4, <2>6 DEF Belongs, Registered
    <2>9. ~Creating(request'[c])
      BY <2>4 DEF Making, Creating
    <2> QED BY <1>2, <2>7, <2>8, <2>9, OwnedFrame
  <1>5. CASE Truncate(c)
    <2>1. request[c].step = "truncate"
      BY <1>5 DEF Truncate, Go
    <2>2. PICK s \in Snapshot : s = request[c].snapshot /\ s.id \in GroupIds
      BY <1>1, <2>1, RequestType, SnapshotType
    <2>3. /\ files' = [files EXCEPT ![s.id] = Garbled]
          /\ request'[c] = [step |-> "write", snapshot |-> s]
      <3>1. request[c] = [step |-> "truncate", snapshot |-> s]
        BY <1>1, <2>1, <2>2, RequestType
      <3> QED BY <1>1, <1>5, <2>2, <3>1 DEF Truncate, Go
    <2>4. /\ files'[s.id].state # "whole"
          /\ \A g \in GroupIds \ {s.id} : files'[g] = files[g]
      BY <1>1, <2>2, <2>3 DEF Garbled
    <2>5. SnapshotsTrue'
      <3>1. True(s)
        BY <2>1, <2>2 DEF SnapshotsTrue, Writing
      <3>2. request'[c].snapshot = s
        BY <2>3
      <3> QED BY <1>2, <1>3, <2>4, <3>1, <3>2 DEF SnapshotsTrue, True, Writing
    <2>6. \A e \in EngineIds, h \in GroupIds : Belongs(e, h)' => Belongs(e, h)
      BY <1>2, <1>3, <2>1, <2>2, <2>3, <2>4 DEF Belongs, Registered, Writing
    <2>7. ~Creating(request'[c])
      BY <2>3 DEF Making, Creating
    <2> QED BY <1>2, <2>5, <2>6, <2>7, OwnedFrame
  <1>6. CASE Write(c) \/ delete_group_file(c)
    <2>1. /\ request[c].step \in {"write", "unlink"} /\ request'[c] = Idle
          /\ ~Writing(request'[c]) /\ ~Creating(request'[c])
      BY <1>1, <1>6, NewRequest DEF Write, delete_group_file, Go, Writing, Making, Creating
    <2>2. \A g \in GroupIds : files'[g].state = "whole" =>
            \/ files'[g] = files[g]
            \/ Writing(request[c]) /\ request[c].snapshot.id = g
                 /\ files'[g].snapshot = request[c].snapshot
      <3>1. CASE Write(c)
        <4>1. request[c].step = "write"
          BY <3>1 DEF Write, Go
        <4>2. PICK s \in Snapshot, g \in GroupIds : s = request[c].snapshot /\ s.id = g
          BY <1>1, <4>1, RequestType, SnapshotType
        <4>3. PICK new \in {Whole(s), Garbled} :
                files' = [files EXCEPT ![g] = IF @ = Absent THEN Absent ELSE new]
          BY <3>1, <4>2 DEF Write
        <4>4. files'[g] \in {Absent, Garbled, Whole(s)}
          BY <1>1, <4>3
        <4>5. files'[g].state = "whole" => files'[g].snapshot = s
          BY <4>4, FileType, SnapshotType
        <4>6. \A h \in GroupIds \ {g} : files'[h] = files[h]
          BY <1>1, <4>3
        <4> QED BY <4>1, <4>2, <4>5, <4>6 DEF Writing
      <3>2. CASE delete_group_file(c)
        <4>1. PICK g \in GroupIds : g = request[c].group
          BY <1>1, <3>2, RequestType DEF delete_group_file, Go
        <4>2. files' = [files EXCEPT ![g] = Absent]
          BY <3>2, <4>1 DEF delete_group_file
        <4>3. files'[g].state # "whole" /\ \A h \in GroupIds \ {g} : files'[h] = files[h]
          BY <1>1, <4>2 DEF Absent
        <4> QED BY <4>3
      <3> QED BY <1>6, <3>1, <3>2
    <2>3. \A d \in Clients : Writing(request'[d]) => d # c /\ request'[d] = request[d]
      BY <1>2, <2>1
    <2>4. SnapshotsTrue'
      BY <1>3, <2>2, <2>3 DEF SnapshotsTrue, True, Writing
    <2>5. \A e \in EngineIds, h \in GroupIds : Belongs(e, h)' => Belongs(e, h)
      BY <1>3, <2>2, <2>3 DEF Belongs, Registered, Writing
    <2> QED BY <1>2, <2>1, <2>4, <2>5, OwnedFrame
  <1> QED BY <1>4, <1>5, <1>6

\* insert_new gives the group an engine that only its request had.
LEMMA InsertOwned ==
  ASSUME Typed, SnapshotsTrue, IdsOwned, NEW c \in Clients, insert_new(c)
  PROVE  SnapshotsTrue' /\ IdsOwned'
  <1>1. /\ request \in [Clients -> Request] /\ request[c] \in Request
        /\ Going(request[c]) /\ request[c].step = "insert"
    BY DEF Typed, insert_new, Go
  <1>2. PICK f \in EngineIds, h \in GroupIds : f = request[c].engine /\ h = request[c].group
    BY <1>1, RequestType
  <1>3. /\ engines' = With(engines, f, [group |-> h, name |-> Given])
        /\ UNCHANGED <<made, next_seq, files>> /\ request' = [request EXCEPT ![c] = Persist(h)]
    BY <1>2 DEF insert_new, insert, Go
  <1>4. /\ request'[c] = Persist(h) /\ \A d \in Clients \ {c} : request'[d] = request[d]
        /\ ~Writing(request'[c]) /\ ~Making(request'[c]) /\ ~Creating(request'[c])
    BY <1>1, <1>3, NewRequest DEF Writing, Making, Creating
  <1>5. SnapshotsTrue'
    BY <1>3, <1>4 DEF SnapshotsTrue, True, Writing
  <1>6. /\ Registered' = Registered \cup {f} /\ engines'[f].group = h
        /\ \A e \in Registered \ {f} : engines'[e].group = engines[e].group
    BY <1>3 DEF With, Registered
  <1>7. \A g \in GroupIds : ~Belongs(f, g)
    BY <1>1, <1>2 DEF IdsOwned, Creating
  <1>8. \A e \in EngineIds, g \in GroupIds : Belongs(e, g)' => Belongs(e, g) \/ (e = f /\ g = h)
    <2>1. f \notin Registered
      <3>1. f \in Registered => engines[f].group \in GroupIds /\ Belongs(f, engines[f].group)
        BY DEF Belongs, Typed, RegistryTyped
      <3> QED BY <1>7, <3>1
    <2>2. \A e, g : e \in Registered' /\ engines'[e].group = g =>
            (e \in Registered /\ engines[e].group = g) \/ (e = f /\ g = h)
      BY <1>6, <2>1
    <2>3. \A d \in Clients : Writing(request'[d]) => request'[d] = request[d]
      BY <1>4
    <2> QED BY <1>3, <2>2, <2>3 DEF Belongs
  <1>9. \A e \in DOMAIN made' : e < next_seq'
    BY <1>3 DEF IdsOwned
  <1>10. \A e \in EngineIds, g, k \in GroupIds : Belongs(e, g)' /\ Belongs(e, k)' => g = k
    BY <1>7, <1>8 DEF IdsOwned
  <1>11. ASSUME NEW d \in Clients, NEW e, Creating(request'[d]), e = request'[d].engine
         PROVE  /\ e < next_seq'
                /\ \A g \in GroupIds : ~Belongs(e, g)'
                /\ \A x \in Clients \ {d} : Creating(request'[x]) => request'[x].engine # e
    <2>1. d # c /\ e = request[d].engine /\ Creating(request[d]) /\ request[d] \in Request
      BY <1>1, <1>4, <1>11
    <2>2. e \in EngineIds
      BY <2>1, RequestType DEF Making, Creating
    <2>3. e < next_seq' /\ \A g \in GroupIds : ~Belongs(e, g)
      BY <1>3, <2>1 DEF IdsOwned
    <2>4. \A x \in Clients \ {d} : Creating(request[x]) => request[x].engine # e
      BY <2>1 DEF IdsOwned
    <2>5. e # f
      BY <1>1, <1>2, <2>1, <2>4 DEF Creating
    <2> QED BY <1>4, <1>8, <2>2, <2>3, <2>4, <2>5
  <1>12. \A d \in Clients : Making(request'[d]) => request'[d].engine \notin DOMAIN made'
    BY <1>3, <1>4 DEF IdsOwned
  <1> QED BY <1>5, <1>9, <1>10, <1>11, <1>12 DEF IdsOwned, Making, Creating, Belongs

\* create_engine draws the next number.
LEMMA CreateOwned ==
  ASSUME Typed, SnapshotsTrue, IdsOwned, NEW c \in Clients, NEW k \in Kinds,
         NEW g \in GroupIds, create_engine(c, k, g)
  PROVE  SnapshotsTrue' /\ IdsOwned'
  <1>1. request \in [Clients -> Request]
    BY DEF Typed
  <1>2. PICK n \in EngineIds : n = next_seq
    BY DEF create_engine, create
  <1>3. /\ next_seq' = n + 1 /\ UNCHANGED <<engines, made, files>>
        /\ request' = [request EXCEPT ![c] = [step |-> "port", engine |-> n, group |-> g,
                                             kind |-> k]]
    BY <1>2 DEF create_engine, create, Begin
  <1>4. /\ request'[c] = [step |-> "port", engine |-> n, group |-> g, kind |-> k]
        /\ \A d \in Clients \ {c} : request'[d] = request[d]
        /\ ~Writing(request'[c]) /\ request'[c].engine = n
    BY <1>1, <1>3 DEF Writing
  <1>5. n \in Nat /\ n \notin DOMAIN made /\ \A e \in DOMAIN made : e \in Nat /\ e < n
    BY <1>2 DEF Typed, RegistryTyped, EngineIds, IdsOwned
  <1>6. SnapshotsTrue'
    BY <1>3, <1>4 DEF SnapshotsTrue, True, Writing
  <1>7. \A e, h : Belongs(e, h)' => Belongs(e, h)
    <2>1. \A d \in Clients : Writing(request'[d]) => request'[d] = request[d]
      BY <1>4
    <2> QED BY <1>3, <2>1 DEF Belongs, Registered
  <1>8. \A e \in DOMAIN made' : e < next_seq'
    BY <1>3, <1>5
  <1>9. \A e \in EngineIds, h, i \in GroupIds : Belongs(e, h)' /\ Belongs(e, i)' => h = i
    BY <1>7 DEF IdsOwned
  <1>10. \A h \in GroupIds : ~Belongs(n, h)
    BY <1>5, BelongsMade
  <1>11. ASSUME NEW d \in Clients \ {c}, NEW e, Creating(request[d]), e = request[d].engine
         PROVE  e \in Nat /\ e < n
    <2>1. request[d] \in Request
      BY <1>1
    <2>2. e \in EngineIds
      BY <1>11, <2>1, RequestType DEF Making, Creating
    <2> QED BY <1>2, <1>11, <2>2 DEF IdsOwned, EngineIds
  <1>12. \A d \in Clients : Making(request'[d]) => request'[d].engine \notin DOMAIN made'
    BY <1>3, <1>4, <1>5 DEF IdsOwned
  <1>13. ASSUME NEW d \in Clients, NEW e, Creating(request'[d]), e = request'[d].engine
         PROVE  /\ e < next_seq'
                /\ \A h \in GroupIds : ~Belongs(e, h)'
                /\ \A x \in Clients \ {d} : Creating(request'[x]) => request'[x].engine # e
    <2>1. CASE d = c
      <3>1. e = n
        BY <1>4, <1>13, <2>1
      <3>2. \A x \in Clients \ {c} : Creating(request[x]) => request[x].engine # n
        BY <1>5, <1>11
      <3> QED BY <1>3, <1>4, <1>5, <1>7, <1>10, <2>1, <3>1, <3>2
    <2>2. CASE d # c
      <3>1. e = request[d].engine /\ Creating(request[d])
        BY <1>4, <1>13, <2>2
      <3>2. \A h \in GroupIds : ~Belongs(e, h)
        BY <3>1 DEF IdsOwned
      <3>3. \A x \in Clients \ {d} : Creating(request[x]) => request[x].engine # e
        BY <3>1 DEF IdsOwned
      <3>4. e # n /\ e < next_seq'
        BY <1>3, <1>5, <1>11, <2>2, <3>1
      <3> QED BY <1>4, <1>7, <3>2, <3>3, <3>4
    <2> QED BY <2>1, <2>2
  <1> QED BY <1>6, <1>8, <1>9, <1>12, <1>13 DEF IdsOwned, Making, Creating, Belongs

\* The steps of its request up to what it builds leave the id with it.
LEMMA MakingOwned ==
  ASSUME Typed, SnapshotsTrue, IdsOwned, NEW c \in Clients, take_port(c) \/ take_octet(c)
  PROVE  SnapshotsTrue' /\ IdsOwned'
  <1>1. /\ request \in [Clients -> Request] /\ request[c] \in Request
        /\ request[c].step \in {"port", "octet"}
    BY DEF Typed, take_port, take_octet, Go
  <1>2. PICK n \in EngineIds : n = request[c].engine
    BY <1>1, RequestType
  <1>3. /\ UNCHANGED <<engines, next_seq, files>>
        /\ \A d \in Clients \ {c} : request'[d] = request[d]
        /\ ~Writing(request'[c]) /\ Creating(request'[c]) /\ request'[c].engine = n
    <2>1. CASE take_port(c)
      <3>1. /\ UNCHANGED <<engines, next_seq, files>>
            /\ \A d \in Clients \ {c} : request'[d] = request[d]
            /\ request'[c].step = "octet" /\ request'[c].engine = n
        BY <1>1, <1>2, <2>1 DEF take_port, resolve_port, Go
      <3> QED BY <3>1 DEF Writing, Making, Creating
    <2>2. CASE take_octet(c)
      <3>1. /\ UNCHANGED <<engines, next_seq, files>>
            /\ \A d \in Clients \ {c} : request'[d] = request[d]
            /\ request'[c].step = "start_new" /\ request'[c].engine = n
        BY <1>1, <1>2, <2>2 DEF take_octet, build, Go
      <3> QED BY <3>1 DEF Writing, Making, Creating
    <2> QED BY <2>1, <2>2
  <1>4. n \notin DOMAIN made /\ n < next_seq
    BY <1>1, <1>2 DEF IdsOwned, Making, Creating
  <1>5. /\ \A e \in DOMAIN made : e \in DOMAIN made' /\ made'[e] = made[e]
        /\ DOMAIN made' \subseteq DOMAIN made \cup {n}
        /\ Making(request'[c]) => n \notin DOMAIN made'
    <2>1. CASE take_port(c)
      BY <1>4, <2>1 DEF take_port, resolve_port
    <2>2. CASE take_octet(c)
      <3>1. request'[c].step = "start_new"
        BY <1>1, <2>2 DEF take_octet, Go
      <3>2. PICK b : made' = With(made, n, b)
        BY <1>2, <2>2 DEF take_octet, build
      <3> QED BY <1>4, <3>1, <3>2 DEF With, Making
    <2> QED BY <2>1, <2>2
  <1>6. SnapshotsTrue'
    BY <1>3, <1>5 DEF SnapshotsTrue, True, Writing
  <1>7. \A e, h : Belongs(e, h)' => Belongs(e, h)
    <2>1. \A d \in Clients : Writing(request'[d]) => request'[d] = request[d]
      BY <1>3
    <2> QED BY <1>3, <2>1 DEF Belongs, Registered
  <1>8. \A e \in DOMAIN made' : e < next_seq'
    BY <1>3, <1>4, <1>5 DEF IdsOwned
  <1>9. \A e \in EngineIds, h, i \in GroupIds : Belongs(e, h)' /\ Belongs(e, i)' => h = i
    BY <1>7 DEF IdsOwned
  <1>10. Creating(request[c])
    BY <1>1 DEF Creating, Making
  <1>11. \A d \in Clients : Creating(request'[d]) =>
           Creating(request[d]) /\ request'[d].engine = request[d].engine
    BY <1>2, <1>3, <1>10
  <1>12. ASSUME NEW d \in Clients, Making(request'[d])
         PROVE  request'[d].engine \notin DOMAIN made'
    <2>1. CASE d = c
      BY <1>3, <1>5, <1>12, <2>1
    <2>2. CASE d # c
      <3>1. Making(request[d]) /\ request'[d].engine = request[d].engine /\ Creating(request[d])
        BY <1>3, <1>12, <2>2 DEF Creating
      <3>2. request[d].engine \notin DOMAIN made /\ request[d].engine # n
        BY <1>2, <1>10, <2>2, <3>1 DEF IdsOwned
      <3> QED BY <1>5, <3>1, <3>2
    <2> QED BY <2>1, <2>2
  <1>13. ASSUME NEW d \in Clients, NEW e, Creating(request'[d]), e = request'[d].engine
         PROVE  /\ e < next_seq'
                /\ \A h \in GroupIds : ~Belongs(e, h)'
                /\ \A x \in Clients \ {d} : Creating(request'[x]) => request'[x].engine # e
    <2>1. e = request[d].engine /\ Creating(request[d])
      BY <1>11, <1>13
    <2>2. e < next_seq' /\ \A h \in GroupIds : ~Belongs(e, h)
      BY <1>3, <2>1 DEF IdsOwned
    <2>3. \A x \in Clients \ {d} : Creating(request[x]) => request[x].engine # e
      BY <2>1 DEF IdsOwned
    <2> QED BY <1>7, <1>11, <2>2, <2>3
  <1> QED BY <1>6, <1>8, <1>9, <1>12, <1>13 DEF IdsOwned, Making, Creating, Belongs

\* A restart keeps what belongs to the groups by their files.
LEMMA RestartOwned ==
  ASSUME Typed, SnapshotsTrue, IdsOwned, AddressesOwned, Restart
  PROVE  SnapshotsTrue' /\ IdsOwned'
  <1>1. /\ files' = files /\ request' = [c \in Clients |-> Idle]
    BY DEF Restart
  <1>2. \A c \in Clients :
          ~Writing(request'[c]) /\ ~Making(request'[c]) /\ ~Creating(request'[c])
    BY <1>1, NewRequest DEF Writing, Making, Creating
  <1>3. \A g \in Kept : \A e \in DOMAIN files[g].snapshot.resources :
          /\ e \in Registered' /\ made'[e] = made[e] /\ engines'[e].group = g
    <2>1. \A g \in Kept : \A e \in DOMAIN files[g].snapshot.resources :
            engines'[e] = [group |-> g, name |-> files[g].snapshot.resources[e].name]
      BY RestoredMaps
    <2>2. ASSUME NEW g \in Kept, NEW e \in DOMAIN files[g].snapshot.resources
          PROVE  engines'[e].group = g
      <3>1. PICK n : engines'[e] = [group |-> g, name |-> n]
        BY <2>1
      <3> QED BY <3>1
    <2> QED BY <2>2, RestoredMaps
  <1>4. DOMAIN made' = Registered'
    BY RestoredMaps
  <1>5. \A e \in Registered' : \E g \in Kept : e \in DOMAIN files[g].snapshot.resources
    BY RestoredMaps
  <1>6. \A e, g : g \in GroupIds /\ Belongs(e, g)' => Belongs(e, g)
    <2>1. \A e \in Registered' : Belongs(e, engines'[e].group)
      BY <1>3, <1>5 DEF Belongs, Kept
    <2> QED BY <1>1, <1>2, <2>1 DEF Belongs, Writing
  <1>7. SnapshotsTrue'
    <2>1. \A g \in Kept : \A e \in DOMAIN files[g].snapshot.resources :
            e \in DOMAIN made' /\ files[g].snapshot.resources[e].config = made'[e]
      BY <1>3, <1>4 DEF SnapshotsTrue, True, Kept
    <2> QED BY <1>1, <1>2, <2>1 DEF SnapshotsTrue, True, Kept, Writing
  <1>8. \A e \in DOMAIN made' : e < next_seq'
    BY <1>4, RestoredCounters
  <1>9. \A e \in EngineIds, g, h \in GroupIds : Belongs(e, g)' /\ Belongs(e, h)' => g = h
    BY <1>6 DEF IdsOwned
  <1> QED BY <1>2, <1>7, <1>8, <1>9 DEF IdsOwned, Making, Creating, Belongs

-----------------------------------------------------------------------------
\* The factories' counters only matter where they are used.
LEMMA AddressesFrame ==
  ASSUME AddressesOwned, UNCHANGED <<made, next_port, next_addr, spent>>,
         \A d \in Clients : Asked(request'[d]) => request'[d] = request[d]
  PROVE  AddressesOwned'
  <1>1. PortsOwned'
    BY DEF AddressesOwned, PortsOwned, Apart
  <1>2. OctetsOwned'
    BY DEF AddressesOwned, OctetsOwned
  <1> QED BY <1>1, <1>2 DEF AddressesOwned

\* Of two ports that are apart, the other order is apart, too; and one behind the counter
\* is apart from what the counter gives, and behind it after.
LEMMA ApartPorts ==
  ASSUME NEW k \in Kinds, NEW p \in Nat, NEW n \in Nat
  PROVE  /\ Apart(p, n, k) <=> Apart(n, p, k)
         /\ p + Step[k] <= n => Apart(p, n, k) /\ p + Step[k] <= n + Step[k]
         /\ n + Step[k] \in Nat
  BY RegistryAssumption DEF Apart

\* What a request asks for.
LEMMA AskedType ==
  ASSUME Typed, NEW d \in Clients, Asked(request[d])
  PROVE  request[d].kind \in Kinds /\ request[d].port \in Nat /\ request[d].engine \in EngineIds
  BY RequestType DEF Typed, Asked

\* take_port's port is past everything that was given before.
LEMMA PortAddresses ==
  ASSUME Typed, AddressesOwned, NEW c \in Clients, take_port(c)
  PROVE  AddressesOwned'
  <1>1. request[c] \in Request /\ request[c].step = "port" /\ request \in [Clients -> Request]
    BY DEF Typed, take_port, Go
  <1>2. PICK k \in Kinds : k = request[c].kind
    BY <1>1, RequestType
  <1>3. PICK n \in Nat : n = next_port[k]
    BY DEF Typed, RegistryTyped
  <1>4. /\ next_port' = [next_port EXCEPT ![k] = @ + Step[k]]
        /\ UNCHANGED <<made, next_addr, spent>>
    BY <1>2 DEF take_port, resolve_port
  <1>5. /\ \A d \in Clients \ {c} : request'[d] = request[d]
        /\ Asked(request'[c]) /\ request'[c].kind = k /\ request'[c].port = n
    BY <1>1, <1>2, <1>3 DEF take_port, Go, Asked
  <1>6. /\ next_port'[k] = n + Step[k] /\ \A i \in Kinds \ {k} : next_port'[i] = next_port[i]
    BY <1>3, <1>4 DEF Typed, RegistryTyped
  <1>7. ASSUME NEW i \in Kinds, NEW p \in Nat, p + Step[i] <= next_port[i]
        PROVE  p + Step[i] <= next_port'[i] /\ (i = k => Apart(p, n, k) /\ Apart(n, p, k))
    <2>1. CASE i = k
      BY <1>3, <1>6, <1>7, <2>1, ApartPorts
    <2>2. CASE i # k
      BY <1>6, <1>7, <2>2
    <2> QED BY <2>1, <2>2
  <1>8. \A e \in DOMAIN made : made[e].kind \in Kinds /\ made[e].port \in Nat
    BY DEF Typed, RegistryTyped, Config
  <1>9. ASSUME NEW e \in DOMAIN made
        PROVE  /\ made[e].port + Step[made[e].kind] <= next_port'[made[e].kind]
               /\ made[e].kind = k => Apart(made[e].port, n, k)
    <2>1. made[e].port + Step[made[e].kind] <= next_port[made[e].kind]
      BY DEF AddressesOwned, PortsOwned
    <2> QED BY <1>7, <1>8, <2>1
  <1>10. ASSUME NEW d \in Clients \ {c}, Asked(request[d])
         PROVE  /\ request[d].port + Step[request[d].kind] <= next_port'[request[d].kind]
                /\ request[d].kind = k =>
                     Apart(request[d].port, n, k) /\ Apart(n, request[d].port, k)
    <2>1. request[d].port + Step[request[d].kind] <= next_port[request[d].kind]
      BY <1>10 DEF AddressesOwned, PortsOwned
    <2>2. request[d].kind \in Kinds /\ request[d].port \in Nat
      BY <1>10, AskedType
    <2> QED BY <1>7, <2>1, <2>2
  <1>11. n + Step[k] <= next_port'[k]
    BY <1>3, <1>6, ApartPorts
  <1>12. \A e \in DOMAIN made' :
           made'[e].port + Step[made'[e].kind] <= next_port'[made'[e].kind]
    BY <1>4, <1>9
  <1>13. \A e, f \in DOMAIN made' : e # f /\ made'[e].kind = made'[f].kind =>
           Apart(made'[e].port, made'[f].port, made'[e].kind)
    BY <1>4 DEF AddressesOwned, PortsOwned
  <1>14. ASSUME NEW d \in Clients, Asked(request'[d])
         PROVE  /\ request'[d].port + Step[request'[d].kind] <= next_port'[request'[d].kind]
                /\ \A e \in DOMAIN made' : made'[e].kind = request'[d].kind =>
                     Apart(made'[e].port, request'[d].port, request'[d].kind)
                /\ \A x \in Clients \ {d} :
                     Asked(request'[x]) /\ request'[x].kind = request'[d].kind =>
                       Apart(request'[x].port, request'[d].port, request'[d].kind)
    <2>1. CASE d = c
      BY <1>4, <1>5, <1>9, <1>10, <1>11, <2>1
    <2>2. CASE d # c
      <3>1. request'[d] = request[d] /\ Asked(request[d])
        BY <1>5, <1>14, <2>2
      <3>2. \A e \in DOMAIN made : made[e].kind = request[d].kind =>
              Apart(made[e].port, request[d].port, request[d].kind)
        BY <3>1 DEF AddressesOwned, PortsOwned
      <3>3. \A x \in Clients \ {d} : Asked(request[x]) /\ request[x].kind = request[d].kind =>
              Apart(request[x].port, request[d].port, request[d].kind)
        BY <3>1 DEF AddressesOwned, PortsOwned
      <3>4. request[d].kind = k => Apart(n, request[d].port, k)
        BY <1>10, <2>2, <3>1
      <3>5. request[d].port + Step[request[d].kind] <= next_port'[request[d].kind]
        BY <1>10, <2>2, <3>1
      <3>6. ASSUME NEW x \in Clients \ {d}, Asked(request'[x]),
                   request'[x].kind = request[d].kind
            PROVE  Apart(request'[x].port, request[d].port, request[d].kind)
        <4>1. CASE x = c
          BY <1>5, <3>4, <3>6, <4>1
        <4>2. CASE x # c
          BY <1>5, <3>3, <3>6, <4>2
        <4> QED BY <4>1, <4>2
      <3> QED BY <1>4, <3>1, <3>2, <3>5, <3>6
    <2> QED BY <2>1, <2>2
  <1>15. PortsOwned'
    BY <1>12, <1>13, <1>14 DEF PortsOwned, Apart, Asked
  <1>16. OctetsOwned'
    BY <1>4 DEF AddressesOwned, OctetsOwned
  <1> QED BY <1>15, <1>16 DEF AddressesOwned

\* take_octet's is past those given before, as long as none has wrapped.
LEMMA OctetAddresses ==
  ASSUME Typed, IdsOwned, AddressesOwned, NEW c \in Clients, take_octet(c)
  PROVE  AddressesOwned'
  <1>1. PICK n \in EngineIds, h \in GroupIds, b \in Config :
          /\ request[c].step = "octet" /\ n = request[c].engine
          /\ b.kind = request[c].kind /\ b.port = request[c].port
          /\ b.kind = ServiceBus => b.addr = IF next_addr = 0 THEN 1 ELSE next_addr
          /\ request' = [request EXCEPT ![c] = [step |-> "start_new", engine |-> n, group |-> h]]
          /\ made' = With(made, n, b)
          /\ next_addr' = IF b.kind = ServiceBus THEN (next_addr + 1) % Span ELSE next_addr
          /\ spent' = (spent \/ (b.kind = ServiceBus /\ next_addr = Span - 1))
          /\ UNCHANGED next_port
    BY OctetStep
  <1>2. n \notin DOMAIN made
    BY <1>1 DEF IdsOwned, Making
  <1>3. /\ DOMAIN made' = DOMAIN made \cup {n} /\ made'[n] = b
        /\ \A e \in DOMAIN made : made'[e] = made[e]
    BY <1>1, <1>2 DEF With
  <1>4. /\ \A d \in Clients \ {c} : request'[d] = request[d]
        /\ Asked(request[c]) /\ ~Asked(request'[c])
    BY <1>1 DEF Typed, Asked
  <1>5. b.kind \in Kinds /\ b.port \in Nat /\ \A e \in DOMAIN made : made[e].port \in Nat
    BY DEF Config, Typed, RegistryTyped
  <1>6. /\ b.port + Step[b.kind] <= next_port[b.kind]
        /\ \A e \in DOMAIN made : made[e].kind = b.kind =>
             Apart(made[e].port, b.port, b.kind) /\ Apart(b.port, made[e].port, b.kind)
    <2>1. /\ b.port + Step[b.kind] <= next_port[b.kind]
          /\ \A e \in DOMAIN made : made[e].kind = b.kind => Apart(made[e].port, b.port, b.kind)
      BY <1>1, <1>4 DEF AddressesOwned, PortsOwned
    <2> QED BY <1>5, <2>1, ApartPorts
  <1>7. \A d \in Clients \ {c} : Asked(request[d]) /\ request[d].kind = b.kind =>
          Apart(b.port, request[d].port, b.kind)
    <2>1. \A d \in Clients \ {c} : Asked(request[d]) /\ request[d].kind = b.kind =>
            Apart(request[d].port, b.port, b.kind)
      BY <1>1, <1>4 DEF AddressesOwned, PortsOwned
    <2> QED BY <1>5, <2>1, AskedType, ApartPorts
  <1>8. \A e \in DOMAIN made' :
          made'[e].port + Step[made'[e].kind] <= next_port'[made'[e].kind]
    BY <1>1, <1>3, <1>6 DEF AddressesOwned, PortsOwned
  <1>9. ASSUME NEW e \in DOMAIN made', NEW f \in DOMAIN made', e # f,
               made'[e].kind = made'[f].kind
        PROVE  Apart(made'[e].port, made'[f].port, made'[e].kind)
    <2>1. CASE e = n
      BY <1>3, <1>6, <1>9, <2>1
    <2>2. CASE f = n
      BY <1>3, <1>6, <1>9, <2>2
    <2>3. CASE e # n /\ f # n
      <3>1. e \in DOMAIN made /\ f \in DOMAIN made /\ made'[e] = made[e] /\ made'[f] = made[f]
        BY <1>3, <2>3
      <3> QED BY <1>9, <3>1 DEF AddressesOwned, PortsOwned
    <2> QED BY <2>1, <2>2, <2>3
  <1>10. ASSUME NEW d \in Clients, Asked(request'[d])
         PROVE  /\ request'[d].port + Step[request'[d].kind] <= next_port'[request'[d].kind]
                /\ \A e \in DOMAIN made' : made'[e].kind = request'[d].kind =>
                     Apart(made'[e].port, request'[d].port, request'[d].kind)
                /\ \A x \in Clients \ {d} :
                     Asked(request'[x]) /\ request'[x].kind = request'[d].kind =>
                       Apart(request'[x].port, request'[d].port, request'[d].kind)
    <2>1. d # c /\ request'[d] = request[d] /\ Asked(request[d])
      BY <1>4, <1>10
    <2>2. /\ request[d].port + Step[request[d].kind] <= next_port[request[d].kind]
          /\ \A e \in DOMAIN made : made[e].kind = request[d].kind =>
               Apart(made[e].port, request[d].port, request[d].kind)
          /\ \A x \in Clients \ {d} : Asked(request[x]) /\ request[x].kind = request[d].kind =>
               Apart(request[x].port, request[d].port, request[d].kind)
      BY <2>1 DEF AddressesOwned, PortsOwned
    <2>3. \A x \in Clients : Asked(request'[x]) => request'[x] = request[x]
      BY <1>4
    <2>4. ASSUME NEW e \in DOMAIN made', made'[e].kind = request[d].kind
          PROVE  Apart(made'[e].port, request[d].port, request[d].kind)
      <3>1. CASE e = n
        BY <1>3, <1>7, <2>1, <2>4, <3>1
      <3>2. CASE e # n
        BY <1>3, <2>2, <2>4, <3>2
      <3> QED BY <3>1, <3>2
    <2> QED BY <1>1, <2>1, <2>2, <2>3, <2>4
  <1>11. PortsOwned'
    BY <1>8, <1>9, <1>10 DEF PortsOwned, Apart, Asked
  <1>12. OctetsOwned'
    <2> SUFFICES ASSUME ~spent'
                 PROVE  /\ 2 <= next_addr'
                        /\ \A e \in DOMAIN made' :
                             made'[e].kind = ServiceBus => made'[e].addr < next_addr'
                        /\ \A e, f \in DOMAIN made' :
                             e # f /\ made'[e].kind = ServiceBus /\ made'[f].kind = ServiceBus =>
                               made'[e].addr # made'[f].addr
      BY DEF OctetsOwned
    <2>1. ~spent /\ (b.kind = ServiceBus => next_addr # Span - 1)
      BY <1>1
    <2>2. /\ 2 <= next_addr
          /\ \A e \in DOMAIN made : made[e].kind = ServiceBus => made[e].addr < next_addr
          /\ \A e, f \in DOMAIN made :
               e # f /\ made[e].kind = ServiceBus /\ made[f].kind = ServiceBus =>
                 made[e].addr # made[f].addr
      BY <2>1 DEF AddressesOwned, OctetsOwned
    <2>3. PICK a \in 0..(Span - 1) : a = next_addr
      BY DEF Typed, RegistryTyped
    <2>4. PICK z \in Nat : z = next_addr' /\ z = IF b.kind = ServiceBus THEN a + 1 ELSE a
      <3>1. b.kind = ServiceBus => (a + 1) % Span = a + 1
        BY <2>1, <2>3, OctetType
      <3>2. a \in Nat /\ a + 1 \in Nat
        BY <2>3, RegistryAssumption
      <3> QED BY <1>1, <2>3, <3>1, <3>2
    <2>5. /\ a \in Nat /\ 2 <= a /\ (b.kind = ServiceBus => b.addr = a /\ b.addr < z) /\ a <= z
      BY <1>1, <2>2, <2>3, <2>4, RegistryAssumption
    <2>6. \A e \in DOMAIN made : made[e].addr \in Nat
      BY RegistryAssumption DEF Typed, RegistryTyped, Config
    <2>7. \A e \in DOMAIN made' : made'[e].kind = ServiceBus => made'[e].addr < z
      BY <1>3, <2>2, <2>3, <2>4, <2>5, <2>6
    <2>8. \A e \in DOMAIN made : made[e].kind = ServiceBus /\ b.kind = ServiceBus =>
            made[e].addr # b.addr
      BY <2>2, <2>3, <2>5, <2>6
    <2>9. 2 <= z
      BY <2>4, <2>5
    <2>10. \A e, f \in DOMAIN made' :
             e # f /\ made'[e].kind = ServiceBus /\ made'[f].kind = ServiceBus =>
               made'[e].addr # made'[f].addr
      BY <1>3, <2>2, <2>8
    <2> QED BY <2>4, <2>7, <2>9, <2>10
  <1> QED BY <1>11, <1>12 DEF AddressesOwned

\* After a restart the counters are past everything that came back.
LEMMA RestartAddresses ==
  ASSUME Typed, SnapshotsTrue, IdsOwned, AddressesOwned, Restart
  PROVE  AddressesOwned'
  <1>1. /\ DOMAIN made' = Registered' /\ \A e \in Registered' : made'[e] = made[e]
        /\ Registered' \subseteq DOMAIN made
    BY RestoredMaps
  <1>2. /\ Span \in Nat /\ Span > 2
        /\ \A e \in Registered' : made'[e].addr \in 0..(Span - 1)
    BY <1>1, RegistryAssumption DEF Typed, RegistryTyped, Config
  <1>3. \A e \in DOMAIN made' :
          made'[e].port + Step[made'[e].kind] <= next_port'[made'[e].kind]
    BY <1>1, RestoredCounters
  <1>4. \A e, f \in DOMAIN made' : e # f /\ made'[e].kind = made'[f].kind =>
          Apart(made'[e].port, made'[f].port, made'[e].kind)
    BY <1>1 DEF AddressesOwned, PortsOwned
  <1>5. \A c \in Clients : ~Asked(request'[c])
    BY NewRequest DEF Restart, Asked
  <1>6. next_addr' \in 2..(Span - 1) /\ spent' = spent
    BY RestoredCounters DEF Restart, restore
  <1>7. PortsOwned'
    BY <1>3, <1>4, <1>5 DEF PortsOwned, Apart, Asked
  <1>8. OctetsOwned'
    <2> SUFFICES ASSUME ~spent
                 PROVE  /\ 2 <= next_addr'
                        /\ \A e \in DOMAIN made' :
                             made'[e].kind = ServiceBus => made'[e].addr < next_addr'
                        /\ \A e, f \in DOMAIN made' :
                             e # f /\ made'[e].kind = ServiceBus /\ made'[f].kind = ServiceBus =>
                               made'[e].addr # made'[f].addr
      BY <1>6 DEF OctetsOwned
    <2>1. PICK a \in 0..(Span - 1) : a = next_addr
      BY DEF Typed, RegistryTyped
    <2>2. \A e \in DOMAIN made : made[e].kind = ServiceBus => made[e].addr < a
      BY <2>1 DEF AddressesOwned, OctetsOwned
    <2>3. ASSUME NEW e \in Registered', made'[e].kind = ServiceBus
          PROVE  made'[e].addr < next_addr'
      <3>1. PICK x \in 0..(Span - 1) : x = made'[e].addr
        BY <1>2
      <3>2. x < a
        BY <1>1, <2>2, <2>3, <3>1
      <3>3. AtMost(x + 1, Span - 1) = x + 1
        BY <1>2, <2>1, <3>1, <3>2 DEF AtMost
      <3>4. AtMost(x + 1, Span - 1) <= next_addr'
        BY <2>3, <3>1, RestoredCounters
      <3> QED BY <1>2, <1>6, <3>1, <3>3, <3>4
    <2>4. 2 <= next_addr'
      BY <1>2, <1>6
    <2>5. \A e, f \in DOMAIN made' :
            e # f /\ made'[e].kind = ServiceBus /\ made'[f].kind = ServiceBus =>
              made'[e].addr # made'[f].addr
      BY <1>1 DEF AddressesOwned, OctetsOwned
    <2> QED BY <1>1, <2>3, <2>4, <2>5
  <1> QED BY <1>7, <1>8 DEF AddressesOwned

-----------------------------------------------------------------------------
\* What the history's operators say of requests, by their step.
LEMMA DoesType ==
  ASSUME NEW r, NEW e \in EngineIds, NEW g
  PROVE  /\ e \in Starts(r) <=> r.step = "start" /\ e \in r.todo
         /\ e \in Removes(r) <=> \/ r.step \in {"empty", "stop_next"} /\ e \in r.todo
                                 \/ r.step = "remove" /\ e = r.engine
         /\ e \in Creates(r) <=> r.step \in {"port", "octet", "start_new", "insert"} /\ e = r.engine
         /\ g \in Deletes(r) <=> r.step \in {"empty", "stop_next"} /\ g = r.group
  BY DEF Starts, Removes, Creates, Deletes

\* Where client c's request q goes on as r, with at most as much to do, and what it no
\* longer holds is stopped or registered.
Shrinks(e, q, r) ==
  /\ e \in Starts(r) => e \in Starts(q)
  /\ e \in Removes(r) => e \in Removes(q)
  /\ e \in Creates(r) => e \in Creates(q) /\ r.group = q.group
  /\ \A g \in Deletes(r) : g \in Deletes(q) /\ r.todo \subseteq q.todo
LEMMA ReachGo ==
  ASSUME Typed, NEW e \in EngineIds, Reach(e), NEW c \in Clients, NEW q, NEW r,
         q = request[c], r = request'[c], \A d \in Clients \ {c} : request'[d] = request[d],
         Shrinks(e, q, r),
         e \in running' \ Registered' =>
           \/ Holding(r) /\ e = r.engine
           \/ e \in running \ Registered /\ ~(Holding(q) /\ e = q.engine),
         e \in Registered \ Registered' => e \in Removes(q),
         e \in Registered' =>
           \/ e \in Registered /\ engines'[e].group = engines[e].group
           \/ e \in Creates(q) /\ engines'[e].group = q.group,
         \A g \in DOMAIN groups \ DOMAIN groups' : g \in Deletes(q) /\ q.todo = {},
         \A g \in Deletes(r) : e \in q.todo \ r.todo => e \notin Registered'
  PROVE  Reach(e)'
  <1>1. e \in running' => e \in Registered' \/ Held(e)'
    <2> SUFFICES ASSUME e \in running', e \notin Registered' PROVE Held(e)'
      OBVIOUS
    <2>1. CASE Holding(r) /\ e = r.engine
      BY <2>1 DEF Held, Holding
    <2>2. CASE e \in running \ Registered /\ ~(Holding(q) /\ e = q.engine)
      <3>1. PICK d \in Clients : Holding(request[d]) /\ e = request[d].engine
        BY <2>2 DEF Reach, Held
      <3>2. d # c /\ request'[d] = request[d]
        BY <2>2, <3>1
      <3> QED BY <3>1, <3>2 DEF Held, Holding
    <2> QED BY <2>1, <2>2
  <1>2. \A d \in Clients : /\ e \in Starts(request'[d]) => e \in Starts(request[d])
                           /\ e \in Removes(request'[d]) => e \in Removes(request[d])
                           /\ e \in Creates(request'[d]) =>
                                e \in Creates(request[d]) /\ request'[d].group = request[d].group
                           /\ \A g \in Deletes(request'[d]) : g \in Deletes(request[d])
    BY DEF Shrinks
  <1>3. ASSUME NEW d \in Clients, e \in Starts(request'[d])
        PROVE  e \in Registered' /\ \A x \in Clients : e \notin Removes(request'[x])
    <2>1. e \in Registered /\ \A x \in Clients : e \notin Removes(request[x])
      BY <1>2, <1>3 DEF Reach
    <2> QED BY <1>2, <2>1
  <1>4. ASSUME NEW d \in Clients, e \in Creates(request'[d])
        PROVE  /\ request'[d].group \in DOMAIN groups'
               /\ \A x \in Clients : request'[d].group \notin Deletes(request'[x])
    <2>1. PICK g : g = request[d].group /\ g = request'[d].group
      BY <1>2, <1>4
    <2>2. g \in DOMAIN groups /\ \A x \in Clients : g \notin Deletes(request[x])
      BY <1>2, <1>4, <2>1 DEF Reach
    <2> QED BY <1>2, <2>1, <2>2
  <1>5. ASSUME e \in Registered'
        PROVE  /\ engines'[e].group \in DOMAIN groups'
               /\ \A x \in Clients :
                    engines'[e].group \in Deletes(request'[x]) => e \in request'[x].todo
    <2>1. CASE e \in Registered /\ engines'[e].group = engines[e].group
      <3>1. PICK g : g = engines[e].group /\ g = engines'[e].group
        BY <2>1
      <3>2. /\ g \in DOMAIN groups
            /\ \A x \in Clients : g \in Deletes(request[x]) => e \in request[x].todo
        BY <2>1, <3>1 DEF Reach
      <3>3. g \in DOMAIN groups'
        BY <3>2
      <3>4. ASSUME NEW x \in Clients, g \in Deletes(request'[x]) PROVE e \in request'[x].todo
        <4>1. e \in request[x].todo
          BY <1>2, <3>2, <3>4
        <4> QED BY <1>5, <3>4, <4>1
      <3> QED BY <3>1, <3>3, <3>4
    <2>2. CASE e \in Creates(q) /\ engines'[e].group = q.group
      <3>1. PICK g : g = q.group
        OBVIOUS
      <3>2. g \in DOMAIN groups /\ \A x \in Clients : g \notin Deletes(request[x])
        BY <2>2, <3>1 DEF Reach
      <3> QED BY <1>2, <2>2, <3>1, <3>2
    <2> QED BY <1>5, <2>1, <2>2
  <1> QED BY <1>1, <1>3, <1>4, <1>5 DEF Reach

\* Where a request begins with r left to do, which starts what is registered, creates in a
\* group there is, and is to remove what it finds in a group; what requests fight about
\* is contested from then on.
LEMMA ReachBegin ==
  ASSUME Typed, NEW e \in EngineIds, Reach(e), NEW c \in Clients, NEW r, Begin(c, r),
         e \notin contested', UNCHANGED running, Registered' = Registered,
         \A x \in Registered : engines'[x].group = engines[x].group,
         DOMAIN groups \subseteq DOMAIN groups',
         e \in Starts(r) => e \in Registered /\ e \notin Removes(r),
         e \in Creates(r) => r.group \in DOMAIN groups /\ r.group \notin Deletes(r),
         \A g \in Deletes(r) : InGroup(g) \subseteq r.todo
  PROVE  Reach(e)'
  <1>1. /\ request[c] = Idle /\ request'[c] = r
        /\ \A d \in Clients \ {c} : request'[d] = request[d]
    BY DEF Begin, Typed
  <1>2. \A d \in Clients : e \notin Fought(r, request[d]) /\ e \notin Fought(request[d], r)
    BY DEF Begin
  <1>3. ASSUME NEW d \in Clients
        PROVE  /\ ~(e \in Starts(r) /\ e \in Removes(request[d]))
               /\ ~(e \in Starts(request[d]) /\ e \in Removes(r))
               /\ ~(e \in Creates(r) /\ r.group \in Deletes(request[d]))
               /\ ~(e \in Creates(request[d]) /\ request[d].group \in Deletes(r))
    BY <1>2 DEF Fought
  <1>4. e \in running' => e \in Registered' \/ Held(e)'
    <2> SUFFICES ASSUME e \in running, e \notin Registered PROVE Held(e)'
      OBVIOUS
    <2>1. PICK d \in Clients : Holding(request[d]) /\ e = request[d].engine
      BY DEF Reach, Held
    <2>2. d # c
      BY <1>1, <2>1, NewRequest DEF Holding
    <2> QED BY <1>1, <2>1, <2>2 DEF Held, Holding
  <1>5. ASSUME NEW d \in Clients, e \in Starts(request'[d])
        PROVE  e \in Registered' /\ \A x \in Clients : e \notin Removes(request'[x])
    <2>1. CASE d = c
      BY <1>1, <1>3, <1>5, <2>1
    <2>2. CASE d # c
      <3>1. e \in Starts(request[d])
        BY <1>1, <1>5, <2>2
      <3>2. e \in Registered /\ \A x \in Clients : e \notin Removes(request[x])
        BY <3>1 DEF Reach
      <3> QED BY <1>1, <1>3, <3>1, <3>2
    <2> QED BY <2>1, <2>2
  <1>6. ASSUME NEW d \in Clients, e \in Creates(request'[d])
        PROVE  /\ request'[d].group \in DOMAIN groups'
               /\ \A x \in Clients : request'[d].group \notin Deletes(request'[x])
    <2>1. CASE d = c
      BY <1>1, <1>3, <1>6, <2>1
    <2>2. CASE d # c
      <3>1. e \in Creates(request[d]) /\ request'[d] = request[d]
        BY <1>1, <1>6, <2>2
      <3>2. /\ request[d].group \in DOMAIN groups
            /\ \A x \in Clients : request[d].group \notin Deletes(request[x])
        BY <3>1 DEF Reach
      <3> QED BY <1>1, <1>3, <3>1, <3>2
    <2> QED BY <2>1, <2>2
  <1>7. ASSUME e \in Registered'
        PROVE  /\ engines'[e].group \in DOMAIN groups'
               /\ \A x \in Clients :
                    engines'[e].group \in Deletes(request'[x]) => e \in request'[x].todo
    <2>1. PICK g : g = engines[e].group /\ g = engines'[e].group /\ e \in InGroup(g)
      BY <1>7 DEF InGroup
    <2>2. /\ g \in DOMAIN groups
          /\ \A x \in Clients : g \in Deletes(request[x]) => e \in request[x].todo
      BY <1>7, <2>1 DEF Reach
    <2> QED BY <1>1, <2>1, <2>2
  <1> QED BY <1>4, <1>5, <1>6, <1>7 DEF Reach

\* The steps with which requests begin.
LEMMA ReachBegins ==
  ASSUME Typed, NEW x \in EngineIds, Reach(x), NEW c \in Clients, NEW g \in GroupIds,
         NEW e \in EngineIds, NEW k \in Kinds, NEW S \in SUBSET Registered, x \notin contested',
         \/ create_resource_group(c) \/ rename_resource_group(c, g)
         \/ delete_resource_group(c, g) \/ create_engine(c, k, g) \/ delete_engine(c, e)
         \/ rename_engine(c, e) \/ start_engines(c, S) \/ stop_engines(c, S)
  PROVE  Reach(x)'
  <1>a. \A q, h : q.step \in {"snapshot", "group_of", "stop"} =>
          x \notin Starts(q) /\ x \notin Creates(q) /\ h \notin Deletes(q)
    BY DoesType
  <1>1. CASE create_resource_group(c)
    <2>1. PICK h \in GroupIds : h = next_group_seq
      BY <1>1 DEF create_resource_group, create_group
    <2>2. /\ Begin(c, Persist(h)) /\ Persist(h).step = "snapshot"
          /\ UNCHANGED <<running, engines>> /\ DOMAIN groups \subseteq DOMAIN groups'
      BY <1>1, <2>1, NewRequest DEF create_resource_group, create_group, With
    <2> QED BY <1>a, <2>2, ReachBegin DEF Registered
  <1>2. CASE rename_resource_group(c, g)
    <2>1. /\ Begin(c, Persist(g)) /\ Persist(g).step = "snapshot"
          /\ UNCHANGED <<running, engines>> /\ DOMAIN groups \subseteq DOMAIN groups'
      BY <1>2, NewRequest DEF rename_resource_group, rename_group
    <2> QED BY <1>a, <2>1, ReachBegin DEF Registered
  <1>3. CASE delete_resource_group(c, g)
    <2>1. PICK r : /\ Begin(c, r) /\ r.step = "empty" /\ r.group = g /\ r.todo = InGroup(g)
                   /\ UNCHANGED <<running, engines, groups>>
      BY <1>3 DEF delete_resource_group, registryVars
    <2>2. x \notin Starts(r) /\ x \notin Creates(r) /\ \A h \in Deletes(r) : h = g
      BY <2>1, DoesType
    <2> QED BY <2>1, <2>2, ReachBegin DEF Registered
  <1>4. CASE create_engine(c, k, g)
    <2>1. PICK r : /\ Begin(c, r) /\ r.step = "port" /\ r.group = g /\ g \in DOMAIN groups
                   /\ UNCHANGED <<running, engines, groups>>
      BY <1>4 DEF create_engine, create
    <2>2. x \notin Starts(r) /\ \A h : h \notin Deletes(r)
      BY <2>1, DoesType
    <2> QED BY <2>1, <2>2, ReachBegin DEF Registered
  <1>5. CASE delete_engine(c, e)
    <2>1. PICK r : Begin(c, r) /\ r.step = "remove" /\ UNCHANGED <<running, engines, groups>>
      BY <1>5 DEF delete_engine, registryVars
    <2>2. x \notin Starts(r) /\ x \notin Creates(r) /\ \A h : h \notin Deletes(r)
      BY <2>1, DoesType
    <2> QED BY <2>1, <2>2, ReachBegin DEF Registered
  <1>6. CASE rename_engine(c, e)
    <2>1. PICK r : Begin(c, r) /\ r.step = "group_of"
      BY <1>6 DEF rename_engine, Renamed
    <2>2. /\ UNCHANGED <<running, groups>> /\ e \in Registered
          /\ engines' = [engines EXCEPT ![e].name = Changed]
      BY <1>6 DEF rename_engine, rename
    <2>3. Registered' = Registered /\ \A y \in Registered : engines'[y].group = engines[y].group
      BY <2>2 DEF Registered, Typed, RegistryTyped
    <2> QED BY <1>a, <2>1, <2>2, <2>3, ReachBegin
  <1>7. CASE start_engines(c, S)
    <2>1. PICK r : /\ Begin(c, r) /\ r.step = "start" /\ r.todo = S
                   /\ UNCHANGED <<running, engines, groups>>
      BY <1>7 DEF start_engines, registryVars
    <2>2. /\ x \in Starts(r) => x \in Registered /\ x \notin Removes(r)
          /\ x \notin Creates(r) /\ \A h : h \notin Deletes(r)
      BY <2>1, DoesType
    <2> QED BY <2>1, <2>2, ReachBegin DEF Registered
  <1>8. CASE stop_engines(c, S)
    <2>1. PICK r : /\ Begin(c, r) /\ r.step = "stop" /\ UNCHANGED <<running, engines, groups>>
      BY <1>8 DEF stop_engines, registryVars
    <2> QED BY <1>a, <2>1, ReachBegin DEF Registered
  <1> QED BY <1>1, <1>2, <1>3, <1>4, <1>5, <1>6, <1>7, <1>8

\* The steps that end requests, or bring them to where they hold no engine, and leave the
\* registry, but for what is built, alone.
LEMMA ReachQuiet ==
  ASSUME Typed, NEW x \in EngineIds, Reach(x), NEW c \in Clients,
         \/ Lookup(c) \/ Collect(c) \/ Truncate(c) \/ Write(c) \/ delete_group_file(c)
         \/ take_port(c) \/ take_octet(c) \/ group_of(c)
  PROVE  Reach(x)'
  <1>0. PICK q \in Request : q = request[c]
    BY DEF Typed
  <1>1. PICK r : q = request[c] /\ r = request'[c]
    BY <1>0
  <1>2. /\ \A d \in Clients \ {c} : request'[d] = request[d]
        /\ UNCHANGED <<running, engines, groups>>
    BY DEF Lookup, Collect, Truncate, Write, delete_group_file, take_port, take_octet, group_of,
           resolve_port, build, registryVars, Go, Typed
  <1>3. ~Holding(q)
    BY <1>1 DEF Lookup, Collect, Truncate, Write, delete_group_file, take_port, take_octet,
                group_of, Go, Holding
  <1>4. Shrinks(x, q, r) /\ \A g : g \notin Deletes(r)
    <2>1. CASE take_port(c) \/ take_octet(c)
      <3>1. /\ q.step \in {"port", "octet"} /\ r.step \in {"octet", "start_new"}
            /\ r.engine = q.engine /\ r.group = q.group
        BY <1>1, <2>1 DEF take_port, take_octet, Go, Typed
      <3> QED BY <3>1, DoesType DEF Shrinks
    <2>2. CASE Lookup(c) \/ Collect(c) \/ Write(c) \/ delete_group_file(c) \/ group_of(c)
      <3>1. r.step \in {"collect", "truncate", "idle", "snapshot"}
        BY <1>1, <2>2, NewRequest
        DEF Lookup, Collect, Write, delete_group_file, group_of, Go, Typed, Persist
      <3> QED BY <3>1, DoesType DEF Shrinks
    <2>3. CASE Truncate(c)
      <3>1. q = [step |-> "truncate", snapshot |-> q.snapshot]
        BY <1>1, <2>3, RequestType DEF Truncate, Go
      <3>2. r = [q EXCEPT !.step = "write"]
        BY <1>1, <2>3 DEF Truncate, Go, Typed
      <3>3. r.step = "write"
        BY <3>1, <3>2
      <3> QED BY <3>3, DoesType DEF Shrinks
    <2> QED BY <2>1, <2>2, <2>3
  <1>5. Registered' = Registered
    BY <1>2 DEF Registered
  <1> QED BY <1>1, <1>2, <1>3, <1>4, <1>5, ReachGo

\* The steps that start and stop engines, and change who has them.
LEMMA ReachMoved ==
  ASSUME Typed, NEW x \in EngineIds, Reach(x), NEW c \in Clients, NEW e \in EngineIds,
         \/ remove_next(c, e) \/ stop_next(c) \/ delete_group(c) \/ start_new(c)
         \/ insert_new(c) \/ remove(c) \/ stop_removed(c) \/ start_one(c, e) \/ stop_one(c, e)
  PROVE  Reach(x)'
  <1>0. PICK q \in Request : q = request[c]
    BY DEF Typed
  <1>1. PICK r : q = request[c] /\ r = request'[c]
    BY <1>0
  <1>2. \A d \in Clients \ {c} : request'[d] = request[d]
    BY DEF remove_next, stop_next, delete_group, start_new, insert_new, remove, stop_removed,
           start_one, stop_one, Go, Typed
  <1>3. CASE remove_next(c, e)
    <2>1. /\ q.step = "empty" /\ e \in q.todo /\ r.group = q.group /\ r.todo = q.todo \ {e}
          /\ r.step = "empty" \/ (r.step = "stop_next" /\ r.engine = e)
          /\ e \in Registered => r.step = "stop_next"
      BY <1>1, <1>3 DEF remove_next, Go, Typed
    <2>2. /\ UNCHANGED <<running, groups>> /\ Registered' = Registered \ {e}
          /\ \A y \in Registered' : engines'[y] = engines[y]
      BY <1>3 DEF remove_next, unregister, Drop, Restrict, Registered
    <2>3. Shrinks(x, q, r)
      BY <2>1, DoesType DEF Shrinks
    <2>4. e \in Registered => Holding(r) /\ r.engine = e
      BY <2>1 DEF Holding
    <2>5. ~Holding(q) /\ (x = e => x \in Removes(q))
      BY <2>1, DoesType DEF Holding
    <2> QED BY <1>1, <1>2, <2>1, <2>2, <2>3, <2>4, <2>5, ReachGo
  <1>4. CASE stop_next(c) \/ stop_removed(c)
    <2>1. /\ running' = running \ {q.engine} /\ UNCHANGED <<engines, groups>>
          /\ Registered' = Registered
      BY <1>1, <1>4 DEF stop_next, stop_removed, stop, Registered
    <2>2. \/ q.step = "stop_next" /\ r.step = "empty" /\ r.group = q.group /\ r.todo = q.todo
          \/ r.step = "snapshot"
      BY <1>1, <1>4, NewRequest DEF stop_next, stop_removed, Go, Typed, Persist
    <2>3. Shrinks(x, q, r) /\ \A g \in Deletes(r) : r.todo = q.todo
      BY <2>2, DoesType DEF Shrinks
    <2> QED BY <1>1, <1>2, <2>1, <2>3, ReachGo
  <1>5. CASE delete_group(c)
    <2>1. /\ q.step = "empty" /\ q.todo = {} /\ r.step = "unlink"
          /\ UNCHANGED <<running, engines>> /\ Registered' = Registered
          /\ DOMAIN groups' = DOMAIN groups \ {q.group}
      BY <1>1, <1>5
      DEF delete_group, retain_groups, Drop, Restrict, Go, Typed, Registered
    <2>2. /\ Shrinks(x, q, r) /\ ~Holding(q)
          /\ \A g : g \notin Deletes(r) /\ (g = q.group => g \in Deletes(q))
      BY <2>1, DoesType DEF Shrinks, Holding
    <2> QED BY <1>1, <1>2, <2>1, <2>2, ReachGo
  <1>6. CASE start_new(c)
    <2>1. /\ q.step = "start_new" /\ UNCHANGED <<engines, groups>> /\ Registered' = Registered
          /\ \/ running' = running \cup {q.engine} /\ r = [q EXCEPT !.step = "insert"]
             \/ running' = running /\ r = Idle
      BY <1>1, <1>6 DEF start_new, start, Go, Typed, registryVars, Registered
    <2>2. q \in [step : {"start_new"}, engine : EngineIds, group : GroupIds]
      BY <2>1 DEF Request, Idle
    <2>3. \/ /\ running' = running \cup {q.engine}
             /\ r.step = "insert" /\ r.engine = q.engine /\ r.group = q.group
          \/ running' = running /\ r.step = "idle"
      BY <2>1, <2>2, NewRequest
    <2>4. Shrinks(x, q, r) /\ \A g : g \notin Deletes(r)
      BY <2>1, <2>3, DoesType DEF Shrinks
    <2>5. ~Holding(q) /\ (r.step = "insert" => Holding(r))
      BY <2>1 DEF Holding
    <2> QED BY <1>1, <1>2, <2>1, <2>3, <2>4, <2>5, ReachGo
  <1>7. CASE insert_new(c)
    <2>1. /\ q.step = "insert" /\ r.step = "snapshot" /\ UNCHANGED <<running, groups>>
          /\ engines' = With(engines, q.engine, [group |-> q.group, name |-> Given])
      BY <1>1, <1>7, NewRequest DEF insert_new, insert, Go, Typed, Persist
    <2>2. /\ Registered' = Registered \cup {q.engine} /\ engines'[q.engine].group = q.group
          /\ \A y \in Registered \ {q.engine} : engines'[y] = engines[y]
      BY <2>1 DEF With, Registered
    <2>3. /\ Shrinks(x, q, r) /\ \A g : g \notin Deletes(r)
          /\ x = q.engine => x \in Creates(q)
      BY <2>1, DoesType DEF Shrinks
    <2> QED BY <1>1, <1>2, <2>1, <2>2, <2>3, ReachGo
  <1>8. CASE remove(c)
    <2>1. /\ q.step = "remove" /\ UNCHANGED <<running, groups>>
          /\ Registered' = Registered \ {q.engine}
          /\ \A y \in Registered' : engines'[y] = engines[y]
          /\ \/ q.engine \in Registered /\ r = [q EXCEPT !.step = "stop_removed"]
             \/ q.engine \notin Registered /\ r.step = "snapshot"
      BY <1>1, <1>8, NewRequest
      DEF remove, unregister, Drop, Restrict, Go, Typed, Registered, Persist
    <2>2. q \in [step : {"remove"}, engine : EngineIds, group : GroupIds]
      BY <2>1 DEF Request, Idle
    <2>3. \/ q.engine \in Registered /\ r.step = "stop_removed" /\ r.engine = q.engine
          \/ q.engine \notin Registered /\ r.step = "snapshot"
      BY <2>1, <2>2
    <2>4. /\ Shrinks(x, q, r) /\ \A g : g \notin Deletes(r)
          /\ x = q.engine => x \in Removes(q)
      BY <2>1, <2>3, DoesType DEF Shrinks
    <2>5. ~Holding(q) /\ (r.step = "stop_removed" => Holding(r))
      BY <2>1 DEF Holding
    <2> QED BY <1>1, <1>2, <2>1, <2>3, <2>4, <2>5, ReachGo
  <1>9. CASE start_one(c, e) \/ stop_one(c, e)
    <2>1. /\ q.step \in {"start", "stop"} /\ e \in q.todo /\ UNCHANGED <<engines, groups>>
          /\ Registered' = Registered
          /\ r = Idle \/ r = [q EXCEPT !.todo = @ \ {e}]
          /\ running' \subseteq running \/ (q.step = "start" /\ running' = running \cup {e})
      BY <1>1, <1>9
      DEF start_one, stop_one, start, stop, Go, Rest, Typed, registryVars, Registered
    <2>2. q \in [step : {"start", "stop"}, todo : SUBSET EngineIds]
      BY <2>1 DEF Request, Idle
    <2>3. r.step = "idle" \/ (r.step = q.step /\ r.todo = q.todo \ {e})
      BY <2>1, <2>2, NewRequest
    <2>4. Shrinks(x, q, r) /\ \A g : g \notin Deletes(r)
      BY <2>1, <2>3, DoesType DEF Shrinks
    <2>5. ~Holding(q)
      BY <2>1 DEF Holding
    <2>6. x = e /\ q.step = "start" => x \in Registered
      BY <1>1, <2>1, DoesType DEF Reach
    <2> QED BY <1>1, <1>2, <2>1, <2>4, <2>5, <2>6, ReachGo
  <1> QED BY <1>3, <1>4, <1>5, <1>6, <1>7, <1>8, <1>9

\* What is to be shown of a step that only adds to what is contested.
LEMMA ReachEach ==
  ASSUME ReachOwned, contested \subseteq contested',
         \A x \in EngineIds : x \notin contested' /\ Reach(x) => Reach(x)'
  PROVE  ReachOwned'
  <1>1. \A x \in EngineIds : x \notin contested' => Reach(x)'
    BY DEF ReachOwned
  <1> QED BY <1>1 DEF ReachOwned

\* After a restart every engine is in its group, and nothing runs.
LEMMA ReachRestart ==
  ASSUME Typed, SnapshotsTrue, IdsOwned, Restart
  PROVE  ReachOwned'
  <1>1. running' = {} /\ \A c \in Clients : request'[c] = Idle
    BY DEF Restart, restore
  <1>2. \A e \in Registered' : engines'[e].group \in DOMAIN groups'
    <2> SUFFICES ASSUME NEW e \in Registered' PROVE engines'[e].group \in DOMAIN groups'
      OBVIOUS
    <2>1. PICK h \in Kept : e \in DOMAIN files[h].snapshot.resources
      BY RestoredMaps
    <2>2. engines'[e] = [group |-> h, name |-> files[h].snapshot.resources[e].name]
      BY <2>1, RestoredMaps
    <2> QED BY <2>2, RestoredMaps
  <1>3. \A e \in EngineIds : \A g :
          e \notin Starts(Idle) /\ e \notin Creates(Idle) /\ g \notin Deletes(Idle)
    BY NewRequest, DoesType
  <1>4. ASSUME NEW e \in EngineIds PROVE Reach(e)'
    BY <1>1, <1>2, <1>3 DEF Reach
  <1> QED BY <1>4 DEF ReachOwned

-----------------------------------------------------------------------------
\* What is so before a step of a request that is alone: one that has begun, or begins
\* when there is none.
LEMMA AloneBefore ==
  ASSUME Typed, Alone, calm, NEW c \in Clients, NEW q, q = request[c],
         q.step # "idle" \/ \A d \in Clients : request[d] = Idle
  PROVE  /\ \A d \in Clients \ {c} : request[d] = Idle
         /\ Found(q) /\ \A g \in GroupIds : ~Behind(q, g) => InSync(g)
         /\ \A e \in Registered : engines[e].group \in DOMAIN groups
  <1>1. \A d \in Clients \ {c} : request[d] = Idle
    BY NewRequest DEF Alone
  <1>2. q \in Pending /\ \A p \in Pending : p = q \/ p = Idle
    BY <1>1 DEF Pending
  <1>3. Found(q) /\ \A e \in Registered : engines[e].group \in DOMAIN groups
    BY <1>2 DEF Alone
  <1>4. \A g : ~Behind(Idle, g)
    BY NewRequest DEF Behind, Writing
  <1>5. \A g \in GroupIds : ~Behind(q, g) => InSync(g)
    BY <1>2, <1>4 DEF Alone
  <1> QED BY <1>1, <1>3, <1>5

\* And what is to be shown after it.
LEMMA AloneAfter ==
  ASSUME NEW c \in Clients, \A d \in Clients \ {c} : request'[d] = Idle,
         NEW r, r = request'[c], Found(r)',
         \A g \in GroupIds : ~Behind(r, g)' => InSync(g)',
         \A e \in Registered' : engines'[e].group \in DOMAIN groups'
  PROVE  Alone'
  <1>1. r \in Pending' /\ \A p \in Pending' : p = r \/ p = Idle
    BY DEF Pending
  <1>2. Found(Idle)'
    BY NewRequest DEF Found, Writing
  <1>3. \A p \in Pending' : Found(p)'
    BY <1>1, <1>2
  <1>4. \A d, e \in Clients : d # e => request'[d] = Idle \/ request'[e] = Idle
    OBVIOUS
  <1> QED BY <1>1, <1>3, <1>4 DEF Alone

\* The file of a group is still in sync where neither the group nor the file changes.
LEMMA SyncFrame ==
  ASSUME NEW g \in GroupIds, InSync(g),
         g \in DOMAIN groups <=> g \in DOMAIN groups',
         g \in DOMAIN groups => groups'[g] = groups[g],
         files'[g] = files[g], Resources(g)' = Resources(g)
  PROVE  InSync(g)'
  BY DEF InSync, Current

\* What is in a group is the same where its engines are.
LEMMA ResourcesFrame ==
  ASSUME NEW g \in GroupIds,
         \A e : e \in Registered' /\ engines'[e].group = g
                  <=> e \in Registered /\ engines[e].group = g,
         \A e \in Registered : engines[e].group = g =>
           engines'[e].name = engines[e].name /\ made'[e] = made[e]
  PROVE  Resources(g)' = Resources(g) /\ InGroup(g)' = InGroup(g)
  <1>1. InGroup(g)' = InGroup(g)
    BY DEF InGroup
  <1>2. \A e \in InGroup(g) : engines'[e].name = engines[e].name /\ made'[e] = made[e]
    BY DEF InGroup
  <1> QED BY <1>1, <1>2 DEF Resources

\* A step that leaves groups, engines and files as they are, and has still to do what was
\* to do.
LEMMA AloneQuiet ==
  ASSUME Typed, Alone, calm, NEW c \in Clients, NEW q, q = request[c],
         q.step # "idle" \/ \A d \in Clients : request[d] = Idle,
         UNCHANGED <<groups, engines, made, files>>,
         \A d \in Clients \ {c} : request'[d] = request[d], NEW r, r = request'[c],
         Found(q) => Found(r), \A g \in GroupIds : Behind(q, g) => Behind(r, g)
  PROVE  Alone'
  <1>1. /\ \A d \in Clients \ {c} : request[d] = Idle
        /\ Found(q) /\ \A g \in GroupIds : ~Behind(q, g) => InSync(g)
        /\ \A e \in Registered : engines[e].group \in DOMAIN groups
    BY AloneBefore
  <1>2. Found(r)'
    BY <1>1 DEF Found, Current, Resources, InGroup, Registered
  <1>3. \A g \in GroupIds : ~Behind(r, g)' => InSync(g)'
    BY <1>1 DEF Behind, InSync, Current, Resources, InGroup, Registered
  <1>4. \A e \in Registered' : engines'[e].group \in DOMAIN groups'
    BY <1>1 DEF Registered
  <1> QED BY <1>1, <1>2, <1>3, <1>4, AloneAfter

\* The steps that change only what their request has to do.
LEMMA AloneRequests ==
  ASSUME Typed, Alone, NEW c \in Clients, NEW g \in GroupIds, NEW e \in EngineIds,
         NEW S \in SUBSET Registered, calm',
         \/ Lookup(c) \/ Collect(c) \/ delete_resource_group(c, g) \/ delete_engine(c, e)
         \/ group_of(c) \/ start_engines(c, S) \/ stop_engines(c, S)
  PROVE  Alone'
  <1>0. PICK q \in Request : q = request[c]
    BY DEF Typed
  <1>1. PICK r : q = request[c] /\ r = request'[c]
    BY <1>0
  <1>2. /\ calm /\ \A d \in Clients \ {c} : request'[d] = request[d]
        /\ UNCHANGED <<groups, engines, made, files>>
    BY DEF Lookup, Collect, delete_resource_group, delete_engine, group_of, start_engines,
           stop_engines, Begin, Go, Typed, registryVars
  <1>3. CASE Lookup(c)
    <2>1. /\ q.step = "snapshot"
          /\ r = IF q.group \in DOMAIN groups
                 THEN [step |-> "collect", group |-> q.group, name |-> groups[q.group]] ELSE Idle
      BY <1>1, <1>3 DEF Lookup, Go, Typed
    <2>2. q.step # "idle"
      BY <2>1
    <2>3. Found(q)
      BY <1>1, <1>2, <2>2, AloneBefore
    <2>4. /\ q.group \in DOMAIN groups
          /\ r.step = "collect" /\ r.group = q.group /\ r.name = groups[q.group]
      BY <2>1, <2>3 DEF Found
    <2>5. Found(r) /\ \A h \in GroupIds : Behind(q, h) => Behind(r, h)
      BY <2>1, <2>4 DEF Found, Behind, Writing
    <2> QED BY <1>1, <1>2, <2>2, <2>5, AloneQuiet
  <1>4. CASE Collect(c)
    <2>1. /\ q.step = "collect"
          /\ r = [step |-> "truncate",
                  snapshot |-> [id |-> q.group, name |-> q.name, resources |-> Resources(q.group)]]
      BY <1>1, <1>4 DEF Collect, Go, Typed
    <2>2. q.step # "idle"
      BY <2>1
    <2>3. Found(q)
      BY <1>1, <1>2, <2>2, AloneBefore
    <2>4. /\ q.group \in DOMAIN groups
          /\ r.step = "truncate" /\ r.snapshot = Current(q.group) /\ r.snapshot.id = q.group
      BY <2>1, <2>3 DEF Found, Current
    <2>5. Found(r) /\ \A h \in GroupIds : Behind(q, h) => Behind(r, h)
      BY <2>1, <2>4 DEF Found, Behind, Writing
    <2> QED BY <1>1, <1>2, <2>2, <2>5, AloneQuiet
  <1>5. CASE delete_resource_group(c, g)
    <2>1. /\ \A d \in Clients : request[d] = Idle
          /\ r = [step |-> "empty", group |-> g, todo |-> InGroup(g)]
      BY <1>1, <1>5 DEF delete_resource_group, Begin, Typed
    <2>2. Found(r)
      BY <2>1 DEF Found, Writing
    <2>3. \A h \in GroupIds : ~Behind(q, h)
      BY <1>1, <2>1, NewRequest DEF Behind, Writing
    <2> QED BY <1>1, <1>2, <2>1, <2>2, <2>3, AloneQuiet
  <1>6. CASE delete_engine(c, e)
    <2>1. /\ \A d \in Clients : request[d] = Idle
          /\ r = [step |-> "remove", engine |-> e, group |-> engines[e].group]
      BY <1>1, <1>6 DEF delete_engine, Begin, Typed
    <2>2. e \in Registered /\ engines[e].group \in DOMAIN groups
      BY <1>2, <1>6 DEF delete_engine, Alone
    <2>3. Found(r)
      BY <2>1, <2>2 DEF Found, Writing
    <2>4. \A h \in GroupIds : ~Behind(q, h)
      BY <1>1, <2>1, NewRequest DEF Behind, Writing
    <2> QED BY <1>1, <1>2, <2>1, <2>3, <2>4, AloneQuiet
  <1>7. CASE group_of(c)
    <2>1. q.step = "group_of" /\ q.step # "idle"
      BY <1>1, <1>7 DEF group_of, Go
    <2>2. Found(q) /\ \A x \in Registered : engines[x].group \in DOMAIN groups
      BY <1>1, <1>2, <2>1, AloneBefore
    <2>3. PICK h : h = engines[q.engine].group
      OBVIOUS
    <2>4. q.engine \in Registered /\ h \in DOMAIN groups
      BY <2>1, <2>2, <2>3 DEF Found
    <2>5. r.step = "snapshot" /\ r.group = h
      BY <1>1, <1>7, <2>3, <2>4 DEF group_of, Go, Typed, Persist
    <2>6. Found(r) /\ \A x \in GroupIds : Behind(q, x) => Behind(r, x)
      BY <2>1, <2>3, <2>4, <2>5 DEF Found, Behind, Writing
    <2> QED BY <1>1, <1>2, <2>1, <2>6, AloneQuiet
  <1>8. CASE start_engines(c, S) \/ stop_engines(c, S)
    <2>1. (\A d \in Clients : request[d] = Idle) /\ r.step \in {"start", "stop"}
      <3>1. CASE start_engines(c, S)
        BY <1>1, <3>1 DEF start_engines, Begin, Typed
      <3>2. CASE stop_engines(c, S)
        BY <1>1, <3>2 DEF stop_engines, Begin, Typed
      <3> QED BY <1>8, <3>1, <3>2
    <2>2. Found(r)
      BY <2>1 DEF Found, Writing
    <2>3. \A h \in GroupIds : ~Behind(q, h)
      BY <1>1, <2>1, NewRequest DEF Behind, Writing
    <2> QED BY <1>1, <1>2, <2>1, <2>2, <2>3, AloneQuiet
  <1> QED BY <1>3, <1>4, <1>5, <1>6, <1>7, <1>8

\* So do those that start or stop an engine.
LEMMA AloneRunning ==
  ASSUME Typed, Alone, NEW c \in Clients, NEW e \in EngineIds, calm',
         \/ stop_next(c) \/ start_new(c) \/ stop_removed(c) \/ start_one(c, e) \/ stop_one(c, e)
  PROVE  Alone'
  <1>0. PICK q \in Request : q = request[c]
    BY DEF Typed
  <1>1. PICK r : q = request[c] /\ r = request'[c]
    BY <1>0
  <1>2. /\ calm /\ \A d \in Clients \ {c} : request'[d] = request[d]
        /\ UNCHANGED <<groups, engines, made, files>>
    BY DEF stop_next, start_new, stop_removed, start_one, stop_one, start, stop, Go,
           Typed, registryVars
  <1>3. CASE stop_next(c)
    <2>1. /\ q.step = "stop_next" /\ q.step # "idle"
          /\ r = [step |-> "empty", group |-> q.group, todo |-> q.todo]
      BY <1>1, <1>3 DEF stop_next, Go, Typed
    <2>2. Found(q) => Found(r)
      BY <2>1 DEF Found, Writing
    <2>3. \A h \in GroupIds : Behind(q, h) => Behind(r, h)
      BY <2>1 DEF Behind, Writing
    <2> QED BY <1>1, <1>2, <2>1, <2>2, <2>3, AloneQuiet
  <1>4. CASE start_new(c)
    <2>1. /\ q.step = "start_new" /\ q.step # "idle"
          /\ r = Idle \/ r = [q EXCEPT !.step = "insert"]
      BY <1>1, <1>4 DEF start_new, Go, Typed
    <2>2. q \in [step : {"start_new"}, engine : EngineIds, group : GroupIds]
      BY <2>1 DEF Request, Idle
    <2>3. r = Idle \/ (r.step = "insert" /\ r.group = q.group)
      BY <2>1, <2>2
    <2>4. Found(q) => Found(r)
      BY <2>1, <2>3, NewRequest DEF Found, Writing
    <2>5. \A h \in GroupIds : Behind(q, h) => Behind(r, h)
      BY <2>1 DEF Behind, Writing
    <2> QED BY <1>1, <1>2, <2>1, <2>4, <2>5, AloneQuiet
  <1>5. CASE stop_removed(c)
    <2>1. /\ q.step = "stop_removed" /\ q.step # "idle"
          /\ r.step = "snapshot" /\ r.group = q.group
      BY <1>1, <1>5 DEF stop_removed, Go, Typed, Persist
    <2>2. Found(q) => Found(r)
      BY <2>1 DEF Found, Writing
    <2>3. \A h \in GroupIds : Behind(q, h) => Behind(r, h)
      BY <2>1 DEF Behind, Writing
    <2> QED BY <1>1, <1>2, <2>1, <2>2, <2>3, AloneQuiet
  <1>6. CASE start_one(c, e) \/ stop_one(c, e)
    <2>1. /\ q.step \in {"start", "stop"} /\ q.step # "idle"
          /\ r = Idle \/ r = [q EXCEPT !.todo = @ \ {e}]
      BY <1>1, <1>6 DEF start_one, stop_one, Go, Rest, Typed
    <2>2. q \in [step : {"start", "stop"}, todo : SUBSET EngineIds]
      BY <2>1 DEF Request, Idle
    <2>3. r.step \in {"idle", "start", "stop"}
      BY <2>1, <2>2, NewRequest
    <2>4. Found(r)
      BY <2>3 DEF Found, Writing
    <2>5. \A h \in GroupIds : ~Behind(q, h)
      BY <2>1 DEF Behind, Writing
    <2> QED BY <1>1, <1>2, <2>1, <2>4, <2>5, AloneQuiet
  <1> QED BY <1>3, <1>4, <1>5, <1>6

\* The steps that write the file bring it up to date, or are about to.
LEMMA AloneFiles ==
  ASSUME Typed, Alone, NEW c \in Clients, calm',
         Truncate(c) \/ Write(c) \/ delete_group_file(c)
  PROVE  Alone'
  <1>0. PICK q \in Request : q = request[c]
    BY DEF Typed
  <1>1. PICK r : q = request[c] /\ r = request'[c]
    BY <1>0
  <1>2. /\ calm /\ \A d \in Clients \ {c} : request'[d] = request[d]
        /\ UNCHANGED <<groups, engines, made>> /\ files \in [GroupIds -> File]
    BY DEF Truncate, Write, delete_group_file, Go, Typed, FilesTyped, registryVars
  <1>3. q.step \in {"truncate", "write", "unlink"} /\ q.step # "idle"
    BY <1>1 DEF Truncate, Write, delete_group_file, Go
  <1>4. /\ \A d \in Clients \ {c} : request[d] = Idle
        /\ Found(q) /\ \A g \in GroupIds : ~Behind(q, g) => InSync(g)
        /\ \A e \in Registered : engines[e].group \in DOMAIN groups
    BY <1>1, <1>2, <1>3, AloneBefore
  <1>5. /\ \A e \in Registered' : engines'[e].group \in DOMAIN groups'
        /\ \A g \in GroupIds : Resources(g)' = Resources(g)
        /\ \A d \in Clients \ {c} : request'[d] = Idle
    BY <1>2, <1>4 DEF Registered, Resources, InGroup
  <1>6. CASE Truncate(c)
    <2>1. q.step = "truncate"
      BY <1>1, <1>6 DEF Truncate, Go
    <2>2. PICK s \in Snapshot, h \in GroupIds :
            s = q.snapshot /\ h = s.id /\ q = [step |-> "truncate", snapshot |-> s]
      BY <2>1, RequestType, SnapshotType
    <2>3. /\ r = [step |-> "write", snapshot |-> s] /\ files' = [files EXCEPT ![h] = Garbled]
      BY <1>1, <1>6, <2>2 DEF Truncate, Go, Typed
    <2>4. h \in DOMAIN groups /\ s = Current(h)
      BY <1>4, <2>1, <2>2 DEF Found, Writing
    <2>5. files'[h] = Garbled /\ \A g \in GroupIds \ {h} : files'[g] = files[g]
      BY <1>2, <2>3
    <2>6. s = Current(h)' /\ h \in DOMAIN groups'
      BY <1>2, <1>5, <2>4 DEF Current
    <2>7. r.step = "write" /\ r.snapshot = s
      BY <2>3
    <2>8. Found(r)'
      BY <2>2, <2>5, <2>6, <2>7 DEF Found, Writing
    <2>9. \A g \in GroupIds : ~Behind(r, g)' => g # h /\ ~Behind(q, g)
      BY <2>1, <2>2, <2>7 DEF Behind, Writing
    <2>10. \A g \in GroupIds : ~Behind(r, g)' => InSync(g)'
      BY <1>2, <1>4, <1>5, <2>5, <2>9, SyncFrame
    <2> QED BY <1>1, <1>5, <2>8, <2>10, AloneAfter
  <1>7. CASE Write(c)
    <2>1. q.step = "write"
      BY <1>1, <1>7 DEF Write, Go
    <2>2. PICK s \in Snapshot, h \in GroupIds : s = q.snapshot /\ h = s.id
      BY <2>1, RequestType, SnapshotType
    <2>3. h \in DOMAIN groups /\ s = Current(h) /\ files[h] = Garbled
      BY <1>4, <2>1, <2>2 DEF Found, Writing
    <2>4. Writers(h) = {c}
      <3>1. \A d \in Clients \ {c} : request[d].step # "write"
        BY <1>4, NewRequest
      <3>2. request[c].step = "write" /\ request[c].snapshot.id = h
        BY <1>1, <2>1, <2>2
      <3> QED BY <3>1, <3>2 DEF Writers
    <2>5. files' = [files EXCEPT ![h] = Whole(s)]
      <3>1. \E new \in {Whole(s)} \cup
                        (IF Writers(h) # {c} \/ files[h] # Garbled THEN {Garbled} ELSE {}) :
              files' = [files EXCEPT ![h] = IF @ = Absent THEN Absent ELSE new]
        BY <1>1, <1>7, <2>2 DEF Write
      <3>2. files' = [files EXCEPT ![h] = IF @ = Absent THEN Absent ELSE Whole(s)]
        BY <2>3, <2>4, <3>1
      <3>3. files[h] # Absent
        <4>1. Absent.state = "absent" /\ Garbled.state = "garbled"
          BY DEF Absent, Garbled
        <4> QED BY <2>3, <4>1
      <3> QED BY <1>2, <3>2, <3>3
    <2>6. r = Idle
      BY <1>1, <1>7 DEF Write, Go, Typed
    <2>7. Found(r)'
      BY <2>6, NewRequest DEF Found, Writing
    <2>8. ASSUME NEW g \in GroupIds PROVE InSync(g)'
      <3>1. CASE g = h
        <4>1. files'[g] = Whole(s) /\ g \in DOMAIN groups' /\ s = Current(g)'
          BY <1>2, <1>5, <2>3, <2>5, <3>1 DEF Current
        <4> QED BY <4>1 DEF InSync
      <3>2. CASE g # h
        <4>1. files'[g] = files[g] /\ ~Behind(q, g)
          BY <1>2, <2>1, <2>2, <2>5, <3>2 DEF Behind, Writing
        <4> QED BY <1>2, <1>4, <1>5, <4>1, SyncFrame
      <3> QED BY <3>1, <3>2
    <2> QED BY <1>1, <1>5, <2>7, <2>8, AloneAfter
  <1>8. CASE delete_group_file(c)
    <2>1. q.step = "unlink"
      BY <1>1, <1>8 DEF delete_group_file, Go
    <2>2. PICK h \in GroupIds : h = q.group
      BY <2>1, RequestType
    <2>3. files' = [files EXCEPT ![h] = Absent] /\ r = Idle
      BY <1>1, <1>8, <2>2 DEF delete_group_file, Go, Typed
    <2>4. h \notin DOMAIN groups
      BY <1>4, <2>1, <2>2 DEF Found
    <2>5. Found(r)'
      BY <2>3, NewRequest DEF Found, Writing
    <2>6. ASSUME NEW g \in GroupIds PROVE InSync(g)'
      <3>1. CASE g = h
        BY <1>2, <2>3, <2>4, <3>1, FileType DEF InSync
      <3>2. CASE g # h
        <4>1. files'[g] = files[g] /\ ~Behind(q, g)
          BY <1>2, <2>1, <2>2, <2>3, <3>2 DEF Behind, Writing
        <4> QED BY <1>2, <1>4, <1>5, <4>1, SyncFrame
      <3> QED BY <3>1, <3>2
    <2> QED BY <1>1, <1>5, <2>5, <2>6, AloneAfter
  <1> QED BY <1>6, <1>7, <1>8

\* The steps that change the groups.
LEMMA AloneGroups ==
  ASSUME Typed, Alone, NEW c \in Clients, NEW g \in GroupIds, calm',
         create_resource_group(c) \/ rename_resource_group(c, g) \/ delete_group(c)
  PROVE  Alone'
  <1>0. PICK q \in Request : q = request[c]
    BY DEF Typed
  <1>1. PICK r : q = request[c] /\ r = request'[c]
    BY <1>0
  <1>2. /\ calm /\ \A d \in Clients \ {c} : request'[d] = request[d]
        /\ UNCHANGED <<engines, made, files>>
    BY DEF create_resource_group, rename_resource_group, delete_group, create_group,
           rename_group, retain_groups, Begin, Go, Typed
  <1>3. q.step # "idle" \/ \A d \in Clients : request[d] = Idle
    BY <1>1 DEF create_resource_group, rename_resource_group, delete_group, Begin
  <1>4. /\ \A d \in Clients \ {c} : request[d] = Idle
        /\ Found(q) /\ \A h \in GroupIds : ~Behind(q, h) => InSync(h)
        /\ \A e \in Registered : engines[e].group \in DOMAIN groups
    BY <1>1, <1>2, <1>3, AloneBefore
  <1>5. /\ \A h \in GroupIds : Resources(h)' = Resources(h)
        /\ \A d \in Clients \ {c} : request'[d] = Idle
        /\ Registered' = Registered
    BY <1>2, <1>4 DEF Registered, Resources, InGroup
  <1>6. CASE create_resource_group(c) \/ rename_resource_group(c, g)
    <2>1. request[c] = Idle
      BY <1>6 DEF create_resource_group, rename_resource_group, Begin
    <2>2. PICK n \in GroupIds :
            /\ DOMAIN groups' = DOMAIN groups \cup {n}
            /\ \A h \in DOMAIN groups \ {n} : groups'[h] = groups[h]
            /\ r = Persist(n)
      <3>1. CASE create_resource_group(c)
        BY <1>1, <3>1 DEF create_resource_group, create_group, With, Begin, Typed
      <3>2. CASE rename_resource_group(c, g)
        BY <1>1, <3>2 DEF rename_resource_group, rename_group, Begin, Typed
      <3> QED BY <1>6, <3>1, <3>2
    <2>3. r.step = "snapshot" /\ r.group = n
      BY <2>2, NewRequest
    <2>4. Found(r)'
      BY <2>2, <2>3 DEF Found, Writing
    <2>5. \A h \in GroupIds : ~Behind(r, h)' => h # n
      BY <2>3 DEF Behind, Writing
    <2>6. \A h \in GroupIds : ~Behind(q, h)
      BY <1>1, <2>1, NewRequest DEF Behind, Writing
    <2>7. ASSUME NEW h \in GroupIds, h # n PROVE InSync(h)'
      BY <1>2, <1>4, <1>5, <2>2, <2>6, <2>7, SyncFrame
    <2>8. \A e \in Registered' : engines'[e].group \in DOMAIN groups'
      BY <1>2, <1>4, <1>5, <2>2
    <2> QED BY <1>1, <1>5, <2>4, <2>5, <2>7, <2>8, AloneAfter
  <1>7. CASE delete_group(c)
    <2>1. q.step = "empty" /\ q.todo = {}
      BY <1>1, <1>7 DEF delete_group
    <2>2. PICK n \in GroupIds : n = q.group
      BY <2>1, RequestType
    <2>3. /\ DOMAIN groups' = DOMAIN groups \ {n}
          /\ \A h \in DOMAIN groups \ {n} : groups'[h] = groups[h]
          /\ r = [step |-> "unlink", group |-> n]
      BY <1>1, <1>7, <2>2 DEF delete_group, retain_groups, Drop, Restrict, Go, Typed
    <2>4. InGroup(n) = {}
      BY <1>4, <2>1, <2>2 DEF Found
    <2>5. Found(r)'
      BY <2>3 DEF Found, Writing
    <2>6. \A h \in GroupIds : ~Behind(r, h)' => h # n /\ ~Behind(q, h)
      BY <2>1, <2>2, <2>3 DEF Behind, Writing
    <2>7. ASSUME NEW h \in GroupIds, h # n, ~Behind(q, h) PROVE InSync(h)'
      BY <1>2, <1>4, <1>5, <2>3, <2>7, SyncFrame
    <2>8. \A e \in Registered' : engines'[e].group \in DOMAIN groups'
      BY <1>2, <1>4, <1>5, <2>3, <2>4 DEF InGroup
    <2> QED BY <1>1, <1>5, <2>5, <2>6, <2>7, <2>8, AloneAfter
  <1> QED BY <1>6, <1>7

\* The steps that change what is registered.
LEMMA AloneRegistered ==
  ASSUME Typed, Alone, NEW c \in Clients, NEW e \in EngineIds, calm',
         remove_next(c, e) \/ remove(c) \/ rename_engine(c, e)
  PROVE  Alone'
  <1>0. PICK q \in Request : q = request[c]
    BY DEF Typed
  <1>1. PICK r : q = request[c] /\ r = request'[c]
    BY <1>0
  <1>2. /\ calm /\ \A d \in Clients \ {c} : request'[d] = request[d]
        /\ UNCHANGED <<groups, made, files>>
    BY DEF remove_next, remove, rename_engine, unregister, rename, Begin, Go, Typed
  <1>3. q.step # "idle" \/ \A d \in Clients : request[d] = Idle
    BY <1>1 DEF remove_next, remove, rename_engine, Begin, Go
  <1>4. /\ \A d \in Clients \ {c} : request[d] = Idle
        /\ Found(q) /\ \A h \in GroupIds : ~Behind(q, h) => InSync(h)
        /\ \A x \in Registered : engines[x].group \in DOMAIN groups
    BY <1>1, <1>2, <1>3, AloneBefore
  <1>5. \A d \in Clients \ {c} : request'[d] = Idle
    BY <1>2, <1>4
  <1>6. CASE remove_next(c, e) \/ remove(c)
    <2>1. q.step \in {"empty", "remove"}
      BY <1>1, <1>6 DEF remove_next, remove, Go
    <2>2. PICK n \in GroupIds : n = q.group
      BY <2>1, RequestType
    <2>3. PICK f : /\ engines' = Drop(engines, {f}) /\ f \in Registered /\ engines[f].group = n
                   /\ \/ /\ q.step = "empty" /\ q.todo = InGroup(n)
                         /\ r = [step |-> "stop_next", group |-> n, todo |-> q.todo \ {f},
                                 engine |-> f]
                      \/ /\ q.step = "remove" /\ r.step = "stop_removed" /\ r.group = n
                         /\ n \in DOMAIN groups
      <3>1. CASE remove_next(c, e)
        <4>1. q.step = "empty" /\ e \in q.todo
          BY <1>1, <3>1 DEF remove_next
        <4>2. q.todo = InGroup(n)
          BY <1>4, <2>2, <4>1 DEF Found
        <4>3. engines' = Drop(engines, {e})
          BY <3>1 DEF remove_next, unregister
        <4>4. e \in Registered /\ engines[e].group = n
          BY <4>1, <4>2 DEF InGroup
        <4>5. r = [step |-> "stop_next", group |-> n, todo |-> q.todo \ {e}, engine |-> e]
          BY <1>1, <2>2, <3>1, <4>4 DEF remove_next, Go, Typed
        <4> QED BY <4>1, <4>2, <4>3, <4>4, <4>5
      <3>2. CASE remove(c)
        <4>1. q.step = "remove"
          BY <1>1, <3>2 DEF remove, Go
        <4>2. PICK f \in EngineIds : /\ f = q.engine
                                     /\ q = [step |-> "remove", engine |-> f, group |-> n]
          BY <2>2, <4>1 DEF Request, Idle
        <4>3. f \in Registered /\ engines[f].group = n /\ n \in DOMAIN groups
          BY <1>4, <2>2, <4>1, <4>2 DEF Found
        <4>4. engines' = Drop(engines, {f}) /\ r = [q EXCEPT !.step = "stop_removed"]
          BY <1>1, <3>2, <4>2, <4>3 DEF remove, unregister, Go, Typed
        <4>5. r.step = "stop_removed" /\ r.group = n
          BY <4>2, <4>4
        <4> QED BY <4>1, <4>3, <4>4, <4>5
      <3> QED BY <1>6, <3>1, <3>2
    <2>4. /\ Registered' = Registered \ {f}
          /\ \A x \in Registered \ {f} : engines'[x] = engines[x]
      BY <2>3 DEF Drop, Restrict, Registered
    <2>5. InGroup(n)' = InGroup(n) \ {f}
      BY <2>4 DEF InGroup
    <2>6. ASSUME NEW h \in GroupIds, h # n, InSync(h) PROVE InSync(h)'
      <3>1. Resources(h)' = Resources(h)
        BY <1>2, <2>3, <2>4, <2>6, ResourcesFrame
      <3> QED BY <1>2, <2>6, <3>1, SyncFrame
    <2>7. r.step \in {"stop_next", "stop_removed"} /\ r.group = n
      BY <2>3
    <2>8. Found(r)'
      <3>1. CASE r.step = "stop_next"
        <4>1. r.todo = InGroup(n)'
          BY <2>3, <2>5, <3>1
        <4> QED BY <2>7, <3>1, <4>1 DEF Found, Writing
      <3>2. CASE r.step = "stop_removed"
        BY <1>2, <2>3, <2>7, <3>2 DEF Found, Writing
      <3> QED BY <2>7, <3>1, <3>2
    <2>9. \A h \in GroupIds : ~Behind(r, h)' => h # n /\ ~Behind(q, h)
      BY <2>1, <2>2, <2>7 DEF Behind, Writing
    <2>10. \A x \in Registered' : engines'[x].group \in DOMAIN groups'
      BY <1>2, <1>4, <2>4
    <2> QED BY <1>1, <1>4, <1>5, <2>6, <2>8, <2>9, <2>10, AloneAfter
  <1>7. CASE rename_engine(c, e)
    <2>1. /\ e \in Registered /\ engines' = [engines EXCEPT ![e].name = Changed]
          /\ request[c] = Idle /\ r = [step |-> "group_of", engine |-> e]
      BY <1>1, <1>7 DEF rename_engine, rename, Renamed, Begin, Typed
    <2>2. /\ Registered' = Registered /\ engines'[e].group = engines[e].group
          /\ \A x \in Registered \ {e} : engines'[x] = engines[x]
      <3>1. engines[e] \in [group : GroupIds, name : Names]
        BY <2>1 DEF Typed, RegistryTyped
      <3> QED BY <2>1, <3>1 DEF Registered
    <2>3. PICK n : n = engines[e].group
      OBVIOUS
    <2>4. ASSUME NEW h \in GroupIds, h # n, InSync(h) PROVE InSync(h)'
      <3>1. Resources(h)' = Resources(h)
        BY <1>2, <2>2, <2>3, <2>4, ResourcesFrame
      <3> QED BY <1>2, <2>4, <3>1, SyncFrame
    <2>5. Found(r)'
      BY <2>1, <2>2 DEF Found, Writing
    <2>6. \A h \in GroupIds : ~Behind(r, h)' => h # n
      BY <2>1, <2>2, <2>3 DEF Behind, Writing
    <2>7. \A h \in GroupIds : ~Behind(q, h)
      BY <1>1, <2>1, NewRequest DEF Behind, Writing
    <2>8. \A x \in Registered' : engines'[x].group \in DOMAIN groups'
      BY <1>2, <1>4, <2>1, <2>2
    <2> QED BY <1>1, <1>4, <1>5, <2>4, <2>5, <2>6, <2>7, <2>8, AloneAfter
  <1> QED BY <1>6, <1>7

\* A new engine is in no group before it is registered: neither when its number and port
\* are drawn ...
LEMMA AloneCreate ==
  ASSUME Typed, Alone, NEW c \in Clients, NEW k \in Kinds, NEW g \in GroupIds,
         calm', create_engine(c, k, g) \/ take_port(c)
  PROVE  Alone'
  <1>0. PICK q \in Request : q = request[c]
    BY DEF Typed
  <1>1. PICK r : q = request[c] /\ r = request'[c]
    BY <1>0
  <1>2. /\ calm /\ \A d \in Clients \ {c} : request'[d] = request[d]
        /\ UNCHANGED <<groups, engines, made, files>>
    BY DEF create_engine, create, take_port, resolve_port, Begin, Go, Typed
  <1>3. CASE create_engine(c, k, g)
    <2>1. /\ \A d \in Clients : request[d] = Idle
          /\ r.step = "port" /\ r.group = g /\ g \in DOMAIN groups
      BY <1>1, <1>3 DEF create_engine, create, Begin, Typed
    <2>2. Found(r)
      BY <2>1 DEF Found, Writing
    <2>3. \A h \in GroupIds : ~Behind(q, h)
      BY <1>1, <2>1, NewRequest DEF Behind, Writing
    <2> QED BY <1>1, <1>2, <2>1, <2>2, <2>3, AloneQuiet
  <1>4. CASE take_port(c)
    <2>1. q.step = "port" /\ q.step # "idle" /\ r.step = "octet" /\ r.group = q.group
      BY <1>1, <1>4 DEF take_port, Go, Typed
    <2>2. Found(q) => Found(r)
      BY <2>1 DEF Found, Writing
    <2>3. \A h \in GroupIds : Behind(q, h) => Behind(r, h)
      BY <2>1 DEF Behind, Writing
    <2> QED BY <1>1, <1>2, <2>1, <2>2, <2>3, AloneQuiet
  <1> QED BY <1>3, <1>4

\* ... nor when it is built.
LEMMA AloneOctet ==
  ASSUME Typed, IdsOwned, Alone, NEW c \in Clients, calm', take_octet(c)
  PROVE  Alone'
  <1>0. PICK q \in Request : q = request[c]
    BY DEF Typed
  <1>1. PICK r : q = request[c] /\ r = request'[c]
    BY <1>0
  <1>2. /\ calm /\ \A d \in Clients \ {c} : request'[d] = request[d]
        /\ UNCHANGED <<groups, engines, files>>
        /\ q.step = "octet" /\ r.step = "start_new" /\ r.group = q.group
    BY <1>1 DEF take_octet, build, Go, Typed
  <1>3. q.step # "idle"
    BY <1>2
  <1>4. /\ \A d \in Clients \ {c} : request[d] = Idle
        /\ Found(q) /\ \A h \in GroupIds : ~Behind(q, h) => InSync(h)
        /\ \A e \in Registered : engines[e].group \in DOMAIN groups
    BY <1>1, <1>2, <1>3, AloneBefore
  <1>5. /\ Registered' = Registered
        /\ \A e \in Registered : engines'[e] = engines[e] /\ made'[e] = made[e]
    <2>1. PICK n, b : made' = With(made, n, b) /\ n = q.engine
      BY <1>1 DEF take_octet, build
    <2>2. n \notin DOMAIN made
      BY <1>1, <1>2, <2>1 DEF IdsOwned, Making
    <2>3. \A e \in DOMAIN made : made'[e] = made[e]
      BY <2>1, <2>2 DEF With
    <2>4. Registered \subseteq DOMAIN made
      BY DEF Typed, RegistryTyped
    <2> QED BY <1>2, <2>3, <2>4 DEF Registered
  <1>6. ASSUME NEW h \in GroupIds PROVE InSync(h)'
    <2>1. Resources(h)' = Resources(h)
      BY <1>5, ResourcesFrame
    <2>2. ~Behind(q, h)
      BY <1>2 DEF Behind, Writing
    <2> QED BY <1>2, <1>4, <2>1, <2>2, SyncFrame
  <1>7. Found(r)'
    BY <1>2, <1>4 DEF Found, Writing
  <1>8. \A e \in Registered' : engines'[e].group \in DOMAIN groups'
    BY <1>2, <1>4, <1>5
  <1> QED BY <1>1, <1>2, <1>4, <1>6, <1>7, <1>8, AloneAfter

\* insert_new only changes the group of its request.
LEMMA AloneInsert ==
  ASSUME Typed, IdsOwned, Alone, NEW c \in Clients, calm', insert_new(c)
  PROVE  Alone'
  <1>0. PICK q \in Request : q = request[c]
    BY DEF Typed
  <1>1. PICK r : q = request[c] /\ r = request'[c]
    BY <1>0
  <1>2. /\ calm /\ \A d \in Clients \ {c} : request'[d] = request[d]
        /\ UNCHANGED <<groups, made, files>> /\ q.step = "insert"
    BY <1>1 DEF insert_new, insert, Go, Typed
  <1>3. PICK f \in EngineIds, n \in GroupIds : f = q.engine /\ n = q.group
    BY <1>2, RequestType
  <1>4. /\ engines' = With(engines, f, [group |-> n, name |-> Given]) /\ r = Persist(n)
    BY <1>1, <1>3 DEF insert_new, insert, Go, Typed
  <1>5. q.step # "idle"
    BY <1>2
  <1>6. /\ \A d \in Clients \ {c} : request[d] = Idle
        /\ Found(q) /\ \A h \in GroupIds : ~Behind(q, h) => InSync(h)
        /\ \A x \in Registered : engines[x].group \in DOMAIN groups
    BY <1>1, <1>2, <1>5, AloneBefore
  <1>7. f \notin Registered
    <2>1. \A g \in GroupIds : ~Belongs(f, g)
      BY <1>1, <1>2, <1>3 DEF IdsOwned, Creating
    <2>2. f \in Registered => engines[f].group \in GroupIds /\ Belongs(f, engines[f].group)
      BY DEF Belongs, Typed, RegistryTyped
    <2> QED BY <2>1, <2>2
  <1>8. /\ Registered' = Registered \cup {f} /\ engines'[f].group = n
        /\ \A x \in Registered : engines'[x] = engines[x]
    BY <1>4, <1>7 DEF With, Registered
  <1>9. ASSUME NEW h \in GroupIds, h # n, InSync(h) PROVE InSync(h)'
    <2>1. Resources(h)' = Resources(h)
      BY <1>2, <1>7, <1>8, <1>9, ResourcesFrame
    <2> QED BY <1>2, <1>9, <2>1, SyncFrame
  <1>10. n \in DOMAIN groups'
    BY <1>2, <1>3, <1>6 DEF Found
  <1>11. r.step = "snapshot" /\ r.group = n
    BY <1>4, NewRequest
  <1>12. Found(r)'
    BY <1>10, <1>11 DEF Found, Writing
  <1>13. \A h \in GroupIds : ~Behind(r, h)' => h # n /\ ~Behind(q, h)
    BY <1>2, <1>11 DEF Behind, Writing
  <1>14. \A x \in Registered' : engines'[x].group \in DOMAIN groups'
    BY <1>2, <1>6, <1>8, <1>10
  <1> QED BY <1>1, <1>2, <1>6, <1>9, <1>12, <1>13, <1>14, AloneAfter

\* A restart finds in each group what its file says.
LEMMA AloneRestart ==
  ASSUME Typed, SnapshotsTrue, IdsOwned, Restart
  PROVE  Alone'
  <1>1. /\ files' = files /\ request' = [c \in Clients |-> Idle]
    BY DEF Restart
  <1>2. /\ DOMAIN groups' = Kept /\ \A g \in Kept : groups'[g] = files[g].snapshot.name
        /\ \A g \in Kept : \A e \in DOMAIN files[g].snapshot.resources :
             /\ e \in Registered' /\ e \in DOMAIN made /\ made'[e] = made[e]
             /\ engines'[e] = [group |-> g, name |-> files[g].snapshot.resources[e].name]
        /\ \A e \in Registered' : \E g \in Kept : e \in DOMAIN files[g].snapshot.resources
    BY RestoredMaps
  <1>3. \A r \in Pending' : r = Idle
    BY <1>1 DEF Pending
  <1>4. Found(Idle)'
    BY NewRequest DEF Found, Writing
  <1>5. ASSUME NEW g \in GroupIds PROVE InSync(g)'
    <2>1. CASE g \in Kept
      <3>1. PICK s \in Snapshot : s = files[g].snapshot /\ files[g] = Whole(s) /\ s.id = g
        BY <2>1, FileType DEF Kept, Typed, FilesTyped
      <3>2. s.resources \in [DOMAIN s.resources -> Resource]
        BY SnapshotType
      <3>3. ASSUME NEW e \in DOMAIN s.resources
            PROVE  /\ e \in Registered' /\ engines'[e].group = g
                   /\ engines'[e].name = s.resources[e].name
                   /\ made'[e] = s.resources[e].config
        <4>1. e \in DOMAIN files[g].snapshot.resources
          BY <3>1
        <4>2. /\ e \in Registered' /\ made'[e] = made[e]
              /\ engines'[e] = [group |-> g, name |-> files[g].snapshot.resources[e].name]
          BY <1>2, <2>1, <4>1
        <4>3. s.resources[e].config = made[e]
          BY <2>1, <3>1 DEF SnapshotsTrue, True, Kept
        <4> QED BY <3>1, <4>2, <4>3
      <3>4. InGroup(g)' = DOMAIN s.resources
        <4>1. \A e \in DOMAIN s.resources : e \in InGroup(g)'
          BY <3>3 DEF InGroup
        <4>2. ASSUME NEW e \in Registered', engines'[e].group = g PROVE e \in DOMAIN s.resources
          <5>1. PICK h \in Kept : e \in DOMAIN files[h].snapshot.resources
            BY <1>2
          <5>2. engines'[e] = [group |-> h, name |-> files[h].snapshot.resources[e].name]
            BY <1>2, <5>1
          <5>3. h = g
            BY <4>2, <5>2
          <5> QED BY <3>1, <5>1, <5>3
        <4>3. \A e \in InGroup(g)' : e \in DOMAIN s.resources
          BY <4>2 DEF InGroup
        <4> QED BY <4>1, <4>3
      <3>5. \A e \in DOMAIN s.resources :
              [name |-> engines'[e].name, config |-> made'[e]] = s.resources[e]
        <4> SUFFICES ASSUME NEW e \in DOMAIN s.resources
                     PROVE  [name |-> engines'[e].name, config |-> made'[e]] = s.resources[e]
          OBVIOUS
        <4>1. PICK t \in Resource : t = s.resources[e]
          BY <3>2
        <4>2. t = [name |-> t.name, config |-> t.config]
          BY DEF Resource
        <4>3. engines'[e].name = t.name /\ made'[e] = t.config
          BY <3>3, <4>1
        <4> QED BY <4>1, <4>2, <4>3
      <3>6. Resources(g)' = s.resources
        BY <3>2, <3>4, <3>5 DEF Resources
      <3>7. Current(g)' = s
        <4>1. s = [id |-> s.id, name |-> s.name, resources |-> s.resources]
          BY SnapshotType
        <4> QED BY <1>2, <2>1, <3>1, <3>6, <4>1 DEF Current
      <3> QED BY <1>1, <1>2, <2>1, <3>1, <3>7 DEF InSync
    <2>2. CASE g \notin Kept
      BY <1>1, <1>2, <2>2 DEF InSync, Kept
    <2> QED BY <2>1, <2>2
  <1>6. \A e \in Registered' : engines'[e].group \in DOMAIN groups'
    <2> SUFFICES ASSUME NEW e \in Registered' PROVE engines'[e].group \in DOMAIN groups'
      OBVIOUS
    <2>1. PICK h \in Kept : e \in DOMAIN files[h].snapshot.resources
      BY <1>2
    <2>2. engines'[e] = [group |-> h, name |-> files[h].snapshot.resources[e].name]
      BY <1>2, <2>1
    <2> QED BY <1>2, <2>2
  <1> QED BY <1>1, <1>3, <1>4, <1>5, <1>6 DEF Alone

-----------------------------------------------------------------------------
\* The steps in which nothing is made and only the registry or a request changes.
LEMMA NarrowInv ==
  ASSUME Inv, NEW c \in Clients, NEW g \in GroupIds, NEW e \in EngineIds,
         NEW S \in SUBSET Registered,
         \/ Lookup(c) \/ create_resource_group(c) \/ rename_resource_group(c, g)
         \/ delete_resource_group(c, g) \/ remove_next(c, e) \/ stop_next(c)
         \/ delete_group(c) \/ start_new(c) \/ remove(c) \/ stop_removed(c)
         \/ delete_engine(c, e) \/ rename_engine(c, e) \/ group_of(c)
         \/ start_one(c, e) \/ stop_one(c, e) \/ start_engines(c, S) \/ stop_engines(c, S)
  PROVE  Inv'
  <1>1. Typed /\ SnapshotsTrue /\ IdsOwned /\ AddressesOwned /\ ReachOwned /\ Alone
    BY DEF Inv
  <1>2. Typed'
    <2>1. CASE Lookup(c)
      BY <1>1, <2>1, WriterTyped
    <2>2. CASE \/ create_resource_group(c) \/ rename_resource_group(c, g)
               \/ delete_resource_group(c, g) \/ remove_next(c, e) \/ stop_next(c)
               \/ delete_group(c)
      BY <1>1, <2>2, GroupTyped
    <2>3. CASE start_new(c) \/ remove(c) \/ stop_removed(c) \/ delete_engine(c, e)
      <3>1. delete_engine(c, e) => e \in Registered
        BY DEF delete_engine
      <3> QED BY <1>1, <2>3, <3>1, EngineTyped
    <2>4. CASE \/ rename_engine(c, e) \/ group_of(c) \/ start_one(c, e) \/ stop_one(c, e)
               \/ start_engines(c, S) \/ stop_engines(c, S)
      BY <1>1, <2>4, NamedTyped
    <2> QED BY <2>1, <2>2, <2>3, <2>4
  <1>3. Narrow(c)
    BY <1>1, NarrowStep
  <1>4. SnapshotsTrue' /\ IdsOwned'
    BY <1>1, <1>3, NarrowOwned
  <1>5. AddressesOwned'
    <2>1. UNCHANGED <<made, next_port, next_addr, spent>>
      BY <1>3 DEF Narrow
    <2>2. \A d \in Clients : Asked(request'[d]) => request'[d] = request[d]
      BY <1>3 DEF Narrow, Asked, Making
    <2> QED BY <1>1, <2>1, <2>2, AddressesFrame
  <1>6. ReachOwned'
    <2>1. PICK k \in Kinds : TRUE
      BY RegistryAssumption
    <2>2. CASE \/ remove_next(c, e) \/ stop_next(c) \/ delete_group(c) \/ start_new(c)
               \/ remove(c) \/ stop_removed(c) \/ start_one(c, e) \/ stop_one(c, e)
      <3>1. contested' = contested
        BY <2>2 DEF remove_next, stop_next, delete_group, start_new, remove, stop_removed,
                    start_one, stop_one, Go
      <3> QED BY <1>1, <2>2, <3>1, ReachMoved, ReachEach
    <2>3. CASE Lookup(c) \/ group_of(c)
      <3>1. contested' = contested
        BY <2>3 DEF Lookup, group_of, Go
      <3> QED BY <1>1, <2>3, <3>1, ReachQuiet, ReachEach
    <2>4. CASE \/ create_resource_group(c) \/ rename_resource_group(c, g)
               \/ delete_resource_group(c, g) \/ delete_engine(c, e)
               \/ rename_engine(c, e) \/ start_engines(c, S) \/ stop_engines(c, S)
      <3>1. contested \subseteq contested'
        BY <2>4 DEF create_resource_group, rename_resource_group, delete_resource_group,
                    delete_engine, rename_engine, start_engines, stop_engines, Begin
      <3> QED BY <1>1, <2>1, <2>4, <3>1, ReachBegins, ReachEach
    <2> QED BY <2>2, <2>3, <2>4
  <1>7. Alone'
    <2> SUFFICES ASSUME calm' PROVE Alone'
      BY DEF Alone
    <2>1. CASE \/ Lookup(c) \/ delete_resource_group(c, g) \/ delete_engine(c, e)
               \/ group_of(c) \/ start_engines(c, S) \/ stop_engines(c, S)
      BY <1>1, <2>1, AloneRequests
    <2>2. CASE \/ stop_next(c) \/ start_new(c) \/ stop_removed(c) \/ start_one(c, e)
               \/ stop_one(c, e)
      BY <1>1, <2>2, AloneRunning
    <2>3. CASE create_resource_group(c) \/ rename_resource_group(c, g) \/ delete_group(c)
      BY <1>1, <2>3, AloneGroups
    <2>4. CASE remove_next(c, e) \/ remove(c) \/ rename_engine(c, e)
      BY <1>1, <2>4, AloneRegistered
    <2> QED BY <2>1, <2>2, <2>3, <2>4
  <1> QED BY <1>2, <1>4, <1>5, <1>6, <1>7 DEF Inv

\* The steps that write snapshots and files.
LEMMA WriterInv ==
  ASSUME Inv, NEW c \in Clients, Collect(c) \/ Truncate(c) \/ Write(c) \/ delete_group_file(c)
  PROVE  Inv'
  <1>1. Typed /\ SnapshotsTrue /\ IdsOwned /\ AddressesOwned /\ ReachOwned /\ Alone
    BY DEF Inv
  <1>2. Typed'
    BY <1>1, WriterTyped
  <1>3. SnapshotsTrue' /\ IdsOwned'
    BY <1>1, WriterOwned
  <1>4. AddressesOwned'
    <2>1. UNCHANGED <<made, next_port, next_addr, spent>>
      BY DEF Collect, Truncate, Write, delete_group_file, registryVars
    <2>2. \A d \in Clients : Asked(request'[d]) => request'[d] = request[d]
      <3>1. \A d \in Clients \ {c} : request'[d] = request[d]
        BY DEF Collect, Truncate, Write, delete_group_file, Go, Typed, Inv
      <3>2. ~Asked(request'[c])
        <4>1. PICK q \in Request : q = request[c]
          BY <1>1 DEF Typed
        <4>2. CASE Truncate(c)
          <5>1. q = [step |-> "truncate", snapshot |-> q.snapshot]
            BY <4>1, <4>2, RequestType DEF Truncate, Go
          <5>2. request'[c] = [q EXCEPT !.step = "write"]
            BY <1>1, <4>1, <4>2 DEF Truncate, Go, Typed
          <5>3. request'[c].step = "write"
            BY <5>1, <5>2
          <5> QED BY <5>3 DEF Asked
        <4>3. CASE Collect(c) \/ Write(c) \/ delete_group_file(c)
          BY <1>1, <4>3, NewRequest DEF Collect, Write, delete_group_file, Go, Typed, Asked
        <4> QED BY <4>2, <4>3
      <3> QED BY <3>1, <3>2
    <2> QED BY <1>1, <2>1, <2>2, AddressesFrame
  <1>5. PICK k \in Kinds, g \in GroupIds, e \in EngineIds, S \in SUBSET Registered : TRUE
    <2>1. 1 \in GroupIds /\ 1 \in EngineIds
      BY RegistryAssumption DEF GroupIds, EngineIds
    <2> QED BY <2>1, RegistryAssumption
  <1>6. ReachOwned'
    <2>1. contested' = contested
      BY DEF Collect, Truncate, Write, delete_group_file, Go
    <2> QED BY <1>1, <2>1, ReachQuiet, ReachEach
  <1>7. Alone'
    <2> SUFFICES ASSUME calm' PROVE Alone'
      BY DEF Alone
    <2>1. CASE Collect(c)
      BY <1>1, <1>5, <2>1, AloneRequests
    <2>2. CASE Truncate(c) \/ Write(c) \/ delete_group_file(c)
      BY <1>1, <2>2, AloneFiles
    <2> QED BY <2>1, <2>2
  <1> QED BY <1>2, <1>3, <1>4, <1>6, <1>7 DEF Inv

\* The steps of a request that creates an engine.
LEMMA CreateInv ==
  ASSUME Inv, NEW c \in Clients, NEW k \in Kinds, NEW g \in GroupIds,
         create_engine(c, k, g) \/ take_port(c) \/ take_octet(c) \/ insert_new(c)
  PROVE  Inv'
  <1>1. Typed /\ SnapshotsTrue /\ IdsOwned /\ AddressesOwned /\ ReachOwned /\ Alone
    BY DEF Inv
  <1>2. PICK e \in EngineIds, S \in SUBSET Registered : TRUE
    <2>1. 1 \in EngineIds
      BY RegistryAssumption DEF EngineIds
    <2> QED BY <2>1
  <1>3. ASSUME calm' => Alone' PROVE Alone'
    BY <1>3 DEF Alone
  <1>4. CASE create_engine(c, k, g)
    <2>1. Typed'
      BY <1>1, <1>4, CreateTyped
    <2>2. SnapshotsTrue' /\ IdsOwned'
      BY <1>1, <1>4, CreateOwned
    <2>3. AddressesOwned'
      <3>1. UNCHANGED <<made, next_port, next_addr, spent>>
        BY <1>4 DEF create_engine, create
      <3>2. \A d \in Clients : Asked(request'[d]) => request'[d] = request[d]
        BY <1>1, <1>4 DEF create_engine, Begin, Typed, Asked
      <3> QED BY <1>1, <3>1, <3>2, AddressesFrame
    <2>4. ReachOwned'
      <3>1. contested \subseteq contested'
        BY <1>4 DEF create_engine, Begin
      <3> QED BY <1>1, <1>2, <1>4, <3>1, ReachBegins, ReachEach
    <2>5. calm' => Alone'
      BY <1>1, <1>4, AloneCreate
    <2> QED BY <1>3, <2>1, <2>2, <2>3, <2>4, <2>5 DEF Inv
  <1>5. CASE take_port(c) \/ take_octet(c)
    <2>1. Typed'
      BY <1>1, <1>5, CreateTyped, OctetTyped
    <2>2. SnapshotsTrue' /\ IdsOwned'
      BY <1>1, <1>5, MakingOwned
    <2>3. AddressesOwned'
      BY <1>1, <1>5, PortAddresses, OctetAddresses
    <2>4. ReachOwned'
      <3>1. contested' = contested
        BY <1>5 DEF take_port, take_octet, Go
      <3> QED BY <1>1, <1>5, <3>1, ReachQuiet, ReachEach
    <2>5. calm' => Alone'
      BY <1>1, <1>5, AloneCreate, AloneOctet
    <2> QED BY <1>3, <2>1, <2>2, <2>3, <2>4, <2>5 DEF Inv
  <1>6. CASE insert_new(c)
    <2>1. Typed'
      BY <1>1, <1>2, <1>6, EngineTyped
    <2>2. SnapshotsTrue' /\ IdsOwned'
      BY <1>1, <1>6, InsertOwned
    <2>3. AddressesOwned'
      <3>1. UNCHANGED <<made, next_port, next_addr, spent>>
        BY <1>6 DEF insert_new, insert
      <3>2. \A d \in Clients : Asked(request'[d]) => request'[d] = request[d]
        BY <1>1, <1>6, NewRequest DEF insert_new, Go, Typed, Asked, Persist
      <3> QED BY <1>1, <3>1, <3>2, AddressesFrame
    <2>4. ReachOwned'
      <3>1. contested' = contested
        BY <1>6 DEF insert_new, Go
      <3> QED BY <1>1, <1>2, <1>6, <3>1, ReachMoved, ReachEach
    <2>5. calm' => Alone'
      BY <1>1, <1>6, AloneInsert
    <2> QED BY <1>3, <2>1, <2>2, <2>3, <2>4, <2>5 DEF Inv
  <1> QED BY <1>4, <1>5, <1>6

\* At the start nothing is there.
LEMMA InitInv == Init => Inv
  <1> SUFFICES ASSUME Init PROVE Inv
    OBVIOUS
  <1>1. /\ groups = Nothing /\ engines = Nothing /\ made = Nothing /\ running = {}
        /\ next_seq = 1 /\ next_group_seq = 1 /\ next_addr = 2
        /\ next_port = [k \in Kinds |-> 0] /\ files = [g \in GroupIds |-> Absent]
        /\ request = [c \in Clients |-> Idle] /\ calm = TRUE /\ contested = {}
        /\ spent = FALSE
    BY DEF Init, RegistryInit
  <1>2. DOMAIN groups = {} /\ DOMAIN engines = {} /\ DOMAIN made = {} /\ Registered = {}
    BY <1>1 DEF Nothing, Registered
  <1>3. \A c \in Clients : /\ request[c] = Idle /\ ~Writing(request[c]) /\ ~Making(request[c])
                           /\ ~Creating(request[c]) /\ ~Asked(request[c])
    BY <1>1, NewRequest DEF Writing, Making, Creating, Asked
  <1>4. \A g \in GroupIds : files[g] = Absent /\ files[g].state # "whole"
    BY <1>1 DEF Absent
  <1>5. Typed
    <2>1. Span \in Nat /\ Span > 2
      BY RegistryAssumption
    <2>2. RegistryTyped
      <3>1. /\ groups \in [DOMAIN groups -> Names]
            /\ engines \in [Registered -> [group : GroupIds, name : Names]]
            /\ made \in [DOMAIN made -> Config]
        BY <1>1 DEF Nothing, Registered
      <3>2. next_addr \in 0..(Span - 1) /\ next_port \in [Kinds -> Nat]
        BY <1>1, <2>1
      <3>3. /\ DOMAIN groups \subseteq GroupIds /\ Registered \subseteq DOMAIN made
            /\ DOMAIN made \subseteq EngineIds /\ running \subseteq DOMAIN made
        BY <1>1, <1>2
      <3>4. next_seq \in Nat \ {0} /\ next_group_seq \in Nat
        BY <1>1
      <3>5. spent \in BOOLEAN
        BY <1>1
      <3> QED BY <3>1, <3>2, <3>3, <3>4, <3>5 DEF RegistryTyped
    <2>3. FilesTyped
      BY <1>1, <1>4 DEF FilesTyped, File
    <2>4. request \in [Clients -> Request] /\ \A c \in Clients : Going(request[c])
      BY <1>1, NewRequest DEF Going
    <2> QED BY <1>1, <2>2, <2>3, <2>4 DEF Typed, HistoryTyped
  <1>6. SnapshotsTrue
    BY <1>3, <1>4 DEF SnapshotsTrue
  <1>7. IdsOwned
    BY <1>2, <1>3, <1>4 DEF IdsOwned, Belongs
  <1>8. AddressesOwned
    BY <1>1, <1>2, <1>3 DEF AddressesOwned, PortsOwned, OctetsOwned
  <1>9. ReachOwned
    <2>1. \A e \in EngineIds : \A g :
            e \notin Starts(Idle) /\ e \notin Creates(Idle) /\ g \notin Deletes(Idle)
      BY NewRequest, DoesType
    <2> QED BY <1>1, <1>2, <1>3, <2>1 DEF ReachOwned, Reach
  <1>10. Alone
    <2>1. Found(Idle)
      BY NewRequest DEF Found, Writing
    <2>2. \A r \in Pending : r = Idle
      BY <1>3 DEF Pending
    <2> QED BY <1>2, <1>3, <1>4, <2>1, <2>2 DEF Alone, InSync
  <1> QED BY <1>5, <1>6, <1>7, <1>8, <1>9, <1>10 DEF Inv

\* Every step keeps the invariant.
LEMMA StepInv == Inv /\ [Next]_vars => Inv'
  <1> SUFFICES ASSUME Inv, [Next]_vars PROVE Inv'
    OBVIOUS
  <1>1. Typed /\ SnapshotsTrue /\ IdsOwned /\ AddressesOwned /\ ReachOwned /\ Alone
    BY DEF Inv
  <1>2. PICK k \in Kinds, g \in GroupIds, e \in EngineIds, S \in SUBSET Registered : TRUE
    <2>1. 1 \in GroupIds /\ 1 \in EngineIds
      BY RegistryAssumption DEF GroupIds, EngineIds
    <2> QED BY <2>1, RegistryAssumption
  <1>3. ASSUME NEW c \in Clients, Proceed(c) PROVE Inv'
    <2>1. CASE \/ Lookup(c) \/ stop_next(c) \/ delete_group(c) \/ start_new(c) \/ remove(c)
               \/ stop_removed(c) \/ group_of(c)
      BY <1>2, <2>1, NarrowInv
    <2>2. CASE Collect(c) \/ Truncate(c) \/ Write(c) \/ delete_group_file(c)
      BY <2>2, WriterInv
    <2>3. CASE take_port(c) \/ take_octet(c) \/ insert_new(c)
      BY <1>2, <2>3, CreateInv
    <2>4. CASE \E x \in EngineIds : remove_next(c, x) \/ start_one(c, x) \/ stop_one(c, x)
      BY <1>2, <2>4, NarrowInv
    <2> QED BY <1>3, <2>1, <2>2, <2>3, <2>4 DEF Proceed
  <1>4. ASSUME NEW c \in Clients, create_resource_group(c) PROVE Inv'
    BY <1>2, <1>4, NarrowInv
  <1>5. ASSUME NEW c \in Clients, NEW h \in GroupIds,
               \/ rename_resource_group(c, h) \/ delete_resource_group(c, h)
               \/ \E i \in Kinds : create_engine(c, i, h)
               \/ start_engines(c, InGroup(h)) \/ stop_engines(c, InGroup(h))
        PROVE  Inv'
    <2>1. PICK D \in SUBSET Registered : D = InGroup(h)
      BY DEF InGroup
    <2>2. CASE rename_resource_group(c, h) \/ delete_resource_group(c, h)
      BY <1>2, <2>2, NarrowInv
    <2>3. CASE \E i \in Kinds : create_engine(c, i, h)
      BY <2>3, CreateInv
    <2>4. CASE start_engines(c, D) \/ stop_engines(c, D)
      BY <1>2, <2>4, NarrowInv
    <2> QED BY <1>5, <2>1, <2>2, <2>3, <2>4
  <1>6. ASSUME NEW c \in Clients, NEW x \in Registered,
               \/ delete_engine(c, x) \/ rename_engine(c, x)
               \/ start_engines(c, {x}) \/ stop_engines(c, {x})
        PROVE  Inv'
    <2>1. x \in EngineIds
      BY <1>1 DEF Typed, RegistryTyped
    <2>2. PICK D \in SUBSET Registered : D = {x}
      OBVIOUS
    <2>3. CASE delete_engine(c, x) \/ rename_engine(c, x)
      BY <1>2, <2>1, <2>3, NarrowInv
    <2>4. CASE start_engines(c, D) \/ stop_engines(c, D)
      BY <1>2, <2>4, NarrowInv
    <2> QED BY <1>6, <2>2, <2>3, <2>4
  <1>7. CASE Restart
    BY <1>1, <1>7, RestartTyped, RestartOwned, RestartAddresses, ReachRestart, AloneRestart
    DEF Inv
  <1>8. CASE UNCHANGED vars
    <2>1. /\ UNCHANGED <<groups, engines, made, running, next_seq, next_group_seq>>
          /\ UNCHANGED <<next_port, next_addr, spent, files, request, calm, contested>>
      BY <1>8 DEF vars, registryVars
    <2>2. Typed'
      BY <1>1, <2>1 DEF Typed, RegistryTyped, HistoryTyped, FilesTyped, Going, Registered
    <2>3. SnapshotsTrue' /\ IdsOwned'
      BY <1>1, <2>1 
      DEF SnapshotsTrue, True, Writing, IdsOwned, Belongs, Making, Creating, Registered
    <2>4. AddressesOwned'
      BY <1>1, <2>1, AddressesFrame
    <2>a. ReachOwned'
      BY <1>1, <2>1 DEF ReachOwned, Reach, Held, Holding, Registered
    <2>5. Alone'
      <3>1. Pending' = Pending /\ Registered' = Registered
        BY <2>1 DEF Pending, Registered
      <3>2. \A h \in GroupIds : Resources(h)' = Resources(h)
        BY <2>1 DEF Resources, InGroup, Registered
      <3>3. \A r : Found(r) => Found(r)'
        BY <2>1 DEF Found, Current, Resources, InGroup, Registered
      <3>4. \A r, h : Behind(r, h) => Behind(r, h)'
        BY <2>1 DEF Behind
      <3>5. \A h \in GroupIds : InSync(h) => InSync(h)'
        BY <2>1, <3>2, SyncFrame
      <3> QED BY <1>1, <2>1, <3>1, <3>3, <3>4, <3>5 DEF Alone
    <2> QED BY <2>2, <2>3, <2>4, <2>a, <2>5 DEF Inv
  <1> QED BY <1>3, <1>4, <1>5, <1>6, <1>7, <1>8 DEF Next

\* The inductive invariant holds, whatever the requests and wherever the process ends.
THEOREM SpecInv == Spec => []Inv
  BY InitInv, StepInv, PTL DEF Spec

\* Every variable has its type, and what is registered is in the factories' registries.
THEOREM SpecTypeOK == Spec => []TypeOK
  <1>1. Inv => TypeOK
    <2> SUFFICES ASSUME Typed PROVE TypeOK
      BY DEF Inv
    <2>1. RegistryTyped /\ FilesTyped /\ request \in [Clients -> Request]
      BY DEF Typed
    <2>2. RegistryTypeOK
      BY <2>1 DEF RegistryTyped, RegistryTypeOK, Names, Config
    <2>3. \A c \in Clients : request[c].step \in Steps
      BY <2>1, RequestType
    <2>4. contested \subseteq EngineIds
      BY DEF Typed, HistoryTyped
    <2> QED BY <2>1, <2>2, <2>3, <2>4 DEF TypeOK, RegistryTyped, FilesTyped
  <1> QED BY SpecInv, <1>1, PTL

\* No two files have the same engine, and none that is about to be registered has the id
\* of one that is or may be again, over any number of restarts.
THEOREM SpecIdsDistinct == Spec => []IdsDistinct
  <1>1. Inv => IdsDistinct
    <2> SUFFICES ASSUME Typed, IdsOwned PROVE IdsDistinct
      BY DEF Inv
    <2>1. ASSUME NEW g \in GroupIds, NEW e, e \in InFile(g)
          PROVE  Belongs(e, g) /\ e \in EngineIds
      <3>1. files[g].state = "whole" /\ e \in DOMAIN files[g].snapshot.resources
        BY <2>1 DEF InFile
      <3>2. files[g].snapshot \in Snapshot
        BY <3>1, FileType DEF Typed, FilesTyped
      <3> QED BY <3>1, <3>2, SnapshotType DEF Belongs
    <2>2. \A g, h \in GroupIds : g # h => InFile(g) \cap InFile(h) = {}
      <3> SUFFICES ASSUME NEW g \in GroupIds, NEW h \in GroupIds, NEW e,
                          e \in InFile(g), e \in InFile(h)
                   PROVE  g = h
        OBVIOUS
      <3> QED BY <2>1 DEF IdsOwned
    <2>3. ASSUME NEW e \in Coming
          PROVE  e \notin Registered /\ \A g \in GroupIds : e \notin InFile(g)
      <3>1. PICK c \in Clients : Creating(request[c]) /\ e = request[c].engine
        BY <2>3 DEF Coming, Creates, Making, Creating
      <3>2. \A g \in GroupIds : ~Belongs(e, g)
        BY <3>1 DEF IdsOwned
      <3>3. e \in Registered => engines[e].group \in GroupIds /\ Belongs(e, engines[e].group)
        BY DEF Typed, RegistryTyped, Belongs
      <3> QED BY <2>1, <3>2, <3>3
    <2> QED BY <2>2, <2>3 DEF IdsDistinct
  <1> QED BY SpecInv, <1>1, PTL

\* No two registered instances of a kind share a port, however many are created at once
\* and whatever comes back with a restart; nor, until the last octet was once given, an
\* address.
THEOREM SpecAddressesDistinct == Spec => []AddressesDistinct
  <1>1. Inv => AddressesDistinct
    <2> SUFFICES ASSUME Typed, AddressesOwned PROVE AddressesDistinct
      BY DEF Inv
    <2>1. Registered \subseteq DOMAIN made
      BY DEF Typed, RegistryTyped
    <2> QED BY <2>1 DEF AddressesDistinct, AddressesOwned, PortsOwned, OctetsOwned, Apart
  <1> QED BY SpecInv, <1>1, PTL

\* What runs is registered or in the hands of the request that has it, and what is
\* registered is in a group there is, but for engines that overlapping requests fight about.
THEOREM SpecWithinReach == Spec => []WithinReach
  <1>1. Inv => WithinReach
    <2> SUFFICES ASSUME Typed, ReachOwned, NEW e \in (running \cup Registered) \ contested
                 PROVE  IF e \in Registered THEN engines[e].group \in DOMAIN groups
                        ELSE \E c \in Clients :
                               /\ request[c].step \in {"insert", "stop_removed", "stop_next"}
                               /\ request[c].engine = e
      BY DEF Inv, WithinReach
    <2>1. Reach(e)
      BY DEF Typed, RegistryTyped, ReachOwned
    <2>2. CASE e \in Registered
      BY <2>1, <2>2 DEF Reach
    <2>3. CASE e \notin Registered
      <3>1. Held(e)
        BY <2>1, <2>3 DEF Reach
      <3> QED BY <2>3, <3>1 DEF Held, Holding
    <2> QED BY <2>2, <2>3
  <1> QED BY SpecInv, <1>1, PTL

\* Requests that come one at a time leave the files as the groups are.
THEOREM SpecFilesInSync == Spec => []FilesInSync
  <1>1. Inv => FilesInSync
    <2> SUFFICES ASSUME Typed, Alone, calm, \A c \in Clients : request[c] = Idle
                 PROVE  /\ \A g \in DOMAIN groups : files[g] = Whole(Current(g))
                        /\ \A g \in GroupIds \ DOMAIN groups : files[g].state # "whole"
                        /\ \A e \in Registered : engines[e].group \in DOMAIN groups
      BY DEF Inv, FilesInSync, Current
    <2>1. \A r \in Pending : r = Idle
      BY DEF Pending
    <2>2. \A g : ~Behind(Idle, g)
      BY NewRequest DEF Behind, Writing
    <2>3. \A g \in GroupIds : InSync(g)
      BY <2>1, <2>2 DEF Alone
    <2>4. DOMAIN groups \subseteq GroupIds
      BY DEF Typed, RegistryTyped
    <2> QED BY <2>3, <2>4 DEF InSync, Alone
  <1> QED BY SpecInv, <1>1, PTL
=============================================================================
