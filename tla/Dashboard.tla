------------------------------- MODULE Dashboard -------------------------------
(***************************************************************************)
(* The requests of the dashboard (ui/web) that change the registry, and    *)
(* the file of each resource group, which they rewrite and which the next  *)
(* start of the process reads.                                             *)
(*                                                                         *)
(* Requests interleave wherever they let go of the registry's lock; an     *)
(* engine's start and stop are awaited.  What a request has found is in    *)
(* request until its next step.                                            *)
(***************************************************************************)
EXTENDS EngineRegistry

CONSTANT Clients

VARIABLES
  files,       \* the file of each group
  request,     \* what each client's request does next
  calm,        \* history: no two requests have overlapped in this process
  contested    \* history: engines that overlapping requests removed and kept going

vars == <<registryVars, files, request, calm, contested>>

Idle    == [step |-> "idle"]
Absent  == [state |-> "absent"]
Garbled == [state |-> "garbled"]
Whole(snapshot) == [state |-> "whole", snapshot |-> snapshot]

Init ==
  /\ RegistryInit
  /\ files = [g \in GroupIds |-> Absent]
  /\ request = [c \in Clients |-> Idle]
  /\ calm = TRUE
  /\ contested = {}

\* What request r has yet to start, to remove, to create, and the group it deletes.
Starts(r)  == IF r.step = "start" THEN r.todo ELSE {}
Removes(r) == {e \in EngineIds : \/ r.step \in {"empty", "stop_next"} /\ e \in r.todo
                                 \/ r.step = "remove" /\ e = r.engine}
Creates(r) == IF r.step \in {"port", "octet", "start_new", "insert"} THEN {r.engine} ELSE {}
Deletes(r) == IF r.step \in {"empty", "stop_next"} THEN {r.group} ELSE {}

\* Engines that r starts and q removes, or that r creates in the group q deletes.
Fought(r, q) == {e \in EngineIds : \/ e \in Starts(r) /\ e \in Removes(q)
                                   \/ e \in Creates(r) /\ r.group \in Deletes(q)}

\* A request arrives and has taken its first step, of which r is left.
Begin(c, r) ==
  /\ request[c] = Idle
  /\ request' = [request EXCEPT ![c] = r]
  /\ calm' = (calm /\ \A d \in Clients : request[d] = Idle)
  /\ contested' = contested \cup
       UNION {Fought(r, request[d]) \cup Fought(request[d], r) : d \in Clients}
  /\ UNCHANGED files

\* Client c's request goes on from step, and has r to do.
Go(c, step, r) ==
  /\ request[c].step = step
  /\ request' = [request EXCEPT ![c] = r]
  /\ UNCHANGED <<calm, contested>>

Persist(g) == [step |-> "snapshot", group |-> g]

-----------------------------------------------------------------------------
(***************************************************************************)
(* persist_group and delete_group_file.                                    *)
(***************************************************************************)
\* snapshot_group finds the group, or there is nothing to do ...
Lookup(c) ==
  LET g == request[c].group
  IN Go(c, "snapshot",
        IF g \in DOMAIN groups THEN [step |-> "collect", group |-> g, name |-> groups[g]]
        ELSE Idle)
  /\ UNCHANGED <<registryVars, files>>

\* ... and then what is in it.
Collect(c) ==
  LET r == request[c]
  IN Go(c, "collect",
        [step |-> "truncate",
         snapshot |-> [id |-> r.group, name |-> r.name, resources |-> Resources(r.group)]])
  /\ UNCHANGED <<registryVars, files>>

Writers(g) == {c \in Clients : request[c].step = "write" /\ request[c].snapshot.id = g}

\* fs::write truncates the file ...
Truncate(c) ==
  /\ Go(c, "truncate", [request[c] EXCEPT !.step = "write"])
  /\ files' = [files EXCEPT ![request[c].snapshot.id] = Garbled]
  /\ UNCHANGED registryVars

\* ... and writes it, unless it was deleted meanwhile; two writers at once may leave a
\* mixture.
Write(c) ==
  /\ Go(c, "write", Idle)
  /\ LET g == request[c].snapshot.id
     IN \E new \in {Whole(request[c].snapshot)} \cup
                     (IF Writers(g) # {c} \/ files[g] # Garbled THEN {Garbled} ELSE {}) :
          files' = [files EXCEPT ![g] = IF @ = Absent THEN Absent ELSE new]
  /\ UNCHANGED registryVars

delete_group_file(c) ==
  /\ Go(c, "unlink", Idle)
  /\ files' = [files EXCEPT ![request[c].group] = Absent]
  /\ UNCHANGED registryVars

-----------------------------------------------------------------------------
(***************************************************************************)
(* Resource groups.                                                        *)
(***************************************************************************)
create_resource_group(c) ==
  /\ create_group
  /\ Begin(c, Persist(next_group_seq))

rename_resource_group(c, g) ==
  /\ rename_group(g)
  /\ Begin(c, Persist(g))

\* Notes the engines that run.
delete_resource_group_Mistake(c, g) ==
  /\ Begin(c, [step |-> "empty", group |-> g, todo |-> InGroup(g) \cap running])
  /\ UNCHANGED registryVars
\* delete_group notes the group's engines, removes them one by one ...
delete_resource_group(c, g) ==
  /\ Begin(c, [step |-> "empty", group |-> g, todo |-> InGroup(g)])
  /\ UNCHANGED registryVars

\* ... and stops each, unless another request has removed it meanwhile ...
remove_next(c, e) ==
  /\ request[c].step = "empty" /\ e \in request[c].todo
  /\ unregister(e)
  /\ LET rest == [step |-> "empty", group |-> request[c].group, todo |-> request[c].todo \ {e}]
     IN Go(c, "empty", IF e \notin Registered THEN rest
                       ELSE [step |-> "stop_next", group |-> rest.group,
                             todo |-> rest.todo, engine |-> e])
  /\ UNCHANGED files

stop_next(c) ==
  /\ Go(c, "stop_next", [step |-> "empty", group |-> request[c].group, todo |-> request[c].todo])
  /\ stop(request[c].engine)
  /\ UNCHANGED files

\* ... before it drops the group.
delete_group(c) ==
  /\ request[c].step = "empty" /\ request[c].todo = {}
  /\ Go(c, "empty", [step |-> "unlink", group |-> request[c].group])
  /\ retain_groups(request[c].group)
  /\ UNCHANGED files

-----------------------------------------------------------------------------
(***************************************************************************)
(* Engines.                                                                *)
(***************************************************************************)
create_engine(c, k, g) ==
  /\ create(g)
  /\ Begin(c, [step |-> "port", engine |-> next_seq, group |-> g, kind |-> k])

take_port(c) ==
  LET r == request[c]
  IN /\ Go(c, "port", [step |-> "octet", engine |-> r.engine, group |-> r.group,
                       kind |-> r.kind, port |-> next_port[r.kind]])
     /\ resolve_port(r.kind)
  /\ UNCHANGED files

take_octet(c) ==
  LET r == request[c]
  IN /\ Go(c, "octet", [step |-> "start_new", engine |-> r.engine, group |-> r.group])
     /\ build(r.engine, r.kind, r.port)
  /\ UNCHANGED files

\* A start that fails ends the request: the engine was never registered.
start_new(c) ==
  LET e == request[c].engine
  IN \/ /\ Go(c, "start_new", [request[c] EXCEPT !.step = "insert"])
        /\ start(e)
     \/ /\ Go(c, "start_new", Idle)
        /\ UNCHANGED registryVars
  /\ UNCHANGED files

insert_new(c) ==
  /\ Go(c, "insert", Persist(request[c].group))
  /\ insert(request[c].engine, request[c].group)
  /\ UNCHANGED files

\* delete_engine: group_of, remove, and the file of the group it was in.
delete_engine(c, e) ==
  /\ e \in Registered
  /\ Begin(c, [step |-> "remove", engine |-> e, group |-> engines[e].group])
  /\ UNCHANGED registryVars

remove(c) ==
  LET e == request[c].engine
  IN /\ Go(c, "remove", IF e \in Registered THEN [request[c] EXCEPT !.step = "stop_removed"]
                        ELSE Persist(request[c].group))
     /\ unregister(e)
  /\ UNCHANGED files

stop_removed(c) ==
  /\ Go(c, "stop_removed", Persist(request[c].group))
  /\ stop(request[c].engine)
  /\ UNCHANGED files

\* Has the group's file written before.
Renamed_Mistake(e) == Idle
\* What is left after the new name is set.
Renamed(e) == [step |-> "group_of", engine |-> e]

rename_engine(c, e) ==
  /\ rename(e)
  /\ Begin(c, Renamed(e))

\* The group is looked up then, and the engine may be gone.
group_of(c) ==
  LET e == request[c].engine
  IN Go(c, "group_of", IF e \in Registered THEN Persist(engines[e].group) ELSE Idle)
  /\ UNCHANGED <<registryVars, files>>

\* start_engine and start_resource_group, stop_engine and stop_resource_group: the
\* engines are looked up first, and then started or stopped one by one.
start_engines(c, chosen) ==
  /\ chosen # {}
  /\ Begin(c, [step |-> "start", todo |-> chosen])
  /\ UNCHANGED registryVars

stop_engines(c, chosen) ==
  /\ chosen # {}
  /\ Begin(c, [step |-> "stop", todo |-> chosen])
  /\ UNCHANGED registryVars

Rest(c, e) == IF request[c].todo = {e} THEN Idle ELSE [request[c] EXCEPT !.todo = @ \ {e}]

\* The first start that fails ends the request.
start_one(c, e) ==
  /\ request[c].step = "start" /\ e \in request[c].todo
  /\ \/ start(e) /\ Go(c, "start", Rest(c, e))
     \/ Go(c, "start", Idle) /\ UNCHANGED registryVars
  /\ UNCHANGED files

stop_one(c, e) ==
  /\ request[c].step = "stop" /\ e \in request[c].todo
  /\ stop(e)
  /\ Go(c, "stop", Rest(c, e))
  /\ UNCHANGED files

-----------------------------------------------------------------------------
\* The process ends at any moment, by "Quit" or otherwise, and the next one reads the
\* files there are (load_all_groups); one that does not parse is skipped.
Restart ==
  /\ restore({files[g].snapshot : g \in {g \in GroupIds : files[g].state = "whole"}})
  /\ request' = [c \in Clients |-> Idle]
  /\ calm' = TRUE
  /\ contested' = {}
  /\ UNCHANGED files

Proceed(c) ==
  \/ Lookup(c) \/ Collect(c) \/ Truncate(c) \/ Write(c) \/ delete_group_file(c)
  \/ stop_next(c) \/ delete_group(c)
  \/ take_port(c) \/ take_octet(c) \/ start_new(c) \/ insert_new(c)
  \/ remove(c) \/ stop_removed(c) \/ group_of(c)
  \/ \E e \in EngineIds : remove_next(c, e) \/ start_one(c, e) \/ stop_one(c, e)

Next ==
  \/ \E c \in Clients :
       \/ Proceed(c)
       \/ create_resource_group(c)
       \/ \E g \in GroupIds :
            \/ rename_resource_group(c, g) \/ delete_resource_group(c, g)
            \/ \E k \in Kinds : create_engine(c, k, g)
            \/ start_engines(c, InGroup(g)) \/ stop_engines(c, InGroup(g))
       \/ \E e \in Registered :
            \/ delete_engine(c, e) \/ rename_engine(c, e)
            \/ start_engines(c, {e}) \/ stop_engines(c, {e})
  \/ Restart

Spec == Init /\ [][Next]_vars

-----------------------------------------------------------------------------
Steps == {"idle", "snapshot", "collect", "truncate", "write", "unlink", "empty", "stop_next",
          "port", "octet", "start_new", "insert", "group_of", "remove", "stop_removed",
          "start", "stop"}

\* Types; everything registered is in the factories' registries, and ids are counted.
TypeOK ==
  /\ RegistryTypeOK
  /\ \A g \in GroupIds : files[g].state = "whole" => files[g].snapshot.id = g
  /\ \A c \in Clients : request[c].step \in Steps
  /\ contested \subseteq EngineIds

\* The ids that are in the hands of a request that creates them.
Coming == UNION {Creates(request[c]) : c \in Clients}
InFile(g) == IF files[g].state = "whole" THEN DOMAIN files[g].snapshot.resources ELSE {}

\* An id names one engine: no two files have it, over any number of crashes, lost files
\* and stale writes, and no engine is created under the id of one that is registered
\* or comes back with the next start (bump_next_seq; create_with_config's guard against
\* an id that two files have is never needed).
IdsDistinct ==
  /\ \A g, h \in GroupIds : g # h => InFile(g) \cap InFile(h) = {}
  /\ \A e \in Coming : e \notin Registered /\ \A g \in GroupIds : e \notin InFile(g)

\* "a resource created afterward in this run can't collide with one of them"
\* (main.rs): no two instances of a kind are given the same port, however requests
\* interleave and whatever is restored, nor the same loopback address as long as the
\* last octet was never given.
AddressesDistinct ==
  \A e, f \in Registered : e # f /\ made[e].kind = made[f].kind =>
    /\ made[e].port + Step[made[e].kind] <= made[f].port
         \/ made[f].port + Step[made[e].kind] <= made[e].port
    /\ made[e].kind = ServiceBus /\ ~spent => made[e].addr # made[f].addr

\* Requests that delete a group or an engine leave nothing behind: an engine that is
\* registered is in a group that exists, and one that runs is registered or in the
\* hands of the request that creates or removes it.  The exception are engines that
\* one request starts or creates while another one removes them or deletes their group.
WithinReach ==
  \A e \in (running \cup Registered) \ contested :
    IF e \in Registered THEN engines[e].group \in DOMAIN groups
    ELSE \E c \in Clients : /\ request[c].step \in {"insert", "stop_removed", "stop_next"}
                             /\ request[c].engine = e

\* As long as the requests come one at a time, each leaves every group's file as the
\* group is, whatever failed in between and whatever a crash has made of the files
\* before (persist_group is "called after every mutation").
FilesInSync ==
  calm /\ (\A c \in Clients : request[c] = Idle) =>
    /\ \A g \in DOMAIN groups :
         files[g] = Whole([id |-> g, name |-> groups[g], resources |-> Resources(g)])
    /\ \A g \in GroupIds \ DOMAIN groups : files[g].state # "whole"
    /\ \A e \in Registered : engines[e].group \in DOMAIN groups
=============================================================================
