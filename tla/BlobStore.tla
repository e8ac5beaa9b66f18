------------------------------- MODULE BlobStore -------------------------------
(***************************************************************************)
(* The blob store of a storage account (storage/blob/core) behind its REST *)
(* front end (storage/blob/server).  A blob is represented by its etag.    *)
(***************************************************************************)
EXTENDS StorageRequests

CONSTANTS Containers, Blobs

VARIABLE containers   \* the blobs of each container

ASSUME BlobAssumption == Absent \notin Stamps \cup [Blobs -> Stamps \cup {Absent}]

Exists(n) == containers[n] # Absent
Empty     == [b \in Blobs |-> Absent]

\* list_blobs, and what get_blob finds.
Listed(n) == IF Exists(n) THEN {b \in Blobs : containers[n][b] # Absent} ELSE {}
BlobEtags(n) == {containers[n][b] : b \in Listed(n)}

BlobInit == containers = [n \in Containers |-> Absent]

\* container_put and the first step of create_container, contains_key.
ContainerPut(c, n) ==
  /\ ~Exists(n)
  /\ Begin(c, [op |-> "create_container", name |-> n, since |-> stamp])
  /\ UNCHANGED <<stamp, confirmed, containers>>

\* create_container from its insert on.
ContainerInsert(c) ==
  /\ End(c, "create_container")
  /\ LET n == request[c].name
     IN /\ containers' = [containers EXCEPT ![n] = Empty]
        /\ Confirm({}, Overtaken(c, BlobEtags(n)))
  /\ UNCHANGED stamp

ContainerDelete(n) ==
  /\ Exists(n)
  /\ containers' = [containers EXCEPT ![n] = Absent]
  /\ Confirm({}, BlobEtags(n))
  /\ UNCHANGED <<request, stamp>>

\* put_blob: the container of a blob is created where it does not exist.
Uploaded(n, b) == [(IF Exists(n) THEN containers[n] ELSE Empty) EXCEPT ![b] = stamp + 1]

BlobPut(n, b) ==
  /\ Draw(1)
  /\ containers' = [containers EXCEPT ![n] = Uploaded(n, b)]
  /\ Confirm({stamp + 1}, {containers[n][x] : x \in Listed(n) \cap {b}})
  /\ UNCHANGED request

BlobDelete(n, b) ==
  /\ b \in Listed(n)
  /\ containers' = [containers EXCEPT ![n][b] = Absent]
  /\ Confirm({}, {containers[n][b]})
  /\ UNCHANGED <<request, stamp>>

\* dump and restore: blobs and their etags come back as they are.
BlobRestore == UNCHANGED containers

BlobNext ==
  \E n \in Containers :
    \/ \E c \in Clients : ContainerPut(c, n)
    \/ ContainerDelete(n)
    \/ \E b \in Blobs : BlobPut(n, b) \/ BlobDelete(n, b)
    \/ \E c \in Clients : ContainerInsert(c)

BlobRequest == [op : {"create_container"}, name : Containers, since : 0..MaxStamp]

BlobTypeOK == containers \in [Containers -> [Blobs -> Stamps \cup {Absent}] \cup {Absent}]
=============================================================================
