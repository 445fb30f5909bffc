-------------------------- MODULE SourceController --------------------------
(***************************************************************************)
(* The source-controller process as cmd/main.go wires it: one storage     *)
(* provider built from the configuration (mustInitStorage), the storage   *)
(* the reconcilers are given (NewLegacyStorageAdapter), the artifact      *)
(* server over the provider, and the reconciler of one resource scope.    *)
(*                                                                         *)
(* stores["provider"] is the scope in the configured backend, the one the *)
(* artifact server reads.  stores["local"] is the scope on the local disk *)
(* of the pod, where the plain controller.Storage that                    *)
(* NewLegacyStorageAdapter returns for the S3 backend writes.             *)
(*                                                                         *)
(* Wiring selects how the reconcilers reach the storage:                  *)
(*   "legacy_adapter": as main() does, through NewLegacyStorageAdapter;   *)
(*   "provider": through the provider itself (AdaptedStorage forwards     *)
(*               every call of the reconcilers to it).                    *)
(*                                                                         *)
(* main() starts the artifact server on every pod, over that pod's own    *)
(* provider, while only the elected leader reconciles.  A request worker  *)
(* in FollowerWorkers is served by a pod that is not the leader.          *)
(***************************************************************************)
EXTENDS Integers, FiniteSets, Sequences

CONSTANTS
  Backend, Wiring, Paths, NoObject, TTL, MaxRecords, MaxTime, MaxSkew,
  Workers, EmptyPath, NoPath,
  FollowerWorkers, \* the request workers of a replica that is not the leader
  Presignable      \* the S3 client found credentials in the environment

ASSUME Wiring \in {"legacy_adapter", "provider"}
ASSUME FollowerWorkers \subseteq Workers

VARIABLES up, now, stores, rec, srv

vars == <<up, now, stores, rec, srv>>

Stores == {"provider", "local"}

(* NewLegacyStorageAdapter: for the filesystem backend it returns the     *)
(* provider's own legacy storage (same base path); for S3 it returns a    *)
(* new controller.Storage on the local storage path, with a TTL of one    *)
(* hour and 10 records.                                                    *)
Target ==
  IF Wiring = "provider" \/ Backend = "filesystem" THEN "provider" ELSE "local"

TargetBackend == IF Target = "provider" THEN Backend ELSE "filesystem"

(* One hour outlasts every behaviour of the model.                        *)
LocalTTL == MaxTime + 1
LocalRecords == 10

TargetTTL == IF Target = "provider" THEN TTL ELSE LocalTTL
TargetRecords == IF Target = "provider" THEN MaxRecords ELSE LocalRecords

(* The local disk of the pod does not fail in this model.                 *)
targetUp == IF Target = "provider" THEN up ELSE TRUE

Prov == INSTANCE StorageBackend

Rec == INSTANCE Reconciler
         WITH Backend <- TargetBackend, TTL <- TargetTTL,
              MaxRecords <- TargetRecords, up <- targetUp,
              Removal <- (Wiring = "provider")

(* The pod of a request worker, and the replicas that serve requests.    *)
ReplicaOf(w) == IF w \in FollowerWorkers THEN "follower" ELSE "leader"

Replicas == {"leader"} \cup {ReplicaOf(w) : w \in Workers}

(* The scope as a replica's own provider sees it.  Every pod builds its   *)
(* provider from the same flags: an S3 provider reads the shared bucket;  *)
(* a filesystem provider reads the storage path on the pod's own disk,    *)
(* which on a follower no reconciler writes.                              *)
ReplicaStore(r) ==
  IF r = "leader" \/ Backend = "s3" THEN stores["provider"] ELSE Prov!Empty

Srv(r) == INSTANCE ArtifactServer WITH objects <- ReplicaStore(r)

Init ==
  /\ Prov!Init
  /\ stores = [s \in Stores |-> Prov!Empty]
  /\ Rec!RecInit
  /\ Srv("leader")!SrvInit

Environment ==
  /\ (Prov!Tick \/ Prov!Outage \/ Prov!Recover)
  /\ UNCHANGED <<stores, rec, srv>>

Reconcile == Rec!RecNext /\ UNCHANGED <<up, now, srv>>

Serve ==
  \E w \in Workers : Srv(ReplicaOf(w))!SrvNext(w) /\ UNCHANGED <<up, now, stores, rec>>

Next == Environment \/ Reconcile \/ Serve

Spec == Init /\ [][Next]_vars

(* A reconcile that has started runs to its end and a failed one is       *)
(* requeued (controller-runtime); nothing forces a new revision, a        *)
(* deletion, a request, or the backend to come back.                      *)
RecWork == Rec!RecWork /\ UNCHANGED <<up, now, srv>>

FairSpec == Spec /\ WF_vars(RecWork)

TypeOK ==
  /\ Prov!TypeOK
  /\ stores \in [Stores -> Prov!ObjectMaps]
  /\ rec \in Rec!RecStates
  /\ srv \in [Workers -> Srv("leader")!SrvStates]

(* Specification, sections 1, 2, 4.7 and 4.8: the artifact a resource's  *)
(* status advertises is served by the artifact server of every replica,   *)
(* and garbage collection never deletes the newest artifact of a scope.   *)
(* Breaking it takes a publication, time passing, and a collection that   *)
(* marks the newest artifact, or a wiring that writes where a server does *)
(* not read.                                                               *)
StatusServable ==
  rec.status # NoPath => \A r \in Replicas : ReplicaStore(r)[rec.status] # NoObject

RetentionBound == Rec!RetentionBound

GoneMeansEmpty == Rec!GoneMeansEmpty

(* The collector keeps what the policy keeps, up to the clock skew (see   *)
(* Reconciler).                                                            *)
YoungNewestKept == Rec!YoungNewestKept

(* sortArtifactsByTime returns the listing of the scope it was given,     *)
(* newest first: the exchange sort loses, duplicates and misorders no     *)
(* artifact of any listing the system reaches (S3 times tie within a       *)
(* second), so the positions the MaxRecords bound counts are positions by *)
(* age.                                                                    *)
SortedNewestFirst ==
  LET l == Prov!List(stores["provider"])
      s == Prov!sortArtifactsByTime(l)
  IN  Prov!ToBag(s) = Prov!ToBag(l) /\ Prov!IsSorted(s, LAMBDA a, b : a.time >= b.time)
NotFoundMeansAbsent == Srv("leader")!NotFoundMeansAbsent

ServerErrorMeansBackendFailure == Srv("leader")!ServerErrorMeansBackendFailure

(* A garbage collection that has started ends, whether or not the        *)
(* backend is up: GarbageCollect returns its error instead of waiting for  *)
(* the backend, and its deadline bounds the deletions.                     *)
GarbageCollectEnds == rec.pc \in {"collect", "delete"} ~> rec.pc = "idle"

(* A deleted resource's removal completes once the backend stays up: the  *)
(* reconcile is requeued after every failed List or Delete.               *)
RemovalCompletes == <>[]up => (rec.pc = "remove" ~> rec.pc = "gone")

(* Refinement: the scope the server reads, seen as a set of paths, and    *)
(* the status behave as AbstractScope says, the resource counting as      *)
(* being deleted from RequestDelete on.  Every step of the stores and the *)
(* reconciler is a publication, a retention, a drop or the finalization,  *)
(* or leaves all three unchanged.  It fails if a collection deletes the   *)
(* artifact in the status, or if AdaptedStorage.RemoveAll reports success *)
(* (and the finalizer goes) while an artifact of the scope is left behind.*)
Scope == INSTANCE AbstractScope
           WITH store <- Prov!Present(stores["provider"]), status <- rec.status,
                deleting <- rec.pc \in {"remove", "removing", "gone"}

=============================================================================
