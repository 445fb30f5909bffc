--------------------------- MODULE StorageBackend ---------------------------
(***************************************************************************)
(* One storage backend instance and the objects of one resource scope     *)
(* (kind/namespace/name) it holds: the operations of the storage.Interface *)
(* (pkg/storage/interface) as FilesystemStorage (pkg/storage/filesystem.go)*)
(* and S3Storage (pkg/storage/s3.go) implement them.                       *)
(*                                                                         *)
(* An object map objs gives, for each revision path p, the LastUpdateTime *)
(* of the object stored under p, or NoObject; the operations take the map *)
(* they act on, so that a composition can hold several stores.  Bytes are *)
(* not modelled: a path names one revision and a revision always archives *)
(* to the same bytes, so the content under a path is determined by the    *)
(* path.  up is whether the backend answers                                *)
(* (the base directory is accessible, the bucket is reachable).  now is    *)
(* the clock, in ticks of the backend's timestamp resolution.              *)
(***************************************************************************)
EXTENDS Integers, Sequences, SequencesExt, Retention

CONSTANTS
  Backend,    \* "filesystem" or "s3": Config.Backend
  Paths,      \* revision paths of the scope, ordered as their keys
  NoObject,   \* no object under a path
  TTL,        \* RetentionPolicy.TTL, in ticks
  MaxRecords, \* RetentionPolicy.MaxRecords
  MaxTime,    \* bound on the clock
  MaxSkew     \* bound on the difference between the controller's clock and the store's

ASSUME Backend \in {"filesystem", "s3"}
ASSUME Paths \subseteq Nat /\ NoObject \notin Nat
ASSUME TTL \in Nat /\ MaxRecords \in Nat /\ MaxTime \in Nat /\ MaxSkew \in Nat

VARIABLES up, now

Policy == [TTL |-> TTL, MaxRecords |-> MaxRecords]

Present(objs) == {p \in Paths : objs[p] # NoObject}

(* List: the objects under the scope prefix, in ascending key order, each *)
(* with its modification time (S3: object.LastModified; filesystem: the   *)
(* ModTime of the walked file).                                            *)
List(objs) ==
  SetToSortSeq({[path |-> p, time |-> objs[p]] : p \in Present(objs)},
               LAMBDA a, b : a.path < b.path)

(* FilesystemStorage.Exists returns ArtifactExist: a stat of the file.   *)
(* Any stat failure, an inaccessible base directory included, reads as    *)
(* "does not exist"; the error result is always nil.                      *)
FsExists(objs, p) == IF up /\ objs[p] # NoObject THEN "true" ELSE "false"

(* Mutants: every StatObject error read as "not found"; NoSuchKey        *)
(* returned as an error.                                                   *)
S3ExistsNoError(objs, p) == IF up /\ objs[p] # NoObject THEN "true" ELSE "false"

S3ExistsMissingIsError(objs, p) ==
  IF ~up \/ objs[p] = NoObject THEN "error" ELSE "true"

(* S3Storage.Exists: StatObject; NoSuchKey is "false" without an error,   *)
(* every other failure is an error.                                        *)
S3Exists(objs, p) ==
  IF ~up THEN "error" ELSE IF objs[p] # NoObject THEN "true" ELSE "false"

Exists(objs, p) ==
  IF Backend = "s3" THEN S3Exists(objs, p) ELSE FsExists(objs, p)

(* FilesystemStorage.Retrieve: ArtifactExist again, then os.Open.  A      *)
(* missing file is an error ("artifact not found"), as is a failed open.  *)
(* An opened file stays readable if it is removed afterwards.             *)
FsRetrieve(objs, p) == IF up /\ objs[p] # NoObject THEN "reader" ELSE "error"

(* Store: the filesystem backend writes a temporary file and renames it   *)
(* into place (AtomicWriteFile); S3Storage.Store buffers the stream and   *)
(* issues one PutObject.  Either way the object appears whole under its   *)
(* path, stamped with the backend's clock, or not at all.  A file         *)
(* timestamp has nanosecond resolution, so on the filesystem a new write  *)
(* is later than every earlier one; S3 LastModified has one-second        *)
(* resolution, so two PUTs in the same tick carry the same time.          *)
CanStore(objs) ==
  /\ up
  /\ Backend = "filesystem" => \A q \in Present(objs) : objs[q] < now

Store(objs, p) == [objs EXCEPT ![p] = now]

(* Delete: FilesystemStorage.Delete treats a missing file as success;      *)
(* S3 RemoveObject succeeds on a missing key.  Both fail while the        *)
(* backend is down.                                                        *)
Delete(objs, p) == [objs EXCEPT ![p] = NoObject]

(* The deletions GarbageCollect attempts for the scope, given the clock   *)
(* reading it takes after listing.  FilesystemStorage.GarbageCollect      *)
(* ignores the policy it is passed and hands the legacy controller.Storage *)
(* (built from the same TTL and record flags) a dummy artifact of the     *)
(* scope; that collector is not in this repository, so the filesystem    *)
(* plan is the policy as section 4.7 states it.                           *)
GarbagePlan(objs, clock) ==
  IF Backend = "s3" THEN S3GarbagePlan(List(objs), clock, Policy)
                    ELSE PolicyGarbagePlan(List(objs), clock, Policy)

(* Healthy: the filesystem stats its base path; S3 lists one key.         *)
Healthy == up

(***************************************************************************)
(* The environment of the backend: time passes, the backend becomes       *)
(* unreachable and reachable again.                                        *)
(***************************************************************************)
Tick == now < MaxTime /\ now' = now + 1 /\ UNCHANGED up

Outage == up /\ up' = FALSE /\ UNCHANGED now

Recover == ~up /\ up' = TRUE /\ UNCHANGED now

(* now is the store's clock, which stamps LastModified.  The collector's  *)
(* time.Now() is the controller pod's clock: any reading within MaxSkew  *)
(* ticks of the store's.                                                   *)
ControllerClock == now - MaxSkew .. now + MaxSkew

Empty == [p \in Paths |-> NoObject]

ObjectMaps == [Paths -> 0 .. MaxTime \cup {NoObject}]

Init ==
  /\ up = TRUE
  /\ now = 0

TypeOK ==
  /\ up \in BOOLEAN
  /\ now \in 0 .. MaxTime

=============================================================================
