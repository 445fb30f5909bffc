----------------------------- MODULE Reconciler -----------------------------
(***************************************************************************)
(* A source reconciler as a client of the storage (specification, section *)
(* 2 and 6): it publishes a new revision of its resource with Store,      *)
(* records the artifact in the resource status, and then runs             *)
(* GarbageCollect over the resource scope.  The reconcilers are not part  *)
(* of this repository; their calls are modelled from the specification,   *)
(* the backend operations they reach from the code.                       *)
(*                                                                         *)
(* controller-runtime never reconciles one object concurrently, so the    *)
(* scope has one reconciler.  The garbage collection is one step per      *)
(* backend call: the listing (with the clock reading taken after it), and *)
(* then one deletion per step, each of which may fail; the run's deadline *)
(* may expire between deletions.                                          *)
(*                                                                         *)
(* stores is a function from store names to object maps; the reconciler   *)
(* works on stores[Target].                                                *)
(***************************************************************************)
EXTENDS StorageBackend

CONSTANTS
  Target,   \* the store the reconciler's storage writes to
  NoPath,   \* no artifact in the status yet
  Removal   \* whether deletion of the resource goes through AdaptedStorage.RemoveAll

VARIABLES stores, rec

objs == stores[Target]

SetObjects(o) == stores' = [stores EXCEPT ![Target] = o]

RecStates ==
  [pc : {"idle", "collect", "delete", "remove", "removing", "gone"},
   status : Paths \cup {NoPath},
   plan : Seq(Paths),
   clean : BOOLEAN,
   gcAt : -MaxSkew .. MaxTime + MaxSkew,
   keep : SUBSET Paths]

RecInit ==
  rec = [pc |-> "idle", status |-> NoPath, plan |-> <<>>,
         clean |-> TRUE, gcAt |-> 0, keep |-> {}]

(* A reconcile that found revision p: the artifact is stored whole under   *)
(* its revision path and recorded in the status, then garbage collection  *)
(* follows.  A failed Store leaves the store and the status as they were  *)
(* and the reconcile is retried later; that step changes no state.        *)
Publish(p) ==
  /\ rec.pc = "idle"
  /\ p # rec.status
  /\ CanStore(objs)
  /\ SetObjects(Store(objs, p))
  /\ rec' = [rec EXCEPT !.pc = "collect", !.status = p]

(* Observer, not code: the artifacts of a listing that section 4.7's     *)
(* policy keeps whichever way the controller's clock is off by up to      *)
(* MaxSkew: at most TTL - MaxSkew old by the store's clock, and with fewer *)
(* than MaxRecords other artifacts at least as new, so that their position *)
(* in any newest-first order is below MaxRecords.                          *)
MustKeep(o) ==
  {p \in Present(o) :
     /\ now - o[p] <= TTL - MaxSkew
     /\ Cardinality({q \in Present(o) \ {p} : o[q] >= o[p]}) < MaxRecords}

(* Mutant: a failed listing is retried within the same run.               *)
CollectListRetry ==
  /\ rec.pc = "collect"
  /\ IF up
       THEN \E t \in ControllerClock :
              rec' = [rec EXCEPT !.pc = "delete", !.plan = GarbagePlan(objs, t),
                                 !.clean = TRUE, !.gcAt = t, !.keep = MustKeep(objs)]
       ELSE UNCHANGED rec
  /\ UNCHANGED stores

(* GarbageCollect lists the scope and reads the clock, then decides which *)
(* artifacts to delete.  A failed listing ends the run with an error.     *)
CollectList ==
  /\ rec.pc = "collect"
  /\ IF up
       THEN \E t \in ControllerClock :
              rec' = [rec EXCEPT !.pc = "delete", !.plan = GarbagePlan(objs, t),
                                 !.clean = TRUE, !.gcAt = t, !.keep = MustKeep(objs)]
       ELSE rec' = [rec EXCEPT !.pc = "idle", !.clean = FALSE]
  /\ UNCHANGED stores

(* One Delete of the plan; a failure is skipped and the loop goes on.     *)
CollectDelete ==
  /\ rec.pc = "delete"
  /\ rec.plan # <<>>
  /\ IF up
       THEN /\ SetObjects(Delete(objs, Head(rec.plan)))
            /\ rec' = [rec EXCEPT !.plan = Tail(@)]
       ELSE /\ rec' = [rec EXCEPT !.plan = Tail(@), !.clean = FALSE]
            /\ UNCHANGED stores

(* The deadline of the run passes: every remaining Delete fails on the    *)
(* cancelled context; the deletions already done stay done.               *)
CollectDeadline ==
  /\ rec.pc = "delete"
  /\ rec.plan # <<>>
  /\ rec' = [rec EXCEPT !.plan = <<>>, !.clean = FALSE]
  /\ UNCHANGED stores

CollectDone ==
  /\ rec.pc = "delete"
  /\ rec.plan = <<>>
  /\ rec' = [rec EXCEPT !.pc = "idle", !.keep = {}]  \* the observer ends with the run
  /\ UNCHANGED stores

(***************************************************************************)
(* Deletion of the resource: its reconcile calls RemoveAll for the scope  *)
(* and keeps the finalizer until that returns without error; an error is *)
(* returned to controller-runtime, which requeues the reconcile.          *)
(* AdaptedStorage.RemoveAll lists the scope, then deletes the listed      *)
(* artifacts one by one and returns at the first failed Delete.           *)
(***************************************************************************)
(* FilesystemStorage.List walks the scope's directory kind/ns/name, and   *)
(* filepath.Walk returns the Lstat error of a root that does not exist.   *)
(* The directory is made by the first Store (MkdirAll) and no Delete      *)
(* removes it, so on the filesystem a scope whose resource never          *)
(* published cannot be listed.  The S3 listing of an empty prefix is empty. *)
ScopeListable ==
  /\ up
  /\ Backend = "filesystem" => rec.status # NoPath

RequestDelete ==
  /\ Removal
  /\ rec.pc = "idle"
  /\ rec' = [rec EXCEPT !.pc = "remove"]
  /\ UNCHANGED stores

(* Mutant: a failed listing is logged and the removal dropped, as the     *)
(* garbage collection's errors are.                                       *)
RemoveAllListNoRetry ==
  /\ rec.pc = "remove"
  /\ IF ScopeListable
       THEN rec' = [rec EXCEPT !.pc = "removing",
                               !.plan = [i \in 1 .. Len(List(objs)) |-> List(objs)[i].path]]
       ELSE rec' = [rec EXCEPT !.pc = "idle"]
  /\ UNCHANGED stores

(* RemoveAll: List over the scope's filter; an error is returned.          *)
RemoveAllList ==
  /\ rec.pc = "remove"
  /\ ScopeListable
  /\ rec' = [rec EXCEPT !.pc = "removing",
                        !.plan = [i \in 1 .. Len(List(objs)) |-> List(objs)[i].path]]
  /\ UNCHANGED stores

(* Mutant: a failed Delete is skipped and the loop goes on.                *)
RemoveAllDeleteSkipError ==
  /\ rec.pc = "removing"
  /\ rec.plan # <<>>
  /\ IF up
       THEN SetObjects(Delete(objs, Head(rec.plan)))
       ELSE UNCHANGED stores
  /\ rec' = [rec EXCEPT !.plan = Tail(@)]

(* RemoveAll: one Delete of the listed artifacts; the first failure ends  *)
(* RemoveAll with the error and the reconcile is requeued.                 *)
RemoveAllDelete ==
  /\ rec.pc = "removing"
  /\ rec.plan # <<>>
  /\ IF up
       THEN /\ SetObjects(Delete(objs, Head(rec.plan)))
            /\ rec' = [rec EXCEPT !.plan = Tail(@)]
       ELSE /\ rec' = [rec EXCEPT !.pc = "remove", !.plan = <<>>]
            /\ UNCHANGED stores

(* RemoveAll returned without error: the finalizer is removed and the     *)
(* resource, with its status, is gone.                                    *)
RemoveAllDone ==
  /\ rec.pc = "removing"
  /\ rec.plan = <<>>
  /\ rec' = [rec EXCEPT !.pc = "gone", !.status = NoPath]
  /\ UNCHANGED stores

(* The steps of a reconcile that has started: a worker of                 *)
(* controller-runtime runs a reconcile to its end, and a reconcile that   *)
(* returned an error is requeued.                                          *)
RecWork ==
  \/ CollectList
  \/ CollectDelete
  \/ CollectDeadline
  \/ CollectDone
  \/ RemoveAllList
  \/ RemoveAllDelete
  \/ RemoveAllDone

RecNext ==
  \/ \E p \in Paths : Publish(p)
  \/ CollectList
  \/ CollectDelete
  \/ CollectDeadline
  \/ CollectDone
  \/ RequestDelete
  \/ RemoveAllList
  \/ RemoveAllDelete
  \/ RemoveAllDone

(* After a garbage collection in which every deletion succeeded, the      *)
(* scope holds at most MaxRecords artifacts, and every artifact but the   *)
(* one in the status was at most TTL old when the collector read the      *)
(* clock.  This is what the TTL and MaxRecords marking of GarbageCollect  *)
(* is for; it can only fail by a wrong position count, a wrong age        *)
(* comparison or a deletion that is lost.                                 *)
RetentionBound ==
  rec.pc = "idle" /\ rec.clean =>
    /\ Cardinality(Present(objs)) <= MaxRecords
    /\ \A p \in Present(objs) \ {rec.status} : rec.gcAt - objs[p] <= TTL

(* Clock skew between the controller and the store (S3 LastModified      *)
(* against the pod's time.Now()) shifts every TTL decision by the skew.   *)
(* While a garbage collection runs, every artifact of its listing that    *)
(* was young by more than the skew and among the MaxRecords newest is    *)
(* still in the scope: the sort (ties included), the position count and   *)
(* the age comparison together never delete an artifact the policy keeps, *)
(* and the skew costs no more than MaxSkew of the TTL.                    *)
YoungNewestKept == rec.pc = "delete" => rec.keep \subseteq Present(objs)

(* Deletion of a resource through RemoveAll: once the finalizer is gone  *)
(* the scope holds no artifact.  Breaking it takes a listing, a backend   *)
(* failure in the middle of the deletions, and a removal that reports     *)
(* success regardless.                                                     *)
GoneMeansEmpty == rec.pc = "gone" => Present(objs) = {}

=============================================================================
