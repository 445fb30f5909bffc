----------------------------- MODULE Retention -----------------------------
(***************************************************************************)
(* The retention engine: how a listing of one scope is ordered and which  *)
(* of its artifacts a garbage collection deletes.                          *)
(*                                                                         *)
(* An artifact of a listing is a record [path |-> p, time |-> t]: p is the *)
(* revision file of the scope (paths are integers ordered as their keys    *)
(* are ordered by the listing) and t its LastUpdateTime, in whole ticks.   *)
(* A policy is a record [TTL |-> d, MaxRecords |-> n].                     *)
(*                                                                         *)
(* Two collectors are defined:                                             *)
(*   - S3GarbagePlan, translated from S3Storage.GarbageCollect and         *)
(*     sortArtifactsByTime (pkg/storage/s3.go);                            *)
(*   - PolicyGarbagePlan, the filesystem backend's collector, which        *)
(*     FilesystemStorage.GarbageCollect delegates to the legacy            *)
(*     controller.Storage (not part of this repository): it is written     *)
(*     from the retention policy of the specification (section 4.7).       *)
(***************************************************************************)
EXTENDS Integers, Sequences, TLC

Swap(s, i, j) == [s EXCEPT ![i] = s[j], ![j] = s[i]]

(* Mutant: the comparison reversed, oldest first.                        *)
Before(a, b) == a.time < b.time

(* artifacts[j].LastUpdateTime.After(artifacts[i].LastUpdateTime.Time)    *)
After(a, b) == a.time > b.time

(* The inner loop "for j := i + 1; j < len(artifacts); j++" of the       *)
(* exchange sort: swap whenever a later element is newer than slot i.     *)
RECURSIVE InnerPass(_, _, _)
InnerPass(s, i, j) ==
  IF j > Len(s) THEN s
  ELSE InnerPass(IF After(s[j], s[i]) THEN Swap(s, i, j) ELSE s, i, j + 1)

RECURSIVE OuterPass(_, _)
OuterPass(s, i) ==
  IF i > Len(s) THEN s ELSE OuterPass(InnerPass(s, i, i + 1), i + 1)

(* sortArtifactsByTime: newest first, ties left as the swaps leave them.  *)
sortArtifactsByTime(s) == OuterPass(s, 1)

(* The marking loop of S3Storage.GarbageCollect over the sorted listing:  *)
(* an artifact is deleted when its age exceeds the TTL ("continue"), or   *)
(* when its zero-based position i is at least MaxRecords.  The result is  *)
(* toDelete, in the order the deletions are attempted.                    *)
(* Mutant: the count limit compared with ">" instead of ">=".           *)
S3MarkedOffByOne(sorted, now, policy, i) ==
  \/ now - sorted[i].time > policy.TTL
  \/ i - 1 > policy.MaxRecords

(* Mutant: an artifact exactly TTL old is taken as expired.              *)
S3MarkedAgeInclusive(sorted, now, policy, i) ==
  \/ now - sorted[i].time >= policy.TTL
  \/ i - 1 >= policy.MaxRecords

S3Marked(sorted, now, policy, i) ==
  \/ now - sorted[i].time > policy.TTL
  \/ i - 1 >= policy.MaxRecords

PathsAt(sorted, I) == [k \in 1 .. Len(I) |-> sorted[I[k]].path]

S3GarbagePlan(listing, now, policy) ==
  LET sorted == sortArtifactsByTime(listing)
      idx    == SelectSeq([i \in 1 .. Len(sorted) |-> i],
                          LAMBDA i : S3Marked(sorted, now, policy, i))
  IN  PathsAt(sorted, idx)

(* The policy of the filesystem collector: order by LastUpdateTime        *)
(* descending with ties broken by path ascending, mark an artifact when   *)
(* it is older than the TTL or at a zero-based position of at least       *)
(* MaxRecords, and never mark the newest one (position zero).             *)
PolicyOrder(a, b) == a.time > b.time \/ (a.time = b.time /\ a.path < b.path)

(* Mutants: the newest artifact not protected; the count limit off by    *)
(* one.                                                                   *)
PolicyMarkedNewest(sorted, now, policy, i) ==
  \/ now - sorted[i].time > policy.TTL
  \/ i - 1 >= policy.MaxRecords

PolicyMarkedOffByOne(sorted, now, policy, i) ==
  /\ i > 1
  /\ \/ now - sorted[i].time > policy.TTL
     \/ i - 1 > policy.MaxRecords

PolicyMarked(sorted, now, policy, i) ==
  /\ i > 1
  /\ \/ now - sorted[i].time > policy.TTL
     \/ i - 1 >= policy.MaxRecords

PolicyGarbagePlan(listing, now, policy) ==
  LET sorted == SortSeq(listing, PolicyOrder)
      idx    == SelectSeq([i \in 1 .. Len(sorted) |-> i],
                          LAMBDA i : PolicyMarked(sorted, now, policy, i))
  IN  PathsAt(sorted, idx)

=============================================================================
