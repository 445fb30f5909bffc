---------------------------- MODULE MCRetention ----------------------------
(***************************************************************************)
(* Checks the retention operators over every listing S3Storage.List can   *)
(* return for one scope: each subset of the revision paths, in key order, *)
(* with every assignment of LastModified times, and every clock reading.  *)
(* The state never changes; each initial state is one input.              *)
(***************************************************************************)
EXTENDS Retention, SequencesExt

CONSTANTS Paths, Times, Clock, TTL, MaxRecords

VARIABLES listing, now

vars == <<listing, now>>

Policy == [TTL |-> TTL, MaxRecords |-> MaxRecords]

(* A listing as S3Storage.List builds it: the objects of the scope in     *)
(* ascending key order, each with its LastModified time.                  *)
Listings ==
  UNION { { SetToSortSeq({[path |-> p, time |-> t[p]] : p \in S},
                         LAMBDA a, b : a.path < b.path)
            : t \in [S -> Times] }
          : S \in SUBSET Paths }

Init ==
  /\ listing \in Listings
  /\ now \in Clock

Next == UNCHANGED vars

Spec == Init /\ [][Next]_vars

TypeOK ==
  /\ listing \in Seq([path : Paths, time : Times])
  /\ now \in Clock

(* sortArtifactsByTime returns the listing it was given, newest first:    *)
(* the exchange sort loses, duplicates and misorders no artifact, so the  *)
(* positions the MaxRecords bound counts are positions by age.            *)
SortedNewestFirst ==
  LET s == sortArtifactsByTime(listing) IN
  /\ ToBag(s) = ToBag(listing)
  /\ IsSorted(s, LAMBDA a, b : a.time >= b.time)

(* Section 4.7 of the specification: the collector orders a scope by      *)
(* LastUpdateTime descending and breaks ties by Path ascending.  The      *)
(* exchange sort of sortArtifactsByTime leaves artifacts with equal       *)
(* (second-resolution) LastModified times in whatever order its swaps     *)
(* leave them.                                                            *)
TieBreakByPath ==
  sortArtifactsByTime(listing) = SortSeq(listing, PolicyOrder)

=============================================================================
