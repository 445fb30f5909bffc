---------------------------- MODULE AbstractScope ----------------------------
(***************************************************************************)
(* What the storage promises a resource (specification, sections 2 and    *)
(* 4.7), with no backend, clock or retention policy: the scope is a set   *)
(* of artifacts and the status names the one last published.  Publishing *)
(* puts the artifact in the scope and in the status; retention removes    *)
(* any artifacts but the one in the status.  Once the resource is being  *)
(* deleted nothing is published or retained any more: its artifacts are  *)
(* dropped, the one in the status included, and the status is cleared    *)
(* only when the scope is empty.                                          *)
(***************************************************************************)
CONSTANTS Paths, NoPath

VARIABLES store, status, deleting

vars == <<store, status, deleting>>

Init == store = {} /\ status = NoPath /\ ~deleting

Publish(p) ==
  /\ ~deleting
  /\ store' = store \cup {p}
  /\ status' = p
  /\ UNCHANGED deleting

Retain ==
  /\ ~deleting
  /\ \E gone \in SUBSET (store \ {status}) : store' = store \ gone
  /\ UNCHANGED <<status, deleting>>

RequestDelete == ~deleting /\ deleting' /\ UNCHANGED <<store, status>>

Drop ==
  /\ deleting
  /\ \E gone \in SUBSET store : store' = store \ gone
  /\ UNCHANGED <<status, deleting>>

Finalize ==
  /\ deleting
  /\ store = {}
  /\ status' = NoPath
  /\ UNCHANGED <<store, deleting>>

Next ==
  \/ \E p \in Paths : Publish(p)
  \/ Retain
  \/ RequestDelete
  \/ Drop
  \/ Finalize

Spec == Init /\ [][Next]_vars

=============================================================================
