--------------------------- MODULE ArtifactServer ---------------------------
(***************************************************************************)
(* The artifact HTTP server (pkg/storage/server.go) over one backend.     *)
(* Every replica runs it, and each request is handled by its own worker,  *)
(* concurrently with the reconciler that writes and collects the scope.   *)
(*                                                                         *)
(* A worker of serveArtifact takes one step per backend call: the request *)
(* checks and Exists, then Retrieve on the filesystem backend.  GetURL of *)
(* the S3 backend signs a URL with the client's credentials and makes no  *)
(* call, so it is part of the step that receives the Exists answer.  It   *)
(* fails when the client has no credentials to sign with (Presignable).   *)
(* The worker records                                                      *)
(* the status code it answered, whether the object was absent when Exists *)
(* looked, and whether a backend call failed because the backend was down *)
(* (the properties relate the answer to these).                           *)
(*                                                                         *)
(* objects is the object map the server's provider reads; the server      *)
(* never changes it.                                                       *)
(***************************************************************************)
EXTENDS StorageBackend

CONSTANTS
  Workers,    \* concurrent request handlers
  EmptyPath,  \* the request path "/", whose artifact path is empty
  Presignable \* NewEnvAWS found keys in the environment; without them the
              \* client's credentials are anonymous and PresignedGetObject fails

VARIABLES objects, srv

Methods == {"GET", "HEAD", "POST"}

Codes == {0, 200, 307, 400, 404, 405, 500, 503}

SrvStates ==
  [pc : {"idle", "exists", "retrieve", "done"},
   method : Methods,
   path : Paths \cup {EmptyPath},
   code : Codes,
   absent : BOOLEAN,
   failed : BOOLEAN]

SrvInit ==
  srv = [w \in Workers |-> [pc |-> "idle", method |-> "GET", path |-> EmptyPath,
                            code |-> 0, absent |-> FALSE, failed |-> FALSE]]

Ready(w) == srv[w].pc \in {"idle", "done"}

Answer(w, code) == srv' = [srv EXCEPT ![w].pc = "done", ![w].code = code]

(* serveArtifact: any method but GET and HEAD is refused with 405.        *)
RejectMethod(w) ==
  /\ Ready(w)
  /\ \E m \in Methods \ {"GET", "HEAD"}, p \in Paths \cup {EmptyPath} :
       srv' = [srv EXCEPT ![w] = [pc |-> "done", method |-> m, path |-> p,
                                  code |-> 405, absent |-> FALSE, failed |-> FALSE]]

(* serveArtifact: an empty artifact path is refused with 400.             *)
RejectEmptyPath(w) ==
  /\ Ready(w)
  /\ \E m \in {"GET", "HEAD"} :
       srv' = [srv EXCEPT ![w] = [pc |-> "done", method |-> m, path |-> EmptyPath,
                                  code |-> 400, absent |-> FALSE, failed |-> FALSE]]

(* serveArtifact: a GET or HEAD of an artifact path goes on to Exists.    *)
Accept(w) ==
  /\ Ready(w)
  /\ \E m \in {"GET", "HEAD"}, p \in Paths :
       srv' = [srv EXCEPT ![w] = [pc |-> "exists", method |-> m, path |-> p,
                                  code |-> 0, absent |-> FALSE, failed |-> FALSE]]

(* The answer to Exists: an error is a 500, "false" a 404, and "true" is  *)
(* a 200 with no body for HEAD, for GET on the S3 backend a 307 to the   *)
(* presigned URL or a 500 when GetURL fails, and a Retrieve for GET on    *)
(* any other backend.                                                      *)
CheckExists(w) ==
  LET p == srv[w].path
      r == Exists(objects, p)
      s == [srv[w] EXCEPT !.absent = (objects[p] = NoObject)]
  IN
  /\ srv[w].pc = "exists"
  /\ srv' = [srv EXCEPT ![w] =
               CASE r = "error"
                      -> [s EXCEPT !.pc = "done", !.code = 500, !.failed = ~up]
                 [] r = "false"
                      -> [s EXCEPT !.pc = "done", !.code = 404]
                 [] srv[w].method = "HEAD"
                      -> [s EXCEPT !.pc = "done", !.code = 200]
                 [] Backend = "s3"
                      -> [s EXCEPT !.pc = "done", !.code = IF Presignable THEN 307 ELSE 500]
                 [] OTHER
                      -> [s EXCEPT !.pc = "retrieve"]]

(* Retrieve, then stream: an error is a 500; an opened reader is copied  *)
(* out with status 200.                                                   *)
RetrieveAndStream(w) ==
  LET p == srv[w].path IN
  /\ srv[w].pc = "retrieve"
  /\ IF FsRetrieve(objects, p) = "reader"
       THEN Answer(w, 200)
       ELSE srv' = [srv EXCEPT ![w].pc = "done", ![w].code = 500,
                               ![w].failed = ~up]

(* healthCheck, which Handler routes "/health" to whatever the method:   *)
(* Healthy within a deadline; 200 "ok" or 503.  The answer does not       *)
(* depend on the method, so one method stands for all.                    *)
HealthCheck(w) ==
  /\ Ready(w)
  /\ srv' = [srv EXCEPT ![w] = [pc |-> "done", method |-> "GET", path |-> EmptyPath,
                                code |-> IF Healthy THEN 200 ELSE 503,
                                absent |-> FALSE, failed |-> ~Healthy]]

SrvNext(w) ==
  \/ RejectMethod(w)
  \/ RejectEmptyPath(w)
  \/ Accept(w)
  \/ CheckExists(w)
  \/ RetrieveAndStream(w)
  \/ HealthCheck(w)

(* Section 7 of the specification: the server answers 404 for NotFound.   *)
(* A 404 must mean that the artifact was not in the store when Exists     *)
(* looked, not that the backend could not be asked.                      *)
NotFoundMeansAbsent ==
  \A w \in Workers : srv[w].pc = "done" /\ srv[w].code = 404 => srv[w].absent

(* Section 7: NotFound maps to 404 and everything else to 500.  A 500     *)
(* must come from a backend call that failed because the backend was      *)
(* unavailable, never from an artifact that a garbage collection removed  *)
(* while the request was being served.                                    *)
ServerErrorMeansBackendFailure ==
  \A w \in Workers : srv[w].pc = "done" /\ srv[w].code = 500 => srv[w].failed

=============================================================================
