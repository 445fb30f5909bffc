------------------------------ MODULE Startup ------------------------------
(***************************************************************************)
(* Process start-up up to a running storage provider: the storage flags   *)
(* of main() (with their environment defaults, envOrDefault),             *)
(* mustInitStorage, NewProvider with newFilesystemProvider and            *)
(* newS3Provider (pkg/storage/factory.go), NewFilesystemStorage and        *)
(* NewS3Storage.  Every step either goes on or ends the process           *)
(* (os.Exit(1) after an error).                                            *)
(*                                                                         *)
(* A configuration is chosen in Init from small sets of flag values; the  *)
(* environment (whether the base path can be created, whether the bucket  *)
(* exists, whether the S3 service speaks TLS) is chosen with it.  An S3   *)
(* endpoint string is a record of its shape (scheme, a host name or an IP *)
(* address, with or without a port), so that url.Parse is modelled by    *)
(* what it does with each shape; the client keeps whether its endpoint is *)
(* the AWS default, the configured service, or empty, and its TLS flag.   *)
(***************************************************************************)
EXTENDS Integers

CONSTANTS
  Digests,       \* names given to --artifact-digest-algo
  KnownDigests,  \* the names intdigest.AlgorithmForName accepts
  Canonical,     \* intdigest.Canonical.String(), the flag's default
  Given,         \* the string values a storage setting can be given
  Records,       \* values given to --artifact-retention-records
  NoFlag         \* a setting left at its default

VARIABLES cfg, env, pc, client, provider

vars == <<cfg, env, pc, client, provider>>

Endpoints ==
  {NoFlag} \cup [scheme : {"", "http", "https"}, host : {"name", "ip"}, port : BOOLEAN]

Configs ==
  [backend : {NoFlag, "filesystem", "s3", "gcs"},
   path : {NoFlag} \cup Given,
   advAddr : {NoFlag} \cup Given,
   bucket : {NoFlag} \cup Given,
   endpoint : Endpoints,
   records : {NoFlag} \cup Records,
   digest : Digests]

Envs == [pathUsable : BOOLEAN, bucketExists : BOOLEAN, serverTLS : BOOLEAN]

(* envOrDefault and flag defaults: a setting not given takes its default. *)
OrDefault(v, default) == IF v = NoFlag THEN default ELSE v

Backend == OrDefault(cfg.backend, "filesystem")
Path == OrDefault(cfg.path, "")
AdvAddr == OrDefault(cfg.advAddr, "")
Bucket == OrDefault(cfg.bucket, "")
RetentionRecords == OrDefault(cfg.records, 2)

(* NewS3Storage: url.Parse(endpoint).  A scheme followed by "//" gives    *)
(* the host; a host name followed by ":port" parses as a URL whose scheme *)
(* is the host name and whose host is empty; an IP address followed by   *)
(* ":port" is an error ("first path segment in URL cannot contain         *)
(* colon"); a string without ":" is a path, with an empty host.  On a     *)
(* parse error the endpoint is kept and secure stays true; otherwise      *)
(* secure is whether the scheme is "https" and the endpoint is the host.  *)
(* Mutant: secure is left at its initial true whatever the scheme.        *)
ParseEndpointKeepsSecure(e) ==
  CASE e = NoFlag                  -> [addr |-> "aws", secure |-> TRUE]
    [] e.scheme # ""                -> [addr |-> "service", secure |-> TRUE]
    [] e.port /\ e.host = "ip"       -> [addr |-> "service", secure |-> TRUE]
    [] OTHER                        -> [addr |-> "", secure |-> FALSE]

ParseEndpoint(e) ==
  CASE e = NoFlag                  -> [addr |-> "aws", secure |-> TRUE]
    [] e.scheme # ""                -> [addr |-> "service", secure |-> e.scheme = "https"]
    [] e.port /\ e.host = "ip"       -> [addr |-> "service", secure |-> TRUE]
    [] OTHER                        -> [addr |-> "", secure |-> FALSE]

NoClient == [addr |-> "", secure |-> FALSE]

NoProvider == [backend |-> NoFlag, hostname |-> NoFlag, records |-> 0]

Init ==
  /\ cfg \in Configs
  /\ env \in Envs
  /\ pc = "digest"
  /\ client = NoClient
  /\ provider = NoProvider

Exit == pc' = "exited" /\ UNCHANGED <<cfg, env, client, provider>>

Goto(l) == pc' = l /\ UNCHANGED <<cfg, env, client, provider>>

(* mustInitStorage: a digest algorithm other than the canonical one must  *)
(* be known.                                                               *)
DigestKnown == cfg.digest = Canonical \/ cfg.digest \in KnownDigests

InitDigest ==
  /\ pc = "digest"
  /\ IF DigestKnown
       THEN Goto("provider") ELSE Exit

(* NewProvider: the backend type selects the constructor.                 *)
NewProvider ==
  /\ pc = "provider"
  /\ CASE Backend = "filesystem" -> Goto("filesystem")
       [] Backend = "s3"         -> Goto("s3")
       [] OTHER                  -> Exit

(* NewFilesystemStorage: controller.NewStorage, which fails when the base *)
(* path cannot be created.                                                 *)
NewFilesystemStorage == env.pathUsable

(* newFilesystemProvider: the path is required, then NewFilesystemStorage. *)
(* The hostname is the --storage-adv-addr value as given.                  *)
NewFilesystemProvider ==
  /\ pc = "filesystem"
  /\ IF Path # "" /\ NewFilesystemStorage
       THEN /\ pc' = "running"
            /\ provider' = [backend |-> "filesystem", hostname |-> AdvAddr,
                            records |-> RetentionRecords]
            /\ UNCHANGED <<cfg, env, client>>
       ELSE Exit

(* newS3Provider: the bucket is required.                                  *)
NewS3Provider ==
  /\ pc = "s3"
  /\ IF Bucket # "" THEN Goto("s3_client") ELSE Exit

(* NewS3Storage: parse the endpoint and create the MinIO client, which    *)
(* refuses an empty endpoint.                                              *)
NewS3Client ==
  /\ pc = "s3_client"
  /\ LET c == ParseEndpoint(cfg.endpoint) IN
     IF c.addr # ""
       THEN pc' = "s3_bucket" /\ client' = c /\ UNCHANGED <<cfg, env, provider>>
       ELSE Exit

(* NewS3Storage: BucketExists; it fails when the client's TLS setting is  *)
(* not the service's (the AWS default endpoint always speaks TLS); a      *)
(* missing bucket ends the start-up too.                                  *)
Reachable == IF client.addr = "aws" THEN client.secure ELSE client.secure = env.serverTLS

CheckBucket ==
  /\ pc = "s3_bucket"
  /\ IF Reachable /\ env.bucketExists
       THEN /\ pc' = "running"
            /\ provider' = [backend |-> "s3", hostname |-> AdvAddr,
                            records |-> RetentionRecords]
            /\ UNCHANGED <<cfg, env, client>>
       ELSE Exit

Next ==
  \/ InitDigest
  \/ NewProvider
  \/ NewFilesystemProvider
  \/ NewS3Provider
  \/ NewS3Client
  \/ CheckBucket

(* Start-up ends: running or exited.                                       *)
Done == pc \in {"running", "exited"} /\ UNCHANGED vars

Spec == Init /\ [][Next \/ Done]_vars

(***************************************************************************)
(* Properties                                                              *)
(***************************************************************************)

(* The configuration names the S3 service: the AWS default, a scheme    *)
(* that matches the service's TLS, or no scheme for a TLS service.        *)
EndpointNamesService ==
  \/ cfg.endpoint = NoFlag
  \/ env.serverTLS /\ cfg.endpoint.scheme \in {"", "https"}
  \/ ~env.serverTLS /\ cfg.endpoint.scheme = "http"

(* Whether the endpoint's own words (the AWS default or a scheme) decide *)
(* the TLS setting.                                                       *)
SchemeDecides == cfg.endpoint = NoFlag \/ cfg.endpoint.scheme # ""

(* The configuration and environment the process can run with.          *)
Usable ==
  /\ DigestKnown
  /\ CASE Backend = "filesystem" -> Path # "" /\ env.pathUsable
       [] Backend = "s3"         -> Bucket # "" /\ env.bucketExists /\ EndpointNamesService
       [] OTHER                  -> FALSE

(* Section 4.9 and 6: the factory validates the configuration and returns *)
(* a backend or an error.  The endpoint's own words (the AWS default, or   *)
(* a scheme) say whether the service speaks TLS; where they do, the        *)
(* process starts exactly when the digest is known, the backend's required *)
(* setting is given and its store is there: a base path that can be       *)
(* created, or an existing bucket on the service the endpoint names.  A    *)
(* process that starts always meets these conditions.                      *)
StartsExactlyWhenUsable ==
  /\ pc = "running" => Usable
  /\ pc = "exited" /\ (Backend = "s3" => SchemeDecides) => ~Usable

(* Section 6: retention_records is an integer of at least 1, and a        *)
(* start-up validation error ends the process.                            *)
RetentionRecordsValidated == pc = "running" => provider.records >= 1

(* Section 4.4 and 6: filesystem URLs are http://<hostname>/<path>, where *)
(* the hostname is an externally reachable address chosen at start-up.   *)
AdvertisedAddressChosen ==
  pc = "running" /\ provider.backend = "filesystem" => provider.hostname # ""

(* Section 6 lists the S3 endpoint without a format.  An S3 set-up with  *)
(* its bucket in place, whose endpoint names the service (the AWS default, *)
(* or a scheme that matches the service's TLS, or no scheme for a TLS     *)
(* service, the client's default) must not end the start-up.              *)
EndpointAccepted ==
  pc = "exited" /\ Backend = "s3" =>
    ~(DigestKnown /\ Bucket # "" /\ env.bucketExists /\ EndpointNamesService)

=============================================================================
