----------------------------- MODULE MCStartup -----------------------------
(***************************************************************************)
(* Start-up over every combination of small flag values and environments: *)
(* a digest name that is the default, another known one and an unknown    *)
(* one; one non-empty string per storage setting; retention records 0, 1. *)
(***************************************************************************)
EXTENDS Startup

MCDigests == {"sha256", "blake3", "md4"}
MCKnownDigests == {"sha256", "sha384", "sha512", "blake3"}
MCGiven == {"x"}   \* envOrDefault treats "" as not given
MCRecords == {0, 1}

=============================================================================
