-------------------------- MODULE MCDigestExchange --------------------------
(* An instance of DigestExchange for TLC. *)
EXTENDS DigestExchange
=============================================================================
