-------------------------- MODULE MCTokenAuthority --------------------------
(* TokenAuthority with a small set of config files: two that start the     *)
(* coordinator (one with each secret, one relying on the mesh_cidr         *)
(* default), one for each reason Validate refuses, and the two files       *)
(* LoadServerConfig fails on.                                              *)
EXTENDS TokenAuthority

MCConfigFiles ==
  { [listen |-> TRUE,  authToken |-> "s1", meshCIDR |-> Empty],
    [listen |-> TRUE,  authToken |-> "s2", meshCIDR |-> "valid"],
    [listen |-> TRUE,  authToken |-> Empty, meshCIDR |-> "valid"],
    [listen |-> FALSE, authToken |-> "s1", meshCIDR |-> "valid"],
    [listen |-> TRUE,  authToken |-> "s1", meshCIDR |-> "bad"],
    Missing, Malformed }
=============================================================================
