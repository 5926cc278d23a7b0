---------------------------- MODULE MCRdapCache ----------------------------
(* Instances of RdapCache for TLC. *)
EXTENDS RdapCache, TLC

DomainSymmetry == Permutations(Domains)
=============================================================================
