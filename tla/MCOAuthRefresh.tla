--------------------------- MODULE MCOAuthRefresh ---------------------------
(***************************************************************************)
(* OAuthRefresh for TLC: tokens are the numbers of grants.  Short is all   *)
(* of Secret, which leaves the taint registry empty: module Resolver       *)
(* checks it, and nothing here depends on it.                              *)
(***************************************************************************)
EXTENDS OAuthRefresh, TLC, FiniteSets

MCKey    == {"access", "refresh"}
MCSecret == 1..MaxGrant
Symmetry == Permutations(Proc)
=============================================================================
