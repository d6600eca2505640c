------------------------------- MODULE Absent -------------------------------
(***************************************************************************)
(* What the Go code writes as nil, as "" or as a map without the key: a    *)
(* list that is not configured, a file that is not open, a mutex that      *)
(* nobody holds.  The modules of the request pipeline share it.            *)
(***************************************************************************)

CONSTANT Nil
=============================================================================
