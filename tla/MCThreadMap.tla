---------------------------- MODULE MCThreadMap ----------------------------
(***************************************************************************)
(* A small instance of ThreadMap. Liveness is checked in the same run, so  *)
(* no symmetry is used.                                                    *)
(***************************************************************************)
EXTENDS ThreadMap
=============================================================================
