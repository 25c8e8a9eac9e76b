------------------------- MODULE MCDispatchHistory -------------------------
(***************************************************************************)
(* DispatchHistory for TLC.                                                 *)
(***************************************************************************)
EXTENDS DispatchHistory

\* Hashes and request slots are interchangeable.
HashAndReqSymmetry == Permutations(Hash) \cup Permutations(Req)

=============================================================================
