------------------------ MODULE MCUploadFinalization ------------------------
(* One chunked upload on a small instance.                                 *)
EXTENDS UploadFinalization, TLC

Symmetry == Permutations(Requests)

=============================================================================
