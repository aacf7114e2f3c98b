-------------------------- MODULE MCPreviewManager --------------------------
(***************************************************************************)
(* Small instances of PreviewManager: the leases of one account.           *)
(***************************************************************************)
EXTENDS PreviewManager, TLC

CONSTANT Owner

MCOwnerOf == [l \in Leases |-> Owner]

\* Leases are interchangeable in the run without a liveness property.
LeaseSymmetry == Permutations(Leases)

=============================================================================
