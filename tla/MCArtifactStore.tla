--------------------------- MODULE MCArtifactStore ---------------------------
(* A small instance of ArtifactStore for TLC.                              *)
EXTENDS ArtifactStore, TLC

CONSTANTS p1, p2, p3, a, b

\* A request delivered twice, and one whose name coincides with it.
ContentOfThree == (p1 :> a) @@ (p2 :> a) @@ (p3 :> b)
TwinSymmetry == Permutations({p1, p2})
=============================================================================
