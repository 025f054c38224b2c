------------------------------ MODULE MCControl ------------------------------
(* Instances of SandboxControl for TLC.                                     *)
EXTENDS SandboxControl, TLC

\* Nodes are interchangeable; used in runs without temporal properties.
NodeSymmetry == Permutations(Nodes)

\* No node is being removed, or missing, once a sandbox has expired.
ExpiryOrRemoval == expired = {} \/ (dPc = "idle" /\ registered = Nodes)
=============================================================================
