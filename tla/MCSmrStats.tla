----------------------------- MODULE MCSmrStats -----------------------------
(* Small instances of SmrStats for TLC.                                    *)
EXTENDS SmrStats, TLC

\* The processes that submit bios are interchangeable.
BioSymmetry == Permutations(Bios)

=============================================================================
