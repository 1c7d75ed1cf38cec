------------------------------ MODULE MCDownload ------------------------------
(* An instance of Download for TLC.  The slots of a kind are alike; only a *)
(* run without a liveness property may use this.                           *)
EXTENDS Download, TLC

Symmetry ==
    Permutations(File) \cup Permutations(Index) \cup Permutations(Key)
        \cup Permutations(Request) \cup Permutations(Purge) \cup Permutations(Reader)
==============================================================================
