----------------------------- MODULE MCLiveBus ------------------------------
(* Small instances of LiveBus. *)
EXTENDS LiveBus, TLC

Interchangeable == Permutations(Subs) \cup Permutations(Scopes)
=============================================================================
