-------------------------- MODULE MC_RegistryClient --------------------------
(* Small instances of RegistryClient. *)
EXTENDS RegistryClient, TLC

CONSTANTS a1, a2, c1, c2

\* Fetches while time passes and the tag moves; and calls that go on to the
\* index while the caches lose and damage files and the policies change.
Calls ==
    {[archives |-> Archives, ops |-> {"fetch"}, moody |-> FALSE, damage |-> FALSE,
      maxTime |-> 3]}
    \cup {[archives |-> {a}, ops |-> {"inspect", "pinned"}, moody |-> TRUE, damage |-> TRUE,
           maxTime |-> 0] : a \in Archives}

Symmetry == Permutations(Clients) \cup Permutations(Archives)
=============================================================================
