---------------------------- MODULE MCManagedSessions ----------------------------
(* Managed sessions on small instances. *)
EXTENDS ManagedSessions, TLC

Instants == {0, 1}

Ttls == {1}

Symmetry == Permutations(Owner) \cup Permutations(ApiKey)
                \cup Permutations(Connection) \cup Permutations(Call)
=============================================================================
