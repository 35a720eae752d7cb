--------------------------- MODULE AuthSessionsMC ---------------------------
(* Values for the constants of AuthSessions. *)
EXTENDS AuthSessions, TLC

CONSTANTS u1

\* Every session belongs to one user: nothing relates two users' rows.
OneUser == [s \in Sessions |-> u1]

Symmetry == Permutations(Sessions) \cup Permutations(Requests)
=============================================================================
