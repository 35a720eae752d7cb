---------------------------- MODULE PushOutboxMC ----------------------------
(* Values for the constants of PushOutbox. *)
EXTENDS PushOutbox

CONSTANTS u1, u2, s1, s2, s3, i1, i2

\* One member with two sessions, one with one, and a device each.
SessionOwner == (s1 :> u1) @@ (s2 :> u1) @@ (s3 :> u2)
DeviceOwner == (i1 :> u1) @@ (i2 :> u2)

\* One member with one session and one device.
OneSession == s1 :> u1
OneDevice == i1 :> u1

Symmetry == Permutations(Tokens) \cup Permutations(Workers)
============================================================================
