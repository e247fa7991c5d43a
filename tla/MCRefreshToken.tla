--------------------------- MODULE MCRefreshToken ---------------------------
(***************************************************************************)
(* RefreshToken on a small instance: two logins of one device, that may    *)
(* create it twice, and three refreshes, enough for two that race over a   *)
(* token and a third that presents an old one or one of the other login.   *)
(***************************************************************************)
EXTENDS RefreshToken, TLC

CONSTANTS l1, l2, r1, r2, r3, phone, laptop

MCLogins == {l1, l2}
MCRefreshes == {r1, r2, r3}
MCFingerprints == {phone, laptop}
MCFingerprintOf == [l \in Logins |-> phone]
MCSymmetry == Permutations({l1, l2}) \cup Permutations({r1, r2, r3})
=============================================================================
