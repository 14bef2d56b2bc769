------------------------ MODULE RevocationProfilesMC ------------------------
(* Every case of the process-isolated lab, the cached status younger than, *)
(* exactly at, and past its TTL, and past the forced expiry.               *)
EXTENDS RevocationProfiles

CacheAges == {1, TTL - 1, TTL, ExpirySleep}
=============================================================================
