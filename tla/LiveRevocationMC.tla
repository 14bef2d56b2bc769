-------------------------- MODULE LiveRevocationMC --------------------------
(* One race for each profile, and a cached status younger than its TTL,    *)
(* just younger, just as old, and past the forced expiry.                  *)
EXTENDS LiveRevocation

CacheAges == {1, TTL - 1, TTL, ExpiryDelay}
=============================================================================
