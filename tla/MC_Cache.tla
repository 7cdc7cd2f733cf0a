------------------------------ MODULE MC_Cache ------------------------------
EXTENDS CacheLifecycle

\* The captured source holds other bytes for payload 2.
CapturedBytes == [b \in Blob |-> IF b = 1 THEN "x" ELSE "y"]
=============================================================================
