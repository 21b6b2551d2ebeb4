-------------------------- MODULE MCStatusMonitor --------------------------
(* Small instances of StatusMonitor.                                       *)
EXTENDS StatusMonitor

CONSTANTS h1, h2

(* lockd holds a lock for a client at h1 and has one at the server h1.     *)
Both == {<<h1, "PRIV_CRASH">>, <<h1, "PRIV_RECOVERY">>}
OtherAtH2 == {<<h2, "OTHER">>}
=============================================================================
