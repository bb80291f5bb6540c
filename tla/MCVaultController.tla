-------------------------- MODULE MCVaultController --------------------------
(* A small instance of VaultController for TLC: one endpoint from each    *)
(* response and one the vault holds of its own, three blocking calls and *)
(* two shutdown requests, so that a call can time out and a later call   *)
(* meet its late reply, and a shutdown can be delivered twice.            *)
EXTENDS VaultController

CONSTANTS e1, e2, e3, own, other

MCIdEps == {e1}
MCBootEps == {e2}
MCEndpoints == {e1, e2, e3}
MCManagerPort == 5483
MCMaxCalls == 3
MCMaxStops == 2
MCOneStop == 1
=============================================================================
