------------------------ MODULE MCClientController -------------------------
(* Model-checking instances of ClientController: four ports of the probe   *)
(* range, one answered by a manager and one by a foreign process, so that  *)
(* probes before, at and after the manager port and the end of the range  *)
(* all happen; three StartVault calls, so a late callback of the first can  *)
(* meet the second.                                                        *)
EXTENDS ClientController

MCMinPort == 5483
MCMaxPort == 5486
MCManagerPorts == {5485}
MCForeignPorts == {5484}
MCNoForeignPorts == {}
MCMaxCalls == 3
=============================================================================
