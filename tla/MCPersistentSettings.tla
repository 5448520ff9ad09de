------------------------- MODULE MCPersistentSettings -------------------------
(***************************************************************************)
(* Instances of PersistentSettings: the worker and the parameter thread of *)
(* WBLink, two fields.                                                     *)
(***************************************************************************)
EXTENDS PersistentSettings

CONSTANTS worker, param, freq, power, v0, v1
===============================================================================
