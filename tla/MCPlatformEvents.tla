--------------------------- MODULE MCPlatformEvents ---------------------------
(***************************************************************************)
(* Instance of PlatformEvents for TLC.                                     *)
(***************************************************************************)
EXTENDS PlatformEvents
=============================================================================
