-------------------------- MODULE MCPlatformCommand --------------------------
(***************************************************************************)
(* Instance of PlatformCommand for TLC.                                    *)
(***************************************************************************)
EXTENDS PlatformCommand
=============================================================================
