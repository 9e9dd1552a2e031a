---------------------------- MODULE MCVsoaClient ----------------------------
(***************************************************************************)
(* Instance of VsoaClient for TLC.                                         *)
(***************************************************************************)
EXTENDS VsoaClient

CONSTANTS t1, c1
MCThreads == {t1}
MCCalls == {<<c1, 0>>}
=============================================================================
