---------------------------- MODULE MCVsoaServer ----------------------------
(***************************************************************************)
(* Instance of VsoaServer for TLC: one client subscribes and gives it up,  *)
(* the other may end its handshake, subscribe, call or go; two publishers. *)
(***************************************************************************)
EXTENDS VsoaServer

CONSTANTS c1, c2
MCClients == {c1, c2}
MCScripts == [c \in MCClients |->
    IF c = c1 THEN {<<"subscribe", "unsubscribe">>}
              ELSE {<<"end">>, <<"subscribe">>, <<"info", "call">>, <<"rpc", "call", "end">>}]
=============================================================================
