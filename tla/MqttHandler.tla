----------------------------- MODULE MqttHandler -----------------------------
(***************************************************************************)
(* The MQTT handlers of the bridge as receivers (src/src/mqtt_handler.py,  *)
(* set up by src/src/main.py): connection, subscription and subscription   *)
(* again after a loss.  Their publishing is a part of Downlink.            *)
(*                                                                         *)
(* Two threads work on a handler: main, which connects and subscribes once,*)
(* and the network thread of the MQTT client, on which _on_connect and     *)
(* _on_disconnect run.  Neither takes a lock.  The broker forgets the      *)
(* subscriptions of a connection that ends; the client connects again, in  *)
(* _on_disconnect or by itself, whatever the count of _reconnect_count.    *)
(***************************************************************************)
EXTENDS Naturals

CONSTANTS Handlers,  \* the default handler and those of the projects
          MaxLosses  \* bound of the model: connections lost, per handler

ASSUME HandlerAssumption == MaxLosses \in Nat

VARIABLES setup,      \* where main is with a handler
          connected,  \* MQTTHandler._connected
          topics,     \* _subscribed_topics is set
          subscribed, \* the broker has the subscriptions of this connection
          callback,   \* _on_connect is between its two halves
          losses      \* connections lost

handlerVars == <<setup, connected, topics, subscribed, callback, losses>>

HandlersTypeOK ==
    /\ setup \in [Handlers -> {"connect", "wait", "set", "check", "done", "dead"}]
    /\ connected \in [Handlers -> BOOLEAN] /\ topics \in [Handlers -> BOOLEAN]
    /\ subscribed \in [Handlers -> BOOLEAN] /\ callback \in [Handlers -> BOOLEAN]
    /\ losses \in [Handlers -> 0 .. MaxLosses]
    /\ \A h \in Handlers : subscribed[h] \/ callback[h] => connected[h]

HandlersInit ==
    /\ setup = [h \in Handlers |-> "connect"]
    /\ connected = [h \in Handlers |-> FALSE] /\ topics = [h \in Handlers |-> FALSE]
    /\ subscribed = [h \in Handlers |-> FALSE] /\ callback = [h \in Handlers |-> FALSE]
    /\ losses = [h \in Handlers |-> 0]

Goes(h, where) == setup' = [setup EXCEPT ![h] = where]

\* connect: the network thread is started, unless the client raises, which leaves the
\* handler without one for good.
Connect(h) ==
    /\ setup[h] = "connect"
    /\ Goes(h, "wait") \/ Goes(h, "dead")
    /\ UNCHANGED <<connected, topics, subscribed, callback, losses>>

\* Up to five seconds for the connection.  A handler that has none by then is left as it
\* is: what connects later finds no topics to subscribe.
Waited(h) ==
    /\ setup[h] = "wait"
    /\ Goes(h, "done") \/ (connected[h] /\ Goes(h, "set"))
    /\ UNCHANGED <<connected, topics, subscribed, callback, losses>>

SetTopicsLate(h) ==   \* a slip: the topics stored only after the connection was looked at
    /\ setup[h] \in {"set", "check"}
    /\ IF setup[h] = "set"
       THEN /\ subscribed' = [subscribed EXCEPT ![h] = connected[h]]
            /\ Goes(h, "check") /\ UNCHANGED topics
       ELSE topics' = [topics EXCEPT ![h] = TRUE] /\ Goes(h, "done") /\ UNCHANGED subscribed
    /\ UNCHANGED <<connected, callback, losses>>

\* subscribe: first the topics are stored, for _on_connect; then they are subscribed if
\* there is a connection.
SetTopics(h) ==
    /\ setup[h] = "set"
    /\ topics' = [topics EXCEPT ![h] = TRUE]
    /\ Goes(h, "check")
    /\ UNCHANGED <<connected, subscribed, callback, losses>>

Subscribe(h) ==
    /\ setup[h] = "check"
    /\ subscribed' = [subscribed EXCEPT ![h] = @ \/ connected[h]]
    /\ Goes(h, "done")
    /\ UNCHANGED <<connected, topics, callback, losses>>

\* _on_connect: first the flag, then the topics that are stored.
OnConnect(h) ==
    /\ setup[h] \notin {"connect", "dead"} /\ ~connected[h]
    /\ connected' = [connected EXCEPT ![h] = TRUE]
    /\ callback' = [callback EXCEPT ![h] = TRUE]
    /\ UNCHANGED <<setup, topics, subscribed, losses>>

Resubscribe(h) ==
    /\ callback[h]
    /\ subscribed' = [subscribed EXCEPT ![h] = @ \/ topics[h]]
    /\ callback' = [callback EXCEPT ![h] = FALSE]
    /\ UNCHANGED <<setup, connected, topics, losses>>

OnDisconnect(h) ==
    /\ connected[h] /\ ~callback[h] /\ losses[h] < MaxLosses
    /\ connected' = [connected EXCEPT ![h] = FALSE]
    /\ subscribed' = [subscribed EXCEPT ![h] = FALSE]
    /\ losses' = [losses EXCEPT ![h] = @ + 1]
    /\ UNCHANGED <<setup, topics, callback>>

SetUp(h) == Connect(h) \/ Waited(h) \/ SetTopics(h) \/ Subscribe(h)
Callbacks(h) == OnConnect(h) \/ Resubscribe(h) \/ OnDisconnect(h)
Prepared == \A h \in Handlers : setup[h] \in {"done", "dead"}

-----------------------------------------------------------------------------
\* A handler that has topics and a connection is subscribed to them: whether the
\* connection comes back before, between or after the two steps of subscribe, main or the
\* network thread sees what the other has set (subscribe, _on_connect).
HandlersHear ==
    \A h \in Handlers :
        (setup[h] = "done" /\ topics[h] /\ connected[h] /\ ~callback[h]) => subscribed[h]
=============================================================================
