--------------------------- MODULE MCLiveDelivery ---------------------------
(***************************************************************************)
(* Small instances of LiveDelivery and of KafkaLog for TLC: how a node     *)
(* delivers the events of the log to its clients, and how commands and     *)
(* events go through the topics of the other broker.  They share no state, *)
(* so a behaviour runs one of them, the part chosen at the start.          *)
(***************************************************************************)
EXTENDS LiveDelivery, KafkaLog, TLC

VARIABLE part    \* what runs

deliveryVars == <<part, vars, kafkaVars>>

DeliveryInit ==
    /\ Init
    /\ \/ part = "live" /\ KafkaStart({TRUE}, {NoNode})
       \/ part = "kafka" /\ KafkaInit /\ stream = CHOOSE s \in Streams : TRUE

DeliveryNext ==
    \/ part = "live" /\ Next /\ UNCHANGED <<part, kafkaVars>>
    \/ part = "kafka" /\ KafkaNext /\ UNCHANGED <<part, vars>>

DeliverySpec == DeliveryInit /\ [][DeliveryNext]_deliveryVars

\* WebSockets of the web client and of one that keeps a seq, an SSE response with
\* Last-Event-ID, and long polls with the delivered cursor.
UsualStreams ==
    {<<"ws", "partitions">>, <<"ws", "scalar">>, <<"sse", "scalar">>, <<"longpoll", "partitions">>}
SSEStream == {<<"sse", "scalar">>}

\* The partitions and the nodes are interchangeable.
Symmetry == Permutations(Partitions) \cup Permutations(Nodes)
=============================================================================
