----------------------------- MODULE Publication -----------------------------
(****************************************************************************)
(* How values reach the MQTT broker: DashboardClient::Publish and           *)
(* MqttPublisher_Paho.  The gateway sends with QoS 0 and the retain flag,   *)
(* so what a subscriber sees is the last message the broker received per    *)
(* topic.  Messages on their way are lost with the connection; a message    *)
(* published without one is dropped (the exception is only logged).         *)
(*                                                                          *)
(* The broker publishes the last will, clientOnline = 0, when it notices    *)
(* that a session died without DISCONNECT.  A publisher draws a random      *)
(* client id, so a session of an earlier publisher is another session to    *)
(* the broker, and its will may be published late.                          *)
(*                                                                          *)
(* External: the broker and the Paho library, which reconnects by itself    *)
(* and calls connected() on a thread of its own.  The version topic, which  *)
(* goes the way of clientOnline = 1, is left out.                           *)
(****************************************************************************)
EXTENDS Naturals, Sequences

CONSTANTS
    Machines,
    NoMachine,
    Values,        \* JSON texts of a machine's values, other than "null"
    MaxInFlight,   \* bound: messages on their way to the broker
    MaxRestarts    \* bound: how often the gateway is started again

ASSUME PublicationAssumption ==
    /\ NoMachine \notin Machines
    /\ Values \cap {"null", "none"} = {}
    /\ MaxInFlight \in Nat
    /\ MaxRestarts \in Nat

VARIABLES
    \* The gateway.
    gateway, link, callbackPending,
    client,         \* the machines that have a DashboardClient
    value,          \* the JSON of its data set
    lastMessage,    \* LastMessage_t::payload
    due,            \* more than 10 s have passed since LastMessage_t::lastSent
    restarts,
    lateCallback,   \* history: connected() has run during a destructor
    \* The network and the broker.
    channel,        \* messages on their way, in order
    halfOpen,       \* the last session of this publisher died unnoticed ...
    orphans,        \* ... and as many of earlier publishers
    retained        \* the retained message of each topic

clientVars == <<client, value, lastMessage, due>>
vars == <<gateway, link, callbackPending, clientVars, restarts, lateCallback,
          channel, halfOpen, orphans, retained>>

ClientOnline == <<"clientOnline", NoMachine>>
Online(m) == <<"online", m>>
Data(m) == <<"data", m>>
Topics == {ClientOnline} \cup {Online(m) : m \in Machines}
                         \cup {Data(m) : m \in Machines}
Payloads == {"0", "1"} \cup Values
Message == [topic : Topics, payload : Payloads]
Msg(t, p) == [topic |-> t, payload |-> p]

TypeOK ==
    /\ gateway \in {"up", "stopping", "down"}
    /\ link \in BOOLEAN
    /\ callbackPending \in BOOLEAN
    /\ client \subseteq Machines
    /\ value \in [Machines -> Values \cup {"null"}]
    /\ lastMessage \in [Machines -> Values \cup {"none"}]
    /\ due \in [Machines -> BOOLEAN]
    /\ restarts \in 0 .. MaxRestarts
    /\ lateCallback \in BOOLEAN
    /\ channel \in Seq(Message)
    /\ Len(channel) <= MaxInFlight
    /\ halfOpen \in BOOLEAN
    /\ orphans \in Nat
    /\ retained \in [Topics -> Payloads \cup {"none"}]

Init ==
    /\ gateway = "up"
    /\ link = FALSE
    /\ callbackPending = FALSE
    /\ client = {}
    /\ value = [m \in Machines |-> "null"]
    /\ lastMessage = [m \in Machines |-> "none"]
    /\ due = [m \in Machines |-> TRUE]
    /\ restarts = 0
    /\ lateCallback = FALSE
    /\ channel = <<>>
    /\ halfOpen = FALSE
    /\ orphans = 0
    /\ retained = [t \in Topics |-> "none"]

-----------------------------------------------------------------------------
(* The machines of the gateway. *)

ClientUnchanged ==
    UNCHANGED <<gateway, link, callbackPending, restarts, lateCallback,
                channel, halfOpen, orphans, retained>>

\* addMachine: a DashboardClient without values or messages.
addMachine(m) ==
    /\ gateway = "up"
    /\ m \notin client
    /\ client' = client \cup {m}
    /\ value' = [value EXCEPT ![m] = "null"]
    /\ lastMessage' = [lastMessage EXCEPT ![m] = "none"]
    /\ due' = [due EXCEPT ![m] = TRUE]
    /\ ClientUnchanged

removeMachine(m) ==
    /\ m \in client
    /\ client' = client \ {m}
    /\ ClientUnchanged
    /\ UNCHANGED <<value, lastMessage, due>>

\* The callback of a subscription writes into the data set.
dataChange(m, v) ==
    /\ m \in client
    /\ value[m] # v
    /\ value' = [value EXCEPT ![m] = v]
    /\ ClientUnchanged
    /\ UNCHANGED <<client, lastMessage, due>>

\* time() has advanced by more than 10 s since lastSent.
TimePasses(m) ==
    /\ m \in client
    /\ ~due[m]
    /\ due' = [due EXCEPT ![m] = TRUE]
    /\ ClientUnchanged
    /\ UNCHANGED <<client, value, lastMessage>>

-----------------------------------------------------------------------------
(* MqttPublisher_Paho. *)

\* Faulty variant: an unchanged payload is never sent again.
OnlyIfChanged(m) == value[m] # lastMessage[m]

SendPayload(m) == value[m] # lastMessage[m] \/ due[m]

\* MqttPublisher_Paho::Publish: without a connection, the message is dropped.
Sent(messages) == IF link THEN channel \o messages ELSE channel

\* DashboardClient::Publish for one data set.  The last message is updated
\* whether or not it could be sent.
Publish(m) ==
    LET messages == (IF SendPayload(m) THEN <<Msg(Data(m), value[m])>>
                                       ELSE <<>>)
                       \o <<Msg(Online(m), "1")>>
    IN  /\ gateway = "up"
        /\ m \in client
        /\ value[m] # "null"
        /\ Len(channel) + Len(messages) <= MaxInFlight
        /\ channel' = Sent(messages)
        /\ lastMessage' = [lastMessage EXCEPT ![m] = value[m]]
        /\ due' = [due EXCEPT ![m] = @ /\ ~SendPayload(m)]
        /\ UNCHANGED <<gateway, link, callbackPending, client, value,
                       restarts, lateCallback, halfOpen, orphans, retained>>

\* Faulty variant: every connection has a client id of its own, and the session
\* before it is left to the broker.
ConnectAnew ==
    /\ gateway = "up"
    /\ ~link
    /\ link' = TRUE
    /\ callbackPending' = TRUE
    /\ UNCHANGED <<gateway, clientVars, restarts, lateCallback, channel,
                   halfOpen, orphans, retained>>

\* The constructor's connect, or a reconnect by the library.  The broker ends a
\* session with the same client id, and publishes its will, first.
Connect ==
    /\ gateway = "up"
    /\ ~link
    /\ link' = TRUE
    /\ callbackPending' = TRUE
    /\ halfOpen' = FALSE
    /\ retained' = IF halfOpen THEN [retained EXCEPT ![ClientOnline] = "0"]
                               ELSE retained
    /\ UNCHANGED <<gateway, clientVars, restarts, lateCallback, channel,
                   orphans>>

\* Faulty variant: the callback only logs, like connection_lost.
ConnectedSilent ==
    /\ callbackPending
    /\ callbackPending' = FALSE
    /\ UNCHANGED <<gateway, link, clientVars, restarts, lateCallback, channel,
                   halfOpen, orphans, retained>>

\* MqttCallbacks::connected, on a thread of the library: possibly while the
\* destructor waits for its message, or for the disconnect.
connected ==
    /\ gateway # "down"
    /\ callbackPending
    /\ Len(channel) < MaxInFlight
    /\ callbackPending' = FALSE
    /\ channel' = Sent(<<Msg(ClientOnline, "1")>>)
    /\ lateCallback' = (lateCallback \/ gateway = "stopping")
    /\ UNCHANGED <<gateway, link, clientVars, restarts, halfOpen, orphans,
                   retained>>

Deliver ==
    /\ channel # <<>>
    /\ retained' = [retained EXCEPT ![Head(channel).topic] =
                                      Head(channel).payload]
    /\ channel' = Tail(channel)
    /\ UNCHANGED <<gateway, link, callbackPending, clientVars, restarts,
                   lateCallback, halfOpen, orphans>>

LinkLost ==
    /\ link
    /\ link' = FALSE
    /\ channel' = <<>>
    /\ halfOpen' = TRUE
    /\ UNCHANGED <<gateway, callbackPending, clientVars, restarts,
                   lateCallback, orphans, retained>>

\* getLastWill.
LastWill == "0"

\* The keep alive interval of a dead session expires.
BrokerNotices ==
    /\ halfOpen \/ orphans > 0
    /\ \/ halfOpen /\ halfOpen' = FALSE /\ UNCHANGED orphans
       \/ orphans > 0 /\ orphans' = orphans - 1 /\ UNCHANGED halfOpen
    /\ retained' = [retained EXCEPT ![ClientOnline] = LastWill]
    /\ UNCHANGED <<gateway, link, callbackPending, clientVars, restarts,
                   lateCallback, channel>>

\* Faulty variant: the destructor only disconnects.
NoFarewell == channel

Farewell == Sent(<<Msg(ClientOnline, "0")>>)

\* ~MqttPublisher_Paho: clientOnline = 0 is published; the machine observer is
\* destroyed before.
StopGateway ==
    /\ gateway = "up"
    /\ Len(channel) < MaxInFlight
    /\ gateway' = "stopping"
    /\ client' = {}
    /\ channel' = Farewell
    /\ UNCHANGED <<link, callbackPending, value, lastMessage, due, restarts,
                   lateCallback, halfOpen, orphans, retained>>

\* disconnect: the broker discards the will.  Without a connection, publish or
\* disconnect throws, and the session is left to the broker.
Disconnect ==
    /\ gateway = "stopping"
    /\ channel = <<>>
    /\ gateway' = "down"
    /\ link' = FALSE
    /\ callbackPending' = FALSE
    /\ halfOpen' = FALSE
    /\ orphans' = IF halfOpen THEN orphans + 1 ELSE orphans
    /\ UNCHANGED <<clientVars, restarts, lateCallback, channel, retained>>

\* The process or its host dies.
Crash ==
    /\ gateway # "down"
    /\ gateway' = "down"
    /\ link' = FALSE
    /\ callbackPending' = FALSE
    /\ client' = {}
    /\ channel' = <<>>
    /\ halfOpen' = FALSE
    /\ orphans' = IF link \/ halfOpen THEN orphans + 1 ELSE orphans
    /\ UNCHANGED <<value, lastMessage, due, restarts, lateCallback, retained>>

\* A reset of main, or a new process: a new publisher.
Restart ==
    /\ gateway = "down"
    /\ restarts < MaxRestarts
    /\ restarts' = restarts + 1
    /\ gateway' = "up"
    /\ UNCHANGED <<link, callbackPending, clientVars, lateCallback, channel,
                   halfOpen, orphans, retained>>

Next ==
    \/ \E m \in Machines : \/ addMachine(m)
                           \/ removeMachine(m)
                           \/ \E v \in Values : dataChange(m, v)
                           \/ TimePasses(m)
                           \/ Publish(m)
    \/ Connect
    \/ connected
    \/ Deliver
    \/ LinkLost
    \/ BrokerNotices
    \/ StopGateway
    \/ Disconnect
    \/ Crash
    \/ Restart

Spec == Init /\ [][Next]_vars

\* The main thread publishes every second and time goes on; the library runs
\* its callback; a connection that stays delivers; a broker expires sessions.
FairSpec ==
    /\ Spec
    /\ \A m \in Machines : SF_vars(Publish(m)) /\ WF_vars(TimePasses(m))
    /\ SF_vars(connected)
    /\ WF_vars(Deliver)
    /\ WF_vars(BrokerNotices)

-----------------------------------------------------------------------------
(* Properties. *)

\* A lost message is made good: whatever was dropped by Publish or lost with
\* the connection, once the value and the connection last, the broker has the
\* value, because the same payload is sent again every 10 s.
DataConverges ==
    \A m \in Machines, v \in Values :
        <>[](gateway = "up" /\ link /\ m \in client /\ value[m] = v)
            => <>[](retained[Data(m)] = v)

\* clientOnline = 1 is never left behind: while a subscriber reads it, there
\* is a live session, or a dead one whose will is still to come.  The exception
\* is a connected() that ran during the destructor: its message follows the
\* farewell, and the disconnect discards the will.
OnlineHasSession ==
    ~lateCallback /\ retained[ClientOnline] = "1"
        => link \/ halfOpen \/ orphans > 0

\* After position n, nothing about clientOnline is on its way.
SilentAfter(n) ==
    \A k \in 1 .. Len(channel) : k > n => channel[k].topic # ClientOnline

\* The last word about clientOnline, on its way or at the broker, is p.
LastWord(p) ==
    \/ \E n \in 1 .. Len(channel) :
         channel[n] = Msg(ClientOnline, p) /\ SilentAfter(n)
    \/ retained[ClientOnline] = p /\ SilentAfter(0)

\* Once connected() has run, a gateway with a connection has the last word, and
\* it is 1: in the first life of the gateway neither a will nor a callback of a
\* connection that was lost meanwhile comes after it.
ConnectedIsAnnounced ==
    restarts = 0 /\ gateway = "up" /\ link /\ ~callbackPending => LastWord("1")

\* clientOnline is the "Online detection topic"
\* (doc/publishing_documentation.md:20): a gateway that stays connected is shown
\* as online for good, however often the link was lost, because the will of each
\* dead session is published before connected() sends clientOnline = 1.
\* After a restart it need not be: a publisher that replaces another one has
\* another client id, so the will of the old session may come later, and nothing
\* sends clientOnline = 1 again.
OnlineConvergesUntilRestart ==
    <>[](gateway = "up" /\ link /\ restarts = 0)
        => <>[](retained[ClientOnline] = "1")
=============================================================================
