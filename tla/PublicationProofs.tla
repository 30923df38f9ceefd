-------------------------- MODULE PublicationProofs --------------------------
(****************************************************************************)
(* For every set of machines and values, every length of the channel and    *)
(* any number of restarts: types are kept, clientOnline = 1 is never left   *)
(* without a session unless connected() has run during a destructor, and a  *)
(* gateway that was never restarted has the last word about clientOnline    *)
(* once connected() has run.                                                *)
(*                                                                          *)
(* Both results are about the last word on clientOnline, on its way or at   *)
(* the broker: a delivery keeps it, a message behind it about another topic *)
(* keeps it, and a message about clientOnline becomes it.  The session of a *)
(* stopping gateway ends without a will, but its last word is the farewell. *)
(* While a gateway in its first life has a connection, no dead session is   *)
(* left whose will could have the last word.                                *)
(****************************************************************************)
EXTENDS Publication, TLAPS

\* Messages are on their way only over a connection; a gateway that is down
\* has none.
ChannelInv ==
    /\ ~link => channel = <<>>
    /\ gateway = "down" => ~link /\ ~halfOpen /\ ~callbackPending

\* The last word about clientOnline is the farewell.
FarewellInv ==
    gateway = "stopping" /\ link /\ ~lateCallback => LastWord("0")

\* A connection ends the dead session before it, and only a publisher that was
\* replaced leaves sessions to the broker.
NoOtherSession ==
    /\ link => ~halfOpen
    /\ restarts = 0 /\ gateway # "down" => orphans = 0

\* What makes the announcement inductive.
AnnounceInv == TypeOK /\ ChannelInv /\ NoOtherSession /\ ConnectedIsAnnounced

IndInv == TypeOK /\ ChannelInv /\ FarewellInv /\ OnlineHasSession

-----------------------------------------------------------------------------
\* The messages the gateway sends are messages.
LEMMA Messages ==
    /\ ClientOnline \in Topics
    /\ Msg(ClientOnline, "0") \in Message
    /\ Msg(ClientOnline, "1") \in Message
    /\ \A m \in Machines : Msg(Online(m), "1") \in Message
    /\ \A m \in Machines, v \in Values : Msg(Data(m), v) \in Message
BY DEF ClientOnline, Msg, Message, Topics, Payloads, Online, Data

\* Nothing DashboardClient::Publish sends is about clientOnline.
LEMMA OtherTopics ==
    \A m \in Machines : Online(m) # ClientOnline /\ Data(m) # ClientOnline
BY PublicationAssumption DEF ClientOnline, Online, Data

\* The empty channel, and one extended within its bound, is a channel.
LEMMA EmptyChannel == <<>> \in Seq(Message) /\ Len(<<>>) <= MaxInFlight
BY PublicationAssumption

\* The same for the messages of one Publish ...
LEMMA ExtendedChannel ==
    ASSUME NEW s \in Seq(Message), NEW t \in Seq(Message),
           Len(s) + Len(t) <= MaxInFlight
    PROVE  s \o t \in Seq(Message) /\ Len(s \o t) <= MaxInFlight
<1>1. s \o t \in Seq(Message) /\ Len(s \o t) = Len(s) + Len(t)
  OBVIOUS
<1> QED
  BY <1>1

\* ... and for a single message.
LEMMA OneMore ==
    ASSUME NEW s \in Seq(Message), NEW x \in Message, Len(s) < MaxInFlight
    PROVE  s \o <<x>> \in Seq(Message) /\ Len(s \o <<x>>) <= MaxInFlight
<1>1. <<x>> \in Seq(Message) /\ Len(<<x>>) = 1
  OBVIOUS
<1>2. Len(s) \in Nat /\ Len(s) + 1 <= MaxInFlight
  BY PublicationAssumption
<1> QED
  BY <1>1, <1>2, ExtendedChannel

\* The last word depends on the channel and on what the broker retains.
LEMMA SameLastWord ==
    ASSUME NEW p, UNCHANGED <<channel, retained>>
    PROVE  LastWord(p)' = LastWord(p)
BY DEF LastWord, SilentAfter, Msg, ClientOnline

\* A delivery keeps the last word: it moves up, or arrives at the broker, or is
\* there already and another topic's message arrives.
LEMMA DeliverKeepsLastWord ==
    ASSUME TypeOK, Deliver, NEW p, LastWord(p)
    PROVE  LastWord(p)'
<1>1. channel \in Seq(Message) /\ channel # <<>> /\ channel' = Tail(channel)
  BY DEF Deliver, TypeOK
<1>2. /\ Len(channel') = Len(channel) - 1
      /\ Len(channel) \in Nat \ {0}
      /\ \A k \in 1 .. Len(channel') : channel'[k] = channel[k + 1]
  BY <1>1
<1>3. retained' = [retained EXCEPT ![channel[1].topic] = channel[1].payload]
  <2>1. Head(channel) = channel[1]
    BY <1>1
  <2> QED
    BY <2>1 DEF Deliver
<1>4. CASE \E n \in 1 .. Len(channel) :
             channel[n] = Msg(ClientOnline, p) /\ SilentAfter(n)
  <2>1. PICK n \in 1 .. Len(channel) :
             channel[n] = Msg(ClientOnline, p) /\ SilentAfter(n)
    BY <1>4
  <2>2. CASE n = 1
    <3>1. retained'[ClientOnline] = p
      BY <1>3, <2>1, <2>2, Messages DEF Msg, TypeOK
    <3>2. SilentAfter(0)'
      BY <1>2, <2>1, <2>2 DEF SilentAfter, ClientOnline
    <3> QED
      BY <3>1, <3>2 DEF LastWord
  <2>3. CASE n > 1
    <3>1. /\ n - 1 \in 1 .. Len(channel')
          /\ channel'[n - 1] = Msg(ClientOnline, p)
      BY <1>2, <2>1, <2>3
    <3>2. SilentAfter(n - 1)'
      <4> SUFFICES ASSUME NEW k \in 1 .. Len(channel'), k > n - 1
                   PROVE  channel'[k].topic # ClientOnline
        BY DEF SilentAfter, ClientOnline
      <4>1. k + 1 \in 1 .. Len(channel) /\ k + 1 > n
        BY <1>2
      <4>2. channel'[k] = channel[k + 1]
        BY <1>2
      <4> QED
        BY <2>1, <4>1, <4>2 DEF SilentAfter
    <3> QED
      BY <3>1, <3>2 DEF LastWord, ClientOnline, Msg
  <2> QED
    BY <2>2, <2>3
<1>5. CASE retained[ClientOnline] = p /\ SilentAfter(0)
  <2>1. channel[1].topic # ClientOnline
    BY <1>2, <1>5 DEF SilentAfter
  <2>2. retained'[ClientOnline] = p
    BY <1>3, <1>5, <2>1, Messages DEF TypeOK
  <2>3. SilentAfter(0)'
    BY <1>2, <1>5 DEF SilentAfter, ClientOnline
  <2> QED
    BY <2>2, <2>3 DEF LastWord
<1> QED
  BY <1>4, <1>5 DEF LastWord

\* What is sent about clientOnline is the last word.
LEMMA NewLastWord ==
    ASSUME channel \in Seq(Message), NEW p, Msg(ClientOnline, p) \in Message,
           channel' = channel \o <<Msg(ClientOnline, p)>>
    PROVE  LastWord(p)'
<1>1. /\ Len(channel') = Len(channel) + 1
      /\ Len(channel) \in Nat
      /\ channel'[Len(channel')] = Msg(ClientOnline, p)
  OBVIOUS
<1>2. \A k \in 1 .. Len(channel') : ~(k > Len(channel'))
  BY <1>1
<1>3. Len(channel') \in 1 .. Len(channel')
  BY <1>1
<1> QED
  BY <1>1, <1>2, <1>3 DEF LastWord, SilentAfter, Msg, ClientOnline

\* What is sent about other topics leaves the last word.
LEMMA OthersKeepLastWord ==
    ASSUME channel \in Seq(Message), NEW others \in Seq(Message),
           \A k \in 1 .. Len(others) : others[k].topic # ClientOnline,
           channel' = channel \o others, UNCHANGED retained,
           NEW p, LastWord(p)
    PROVE  LastWord(p)'
<1>1. /\ Len(channel) \in Nat /\ Len(others) \in Nat
      /\ Len(channel') = Len(channel) + Len(others)
      /\ \A k \in 1 .. Len(channel') :
           channel'[k] = IF k <= Len(channel) THEN channel[k]
                                              ELSE others[k - Len(channel)]
  OBVIOUS
<1>2. ASSUME NEW n \in 0 .. Len(channel), SilentAfter(n)
      PROVE  SilentAfter(n)'
  <2> SUFFICES ASSUME NEW k \in 1 .. Len(channel'), k > n
               PROVE  channel'[k].topic # ClientOnline
    BY DEF SilentAfter, ClientOnline
  <2>1. CASE k <= Len(channel)
    <3>1. k \in 1 .. Len(channel) /\ channel'[k] = channel[k]
      BY <1>1, <2>1
    <3> QED
      BY <1>2, <3>1 DEF SilentAfter
  <2>2. CASE k > Len(channel)
    <3>1. /\ k - Len(channel) \in 1 .. Len(others)
          /\ channel'[k] = others[k - Len(channel)]
      BY <1>1, <2>2
    <3> QED
      BY <3>1
  <2> QED
    BY <1>1, <2>1, <2>2
<1>3. CASE \E n \in 1 .. Len(channel) :
             channel[n] = Msg(ClientOnline, p) /\ SilentAfter(n)
  <2>1. PICK n \in 1 .. Len(channel) :
             channel[n] = Msg(ClientOnline, p) /\ SilentAfter(n)
    BY <1>3
  <2>2. /\ n \in 0 .. Len(channel)
        /\ n \in 1 .. Len(channel')
        /\ channel'[n] = Msg(ClientOnline, p)
    BY <1>1, <2>1
  <2>3. SilentAfter(n)'
    BY <1>2, <2>1, <2>2
  <2> QED
    BY <2>2, <2>3 DEF LastWord, Msg, ClientOnline
<1>4. CASE retained[ClientOnline] = p /\ SilentAfter(0)
  <2>1. SilentAfter(0)'
    BY <1>1, <1>2, <1>4
  <2> QED
    BY <1>4, <2>1 DEF LastWord, ClientOnline
<1> QED
  BY <1>3, <1>4 DEF LastWord

\* Every step keeps the types of the variables.
LEMMA TypeStep == TypeOK /\ [Next]_vars => TypeOK'
<1> SUFFICES ASSUME TypeOK, [Next]_vars PROVE TypeOK'
  OBVIOUS
<1> USE PublicationAssumption DEF TypeOK, clientVars
<1>1. ASSUME NEW m \in Machines, addMachine(m) PROVE TypeOK'
  BY <1>1 DEF addMachine, ClientUnchanged
<1>2. ASSUME NEW m \in Machines, removeMachine(m) PROVE TypeOK'
  BY <1>2 DEF removeMachine, ClientUnchanged
<1>3. ASSUME NEW m \in Machines, NEW v \in Values, dataChange(m, v)
      PROVE  TypeOK'
  BY <1>3 DEF dataChange, ClientUnchanged
<1>4. ASSUME NEW m \in Machines, TimePasses(m) PROVE TypeOK'
  BY <1>4 DEF TimePasses, ClientUnchanged
<1>5. ASSUME NEW m \in Machines, Publish(m) PROVE TypeOK'
  <2> DEFINE messages ==
         (IF SendPayload(m) THEN <<Msg(Data(m), value[m])>> ELSE <<>>)
            \o <<Msg(Online(m), "1")>>
  <2>1. value[m] \in Values
    BY <1>5 DEF Publish
  <2>2. /\ Msg(Data(m), value[m]) \in Message
        /\ Msg(Online(m), "1") \in Message
    BY <2>1, Messages
  <2>3. messages \in Seq(Message)
    BY <2>2
  <2>4. Len(channel) + Len(messages) <= MaxInFlight
    BY <1>5 DEF Publish
  <2>5. channel' = channel \/ channel' = channel \o messages
    BY <1>5 DEF Publish, Sent
  <2> HIDE DEF messages
  <2>6. channel' \in Seq(Message) /\ Len(channel') <= MaxInFlight
    <3>1. channel \in Seq(Message)
      OBVIOUS
    <3> QED
      BY <2>3, <2>4, <2>5, <3>1, ExtendedChannel
  <2>7. lastMessage' \in [Machines -> Values \cup {"none"}]
    BY <1>5, <2>1 DEF Publish
  <2>8. due' \in [Machines -> BOOLEAN]
    BY <1>5 DEF Publish
  <2> QED
    BY <1>5, <2>6, <2>7, <2>8 DEF Publish
<1>6. CASE Connect
  BY <1>6, Messages DEF Connect, Payloads
<1>7. CASE connected
  <2>1. channel' \in Seq(Message) /\ Len(channel') <= MaxInFlight
    BY <1>7, Messages, OneMore DEF connected, Sent
  <2> QED
    BY <1>7, <2>1 DEF connected
<1>8. CASE Deliver
  <2>1. Head(channel) \in Message /\ Tail(channel) \in Seq(Message)
    BY <1>8 DEF Deliver
  <2>2. Len(Tail(channel)) <= MaxInFlight
    BY <1>8 DEF Deliver
  <2>3. Head(channel).topic \in Topics /\ Head(channel).payload \in Payloads
    BY <2>1 DEF Message
  <2> QED
    BY <1>8, <2>1, <2>2, <2>3 DEF Deliver
<1>9. CASE LinkLost
  BY <1>9, EmptyChannel DEF LinkLost
<1>10. CASE BrokerNotices
  <2>1. orphans' \in Nat
    <3>1. orphans > 0 => orphans - 1 \in Nat
      OBVIOUS
    <3> QED
      BY <1>10, <3>1 DEF BrokerNotices
  <2>2. retained' \in [Topics -> Payloads \cup {"none"}]
    BY <1>10, Messages DEF BrokerNotices, LastWill, Payloads
  <2> QED
    BY <1>10, <2>1, <2>2, Zenon DEF BrokerNotices
<1>11. CASE StopGateway
  <2>1. channel' \in Seq(Message) /\ Len(channel') <= MaxInFlight
    BY <1>11, Messages, OneMore DEF StopGateway, Farewell, Sent
  <2> QED
    BY <1>11, <2>1 DEF StopGateway
<1>12. CASE Disconnect
  <2>1. orphans' \in Nat
    BY <1>12 DEF Disconnect
  <2> QED
    BY <1>12, <2>1 DEF Disconnect
<1>13. CASE Crash
  <2>1. orphans' \in Nat
    BY <1>13 DEF Crash
  <2> QED
    BY <1>13, <2>1, EmptyChannel DEF Crash
<1>14. CASE Restart
  BY <1>14 DEF Restart
<1>15. CASE UNCHANGED vars
  BY <1>15 DEF vars
<1> QED
  BY <1>1, <1>2, <1>3, <1>4, <1>5, <1>6, <1>7, <1>8, <1>9, <1>10, <1>11,
     <1>12, <1>13, <1>14, <1>15 DEF Next

\* Every step keeps the other parts.
LEMMA FarewellStep ==
    ASSUME IndInv, [Next]_vars
    PROVE  (ChannelInv /\ FarewellInv /\ OnlineHasSession)'
<1> USE DEF IndInv, ChannelInv, OnlineHasSession
<1>1. ASSUME UNCHANGED <<gateway, link, callbackPending, lateCallback,
                         channel, halfOpen, orphans, retained>>
      PROVE  (ChannelInv /\ FarewellInv /\ OnlineHasSession)'
  BY <1>1, SameLastWord DEF FarewellInv
<1>2. ASSUME NEW m \in Machines, addMachine(m) \/ removeMachine(m)
               \/ TimePasses(m) \/ \E v \in Values : dataChange(m, v)
      PROVE  (ChannelInv /\ FarewellInv /\ OnlineHasSession)'
  BY <1>1, <1>2 DEF addMachine, removeMachine, TimePasses, dataChange,
     ClientUnchanged
<1>3. ASSUME NEW m \in Machines, Publish(m)
      PROVE  (ChannelInv /\ FarewellInv /\ OnlineHasSession)'
  BY <1>3 DEF Publish, Sent, FarewellInv
<1>4. CASE Connect
  BY <1>4, Messages DEF Connect, FarewellInv, TypeOK
<1>5. CASE connected
  BY <1>5 DEF connected, Sent, FarewellInv
<1>6. CASE Deliver
  <2>1. /\ link
        /\ UNCHANGED <<gateway, link, callbackPending, lateCallback, halfOpen,
                       orphans>>
    BY <1>6 DEF Deliver
  <2>2. ASSUME gateway = "stopping", ~lateCallback PROVE FarewellInv'
    <3>1. LastWord("0")
      BY <2>1, <2>2 DEF FarewellInv
    <3>2. LastWord("0")'
      BY <1>6, <3>1, DeliverKeepsLastWord
    <3> QED
      BY <3>2 DEF FarewellInv
  <2>3. gateway # "stopping" \/ lateCallback => FarewellInv'
    BY <2>1 DEF FarewellInv
  <2> QED
    BY <2>1, <2>2, <2>3
<1>7. CASE LinkLost
  BY <1>7 DEF LinkLost, FarewellInv
<1>8. CASE BrokerNotices
  <2>1. retained'[ClientOnline] = "0"
    BY <1>8, Messages DEF BrokerNotices, LastWill, TypeOK
  <2>2. UNCHANGED <<gateway, link, callbackPending, lateCallback, channel>>
    BY <1>8 DEF BrokerNotices
  <2>3. FarewellInv'
    BY <2>1, <2>2 DEF FarewellInv, LastWord, SilentAfter
  <2>4. gateway = "down" => ~halfOpen'
    BY <1>8 DEF BrokerNotices
  <2> QED
    BY <2>1, <2>2, <2>3, <2>4
<1>9. CASE StopGateway
  <2>1. UNCHANGED <<link, callbackPending, halfOpen, orphans, retained>>
        /\ gateway' = "stopping" /\ UNCHANGED lateCallback
    BY <1>9 DEF StopGateway
  <2>2. ASSUME link PROVE FarewellInv'
    <3>1. channel' = channel \o <<Msg(ClientOnline, "0")>>
      BY <1>9, <2>2 DEF StopGateway, Farewell, Sent
    <3>2. LastWord("0")'
      BY <3>1, Messages, NewLastWord DEF TypeOK
    <3> QED
      BY <3>2 DEF FarewellInv
  <2>3. ~link => FarewellInv' /\ channel' = channel
    BY <1>9, <2>1 DEF FarewellInv, StopGateway, Farewell, Sent
  <2> QED
    BY <2>1, <2>2, <2>3
<1>10. CASE Disconnect
  <2>1. link /\ ~lateCallback => retained[ClientOnline] = "0"
    BY <1>10 DEF Disconnect, FarewellInv, LastWord
  <2> QED
    BY <1>10, <2>1 DEF Disconnect, FarewellInv, TypeOK
<1>11. CASE Crash
  BY <1>11 DEF Crash, FarewellInv, TypeOK
<1>12. CASE Restart
  BY <1>12 DEF Restart, FarewellInv
<1>13. CASE UNCHANGED vars
  BY <1>1, <1>13 DEF vars
<1> QED
  BY <1>2, <1>3, <1>4, <1>5, <1>6, <1>7, <1>8, <1>9, <1>10, <1>11, <1>12,
     <1>13 DEF Next

\* Every step keeps the announcement of a gateway that was never restarted.
LEMMA AnnounceStep ==
    ASSUME AnnounceInv, [Next]_vars
    PROVE  (NoOtherSession /\ ConnectedIsAnnounced)'
<1> USE DEF AnnounceInv, ChannelInv, NoOtherSession
<1>1. ASSUME UNCHANGED <<gateway, link, callbackPending, restarts, channel,
                         halfOpen, orphans, retained>>
      PROVE  (NoOtherSession /\ ConnectedIsAnnounced)'
  BY <1>1, SameLastWord DEF ConnectedIsAnnounced
<1>2. ASSUME NEW m \in Machines, addMachine(m) \/ removeMachine(m)
               \/ TimePasses(m) \/ \E v \in Values : dataChange(m, v)
      PROVE  (NoOtherSession /\ ConnectedIsAnnounced)'
  BY <1>1, <1>2 DEF addMachine, removeMachine, TimePasses, dataChange,
     ClientUnchanged
<1>3. ASSUME NEW m \in Machines, Publish(m)
      PROVE  (NoOtherSession /\ ConnectedIsAnnounced)'
  <2> DEFINE messages ==
         (IF SendPayload(m) THEN <<Msg(Data(m), value[m])>> ELSE <<>>)
            \o <<Msg(Online(m), "1")>>
  <2>1. UNCHANGED <<gateway, link, callbackPending, restarts, halfOpen,
                    orphans, retained>>
    BY <1>3 DEF Publish
  <2>2. ASSUME link, LastWord("1") PROVE LastWord("1")'
    <3>1. /\ Msg(Data(m), value[m]) \in Message
          /\ Msg(Online(m), "1") \in Message
      BY <1>3, Messages DEF Publish, TypeOK
    <3>2. /\ Msg(Data(m), value[m]).topic # ClientOnline
          /\ Msg(Online(m), "1").topic # ClientOnline
      BY OtherTopics DEF Msg
    <3>3. /\ messages \in Seq(Message)
          /\ \A k \in 1 .. Len(messages) : messages[k].topic # ClientOnline
      BY <3>1, <3>2
    <3>4. channel' = channel \o messages
      BY <1>3, <2>2 DEF Publish, Sent
    <3> HIDE DEF messages
    <3> QED
      BY <2>1, <2>2, <3>3, <3>4, OthersKeepLastWord DEF TypeOK
  <2> QED
    BY <2>1, <2>2 DEF ConnectedIsAnnounced
<1>4. CASE Connect
  BY <1>4 DEF Connect, ConnectedIsAnnounced
<1>5. CASE connected
  <2>1. UNCHANGED <<gateway, link, restarts, halfOpen, orphans>>
    BY <1>5 DEF connected
  <2>2. ASSUME link PROVE LastWord("1")'
    <3>1. channel' = channel \o <<Msg(ClientOnline, "1")>>
      BY <1>5, <2>2 DEF connected, Sent
    <3> QED
      BY <3>1, Messages, NewLastWord DEF TypeOK
  <2> QED
    BY <2>1, <2>2 DEF ConnectedIsAnnounced
<1>6. CASE Deliver
  <2>1. UNCHANGED <<gateway, link, callbackPending, restarts, halfOpen,
                    orphans>>
    BY <1>6 DEF Deliver
  <2>2. LastWord("1") => LastWord("1")'
    BY <1>6, DeliverKeepsLastWord
  <2> QED
    BY <2>1, <2>2 DEF ConnectedIsAnnounced
<1>7. CASE LinkLost
  BY <1>7 DEF LinkLost, ConnectedIsAnnounced
\* A will is published only for a session that died before the connection.
<1>8. CASE BrokerNotices
  <2>1. UNCHANGED <<gateway, link, callbackPending, restarts>>
    BY <1>8 DEF BrokerNotices
  <2>2. ~(link /\ restarts = 0)
    BY <1>8 DEF BrokerNotices, TypeOK
  <2>3. (link => ~halfOpen') /\ (restarts = 0 /\ gateway # "down" => orphans' = 0)
    BY <1>8 DEF BrokerNotices, TypeOK
  <2> QED
    BY <2>1, <2>2, <2>3 DEF ConnectedIsAnnounced
<1>9. CASE StopGateway
  BY <1>9 DEF StopGateway, ConnectedIsAnnounced
<1>10. CASE Disconnect
  BY <1>10 DEF Disconnect, ConnectedIsAnnounced
<1>11. CASE Crash
  BY <1>11 DEF Crash, ConnectedIsAnnounced
<1>12. CASE Restart
  <2>1. restarts' # 0 /\ link' = link /\ halfOpen' = halfOpen
    BY <1>12 DEF Restart, TypeOK
  <2> QED
    BY <2>1 DEF ConnectedIsAnnounced
<1>13. CASE UNCHANGED vars
  BY <1>1, <1>13 DEF vars
<1> QED
  BY <1>2, <1>3, <1>4, <1>5, <1>6, <1>7, <1>8, <1>9, <1>10, <1>11, <1>12,
     <1>13 DEF Next

\* The initial state satisfies the inductive invariant.
LEMMA InitIndInv == Init => IndInv
<1> SUFFICES ASSUME Init PROVE IndInv
  OBVIOUS
<1>1. TypeOK
  <2>1. channel \in Seq(Message) /\ Len(channel) <= MaxInFlight
    BY EmptyChannel DEF Init
  <2>2. /\ value \in [Machines -> Values \cup {"null"}]
        /\ lastMessage \in [Machines -> Values \cup {"none"}]
        /\ due \in [Machines -> BOOLEAN]
        /\ retained \in [Topics -> Payloads \cup {"none"}]
    BY DEF Init
  <2>3. restarts \in 0 .. MaxRestarts /\ orphans \in Nat
    BY PublicationAssumption DEF Init
  <2> QED
    BY <2>1, <2>2, <2>3, PublicationAssumption DEF Init, TypeOK
<1>2. ChannelInv /\ FarewellInv
  BY DEF Init, ChannelInv, FarewellInv
<1>3. OnlineHasSession
  BY Messages DEF Init, OnlineHasSession
<1> QED
  BY <1>1, <1>2, <1>3 DEF IndInv

-----------------------------------------------------------------------------
\* DashboardClient::Publish, the callbacks and the destructor keep the type of
\* every variable and the channel within its bound.
THEOREM TypeCorrect == Spec => []TypeOK
<1>1. Init => TypeOK
  BY InitIndInv DEF IndInv
<1> QED
  BY <1>1, TypeStep, PTL DEF Spec

\* Unless connected() runs during the destructor, clientOnline = 1 is retained
\* only while there is a session, or a dead one whose will is still to come.
THEOREM OnlineAlwaysHasSession == Spec => []OnlineHasSession
<1>1. IndInv /\ [Next]_vars => IndInv'
  BY TypeStep, FarewellStep DEF IndInv
<1>2. IndInv => OnlineHasSession
  BY DEF IndInv
<1> QED
  BY <1>1, <1>2, InitIndInv, PTL DEF Spec

\* A gateway that was never restarted and has a connection has the last word
\* about clientOnline once connected() has run, and it is 1: however often the
\* link was lost, no will and no other message comes after it.
THEOREM ConnectedAlwaysAnnounced == Spec => []ConnectedIsAnnounced
<1>1. Init => IndInv /\ AnnounceInv
  BY InitIndInv DEF Init, IndInv, AnnounceInv, NoOtherSession,
     ConnectedIsAnnounced
<1>2. (IndInv /\ AnnounceInv) /\ [Next]_vars => (IndInv /\ AnnounceInv)'
  BY TypeStep, FarewellStep, AnnounceStep DEF IndInv, AnnounceInv
<1>3. IndInv /\ AnnounceInv => ConnectedIsAnnounced
  BY DEF AnnounceInv
<1> QED
  BY <1>1, <1>2, <1>3, PTL DEF Spec
=============================================================================
