--------------------------- MODULE ChannelsProofs ---------------------------
(***************************************************************************)
(* For any channels, nicks and queue lengths: private messages follow live *)
(* channels, the daemon is welcomed once, and the order book is emptied    *)
(* with the last channel.  Of the onion channel, for any directories,      *)
(* answers and timeouts: the peer objects follow the network, and every    *)
(* directory in use has the maker's offers.                                *)
(***************************************************************************)
EXTENDS MessageChannels, OnionPeers, FiniteSetTheorems, SequenceTheorems, TLAPS

(***************************************************************************)
(* The collection of channels                                              *)
(***************************************************************************)

(* A nick is active on a channel that is down only after a late offer.     *)
DeadRouteIsLate ==
  \A n \in Nicks :
    active_channels[n] # None /\ mc_status[active_channels[n]] # 1
      => <<n, active_channels[n]>> \in late

(* The timer is only armed until the daemon has been welcomed.             *)
WelcomeOrder ==
  /\ welcomes = IF welcomed THEN 1 ELSE 0
  /\ announce_timer = "armed" => ~welcomed

(* With every channel down, an offer in the book has an active channel.    *)
DownBook ==
  Available(mc_status) = {} => \A n \in book : active_channels[n] # None

RouteInv == ActiveIsSeen /\ DeadRouteIsLate /\ DownBook

IndInv == TypeOK /\ RouteInv /\ WelcomeOrder /\ SentOverLiveChannel

LEMMA InitInd == Init => IndInv
<1> SUFFICES ASSUME Init PROVE IndInv
  OBVIOUS
<1> USE ChannelsAssumption DEF Init
<1>1. TypeOK
  <2>1. <<>> \in Seq(CallRecs) /\ <<>> \in Seq(VerifyRecs) /\ <<>> \in Seq(SignRecs)
    OBVIOUS
  <2>2. /\ mc_status \in [Channels -> 0..2]
        /\ nicks_seen \in [Channels -> SUBSET Nicks]
        /\ active_channels \in [Nicks -> Channels \cup {None}]
    OBVIOUS
  <2> QED
    BY <2>1, <2>2 DEF TypeOK
<1>2. RouteInv
  BY DEF RouteInv, ActiveIsSeen, DeadRouteIsLate, DownBook
<1>3. WelcomeOrder
  BY DEF WelcomeOrder
<1>4. SentOverLiveChannel
  BY DEF SentOverLiveChannel
<1> QED
  BY <1>1, <1>2, <1>3, <1>4 DEF IndInv

(* The queue of events loses its head, which is an event.                  *)
LEMMA GetsType ==
  ASSUME TypeOK, NEW kind, Gets(kind)
  PROVE  /\ calls' \in Seq(CallRecs)
         /\ Head(calls) \in CallRecs
         /\ Head(calls).mc \in Channels
         /\ kind \notin {"welcome", "disconnect"} => Head(calls).nick \in Nicks
  BY DEF TypeOK, Gets, CallRecs

(* Servers only add events.                                                *)
LEMMA ServersStep ==
  ASSUME IndInv, Servers
  PROVE  IndInv'
<1>1. TypeOK'
  <2> USE DEF IndInv, TypeOK
  <2>1. PICK mc \in Channels :
           Joins(mc) \/ ConnectionLost(mc)
           \/ \E n \in Nicks, k \in NickEvents : Says(mc, n, k)
    BY DEF Servers
  <2>2. calls' \in Seq(CallRecs)
    <3>1. CASE Joins(mc)
      BY <3>1 DEF Joins, Later, CallRecs
    <3>2. CASE ConnectionLost(mc)
      BY <3>2 DEF ConnectionLost, Later, CallRecs
    <3>3. CASE \E n \in Nicks, k \in NickEvents : Says(mc, n, k)
      <4>1. PICK n \in Nicks, k \in NickEvents : Says(mc, n, k)
        BY <3>3
      <4>2. [kind |-> k, mc |-> mc, nick |-> n] \in CallRecs
        BY DEF NickEvents, CallRecs
      <4> QED
        BY <4>1, <4>2 DEF Says, Later
    <3> QED
      BY <2>1, <3>1, <3>2, <3>3
  <2>3. joined' \subseteq Channels
    BY <2>1 DEF Joins, ConnectionLost, Says
  <2> QED
    BY <2>2, <2>3 DEF Servers, ampVars, nickVars, welcomeVars
<1> QED
  BY <1>1 DEF Servers, ampVars, nickVars, welcomeVars, IndInv, RouteInv,
     ActiveIsSeen, DeadRouteIsLate, DownBook, WelcomeOrder, SentOverLiveChannel

(* An offer makes its nick active on the channel it came from.             *)
LEMMA OrderSeen ==
  ASSUME IndInv, NEW n \in Nicks, NEW mc \in Channels,
         on_order_seen_trigger(n, mc), mc_status' = mc_status
  PROVE  /\ nicks_seen' \in [Channels -> SUBSET Nicks]
         /\ active_channels' \in [Nicks -> Channels \cup {None}]
         /\ book' \subseteq Nicks
         /\ late' \subseteq Nicks \X Channels
         /\ RouteInv'
<1> USE ChannelsAssumption DEF IndInv, TypeOK, on_order_seen_trigger, see_nick
<1>1. /\ nicks_seen' \in [Channels -> SUBSET Nicks]
      /\ active_channels' \in [Nicks -> Channels \cup {None}]
      /\ book' \subseteq Nicks
      /\ late' \subseteq Nicks \X Channels
  OBVIOUS
<1>2. ActiveIsSeen'
  BY DEF RouteInv, ActiveIsSeen
<1>3. DeadRouteIsLate'
  BY DEF RouteInv, DeadRouteIsLate
<1>4. DownBook'
  BY DEF RouteInv, DownBook, Available
<1> QED
  BY <1>1, <1>2, <1>3, <1>4 DEF RouteInv

(* A channel is welcomed or lost.                                          *)
LEMMA WelcomeStep ==
  ASSUME IndInv, on_welcome_trigger \/ announce_timer_fires
  PROVE  IndInv'
<1> USE ChannelsAssumption DEF IndInv
<1>1. CASE announce_timer_fires
  BY <1>1 DEF announce_timer_fires, Announce, TypeOK, envVars, ampVars, nickVars,
     RouteInv, ActiveIsSeen, DeadRouteIsLate, DownBook, WelcomeOrder,
     SentOverLiveChannel
<1>2. CASE on_welcome_trigger
  <2>0. Gets("welcome")
    BY <1>2 DEF on_welcome_trigger
  <2>1. calls' \in Seq(CallRecs) /\ Head(calls).mc \in Channels
    BY <2>0, GetsType
  <2>2. mc_status' \in [Channels -> 0..2]
    BY <1>2, <2>1 DEF on_welcome_trigger, TypeOK
  <2>c. Announce \/ UNCHANGED <<welcomed, welcomes>>
    BY <1>2 DEF on_welcome_trigger, welcomeVars
  <2>a. welcomed' \in BOOLEAN
    BY <2>c, Zenon DEF Announce, TypeOK
  <2>d. welcomes' \in Nat
    BY <2>c, SMT DEF Announce, TypeOK
  <2>b. announce_timer' \in {"none", "armed", "over"}
    BY <1>2 DEF on_welcome_trigger, TypeOK, welcomeVars
  <2>3. TypeOK'
    BY <1>2, <2>1, <2>2, <2>a, <2>b, <2>d DEF on_welcome_trigger, TypeOK, ampVars,
       nickVars
  <2>4. RouteInv'
    BY <1>2, <2>1 DEF on_welcome_trigger, TypeOK, nickVars, RouteInv,
       ActiveIsSeen, DeadRouteIsLate, DownBook, Available
  <2>5. WelcomeOrder'
    BY <1>2 DEF on_welcome_trigger, Announce, TypeOK, WelcomeOrder, welcomeVars
  <2>6. SentOverLiveChannel'
    BY <1>2 DEF on_welcome_trigger, SentOverLiveChannel, ampVars
  <2> QED
    BY <2>3, <2>4, <2>5, <2>6
<1> QED
  BY <1>1, <1>2

LEMMA DisconnectStep ==
  ASSUME IndInv, on_disconnect_trigger
  PROVE  IndInv'
<1> USE ChannelsAssumption DEF IndInv
<1>0. Gets("disconnect")
  BY DEF on_disconnect_trigger
<1>1. calls' \in Seq(CallRecs) /\ Head(calls).mc \in Channels
  BY <1>0, GetsType
<1>2. mc_status' \in [Channels -> 0..2]
  BY <1>1 DEF on_disconnect_trigger, TypeOK
<1>3. /\ nicks_seen' = [mc \in Channels |->
                          IF mc_status'[mc] = 1 THEN nicks_seen[mc] ELSE {}]
      /\ active_channels' \in [Nicks -> Channels \cup {None}]
      /\ \A n \in Nicks : active_channels'[n] \in MovedTo(mc_status', n)
      /\ late' = {x \in late : mc_status'[x[2]] = 1}
  BY DEF on_disconnect_trigger, flush_nicks, Flushed, Rerouted
<1>4. TypeOK'
  BY <1>1, <1>2, <1>3 DEF on_disconnect_trigger, TypeOK, ampVars, welcomeVars
<1>5. \A n \in Nicks : active_channels'[n] # None =>
         /\ mc_status'[active_channels'[n]] = 1
         /\ n \in nicks_seen[active_channels'[n]]
  <2> SUFFICES ASSUME NEW n \in Nicks, active_channels'[n] # None
               PROVE  /\ mc_status'[active_channels'[n]] = 1
                      /\ n \in nicks_seen[active_channels'[n]]
    OBVIOUS
  <2>1. active_channels'[n] \in MovedTo(mc_status', n)
    BY <1>3
  <2> QED
    BY <2>1 DEF MovedTo, Reach, Available, RouteInv, ActiveIsSeen, TypeOK
<1>6. RouteInv'
  <2>1. ActiveIsSeen'
    BY <1>3, <1>5, <1>4 DEF ActiveIsSeen, TypeOK
  <2>2. DeadRouteIsLate'
    BY <1>5 DEF DeadRouteIsLate
  <2>3. DownBook'
    BY DEF DownBook, on_disconnect_trigger
  <2> QED
    BY <2>1, <2>2, <2>3 DEF RouteInv
<1>7. WelcomeOrder' /\ SentOverLiveChannel'
  BY DEF on_disconnect_trigger, WelcomeOrder, welcomeVars, SentOverLiveChannel,
     ampVars
<1> QED
  BY <1>4, <1>6, <1>7

LEMMA LeaveStep ==
  ASSUME IndInv, on_nick_leave_trigger
  PROVE  IndInv'
<1> USE ChannelsAssumption DEF IndInv
<1> DEFINE n == Head(calls).nick
           mc == Head(calls).mc
<1>0. Gets("leave")
  BY DEF on_nick_leave_trigger
<1>1. calls' \in Seq(CallRecs) /\ mc \in Channels /\ n \in Nicks
  BY <1>0, GetsType
<1> HIDE DEF n, mc
<1>2. /\ nicks_seen' = [nicks_seen EXCEPT ![mc] = @ \ {n}]
      /\ late' = late \ {<<n, mc>>}
      /\ mc_status' = mc_status
      /\ book' \subseteq book
      /\ \/ active_channels[n] = None /\ book' = book \ {n}
            /\ active_channels' = active_channels
         \/ active_channels[n] = mc
            /\ \E oc \in Reach(mc_status, nicks_seen, n) \ {mc} :
                  active_channels' = [active_channels EXCEPT ![n] = oc]
            /\ book' = book
         \/ active_channels[n] = mc
            /\ active_channels' = [active_channels EXCEPT ![n] = None]
            /\ book' = book \ {n}
         \/ active_channels[n] \notin {None, mc}
            /\ active_channels' = active_channels /\ book' = book
  BY DEF on_nick_leave_trigger, n, mc
<1>a. nicks_seen' \in [Channels -> SUBSET Nicks]
  BY <1>1, <1>2 DEF TypeOK
<1>b. active_channels' \in [Nicks -> Channels \cup {None}]
  BY <1>1, <1>2 DEF TypeOK, Reach, Available
<1>c. book' \subseteq Nicks /\ late' \subseteq Nicks \X Channels
  BY <1>2 DEF TypeOK
<1>3. TypeOK'
  BY <1>1, <1>2, <1>a, <1>b, <1>c DEF on_nick_leave_trigger, TypeOK, ampVars,
     welcomeVars
<1>4. ActiveIsSeen'
  BY <1>1, <1>2 DEF RouteInv, ActiveIsSeen, TypeOK, Reach, Available
<1>5. DeadRouteIsLate'
  BY <1>1, <1>2 DEF RouteInv, DeadRouteIsLate, TypeOK, Reach, Available
<1>6. DownBook'
  BY <1>1, <1>2 DEF RouteInv, DownBook, TypeOK, Reach, Available
<1>7. WelcomeOrder' /\ SentOverLiveChannel'
  BY DEF on_nick_leave_trigger, WelcomeOrder, welcomeVars, SentOverLiveChannel,
     ampVars
<1> QED
  BY <1>3, <1>4, <1>5, <1>6, <1>7 DEF RouteInv

(* Messages that come in.                                                  *)
LEMMA PubStep ==
  ASSUME IndInv, on_pubmsg_order \/ on_pubmsg_cancel \/ on_pubmsg_other
  PROVE  IndInv'
<1> USE ChannelsAssumption DEF IndInv
<1>1. CASE on_pubmsg_order
  <2>1. Gets("pub_order") /\ mc_status' = mc_status
    BY <1>1 DEF on_pubmsg_order
  <2>2. /\ calls' \in Seq(CallRecs)
        /\ Head(calls).mc \in Channels /\ Head(calls).nick \in Nicks
    BY <2>1, GetsType
  <2>3. on_order_seen_trigger(Head(calls).nick, Head(calls).mc)
    BY <1>1 DEF on_pubmsg_order
  <2>4. /\ nicks_seen' \in [Channels -> SUBSET Nicks]
        /\ active_channels' \in [Nicks -> Channels \cup {None}]
        /\ book' \subseteq Nicks
        /\ late' \subseteq Nicks \X Channels
        /\ RouteInv'
    BY <2>1, <2>2, <2>3, OrderSeen
  <2> QED
    BY <1>1, <2>2, <2>4 DEF on_pubmsg_order, TypeOK, ampVars, welcomeVars,
       WelcomeOrder, SentOverLiveChannel
<1>2. CASE on_pubmsg_cancel \/ on_pubmsg_other
  <2>1. Gets("pub_cancel") \/ Gets("pub_other")
    BY <1>2 DEF on_pubmsg_cancel, on_pubmsg_other
  <2>2. /\ calls' \in Seq(CallRecs)
        /\ Head(calls).mc \in Channels /\ Head(calls).nick \in Nicks
    BY <2>1, GetsType
  <2>3. TypeOK'
    BY <1>2, <2>2 DEF on_pubmsg_cancel, on_pubmsg_other, see_nick, TypeOK, ampVars,
       welcomeVars
  <2>4. RouteInv'
    BY <1>2, <2>2 DEF on_pubmsg_cancel, on_pubmsg_other, see_nick, TypeOK,
       RouteInv, ActiveIsSeen, DeadRouteIsLate, DownBook
  <2> QED
    BY <1>2, <2>3, <2>4 DEF on_pubmsg_cancel, on_pubmsg_other, ampVars,
       welcomeVars, WelcomeOrder, SentOverLiveChannel
<1> QED
  BY <1>1, <1>2

LEMMA PrivStep ==
  ASSUME IndInv, on_privmsg \/ on_verified_privmsg \/ signature_refused
  PROVE  IndInv'
<1> USE ChannelsAssumption DEF IndInv
<1>1. CASE on_privmsg
  <2>1. Gets("priv_order") \/ Gets("priv_other")
    BY <1>1 DEF on_privmsg
  <2>2. /\ calls' \in Seq(CallRecs)
        /\ Head(calls).mc \in Channels /\ Head(calls).nick \in Nicks
    BY <2>1, GetsType
  <2>3. verifying' \in Seq(VerifyRecs)
    BY <1>1, <2>2 DEF on_privmsg, TypeOK, VerifyRecs
  <2>4. TypeOK'
    BY <1>1, <2>2, <2>3 DEF on_privmsg, TypeOK, nickVars, welcomeVars
  <2> QED
    BY <1>1, <2>4 DEF on_privmsg, nickVars, welcomeVars, RouteInv, ActiveIsSeen,
       DeadRouteIsLate, DownBook, WelcomeOrder, SentOverLiveChannel
<1>2. CASE signature_refused
  <2>1. TypeOK'
    BY <1>2 DEF signature_refused, TypeOK, envVars, nickVars, welcomeVars
  <2> QED
    BY <1>2, <2>1 DEF signature_refused, nickVars, welcomeVars, RouteInv,
       ActiveIsSeen, DeadRouteIsLate, DownBook, WelcomeOrder, SentOverLiveChannel
<1>3. CASE on_verified_privmsg
  <2> DEFINE m == Head(verifying)
  <2>1. /\ m \in VerifyRecs
        /\ verifying' \in Seq(VerifyRecs)
    BY <1>3 DEF on_verified_privmsg, TypeOK
  <2>2. /\ nicks_seen' \in [Channels -> SUBSET Nicks]
        /\ active_channels' \in [Nicks -> Channels \cup {None}]
        /\ book' \subseteq Nicks
        /\ late' \subseteq Nicks \X Channels
        /\ RouteInv'
    <3>1. CASE on_order_seen_trigger(m.nick, m.mc)
      <4>1. mc_status' = mc_status /\ m.nick \in Nicks /\ m.mc \in Channels
        BY <1>3, <2>1 DEF on_verified_privmsg, VerifyRecs
      <4> HIDE DEF m
      <4> QED
        BY <3>1, <4>1, OrderSeen
    <3>2. CASE ~on_order_seen_trigger(m.nick, m.mc)
      <4>1. /\ mc_status' = mc_status /\ m.nick \in Nicks /\ m.mc \in Channels
            /\ UNCHANGED <<active_channels, late, book>>
            /\ \/ see_nick(m.nick, m.mc)
               \/ nicks_seen' = nicks_seen
        BY <1>3, <2>1, <3>2 DEF on_verified_privmsg, VerifyRecs
      <4> HIDE DEF m
      <4> QED
        BY <4>1 DEF see_nick, TypeOK, RouteInv, ActiveIsSeen, DeadRouteIsLate,
           DownBook
    <3> QED
      BY <3>1, <3>2
  <2>3. TypeOK'
    BY <1>3, <2>1, <2>2 DEF on_verified_privmsg, TypeOK, envVars, welcomeVars
  <2> QED
    BY <1>3, <2>2, <2>3 DEF on_verified_privmsg, welcomeVars, WelcomeOrder,
       SentOverLiveChannel
<1> QED
  BY <1>1, <1>2, <1>3

(* Messages that go out: a message is addressed to the nick's route.       *)
LEMMA ToSignType ==
  ASSUME IndInv, NEW n \in Nicks, NEW mc \in Channels
  PROVE  ToSign(n, mc) \in SignRecs
  BY DEF ToSign, SignRecs

LEMMA RoutesLive ==
  ASSUME IndInv, NEW n \in Nicks, NEW mc \in Routes(n, nicks_seen)
  PROVE  /\ mc \in Channels
         /\ n \in nicks_seen[mc]
         /\ mc_status[mc] = 1 \/ <<n, mc>> \in late
  BY DEF IndInv, TypeOK, Routes, Reach, Available, RouteInv, ActiveIsSeen,
     DeadRouteIsLate

LEMMA QueueKeeps ==
  ASSUME IndInv, NEW m \in SignRecs, m.live \/ m.late,
         signing' = Append(signing, m)
  PROVE  signing' \in Seq(SignRecs) /\ SentOverLiveChannel'
  BY DEF IndInv, TypeOK, SentOverLiveChannel

(* A nick that becomes active on a channel keeps the tables in step.       *)
LEMMA NewRoute ==
  ASSUME IndInv, NEW n \in Nicks, NEW mc \in Channels,
         n \in nicks_seen'[mc],
         mc_status[mc] = 1 \/ <<n, mc>> \in late,
         active_channels' = [active_channels EXCEPT ![n] = mc],
         \A c \in Channels : nicks_seen[c] \subseteq nicks_seen'[c],
         UNCHANGED <<mc_status, late, book>>
  PROVE  active_channels' \in [Nicks -> Channels \cup {None}] /\ RouteInv'
<1> USE ChannelsAssumption DEF IndInv, TypeOK
<1>1. active_channels' \in [Nicks -> Channels \cup {None}]
  OBVIOUS
<1>2. ActiveIsSeen'
  BY DEF RouteInv, ActiveIsSeen
<1>3. DeadRouteIsLate'
  BY DEF RouteInv, DeadRouteIsLate
<1>4. DownBook'
  BY DEF RouteInv, DownBook, Available
<1> QED
  BY <1>1, <1>2, <1>3, <1>4 DEF RouteInv

LEMMA PrepareStep ==
  ASSUME IndInv, NEW n \in Nicks, prepare_privmsg(n)
  PROVE  IndInv'
<1>1. PICK mc \in Routes(n, nicks_seen) :
         /\ active_channels' = [active_channels EXCEPT ![n] = mc]
         /\ signing' = Append(signing, ToSign(n, mc))
  BY DEF prepare_privmsg
<1>2. /\ mc \in Channels
      /\ n \in nicks_seen[mc]
      /\ mc_status[mc] = 1 \/ <<n, mc>> \in late
  BY RoutesLive
<1>3. UNCHANGED <<mc_status, nicks_seen, late, book>>
  BY DEF prepare_privmsg
<1>4. active_channels' \in [Nicks -> Channels \cup {None}] /\ RouteInv'
  BY <1>1, <1>2, <1>3, NewRoute
<1>5. ToSign(n, mc).live \/ ToSign(n, mc).late
  BY <1>2 DEF ToSign
<1>6. ToSign(n, mc) \in SignRecs
  BY <1>2, ToSignType
<1>7. signing' \in Seq(SignRecs) /\ SentOverLiveChannel'
  BY <1>1, <1>5, <1>6, QueueKeeps
<1> QED
  BY <1>4, <1>7 DEF prepare_privmsg, IndInv, TypeOK, envVars, welcomeVars,
     WelcomeOrder

LEMMA SendTxStep ==
  ASSUME IndInv, NEW nicks \in SUBSET Nicks, send_tx(nicks)
  PROVE  IndInv'
<1> USE ChannelsAssumption
<1>1. Cardinality(nicks) \in Nat
  BY FS_Subset, FS_CardinalityType
<1>2. PICK order \in [1..Cardinality(nicks) -> nicks] :
         signing' = signing \o [i \in 1..Cardinality(nicks) |->
                        ToSign(order[i], active_channels[order[i]])]
  BY DEF send_tx
<1> DEFINE new == [i \in 1..Cardinality(nicks) |->
                        ToSign(order[i], active_channels[order[i]])]
<1>3. \A i \in 1..Cardinality(nicks) :
         new[i] \in SignRecs /\ (new[i].live \/ new[i].late)
  <2> SUFFICES ASSUME NEW i \in 1..Cardinality(nicks)
               PROVE  new[i] \in SignRecs /\ (new[i].live \/ new[i].late)
    OBVIOUS
  <2> DEFINE n == order[i]
             mc == active_channels[n]
  <2>1. n \in nicks /\ n \in Nicks
    OBVIOUS
  <2>2. mc # None
    BY <2>1 DEF send_tx
  <2>3. mc \in Channels
    BY <2>1, <2>2 DEF IndInv, TypeOK
  <2>4. mc_status[mc] = 1 \/ <<n, mc>> \in late
    BY <2>1, <2>2 DEF IndInv, RouteInv, DeadRouteIsLate
  <2>5. ToSign(n, mc).live \/ ToSign(n, mc).late
    BY <2>4 DEF ToSign
  <2>6. ToSign(n, mc) \in SignRecs
    BY <2>1, <2>3, ToSignType
  <2>7. new[i] = ToSign(n, mc)
    OBVIOUS
  <2> HIDE DEF n, mc, new
  <2> QED
    BY <2>5, <2>6, <2>7
<1>4. new \in Seq(SignRecs) /\ Len(new) = Cardinality(nicks)
  <2>1. new \in [1..Cardinality(nicks) -> SignRecs]
    BY <1>3
  <2> HIDE DEF new
  <2> QED
    BY <1>1, <2>1
<1> HIDE DEF new
<1>5. signing' = signing \o new
  BY <1>2 DEF new
<1>6. signing' \in Seq(SignRecs)
  BY <1>4, <1>5 DEF IndInv, TypeOK
<1>7. SentOverLiveChannel'
  <2> SUFFICES ASSUME NEW i \in 1..Len(signing')
               PROVE  signing'[i].live \/ signing'[i].late
    BY DEF SentOverLiveChannel
  <2>0. signing \in Seq(SignRecs)
    BY DEF IndInv, TypeOK
  <2>1. CASE i \in 1..Len(signing)
    <3>1. signing'[i] = signing[i]
      BY <1>4, <1>5, <2>0, <2>1
    <3> QED
      BY <2>1, <3>1 DEF IndInv, SentOverLiveChannel
  <2>2. CASE i \notin 1..Len(signing)
    <3>1. /\ i - Len(signing) \in 1..Cardinality(nicks)
          /\ signing'[i] = new[i - Len(signing)]
      BY <1>1, <1>4, <1>5, <2>0, <2>2
    <3> QED
      BY <1>3, <3>1
  <2> QED
    BY <2>1, <2>2
<1> QED
  BY <1>6, <1>7 DEF send_tx, IndInv, TypeOK, envVars, nickVars, welcomeVars,
     WelcomeOrder, RouteInv, ActiveIsSeen, DeadRouteIsLate, DownBook

LEMMA OrderbookStep ==
  ASSUME IndInv, on_orderbook_requested
  PROVE  IndInv'
<1> USE ChannelsAssumption
<1> DEFINE n == Head(calls).nick
           mc == Head(calls).mc
<1>0. Gets("pub_orderbook")
  BY DEF on_orderbook_requested
<1>1. calls' \in Seq(CallRecs) /\ mc \in Channels /\ n \in Nicks
  BY <1>0, GetsType DEF IndInv
<1> HIDE DEF n, mc
<1>2. /\ nicks_seen' = [nicks_seen EXCEPT ![mc] = @ \cup {n}]
      /\ UNCHANGED <<joined, verifying, mc_status, late, welcomeVars, book>>
      /\ \/ /\ mc_status[mc] = 1
            /\ signing' = Append(signing, ToSign(n, mc))
            /\ \E r \in Routes(n, nicks_seen') :
                  active_channels' = [active_channels EXCEPT ![n] = r]
         \/ UNCHANGED <<signing, active_channels>>
  BY DEF on_orderbook_requested, see_nick, n, mc
<1>3. /\ nicks_seen' \in [Channels -> SUBSET Nicks]
      /\ \A c \in Channels : nicks_seen[c] \subseteq nicks_seen'[c]
  BY <1>1, <1>2 DEF IndInv, TypeOK
<1>4. CASE UNCHANGED <<signing, active_channels>>
  <2>1. TypeOK'
    BY <1>1, <1>2, <1>3, <1>4 DEF IndInv, TypeOK, welcomeVars
  <2>2. RouteInv'
    BY <1>2, <1>3, <1>4 DEF IndInv, TypeOK, RouteInv, ActiveIsSeen,
       DeadRouteIsLate, DownBook
  <2> QED
    BY <1>2, <1>4, <2>1, <2>2 DEF IndInv, WelcomeOrder, welcomeVars,
       SentOverLiveChannel
<1>5. CASE /\ mc_status[mc] = 1
           /\ signing' = Append(signing, ToSign(n, mc))
           /\ \E r \in Routes(n, nicks_seen') :
                  active_channels' = [active_channels EXCEPT ![n] = r]
  <2>1. PICK r \in Routes(n, nicks_seen') :
           active_channels' = [active_channels EXCEPT ![n] = r]
    BY <1>5
  <2>2. r \in Channels /\ n \in nicks_seen'[r]
    BY <1>1, <1>3 DEF IndInv, TypeOK, Routes, Reach, Available, RouteInv,
       ActiveIsSeen
  <2>3. mc_status[r] = 1 \/ <<n, r>> \in late
    BY <1>1 DEF IndInv, Routes, Reach, Available, RouteInv, DeadRouteIsLate
  <2>4. active_channels' \in [Nicks -> Channels \cup {None}] /\ RouteInv'
    BY <1>1, <1>2, <1>3, <2>1, <2>2, <2>3, NewRoute
  <2>5. ToSign(n, mc).live
    BY <1>5 DEF ToSign
  <2>6. ToSign(n, mc) \in SignRecs
    BY <1>1, ToSignType
  <2>7. signing' \in Seq(SignRecs) /\ SentOverLiveChannel'
    BY <1>5, <2>5, <2>6, QueueKeeps
  <2> QED
    BY <1>1, <1>2, <1>3, <2>4, <2>7 DEF IndInv, TypeOK, welcomeVars, WelcomeOrder
<1> QED
  BY <1>2, <1>4, <1>5

LEMMA PrivmsgStep ==
  ASSUME IndInv, privmsg
  PROVE  IndInv'
<1>1. signing' \in Seq(SignRecs) /\ SentOverLiveChannel'
  <2>1. signing \in Seq(SignRecs) /\ signing # <<>> /\ signing' = Tail(signing)
    BY DEF IndInv, TypeOK, privmsg
  <2> QED
    BY <2>1 DEF IndInv, SentOverLiveChannel
<1> QED
  BY <1>1 DEF privmsg, IndInv, TypeOK, envVars, nickVars, welcomeVars,
     WelcomeOrder, RouteInv, ActiveIsSeen, DeadRouteIsLate, DownBook

(* The invariant is inductive.                                             *)
LEMMA NextKeeps == IndInv /\ [Next]_vars => IndInv'
<1> SUFFICES ASSUME IndInv, [Next]_vars PROVE IndInv'
  OBVIOUS
<1>1. CASE UNCHANGED vars
  BY <1>1 DEF vars, envVars, ampVars, nickVars, welcomeVars, IndInv, TypeOK,
     RouteInv, ActiveIsSeen, DeadRouteIsLate, DownBook, WelcomeOrder,
     SentOverLiveChannel
<1>2. CASE Servers
  BY <1>2, ServersStep
<1>3. CASE Reactor
  BY <1>3, WelcomeStep, DisconnectStep, LeaveStep, PubStep, PrivStep,
     OrderbookStep, PrivmsgStep DEF Reactor
<1>4. CASE announce_timer_fires
  BY <1>4, WelcomeStep
<1>5. CASE \E n \in Nicks : prepare_privmsg(n)
  BY <1>5, PrepareStep
<1>6. CASE \E nicks \in SUBSET Nicks \ {{}} : send_tx(nicks)
  BY <1>6, SendTxStep
<1> QED
  BY <1>1, <1>2, <1>3, <1>4, <1>5, <1>6 DEF Next

(* The invariant holds throughout.                                         *)
LEMMA Inductive == Spec => []IndInv
  BY InitInd, NextKeeps, PTL DEF Spec

(* Private messages follow live channels: whatever channels are lost and   *)
(* joined again, the daemon addresses a private message to a channel that  *)
(* is down only after an offer that was being verified when it was lost.   *)
THEOREM RoutesFollowChannels == Spec => []SentOverLiveChannel
<1>1. IndInv => SentOverLiveChannel
  BY DEF IndInv
<1> QED
  BY <1>1, Inductive, PTL

(* The daemon is welcomed at most once (on_welcome_setup_finished).        *)
THEOREM OneWelcome == Spec => []WelcomedOnce
<1>1. IndInv => WelcomedOnce
  BY DEF IndInv, WelcomeOrder, WelcomedOnce
<1> QED
  BY <1>1, Inductive, PTL

(* on_disconnect: with every channel down the order book holds nothing but *)
(* offers that were verified after their channel was lost.                 *)
THEOREM BookGoesWithChannels == Spec => []BookEmptyWhenDown
<1>1. IndInv => BookEmptyWhenDown
  <2> SUFFICES ASSUME IndInv, Available(mc_status) = {}, NEW n \in book
               PROVE  \E mc \in Channels : <<n, mc>> \in late
    BY DEF BookEmptyWhenDown
  <2>1. active_channels[n] # None /\ n \in Nicks
    BY DEF IndInv, RouteInv, DownBook, TypeOK
  <2>2. active_channels[n] \in Channels
    BY <2>1 DEF IndInv, TypeOK
  <2>3. mc_status[active_channels[n]] # 1
    BY <2>2 DEF Available
  <2> QED
    BY <2>1, <2>2, <2>3 DEF IndInv, RouteInv, DeadRouteIsLate
<1> QED
  BY <1>1, Inductive, PTL

(* The channel a private message to a maker is routed by is one on which   *)
(* the maker has been seen since it was last lost there (see_nick,         *)
(* on_nick_leave and on_disconnect change the two tables together).        *)
THEOREM RoutesAreSeen == Spec => []ActiveIsSeen
<1>1. IndInv => ActiveIsSeen
  BY DEF IndInv, RouteInv
<1> QED
  BY <1>1, Inductive, PTL

(***************************************************************************)
(* The onion channel                                                       *)
(***************************************************************************)

(* The welcome comes after the wait, offers and shutdown after the welcome *)
WaitOrder ==
  /\ wait_loop = "off" => ~on_welcome_sent /\ ~directory_wait_failed
  /\ wait_loop = "running" =>
       ~on_welcome_sent /\ ~directory_wait_failed /\ directory_wait_counter < WaitTicks
  /\ offerlist \/ give_up => on_welcome_sent

(* The client service of a peer: up exactly while connected, and when it   *)
(* was stopped without a shutdown, an attempt is scheduled.                *)
ServiceOrder ==
  \A d \in Dirs :
    /\ service[d] = "up" <=> conn[d] # "none"
    /\ reconnect_call[d] => service[d] = "stopped"
    /\ service[d] = "none" <=> wait_loop = "off"
    /\ service[d] = "stopped" /\ ~give_up => reconnect_call[d]

(* The answer to a health ping can still arrive on the connection.         *)
PongUnderWay(d) ==
  \/ "ping" \in {toDir[d][i] : i \in DOMAIN toDir[d]}
  \/ "pong" \in {toUs[d][i] : i \in DOMAIN toUs[d]}

(* Only a connected peer waits for a pong. *)
PongOrder == \A d \in Dirs : awaiting_pong[d] => conn[d] # "none"

PeerInv == ServiceOrder /\ StatusIsConnection /\ PongOrder

OnionIndInv ==
  /\ OnionTypeOK
  /\ WaitOrder
  /\ PeerInv
  /\ PongCanCome
  /\ OffersOnEveryDirectory

(* A message that is sent joins those under way (handshake_as_client, the  *)
(* health ping, a directory's answers).                                    *)
LEMMA InAppend ==
  ASSUME NEW S, NEW s \in Seq(S), NEW m \in S
  PROVE  {Append(s, m)[i] : i \in DOMAIN Append(s, m)}
           = {s[i] : i \in DOMAIN s} \cup {m}
<1>1. \A i \in DOMAIN s : i \in DOMAIN Append(s, m) /\ Append(s, m)[i] = s[i]
  OBVIOUS
<1>2. \A i \in DOMAIN Append(s, m) : i \in DOMAIN s \/ Append(s, m)[i] = m
  OBVIOUS
<1>3. Len(s) + 1 \in DOMAIN Append(s, m) /\ Append(s, m)[Len(s) + 1] = m
  OBVIOUS
<1> QED
  BY <1>1, <1>2, <1>3

(* Taking a message off a queue loses nothing else.                        *)
LEMMA InTail ==
  ASSUME NEW S, NEW s \in Seq(S), s # <<>>
  PROVE  {s[i] : i \in DOMAIN s} = {Head(s)} \cup {Tail(s)[i] : i \in DOMAIN Tail(s)}
<1>1. \A i \in DOMAIN Tail(s) : i + 1 \in DOMAIN s /\ Tail(s)[i] = s[i + 1]
  OBVIOUS
<1>2. \A i \in DOMAIN s : i = 1 \/ (i - 1 \in DOMAIN Tail(s) /\ Tail(s)[i - 1] = s[i])
  OBVIOUS
<1>3. 1 \in DOMAIN s /\ Head(s) = s[1]
  OBVIOUS
<1>4. ASSUME NEW x
      PROVE  (\E i \in DOMAIN s : s[i] = x)
               <=> x = Head(s) \/ \E i \in DOMAIN Tail(s) : Tail(s)[i] = x
  BY <1>1, <1>2, <1>3
<1> QED
  BY <1>4

(* What ServiceOrder says of the attempts at a connection.                 *)
LEMMA OrderIsOneEndeavour ==
  ASSUME OnionTypeOK, ServiceOrder
  PROVE  OneEndeavour
<1> SUFFICES ASSUME NEW d \in Dirs
             PROVE  /\ Endeavours(d) <= 1
                    /\ wait_loop # "off" /\ ~give_up => Endeavours(d) = 1
  BY DEF OneEndeavour
<1> DEFINE A == IF reconnect_call[d] THEN {"scheduled"} ELSE {}
           B == IF service[d] \in {"dialing", "retrying"} THEN {"dialing"} ELSE {}
           C == IF conn[d] # "none" THEN {"connected"} ELSE {}
<1>1. Endeavours(d) = Cardinality(A \cup B \cup C)
  BY DEF Endeavours
<1>2. \/ A = {} /\ B = {} /\ C = {}
      \/ A = {"scheduled"} /\ B = {} /\ C = {}
      \/ A = {} /\ B = {"dialing"} /\ C = {}
      \/ A = {} /\ B = {} /\ C = {"connected"}
  BY DEF ServiceOrder
<1>3. wait_loop # "off" /\ ~give_up => A \cup B \cup C # {}
  BY DEF ServiceOrder, OnionTypeOK
<1>4. Cardinality(A \cup B \cup C) = IF A \cup B \cup C = {} THEN 0 ELSE 1
  <2>1. A \cup B \cup C = {} \/ \E x : A \cup B \cup C = {x}
    BY <1>2
  <2> HIDE DEF A, B, C
  <2> QED
    BY <2>1, FS_EmptySet, FS_Singleton
<1> HIDE DEF A, B, C
<1> QED
  BY <1>1, <1>3, <1>4

(* A wait for a pong that was fine stays so in a step that does not revive *)
(* the connection and loses no ping and no pong of it.                     *)
LEMMA WaitStays ==
  ASSUME PongCanCome,
         \A e \in Dirs :
           awaiting_pong'[e] =>
             \/ conn'[e] = "dead" \/ closing'[e]
             \/ conn'[e] = "open" /\ PongUnderWay(e)'
             \/ /\ awaiting_pong[e] /\ conn'[e] = conn[e] /\ closing'[e] = closing[e]
                /\ toDir'[e] = toDir[e] /\ toUs'[e] = toUs[e]
  PROVE  PongCanCome'
<1> SUFFICES ASSUME NEW e \in Dirs, awaiting_pong'[e]
             PROVE  \/ conn'[e] = "dead" \/ closing'[e]
                    \/ conn'[e] = "open" /\ PongUnderWay(e)'
  BY DEF PongCanCome, PongUnderWay
<1>1. CASE \/ conn'[e] = "dead" \/ closing'[e]
           \/ conn'[e] = "open" /\ PongUnderWay(e)'
  BY <1>1
<1>2. CASE ~ \/ conn'[e] = "dead" \/ closing'[e]
             \/ conn'[e] = "open" /\ PongUnderWay(e)'
  <2>1. /\ awaiting_pong[e] /\ conn'[e] = conn[e] /\ closing'[e] = closing[e]
        /\ toDir'[e] = toDir[e] /\ toUs'[e] = toUs[e]
    BY <1>2
  <2>2. PongUnderWay(e)' <=> PongUnderWay(e)
    BY <2>1 DEF PongUnderWay
  <2>3. conn[e] = "dead" \/ closing[e] \/ (conn[e] = "open" /\ PongUnderWay(e))
    BY <2>1 DEF PongCanCome, PongUnderWay
  <2> QED
    BY <1>2, <2>1, <2>2, <2>3
<1> QED
  BY <1>1, <1>2

(* Taking another line than the pong off a connection loses no pong.       *)
LEMMA PongKept ==
  ASSUME OnionTypeOK, NEW d \in Dirs, Received(d), Head(toUs[d]) # "pong",
         toDir' = toDir, PongUnderWay(d)
  PROVE  PongUnderWay(d)'
<1>1. toUs[d] \in Seq(AnswerKinds \cup {"pong"}) /\ toUs[d] # <<>>
  BY DEF OnionTypeOK, Received
<1>2. toUs'[d] = Tail(toUs[d]) /\ toDir'[d] = toDir[d]
  BY DEF OnionTypeOK, Received
<1>3. {toUs[d][i] : i \in DOMAIN toUs[d]}
        = {Head(toUs[d])} \cup {Tail(toUs[d])[i] : i \in DOMAIN Tail(toUs[d])}
  BY <1>1, InTail
<1> QED
  BY <1>2, <1>3 DEF PongUnderWay

(* connect starts a dial where none is under way.                          *)
LEMMA ConnectType ==
  ASSUME OnionTypeOK, NEW ds, connect(ds)
  PROVE  /\ connecting' \in [Dirs -> BOOLEAN]
         /\ service' \in [Dirs -> {"none", "dialing", "retrying", "up", "stopped"}]
  BY DEF OnionTypeOK, connect

(* stopService abandons dials and closes connections.                      *)
LEMMA StopType ==
  ASSUME OnionTypeOK, NEW ds, stopService(ds)
  PROVE  /\ connecting' \in [Dirs -> BOOLEAN]
         /\ service' \in [Dirs -> {"none", "dialing", "retrying", "up", "stopped"}]
         /\ closing' \in [Dirs -> BOOLEAN]
  BY DEF OnionTypeOK, stopService

(* A publication goes to the directories with a connection.                *)
LEMMA PublishType ==
  ASSUME OnionTypeOK, NEW ds, publish(ds)
  PROVE  sent' \in [Dirs -> BOOLEAN]
  BY DEF OnionTypeOK, publish, send, HasProtocol

-------------------------------------------------------------------------------
(* One lemma per action *)

(* The first dials, to every directory (connect_to_directories).           *)
LEMMA ConnectToDirectoriesKeeps ==
  ASSUME OnionIndInv, connect_to_directories
  PROVE  OnionIndInv'
<1> USE DEF OnionIndInv, connect_to_directories, waitVars, netVars, offerVars,
    connect
<1>1. OnionTypeOK'
  <2>1. 1 \in 0..WaitTicks /\ 1 < WaitTicks
    BY WaitTicksAssumption
  <2>2. /\ connecting' \in [Dirs -> BOOLEAN]
        /\ service' \in [Dirs -> {"none", "dialing", "retrying", "up", "stopped"}]
    BY ConnectType
  <2> QED
    BY <2>1, <2>2 DEF OnionTypeOK
<1>2. WaitOrder'
  BY WaitTicksAssumption DEF WaitOrder, OnionTypeOK
<1>3. PeerInv'
  BY DEF OnionTypeOK, PeerInv, ServiceOrder, StatusIsConnection, PongOrder,
     WaitOrder
<1>4. PongCanCome'
  BY WaitStays DEF OnionTypeOK, PeerInv, ServiceOrder, StatusIsConnection, PongOrder
<1>5. OffersOnEveryDirectory'
  BY DEF OffersOnEveryDirectory, get_connected_directory_peers, WaitOrder,
     OnionTypeOK, PeerInv, ServiceOrder, StatusIsConnection, PongOrder
<1> QED
  BY <1>1, <1>2, <1>3, <1>4, <1>5

(* The scheduled attempt (reattempt_connection).                           *)
LEMMA ReattemptConnectionKeeps ==
  ASSUME OnionIndInv, NEW d \in Dirs, reattempt_connection(d)
  PROVE  OnionIndInv'
<1> USE DEF OnionIndInv, reattempt_connection, waitVars, netVars, offerVars, connect
<1>1. OnionTypeOK'
  BY ConnectType DEF OnionTypeOK
<1>2. WaitOrder'
  BY DEF WaitOrder, OnionTypeOK
<1>3. PeerInv'
  BY DEF OnionTypeOK, PeerInv, ServiceOrder, StatusIsConnection, PongOrder,
     WaitOrder
<1>4. PongCanCome'
  BY WaitStays DEF OnionTypeOK, PeerInv, ServiceOrder, StatusIsConnection, PongOrder
<1>5. OffersOnEveryDirectory'
  BY DEF OffersOnEveryDirectory, get_connected_directory_peers, WaitOrder,
     OnionTypeOK, PeerInv, ServiceOrder, StatusIsConnection, PongOrder
<1> QED
  BY <1>1, <1>2, <1>3, <1>4, <1>5

(* A connection is made: register_connection.                              *)
LEMMA RegisterConnectionKeeps ==
  ASSUME OnionIndInv, NEW d \in Dirs, register_connection(d)
  PROVE  OnionIndInv'
<1> USE DEF OnionIndInv, register_connection, waitVars, offerVars, update_status,
    Ignored, process_connect, handshake_as_client
<1>1. OnionTypeOK'
  BY DEF OnionTypeOK
<1>2. WaitOrder'
  BY DEF WaitOrder, OnionTypeOK
<1>3. PeerInv'
  BY DEF OnionTypeOK, PeerInv, ServiceOrder, StatusIsConnection, PongOrder,
     WaitOrder
<1>4. PongCanCome'
  BY WaitStays DEF OnionTypeOK, PeerInv, ServiceOrder, StatusIsConnection, PongOrder
<1>5. OffersOnEveryDirectory'
  BY DEF OffersOnEveryDirectory, get_connected_directory_peers, WaitOrder,
     OnionTypeOK, PeerInv, ServiceOrder, StatusIsConnection, PongOrder
<1> QED
  BY <1>1, <1>2, <1>3, <1>4, <1>5

(* A dial fails: respond_to_connection_failure.                            *)
LEMMA RespondToConnectionFailureKeeps ==
  ASSUME OnionIndInv, NEW d \in Dirs,
         NEW trapped \in BOOLEAN, respond_to_connection_failure(d, trapped)
  PROVE  OnionIndInv'
<1> USE DEF OnionIndInv, respond_to_connection_failure, waitVars, netVars,
    offerVars, try_to_connect
<1>1. OnionTypeOK'
  BY DEF OnionTypeOK
<1>2. WaitOrder'
  BY DEF WaitOrder, OnionTypeOK
<1>3. PeerInv'
  BY DEF OnionTypeOK, PeerInv, ServiceOrder, StatusIsConnection, PongOrder,
     WaitOrder
<1>4. PongCanCome'
  BY WaitStays DEF OnionTypeOK, PeerInv, ServiceOrder, StatusIsConnection, PongOrder
<1>5. OffersOnEveryDirectory'
  BY DEF OffersOnEveryDirectory, get_connected_directory_peers, WaitOrder,
     OnionTypeOK, PeerInv, ServiceOrder, StatusIsConnection, PongOrder
<1> QED
  BY <1>1, <1>2, <1>3, <1>4, <1>5

(* A connection is lost: register_disconnection.                           *)
LEMMA RegisterDisconnectionKeeps ==
  ASSUME OnionIndInv, NEW d \in Dirs, register_disconnection(d)
  PROVE  OnionIndInv'
<1> USE DEF OnionIndInv, register_disconnection, waitVars, update_status, Ignored,
    process_disconnect, clear_ping, try_to_connect
<1>1. OnionTypeOK'
  BY DEF OnionTypeOK
<1>2. WaitOrder'
  BY DEF WaitOrder, OnionTypeOK
<1>3. PeerInv'
  BY DEF OnionTypeOK, PeerInv, ServiceOrder, StatusIsConnection, PongOrder,
     WaitOrder
<1>4. PongCanCome'
  BY WaitStays DEF OnionTypeOK, PeerInv, ServiceOrder, StatusIsConnection, PongOrder
<1>5. OffersOnEveryDirectory'
  BY DEF OffersOnEveryDirectory, get_connected_directory_peers, WaitOrder,
     OnionTypeOK, PeerInv, ServiceOrder, StatusIsConnection, PongOrder
<1> QED
  BY <1>1, <1>2, <1>3, <1>4, <1>5

(* The hook or the welcome that a completed handshake sets off.            *)
LEMMA AfterHandshakeType ==
  ASSUME OnionTypeOK, WaitOrder, NEW d \in Dirs, after_handshake(d)
  PROVE  /\ hooks' \subseteq Dirs
         /\ wait_loop' = wait_loop
         /\ directory_wait_counter' = directory_wait_counter
         /\ extra_peer' = extra_peer
         /\ directory_wait_failed' \in BOOLEAN /\ on_welcome_sent' \in BOOLEAN
         /\ welcome_calls' \in 0..2
         /\ hooks \subseteq hooks' /\ (on_welcome_sent => d \in hooks')
         /\ on_welcome_sent => on_welcome_sent'
         /\ wait_loop = "off" \/ wait_loop = "running" =>
              ~directory_wait_failed' /\ on_welcome_sent' = on_welcome_sent
<1> USE DEF OnionTypeOK, after_handshake, waitVars, Welcome
<1>0. (IF welcome_calls = 2 THEN 2 ELSE welcome_calls + 1) \in 0..2
  OBVIOUS
<1>1. CASE on_welcome_sent
  BY <1>1 DEF WaitOrder
<1>2. CASE ~on_welcome_sent /\ directory_wait_failed
  BY <1>0, <1>2 DEF WaitOrder
<1>3. CASE ~on_welcome_sent /\ ~directory_wait_failed
  BY <1>3 DEF WaitOrder
<1> QED
  BY <1>1, <1>2, <1>3 DEF OnionTypeOK

(* A handshake is answered: process_handshake.                             *)
LEMMA ProcessHandshakeKeeps ==
  ASSUME OnionIndInv, NEW d \in Dirs, process_handshake(d)
  PROVE  OnionIndInv'
<1> DEFINE m == Head(toUs[d])
<1> USE DEF OnionIndInv
<1>1. /\ conn[d] # "none" /\ toUs[d] # <<>> /\ m # "pong"
      /\ toUs' = [toUs EXCEPT ![d] = Tail(@)]
      /\ UNCHANGED <<up, conn, toDir, offerlist, sent, give_up, onion>>
  BY DEF process_handshake, Received, AnswerKinds
<1>2. toUs' \in [Dirs -> Seq(AnswerKinds \cup {"pong"})]
  BY <1>1 DEF OnionTypeOK
<1>3. PongUnderWay(d) => PongUnderWay(d)'
  BY <1>1, PongKept DEF process_handshake
<1>4. awaiting_pong[d] => conn[d] = "dead" \/ closing[d] \/ (conn[d] = "open" /\ PongUnderWay(d))
  BY DEF PongCanCome, PongUnderWay
<1>5. CASE status[d] = "CONNECTED" /\ m = "dn_ok"
  <2>1. /\ status' = [status EXCEPT ![d] = "HANDSHAKED"]
        /\ reconnect_call' = [reconnect_call EXCEPT ![d] = FALSE]
        /\ awaiting_pong' = [awaiting_pong EXCEPT ![d] = FALSE]
        /\ health_check_closing' = [health_check_closing EXCEPT ![d] = FALSE]
        /\ after_handshake(d)
        /\ UNCHANGED <<service, connecting, closing>>
    BY <1>5 DEF process_handshake, update_status, Ignored, reset_reconnect_delay,
       clear_ping, OnionTypeOK
  <2>2. OnionTypeOK'
    BY <1>1, <1>2, <2>1, AfterHandshakeType DEF OnionTypeOK
  <2>3. WaitOrder'
    BY <1>1, <2>1, AfterHandshakeType DEF WaitOrder, OnionTypeOK
  <2>4. PeerInv'
    BY <1>1, <1>5, <2>1, AfterHandshakeType DEF OnionTypeOK, PeerInv, ServiceOrder,
       StatusIsConnection, PongOrder
  <2>5. PongCanCome'
    BY <1>1, <2>1, WaitStays DEF OnionTypeOK
  <2>6. OffersOnEveryDirectory'
    BY <1>1, <2>1, AfterHandshakeType DEF OffersOnEveryDirectory, WaitOrder,
       get_connected_directory_peers, OnionTypeOK
  <2> QED
    BY <2>2, <2>3, <2>4, <2>5, <2>6
<1>6. CASE status[d] = "CONNECTED" /\ m = "dn_reject"
  <2>1. /\ closing' = [closing EXCEPT ![d] = TRUE]
        /\ UNCHANGED <<service, connecting, status, reconnect_call, awaiting_pong,
                        health_check_closing, hooks, waitVars>>
    <3>1. service[d] = "up"
      BY <1>1 DEF PeerInv, ServiceOrder
    <3>2. stopService({d})
      BY <1>6 DEF process_handshake, disconnect
    <3> QED
      BY <1>6, <3>1, <3>2 DEF process_handshake, stopService, OnionTypeOK
  <2>2. OnionTypeOK'
    BY <1>1, <1>2, <2>1 DEF OnionTypeOK, waitVars
  <2>3. WaitOrder' /\ PeerInv' /\ OffersOnEveryDirectory'
    BY <1>1, <2>1 DEF WaitOrder, PeerInv, ServiceOrder, StatusIsConnection,
       PongOrder, waitVars, OffersOnEveryDirectory, get_connected_directory_peers
  <2>4. PongCanCome'
    BY <1>1, <2>1, WaitStays DEF OnionTypeOK
  <2> QED
    BY <2>2, <2>3, <2>4
<1>7. CASE status[d] # "CONNECTED" \/ m \notin {"dn_ok", "dn_reject"}
  <2>1. UNCHANGED <<closing, service, connecting, status, reconnect_call,
                    awaiting_pong, health_check_closing, hooks, waitVars>>
    BY <1>7 DEF process_handshake
  <2>2. OnionTypeOK'
    BY <1>1, <1>2, <2>1 DEF OnionTypeOK, waitVars
  <2>3. WaitOrder' /\ PeerInv' /\ OffersOnEveryDirectory'
    BY <1>1, <2>1 DEF WaitOrder, PeerInv, ServiceOrder, StatusIsConnection,
       PongOrder, waitVars, OffersOnEveryDirectory, get_connected_directory_peers
  <2>4. PongCanCome'
    BY <1>1, <1>3, <1>4, <2>1, WaitStays DEF OnionTypeOK
  <2> QED
    BY <2>2, <2>3, <2>4
<1> QED
  BY <1>5, <1>6, <1>7

(* A pong comes: mark_pong_received.                                       *)
LEMMA MarkPongReceivedKeeps ==
  ASSUME OnionIndInv, NEW d \in Dirs, mark_pong_received(d)
  PROVE  OnionIndInv'
<1> USE DEF OnionIndInv, mark_pong_received, waitVars, offerVars, Received,
    clear_ping
<1>1. OnionTypeOK'
  <2>1. toUs' \in [Dirs -> Seq(AnswerKinds \cup {"pong"})]
    BY DEF OnionTypeOK
  <2>2. /\ awaiting_pong' \in [Dirs -> BOOLEAN]
        /\ health_check_closing' \in [Dirs -> BOOLEAN]
    BY DEF OnionTypeOK
  <2> QED
    BY <2>1, <2>2 DEF OnionTypeOK
<1>2. WaitOrder'
  BY DEF WaitOrder, OnionTypeOK
<1>3. PeerInv'
  BY DEF OnionTypeOK, PeerInv, ServiceOrder, StatusIsConnection, PongOrder,
     WaitOrder
<1>4. PongCanCome'
  <2>1. CASE awaiting_pong[d]
    BY <2>1, WaitStays DEF OnionTypeOK
  <2>2. CASE ~awaiting_pong[d]
    BY <2>2, WaitStays DEF OnionTypeOK
  <2> QED
    BY <2>1, <2>2
<1>5. OffersOnEveryDirectory'
  BY DEF OffersOnEveryDirectory, get_connected_directory_peers, WaitOrder,
     OnionTypeOK, PeerInv, ServiceOrder, StatusIsConnection, PongOrder
<1> QED
  BY <1>1, <1>2, <1>3, <1>4, <1>5

(* A line does not decode: lineReceived.                                   *)
LEMMA LineRefusedKeeps ==
  ASSUME OnionIndInv, NEW d \in Dirs, lineReceived_refused(d)
  PROVE  OnionIndInv'
<1> USE DEF OnionIndInv, lineReceived_refused, peerVars, waitVars, offerVars,
    Received
<1>1. OnionTypeOK'
  BY DEF OnionTypeOK
<1>2. WaitOrder'
  BY DEF WaitOrder, OnionTypeOK
<1>3. PeerInv'
  BY DEF OnionTypeOK, PeerInv, ServiceOrder, StatusIsConnection, PongOrder,
     WaitOrder
<1>4. PongCanCome'
  BY WaitStays DEF OnionTypeOK, PeerInv, ServiceOrder, StatusIsConnection, PongOrder
<1>5. OffersOnEveryDirectory'
  BY DEF OffersOnEveryDirectory, get_connected_directory_peers, WaitOrder,
     OnionTypeOK, PeerInv, ServiceOrder, StatusIsConnection, PongOrder
<1> QED
  BY <1>1, <1>2, <1>3, <1>4, <1>5

(* A health ping is sent: send_health_ping.                                *)
LEMMA SendHealthPingKeeps ==
  ASSUME OnionIndInv, NEW d \in Dirs, send_health_ping(d)
  PROVE  OnionIndInv'
<1> USE DEF OnionIndInv, send_health_ping, waitVars, offerVars, check_health
<1>1. OnionTypeOK'
  BY DEF OnionTypeOK
<1>2. WaitOrder'
  BY DEF WaitOrder, OnionTypeOK
<1>3. PeerInv'
  BY DEF OnionTypeOK, PeerInv, ServiceOrder, StatusIsConnection, PongOrder,
     WaitOrder
<1>4. PongCanCome'
  <2>1. toDir[d] \in Seq({"handshake", "ping"}) /\ toDir'[d] = Append(toDir[d], "ping")
    BY DEF OnionTypeOK
  <2>2. PongUnderWay(d)'
    BY <2>1, InAppend DEF PongUnderWay
  <2>3. conn[d] = "open" \/ conn[d] = "dead"
    BY DEF PeerInv, StatusIsConnection, OnionTypeOK
  <2> QED
    BY <2>2, <2>3, WaitStays DEF OnionTypeOK
<1>5. OffersOnEveryDirectory'
  BY DEF OffersOnEveryDirectory, get_connected_directory_peers, WaitOrder,
     OnionTypeOK, PeerInv, ServiceOrder, StatusIsConnection, PongOrder
<1> QED
  BY <1>1, <1>2, <1>3, <1>4, <1>5

(* No pong came: the timeout of check_directory_health.                    *)
LEMMA CloseForHealthTimeoutKeeps ==
  ASSUME OnionIndInv, NEW d \in Dirs, close_for_health_timeout(d)
  PROVE  OnionIndInv'
<1> USE DEF OnionIndInv, close_for_health_timeout, waitVars, offerVars, check_health
<1>1. OnionTypeOK'
  BY DEF OnionTypeOK
<1>2. WaitOrder'
  BY DEF WaitOrder, OnionTypeOK
<1>3. PeerInv'
  BY DEF OnionTypeOK, PeerInv, ServiceOrder, StatusIsConnection, PongOrder,
     WaitOrder
<1>4. PongCanCome'
  BY WaitStays DEF OnionTypeOK, PeerInv, ServiceOrder, StatusIsConnection, PongOrder
<1>5. OffersOnEveryDirectory'
  BY DEF OffersOnEveryDirectory, get_connected_directory_peers, WaitOrder,
     OnionTypeOK, PeerInv, ServiceOrder, StatusIsConnection, PongOrder
<1> QED
  BY <1>1, <1>2, <1>3, <1>4, <1>5

(* One call of wait_for_directories.                                       *)
LEMMA WaitForDirectoriesKeeps ==
  ASSUME OnionIndInv, wait_for_directories
  PROVE  OnionIndInv'
<1> USE DEF OnionIndInv, wait_for_directories, peerVars, netVars, offerVars, Welcome
<1>1. OnionTypeOK'
  <2>1. /\ Cardinality(get_connected_directory_peers) \in Nat
        /\ Peers \in Nat
    BY DirsAssumption, FS_Subset, FS_CardinalityType
       DEF get_connected_directory_peers, Peers
  <2>2. directory_wait_counter' \in 0..WaitTicks
    BY <2>1, WaitTicksAssumption DEF OnionTypeOK, WaitOrder
  <2>3. /\ wait_loop' \in {"off", "running", "stopped"}
        /\ directory_wait_failed' \in BOOLEAN /\ on_welcome_sent' \in BOOLEAN
        /\ welcome_calls' \in 0..2
    <3> DEFINE handshaked == Cardinality(get_connected_directory_peers)
               short == handshaked < Peers
               count == directory_wait_counter + (IF short THEN 1 ELSE 0)
    <3>1. CASE short /\ count < WaitTicks
      BY <3>1 DEF OnionTypeOK
    <3>2. CASE ~(short /\ count < WaitTicks) /\ handshaked = 0
      BY <3>2 DEF OnionTypeOK
    <3>3. CASE ~(short /\ count < WaitTicks) /\ handshaked # 0 /\ on_welcome_sent
      BY <3>3 DEF OnionTypeOK
    <3>4. CASE ~(short /\ count < WaitTicks) /\ handshaked # 0 /\ ~on_welcome_sent
      <4>1. (IF welcome_calls = 2 THEN 2 ELSE welcome_calls + 1) \in 0..2
        BY DEF OnionTypeOK
      <4> QED
        BY <3>4, <4>1 DEF OnionTypeOK
    <3> QED
      BY <3>1, <3>2, <3>3, <3>4
  <2> QED
    BY <2>2, <2>3 DEF OnionTypeOK
<1>2. WaitOrder'
  BY DEF WaitOrder, OnionTypeOK
<1>3. PeerInv'
  BY DEF OnionTypeOK, PeerInv, ServiceOrder, StatusIsConnection, PongOrder,
     WaitOrder
<1>4. PongCanCome'
  BY WaitStays DEF OnionTypeOK, PeerInv, ServiceOrder, StatusIsConnection, PongOrder
<1>5. OffersOnEveryDirectory'
  BY DEF OffersOnEveryDirectory, get_connected_directory_peers, WaitOrder,
     OnionTypeOK, PeerInv, ServiceOrder, StatusIsConnection, PongOrder
<1> QED
  BY <1>1, <1>2, <1>3, <1>4, <1>5

(* The first announcement of the offers (on_JM_SETUP).                     *)
LEMMA SetupKeeps ==
  ASSUME OnionIndInv, on_JM_SETUP
  PROVE  OnionIndInv'
<1> USE DEF OnionIndInv, on_JM_SETUP, peerVars, netVars, waitVars, publish, send,
    HasProtocol
<1>1. OnionTypeOK'
  BY PublishType DEF OnionTypeOK
<1>2. WaitOrder'
  BY DEF WaitOrder, OnionTypeOK
<1>3. PeerInv'
  BY DEF OnionTypeOK, PeerInv, ServiceOrder, StatusIsConnection, PongOrder,
     WaitOrder
<1>4. PongCanCome'
  BY WaitStays DEF OnionTypeOK, PeerInv, ServiceOrder, StatusIsConnection, PongOrder
<1>5. OffersOnEveryDirectory'
  BY DEF OffersOnEveryDirectory, get_connected_directory_peers, WaitOrder,
     OnionTypeOK, PeerInv, ServiceOrder, StatusIsConnection, PongOrder
<1> QED
  BY <1>1, <1>2, <1>3, <1>4, <1>5

(* New offers are announced (on_JM_ANNOUNCE_OFFERS).                       *)
LEMMA AnnounceKeeps ==
  ASSUME OnionIndInv, on_JM_ANNOUNCE_OFFERS
  PROVE  OnionIndInv'
<1> USE DEF OnionIndInv, on_JM_ANNOUNCE_OFFERS, peerVars, netVars, waitVars,
    publish, send, HasProtocol
<1>1. OnionTypeOK'
  BY PublishType DEF OnionTypeOK
<1>2. WaitOrder'
  BY DEF WaitOrder, OnionTypeOK
<1>3. PeerInv'
  BY DEF OnionTypeOK, PeerInv, ServiceOrder, StatusIsConnection, PongOrder,
     WaitOrder
<1>4. PongCanCome'
  BY WaitStays DEF OnionTypeOK, PeerInv, ServiceOrder, StatusIsConnection, PongOrder
<1>5. OffersOnEveryDirectory'
  BY DEF OffersOnEveryDirectory, get_connected_directory_peers, WaitOrder,
     OnionTypeOK, PeerInv, ServiceOrder, StatusIsConnection, PongOrder
<1> QED
  BY <1>1, <1>2, <1>3, <1>4, <1>5

(* The offers for a directory that came back                               *)
(* (on_directory_peer_connected).                                          *)
LEMMA OnDirectoryPeerConnectedKeeps ==
  ASSUME OnionIndInv, NEW d \in Dirs, on_directory_peer_connected(d)
  PROVE  OnionIndInv'
<1> USE DEF OnionIndInv, on_directory_peer_connected, peerVars, netVars, waitVars,
    publish, send, HasProtocol
<1>1. OnionTypeOK'
  BY PublishType DEF OnionTypeOK
<1>2. WaitOrder'
  BY DEF WaitOrder, OnionTypeOK
<1>3. PeerInv'
  BY DEF OnionTypeOK, PeerInv, ServiceOrder, StatusIsConnection, PongOrder,
     WaitOrder
<1>4. PongCanCome'
  BY WaitStays DEF OnionTypeOK, PeerInv, ServiceOrder, StatusIsConnection, PongOrder
<1>5. OffersOnEveryDirectory'
  <2>1. CASE offerlist
    <3>1. \A e \in Dirs : sent'[e] = IF e = d THEN conn[e] # "none" ELSE sent[e]
      BY <2>1
    <3>2. \A e \in get_connected_directory_peers : conn[e] # "none" /\ e \in Dirs
      BY DEF get_connected_directory_peers, PeerInv, StatusIsConnection
    <3>3. get_connected_directory_peers' = get_connected_directory_peers
      BY DEF get_connected_directory_peers
    <3> QED
      BY <2>1, <3>1, <3>2, <3>3 DEF OffersOnEveryDirectory
  <2>2. CASE ~offerlist
    BY <2>2 DEF OffersOnEveryDirectory
  <2> QED
    BY <2>1, <2>2
<1> QED
  BY <1>1, <1>2, <1>3, <1>4, <1>5

(* The channel is shut down (shutdown).                                    *)
LEMMA ShutdownKeeps ==
  ASSUME OnionIndInv, shutdown
  PROVE  OnionIndInv'
<1> USE DEF OnionIndInv, shutdown, waitVars, offerVars, stopService
<1>1. OnionTypeOK'
  BY StopType DEF OnionTypeOK
<1>2. WaitOrder'
  BY DEF WaitOrder, OnionTypeOK
<1>3. PeerInv'
  BY DEF OnionTypeOK, PeerInv, ServiceOrder, StatusIsConnection, PongOrder,
     WaitOrder
<1>4. PongCanCome'
  BY WaitStays DEF OnionTypeOK, PeerInv, ServiceOrder, StatusIsConnection, PongOrder
<1>5. OffersOnEveryDirectory'
  BY DEF OffersOnEveryDirectory, get_connected_directory_peers, WaitOrder,
     OnionTypeOK, PeerInv, ServiceOrder, StatusIsConnection, PongOrder
<1> QED
  BY <1>1, <1>2, <1>3, <1>4, <1>5

(* The directory answers a handshake or a ping.                            *)
LEMMA AnswerKeeps ==
  ASSUME OnionIndInv, NEW d \in Dirs, DirectoryAnswers(d)
  PROVE  OnionIndInv'
<1> USE DEF OnionIndInv, DirectoryAnswers, peerVars, waitVars, offerVars
<1>1. OnionTypeOK'
  <2>1. PICK a \in AnswerKinds \cup {"pong"} : toUs' = [toUs EXCEPT ![d] = Append(@, a)]
    BY AnswersAssumption
  <2>2. toUs' \in [Dirs -> Seq(AnswerKinds \cup {"pong"})]
    BY <2>1 DEF OnionTypeOK
  <2> QED
    BY <2>2 DEF OnionTypeOK
<1>2. WaitOrder'
  BY DEF WaitOrder, OnionTypeOK
<1>3. PeerInv'
  BY DEF OnionTypeOK, PeerInv, ServiceOrder, StatusIsConnection, PongOrder,
     WaitOrder
<1>4. PongCanCome'
  <2>1. PICK a \in AnswerKinds \cup {"pong"} :
          /\ toUs' = [toUs EXCEPT ![d] = Append(@, a)]
          /\ Head(toDir[d]) = "ping" => a = "pong"
    BY AnswersAssumption
  <2>2. /\ toUs[d] \in Seq(AnswerKinds \cup {"pong"})
        /\ toUs'[d] = Append(toUs[d], a)
        /\ toDir[d] \in Seq({"handshake", "ping"}) /\ toDir[d] # <<>>
        /\ toDir'[d] = Tail(toDir[d])
    BY <2>1 DEF OnionTypeOK
  <2>3. PongUnderWay(d) => PongUnderWay(d)'
    <3>1. "pong" \in {toUs[d][i] : i \in DOMAIN toUs[d]} \/ a = "pong"
            => "pong" \in {toUs'[d][i] : i \in DOMAIN toUs'[d]}
      BY <2>2, InAppend
    <3>2. "ping" \in {toDir[d][i] : i \in DOMAIN toDir[d]}
            => \/ Head(toDir[d]) = "ping"
               \/ "ping" \in {toDir'[d][i] : i \in DOMAIN toDir'[d]}
      <4>1. {toDir[d][i] : i \in DOMAIN toDir[d]}
              = {Head(toDir[d])} \cup {Tail(toDir[d])[i] : i \in DOMAIN Tail(toDir[d])}
        BY <2>2, InTail
      <4> QED
        BY <2>2, <4>1
    <3> QED
      BY <2>1, <3>1, <3>2 DEF PongUnderWay
  <2>4. awaiting_pong[d] => closing[d] \/ PongUnderWay(d)
    BY DEF PongCanCome, PongUnderWay
  <2> QED
    BY <2>3, <2>4, WaitStays DEF OnionTypeOK
<1>5. OffersOnEveryDirectory'
  BY DEF OffersOnEveryDirectory, get_connected_directory_peers, WaitOrder,
     OnionTypeOK, PeerInv, ServiceOrder, StatusIsConnection, PongOrder
<1> QED
  BY <1>1, <1>2, <1>3, <1>4, <1>5

(* Initially there is no connection and nothing is under way.              *)
LEMMA OnionInitInd == OnionInit => OnionIndInv
<1> SUFFICES ASSUME OnionInit PROVE OnionIndInv
  OBVIOUS
<1> USE DEF OnionInit, PeerInit
<1>1. OnionTypeOK
  <2>1. <<>> \in Seq({"handshake", "ping"}) /\ <<>> \in Seq(AnswerKinds \cup {"pong"})
    OBVIOUS
  <2>2. directory_wait_counter \in 0..WaitTicks
    BY WaitTicksAssumption
  <2>3. /\ onion \in {"connecting", "creating", "failed", "named", "known"}
        /\ up \in [Dirs -> BOOLEAN]
        /\ conn \in [Dirs -> {"none", "open", "dead"}]
        /\ toDir \in [Dirs -> Seq({"handshake", "ping"})]
        /\ toUs \in [Dirs -> Seq(AnswerKinds \cup {"pong"})]
        /\ closing \in [Dirs -> BOOLEAN]
    BY <2>1
  <2>4. /\ service \in [Dirs -> {"none", "dialing", "retrying", "up", "stopped"}]
        /\ status \in [Dirs -> {"UNCONNECTED", "CONNECTED", "HANDSHAKED", "DISCONNECTED"}]
        /\ connecting \in [Dirs -> BOOLEAN]
        /\ reconnect_call \in [Dirs -> BOOLEAN]
        /\ awaiting_pong \in [Dirs -> BOOLEAN]
        /\ health_check_closing \in [Dirs -> BOOLEAN]
        /\ sent \in [Dirs -> BOOLEAN]
    OBVIOUS
  <2>5. /\ wait_loop = "off" /\ directory_wait_failed \in BOOLEAN
        /\ on_welcome_sent \in BOOLEAN /\ extra_peer \in BOOLEAN
        /\ hooks \subseteq Dirs
        /\ offerlist \in BOOLEAN /\ give_up \in BOOLEAN
    BY Zenon
  <2>6. welcome_calls \in 0..2
    OBVIOUS
  <2> HIDE DEF OnionInit
  <2> QED
    BY <2>2, <2>3, <2>4, <2>5, <2>6 DEF OnionTypeOK
<1>2. WaitOrder /\ PeerInv
  BY DEF WaitOrder, PeerInv, ServiceOrder, StatusIsConnection, PongOrder
<1>3. PongCanCome /\ OffersOnEveryDirectory
  BY DEF PongCanCome, OffersOnEveryDirectory
<1> QED
  BY <1>1, <1>2, <1>3 DEF OnionIndInv

(* The onion service, a peer that is no directory, and the ends of the     *)
(* network that change nothing but the connection.                         *)
LEMMA QuietKeeps ==
  ASSUME OnionIndInv,
         \/ create_onion_ep \/ setup_failed \/ onion_listen \/ check_onion_hostname
         \/ \E d \in Dirs : add_peer(d) \/ Vanishes(d) \/ Reachability(d)
         \/ UNCHANGED onionVars
  PROVE  OnionIndInv'
<1> USE DEF OnionIndInv, peerVars, netVars, waitVars, offerVars
<1>1. CASE create_onion_ep \/ setup_failed \/ onion_listen \/ check_onion_hostname
           \/ UNCHANGED onionVars
  <2>1. /\ UNCHANGED <<peerVars, netVars, waitVars, offerVars, give_up>>
        /\ onion' \in {"connecting", "creating", "failed", "named", "known"}
    BY <1>1 DEF create_onion_ep, setup_failed, onion_listen, check_onion_hostname,
       otherVars, onionVars, OnionTypeOK
  <2> QED
    BY <2>1 DEF OnionTypeOK, WaitOrder, PeerInv, ServiceOrder, StatusIsConnection,
       PongOrder, PongCanCome, OffersOnEveryDirectory,
       get_connected_directory_peers
<1>2. CASE \E d \in Dirs : add_peer(d)
  BY <1>2 DEF add_peer, OnionTypeOK, WaitOrder, PeerInv, ServiceOrder,
     StatusIsConnection, PongOrder, PongCanCome, OffersOnEveryDirectory,
     get_connected_directory_peers
<1>3. CASE \E d \in Dirs : Vanishes(d) \/ Reachability(d)
  <2> PICK d \in Dirs : Vanishes(d) \/ Reachability(d)
    BY <1>3
  <2>1. /\ conn' \in [Dirs -> {"none", "open", "dead"}]
        /\ \A e \in Dirs : conn'[e] = conn[e] \/ (conn[e] = "open" /\ conn'[e] = "dead")
        /\ up' \in [Dirs -> BOOLEAN]
        /\ UNCHANGED <<peerVars, toDir, toUs, closing, waitVars, offerVars,
                       give_up, onion>>
    BY DEF Vanishes, Reachability, OnionTypeOK
  <2>2. OnionTypeOK' /\ WaitOrder' /\ OffersOnEveryDirectory'
    BY <2>1 DEF OnionTypeOK, WaitOrder, OffersOnEveryDirectory,
       get_connected_directory_peers
  <2>3. PeerInv'
    BY <2>1 DEF PeerInv, ServiceOrder, StatusIsConnection, PongOrder
  <2>4. PongCanCome'
    BY <2>1, WaitStays
  <2> QED
    BY <2>2, <2>3, <2>4
<1> QED
  BY <1>1, <1>2, <1>3

(* Every step of the channel, a directory or the network.                  *)
LEMMA NextInd == OnionIndInv /\ [OnionNext]_onionVars => OnionIndInv'
<1> SUFFICES ASSUME OnionIndInv, [OnionNext]_onionVars PROVE OnionIndInv'
  OBVIOUS
<1>1. CASE create_onion_ep \/ setup_failed \/ onion_listen \/ check_onion_hostname
           \/ UNCHANGED onionVars
  BY <1>1, QuietKeeps
<1>2. CASE connect_to_directories
  BY <1>2, ConnectToDirectoriesKeeps
<1>3. CASE wait_for_directories
  BY <1>3, WaitForDirectoriesKeeps
<1>4. CASE on_JM_SETUP
  BY <1>4, SetupKeeps
<1>5. CASE on_JM_ANNOUNCE_OFFERS
  BY <1>5, AnnounceKeeps
<1>6. CASE shutdown
  BY <1>6, ShutdownKeeps
<1>7. ASSUME NEW d \in Dirs,
             \/ reattempt_connection(d)
             \/ register_connection(d)
             \/ \E trapped \in BOOLEAN : respond_to_connection_failure(d, trapped)
             \/ register_disconnection(d)
             \/ process_handshake(d)
             \/ mark_pong_received(d)
             \/ lineReceived_refused(d)
             \/ add_peer(d)
             \/ send_health_ping(d)
             \/ close_for_health_timeout(d)
             \/ on_directory_peer_connected(d)
             \/ DirectoryAnswers(d)
             \/ Vanishes(d)
             \/ Reachability(d)
      PROVE  OnionIndInv'
  BY <1>7, ReattemptConnectionKeeps, RegisterConnectionKeeps,
     RespondToConnectionFailureKeeps, RegisterDisconnectionKeeps,
     ProcessHandshakeKeeps, MarkPongReceivedKeeps, LineRefusedKeeps,
     SendHealthPingKeeps, CloseForHealthTimeoutKeeps,
     OnDirectoryPeerConnectedKeeps, AnswerKeeps, QuietKeeps
<1> QED
  BY <1>1, <1>2, <1>3, <1>4, <1>5, <1>6, <1>7 DEF OnionNext

(* The invariant holds throughout.                                         *)
LEMMA OnionInductive == OnionSpec => []OnionIndInv
<1> QED
  BY OnionInitInd, NextInd, PTL DEF OnionSpec

-------------------------------------------------------------------------------
(* The state of the channel and its peers has its type throughout.         *)
THEOREM ChannelTypeCorrect == OnionSpec => []OnionTypeOK
<1>1. OnionIndInv => OnionTypeOK
  BY DEF OnionIndInv
<1> QED
  BY <1>1, OnionInductive, PTL

(* However dials fail, connections drop, handshakes are rejected and pings *)
(* go unanswered: one attempt, dial or connection per directory, a status  *)
(* that is the connection's, no wait for a pong that cannot come.          *)
THEOREM PeersAreTheNetwork == OnionSpec => []PeersFollowNetwork
<1>1. OnionIndInv => PeersFollowNetwork
  BY OrderIsOneEndeavour DEF OnionIndInv, PeerInv, PeersFollowNetwork
<1> QED
  BY <1>1, OnionInductive, PTL

(* Any directory whose handshake is complete has the maker's current       *)
(* offers or is about to get them from the hook.                           *)
THEOREM OffersReachDirectories == OnionSpec => []OffersOnEveryDirectory
<1>1. OnionIndInv => OffersOnEveryDirectory
  BY DEF OnionIndInv
<1> QED
  BY <1>1, OnionInductive, PTL

===============================================================================
