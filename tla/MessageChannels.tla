-------------------------- MODULE MessageChannels --------------------------
(***************************************************************************)
(* MessageChannelCollection: the daemon's view of several message channels *)
(* (IRC servers), of the nicks it has seen on each and of the channel over *)
(* which it talks to each nick in private.                                 *)
(*                                                                         *)
(* Whatever an IRC client receives is handed on with callLater(0), so the  *)
(* events wait in `calls` in the order they happened.  A private message   *)
(* is handled only after its signature has been verified by the client     *)
(* (JMRequestMsgSigVerify and back): meanwhile it waits in `verifying`,    *)
(* and the channel it came from may be lost.  A message we send waits in   *)
(* `signing` for the client's signature, which covers the channel's        *)
(* hostid.                                                                 *)
(*                                                                         *)
(* The list of channels is searched in the order of the configuration; the *)
(* model takes any channel that qualifies.  A nick has one offer.          *)
(***************************************************************************)
EXTENDS Naturals, Sequences, FiniteSets

CONSTANTS
  Channels,      \* mchannels
  Nicks,         \* counterparties
  MaxCalls,      \* bound: events waiting in the reactor
  MaxVerifying,  \* bound: messages whose signature is being verified
  MaxSigning,    \* bound: messages waiting for our signature
  None           \* no channel

ASSUME ChannelsAssumption ==
  /\ IsFiniteSet(Channels) /\ Channels # {}
  /\ IsFiniteSet(Nicks)
  /\ None \notin Channels
  /\ MaxCalls \in Nat /\ MaxVerifying \in Nat /\ MaxSigning \in Nat

VARIABLES
  joined,           \* channels whose server we are on (external)
  calls,            \* delayed calls of the IRC clients, in order
  verifying,        \* private messages being verified, in order
  signing,          \* our messages being signed, in order
  mc_status,        \* channel -> 0 not started, 1 started, 2 broken
  nicks_seen,       \* channel -> nicks
  active_channels,  \* nick -> channel, None if it has none
  welcomed,
  announce_timer,   \* on_welcome_announce_id: "none", "armed", "over"
  welcomes,         \* number of on_welcome() calls to the daemon
  book,             \* nicks whose offer is in the order book
  late              \* <<nick, channel>>: an offer was taken from a channel
                    \* that was not available any more

envVars == <<joined, calls>>
ampVars == <<verifying, signing>>
nickVars == <<nicks_seen, active_channels, late>>
welcomeVars == <<welcomed, announce_timer, welcomes>>
vars == <<envVars, ampVars, mc_status, nickVars, welcomeVars, book>>

CallRecs ==
       [kind : {"welcome", "disconnect"}, mc : Channels]
  \cup [kind : {"leave", "pub_order", "pub_cancel", "pub_orderbook", "pub_other",
                "priv_order", "priv_other"},
        mc : Channels, nick : Nicks]

VerifyRecs == [nick : Nicks, mc : Channels, order : BOOLEAN]
SignRecs == [nick : Nicks, mc : Channels, live : BOOLEAN, late : BOOLEAN]

TypeOK ==
  /\ joined \subseteq Channels
  /\ calls \in Seq(CallRecs)
  /\ verifying \in Seq(VerifyRecs)
  /\ signing \in Seq(SignRecs)
  /\ mc_status \in [Channels -> 0..2]
  /\ nicks_seen \in [Channels -> SUBSET Nicks]
  /\ active_channels \in [Nicks -> Channels \cup {None}]
  /\ welcomed \in BOOLEAN
  /\ announce_timer \in {"none", "armed", "over"}
  /\ welcomes \in Nat
  /\ book \subseteq Nicks
  /\ late \subseteq Nicks \X Channels

Init ==
  /\ joined = {} /\ calls = <<>>
  /\ verifying = <<>> /\ signing = <<>>
  /\ mc_status = [mc \in Channels |-> 0]
  /\ nicks_seen = [mc \in Channels |-> {}]
  /\ active_channels = [n \in Nicks |-> None]
  /\ welcomed = FALSE /\ announce_timer = "none" /\ welcomes = 0
  /\ book = {} /\ late = {}

(***************************************************************************)
(* The servers (external): what happens there becomes a delayed call.      *)
(***************************************************************************)
Later(c) == Len(calls) < MaxCalls /\ calls' = Append(calls, c)

(* joined: we are on the server, at first or again.                        *)
Joins(mc) ==
  /\ mc \notin joined
  /\ joined' = joined \cup {mc}
  /\ Later([kind |-> "welcome", mc |-> mc])

(* connectionLost, of a connection that had joined or of one that had not. *)
ConnectionLost(mc) ==
  /\ joined' = joined \ {mc}
  /\ Later([kind |-> "disconnect", mc |-> mc])

(* A nick talks or leaves.                                                 *)
Says(mc, n, kind) ==
  /\ mc \in joined
  /\ joined' = joined
  /\ Later([kind |-> kind, mc |-> mc, nick |-> n])

NickEvents == {"leave", "pub_order", "pub_cancel", "pub_orderbook",
               "pub_other", "priv_order", "priv_other"}

Servers ==
  /\ \E mc \in Channels :
        Joins(mc) \/ ConnectionLost(mc)
        \/ \E n \in Nicks, k \in NickEvents : Says(mc, n, k)
  /\ UNCHANGED <<ampVars, mc_status, nickVars, welcomeVars, book>>

Gets(kind) == calls # <<>> /\ Head(calls).kind = kind /\ calls' = Tail(calls)

(***************************************************************************)
(* Routes                                                                  *)
(***************************************************************************)
Available(st) == {mc \in Channels : st[mc] = 1}

(* The available channels on which a nick was seen.                        *)
Reach(st, seen, n) == {mc \in Available(st) : n \in seen[mc]}

(* flush_nicks: what was seen on a channel that is not available is        *)
(* forgotten; a nick that was active there moves to a channel where it was *)
(* seen, or is active nowhere.                                             *)
Flushed(st) ==
  [mc \in Channels |-> IF st[mc] = 1 THEN nicks_seen[mc] ELSE {}]

MovedTo(st, n) ==
  LET mc == active_channels[n]
  IN  IF mc = None \/ mc \in Available(st) THEN {mc}
      ELSE IF Reach(st, nicks_seen, n) = {} THEN {None}
      ELSE Reach(st, nicks_seen, n)

Rerouted(st) ==
  {f \in [Nicks -> Channels \cup {None}] : \A n \in Nicks : f[n] \in MovedTo(st, n)}

(* Mutant: the active channels are left alone.                             *)
flush_nicks_keeps_routes(st) ==
  /\ nicks_seen' = Flushed(st)
  /\ active_channels' = active_channels
  /\ late' = {x \in late : st[x[2]] = 1}

flush_nicks(st) ==
  /\ nicks_seen' = Flushed(st)
  /\ active_channels' \in Rerouted(st)
  /\ late' = {x \in late : st[x[2]] = 1}

see_nick(n, mc) ==
  nicks_seen' = [nicks_seen EXCEPT ![mc] = @ \cup {n}]

(* on_order_seen_trigger, and the same for a fidelity bond: the nick is    *)
(* active on this channel from now on, whatever the channel's status.      *)
on_order_seen_trigger(n, mc) ==
  /\ see_nick(n, mc)
  /\ active_channels' = [active_channels EXCEPT ![n] = mc]
  /\ book' = book \cup {n}
  /\ late' = IF mc_status[mc] = 1 THEN late \ {<<n, mc>>}
                                  ELSE late \cup {<<n, mc>>}

(***************************************************************************)
(* Connections                                                             *)
(***************************************************************************)

(* on_welcome_setup_finished                                               *)
Announce == welcomes' = welcomes + 1 /\ welcomed' = TRUE

(* Mutant: the timer goes on when the last channel has joined.             *)
on_welcome_trigger_no_cancel ==
  /\ Gets("welcome")
  /\ mc_status' = [mc_status EXCEPT ![Head(calls).mc] = 1]
  /\ IF welcomed THEN UNCHANGED welcomeVars
     ELSE IF \E mc \in Channels : mc_status'[mc] = 0
       THEN /\ announce_timer' = IF announce_timer = "none" THEN "armed"
                                                            ELSE announce_timer
            /\ UNCHANGED <<welcomed, welcomes>>
     ELSE Announce /\ UNCHANGED announce_timer
  /\ UNCHANGED <<joined, ampVars, nickVars, book>>

(* Mutant: there is no timer; all channels are waited for.                 *)
on_welcome_trigger_no_timer ==
  /\ Gets("welcome")
  /\ mc_status' = [mc_status EXCEPT ![Head(calls).mc] = 1]
  /\ IF welcomed \/ \E mc \in Channels : mc_status'[mc] = 0
       THEN UNCHANGED welcomeVars
       ELSE Announce /\ UNCHANGED announce_timer
  /\ UNCHANGED <<joined, ampVars, nickVars, book>>

(* The daemon is told once: when no channel is left that was never heard   *)
(* of, or 60 seconds after the first one.                                  *)
on_welcome_trigger ==
  /\ Gets("welcome")
  /\ mc_status' = [mc_status EXCEPT ![Head(calls).mc] = 1]
  /\ IF welcomed THEN UNCHANGED welcomeVars
     ELSE IF \E mc \in Channels : mc_status'[mc] = 0
       THEN /\ announce_timer' = IF announce_timer = "none" THEN "armed"
                                                            ELSE announce_timer
            /\ UNCHANGED <<welcomed, welcomes>>
     ELSE /\ Announce
          /\ announce_timer' = IF announce_timer = "armed" THEN "over"
                                                           ELSE announce_timer
  /\ UNCHANGED <<joined, ampVars, nickVars, book>>

announce_timer_fires ==
  /\ announce_timer = "armed"
  /\ announce_timer' = "over"
  /\ Announce
  /\ UNCHANGED <<envVars, ampVars, mc_status, nickVars, book>>

(* Mutant: a channel that never started counts as connected.               *)
on_disconnect_trigger_all_broken ==
  /\ Gets("disconnect")
  /\ mc_status' = [mc_status EXCEPT ![Head(calls).mc] = 2]
  /\ flush_nicks(mc_status')
  /\ book' = IF \A mc \in Channels : mc_status'[mc] = 2 THEN {} ELSE book
  /\ UNCHANGED <<joined, ampVars, welcomeVars>>

(* Mutant: flush_nicks runs before the status is set.                      *)
on_disconnect_trigger_flush_first ==
  /\ Gets("disconnect")
  /\ flush_nicks(mc_status)
  /\ mc_status' = [mc_status EXCEPT ![Head(calls).mc] = 2]
  /\ book' = IF Available(mc_status') = {} THEN {} ELSE book
  /\ UNCHANGED <<joined, ampVars, welcomeVars>>

(* With the last channel the whole order book goes: on_disconnect.         *)
on_disconnect_trigger ==
  /\ Gets("disconnect")
  /\ mc_status' = [mc_status EXCEPT ![Head(calls).mc] = 2]
  /\ flush_nicks(mc_status')
  /\ book' = IF Available(mc_status') = {} THEN {} ELSE book
  /\ UNCHANGED <<joined, ampVars, welcomeVars>>

(* A nick leaves a channel.  If it was active there it moves to another    *)
(* available one where it was seen; if there is none, or if it was active  *)
(* nowhere, its offer is deleted.                                          *)
on_nick_leave_trigger ==
  /\ Gets("leave")
  /\ LET n == Head(calls).nick
         mc == Head(calls).mc
         others == Reach(mc_status, nicks_seen, n) \ {mc}
     IN  /\ nicks_seen' = [nicks_seen EXCEPT ![mc] = @ \ {n}]
         /\ late' = late \ {<<n, mc>>}
         /\ \/ /\ active_channels[n] = None
               /\ book' = book \ {n}
               /\ UNCHANGED active_channels
            \/ /\ active_channels[n] = mc
               /\ \E oc \in others :
                     active_channels' = [active_channels EXCEPT ![n] = oc]
               /\ UNCHANGED book
            \/ /\ active_channels[n] = mc /\ others = {}
               /\ active_channels' = [active_channels EXCEPT ![n] = None]
               /\ book' = book \ {n}
            \/ /\ active_channels[n] \notin {None, mc}
               /\ UNCHANGED <<active_channels, book>>
  /\ UNCHANGED <<joined, ampVars, mc_status, welcomeVars>>

(***************************************************************************)
(* Messages in                                                             *)
(***************************************************************************)
on_pubmsg_order ==
  /\ Gets("pub_order")
  /\ on_order_seen_trigger(Head(calls).nick, Head(calls).mc)
  /\ UNCHANGED <<joined, ampVars, mc_status, welcomeVars>>

on_pubmsg_cancel ==
  /\ Gets("pub_cancel")
  /\ see_nick(Head(calls).nick, Head(calls).mc)
  /\ book' = book \ {Head(calls).nick}
  /\ UNCHANGED <<joined, ampVars, mc_status, active_channels, late, welcomeVars>>

on_pubmsg_other ==
  /\ Gets("pub_other")
  /\ see_nick(Head(calls).nick, Head(calls).mc)
  /\ UNCHANGED <<joined, ampVars, mc_status, active_channels, late, welcomeVars,
                 book>>

(* MessageChannel.on_privmsg: the client is asked to verify the signature. *)
on_privmsg ==
  /\ Gets("priv_order") \/ Gets("priv_other")
  /\ Len(verifying) < MaxVerifying
  /\ verifying' = Append(verifying,
       [nick |-> Head(calls).nick, mc |-> Head(calls).mc,
        order |-> Head(calls).kind = "priv_order"])
  /\ UNCHANGED <<joined, signing, mc_status, nickVars, welcomeVars, book>>

(* The client's verdict.  The nick is marked as seen if the channel is     *)
(* available still; then the message is handled in any case.               *)
on_verified_privmsg ==
  /\ verifying # <<>>
  /\ verifying' = Tail(verifying)
  /\ LET m == Head(verifying)
     IN  \/ /\ m.order
            /\ on_order_seen_trigger(m.nick, m.mc)
         \/ /\ ~m.order
            /\ IF mc_status[m.mc] = 1 THEN see_nick(m.nick, m.mc)
                                      ELSE UNCHANGED nicks_seen
            /\ UNCHANGED <<active_channels, late, book>>
  /\ UNCHANGED <<envVars, signing, mc_status, welcomeVars>>

signature_refused ==
  /\ verifying # <<>>
  /\ verifying' = Tail(verifying)
  /\ UNCHANGED <<envVars, signing, mc_status, nickVars, welcomeVars, book>>

(***************************************************************************)
(* Messages out                                                            *)
(***************************************************************************)

(* check_privmsg: a nick that is active nowhere becomes active where it    *)
(* was seen; if it was seen nowhere the message is not sent.               *)
Routes(n, seen) ==
  IF active_channels[n] # None THEN {active_channels[n]}
  ELSE Reach(mc_status, seen, n)

ToSign(n, mc) ==
  [nick |-> n, mc |-> mc, live |-> mc_status[mc] = 1,
   late |-> <<n, mc>> \in late]

(* The daemon sends a message to a nick over its active channel.           *)
prepare_privmsg(n) ==
  /\ Len(signing) < MaxSigning
  /\ \E mc \in Routes(n, nicks_seen) :
       /\ active_channels' = [active_channels EXCEPT ![n] = mc]
       /\ signing' = Append(signing, ToSign(n, mc))
  /\ UNCHANGED <<envVars, verifying, mc_status, nicks_seen, late, welcomeVars,
                 book>>

(* The transaction goes to every maker over its active channel, or, if one *)
(* of them is active nowhere, to none.                                     *)
send_tx(nicks) ==
  /\ Len(signing) + Cardinality(nicks) <= MaxSigning
  /\ \A n \in nicks : active_channels[n] # None
  /\ \E order \in [1..Cardinality(nicks) -> nicks] :
       /\ \A n \in nicks : \E i \in DOMAIN order : order[i] = n
       /\ signing' = signing \o [i \in 1..Cardinality(nicks) |->
                        ToSign(order[i], active_channels[order[i]])]
  /\ UNCHANGED <<envVars, verifying, mc_status, nickVars, welcomeVars, book>>

(* A maker answers !orderbook: over the channel on which it was asked, if  *)
(* that is available.                                                      *)
on_orderbook_requested ==
  /\ Gets("pub_orderbook")
  /\ LET n == Head(calls).nick
         mc == Head(calls).mc
     IN  /\ see_nick(n, mc)
         /\ IF mc_status[mc] = 1
              THEN /\ Len(signing) < MaxSigning
                   /\ signing' = Append(signing, ToSign(n, mc))
                   /\ \E r \in Routes(n, nicks_seen') :
                        active_channels' = [active_channels EXCEPT ![n] = r]
              ELSE UNCHANGED <<signing, active_channels>>
  /\ UNCHANGED <<joined, verifying, mc_status, late, welcomeVars, book>>

(* The signed message comes back and goes out if the channel is available  *)
(* still; otherwise it is dropped.                                         *)
privmsg ==
  /\ signing # <<>>
  /\ signing' = Tail(signing)
  /\ UNCHANGED <<envVars, verifying, mc_status, nickVars, welcomeVars, book>>

Reactor ==
  \/ on_welcome_trigger \/ on_disconnect_trigger \/ on_nick_leave_trigger
  \/ on_pubmsg_order \/ on_pubmsg_cancel \/ on_pubmsg_other
  \/ on_orderbook_requested
  \/ on_privmsg \/ on_verified_privmsg \/ signature_refused \/ privmsg

Next ==
  \/ Servers
  \/ Reactor
  \/ announce_timer_fires
  \/ \E n \in Nicks : prepare_privmsg(n)
  \/ \E nicks \in SUBSET Nicks \ {{}} : send_tx(nicks)

Spec == Init /\ [][Next]_vars

(* The reactor handles what waits; servers and nicks promise nothing.      *)
FairSpec == Spec /\ WF_vars(Reactor) /\ WF_vars(announce_timer_fires)

(***************************************************************************)
(* Properties                                                              *)
(***************************************************************************)

(* Switching, flushing and leaving keep the two tables in step: a nick is  *)
(* only ever active on a channel on which it counts as seen.               *)
ActiveIsSeen ==
  \A n \in Nicks :
    active_channels[n] # None => n \in nicks_seen[active_channels[n]]

(* flush_nicks and check_privmsg "make failure to communicate as unlikely  *)
(* as possible": whatever channels come and go, a message is addressed to  *)
(* a channel that is down only if the nick's offer was still being         *)
(* verified when that channel was lost.                                    *)
SentOverLiveChannel ==
  \A i \in 1..Len(signing) : signing[i].live \/ signing[i].late

(* "only allow on_welcome() to fire once": whatever channels join, break   *)
(* and join again around the 60 second timer.                              *)
WelcomedOnce == welcomes <= 1

(* When the last channel is lost the order book is emptied, and stays      *)
(* empty but for offers that were being verified at that time.             *)
BookEmptyWhenDown ==
  Available(mc_status) = {} =>
    \A n \in book : \E mc \in Channels : <<n, mc>> \in late

(* on_welcome: "trigger arrival when all channels are joined", or after 60 *)
(* seconds: once one channel has joined, the daemon is told.               *)
WelcomeComes ==
  (\E mc \in Channels : mc_status[mc] = 1) ~> welcomed

(* "a nick only leaves the pit when it has departed *all* our message      *)
(* channels": its offer is deleted for leaving only when it is seen on no  *)
(* available channel.                                                      *)
LeftEverywhere ==
  [][ calls # <<>> /\ Head(calls).kind = "leave" /\ calls' = Tail(calls)
        /\ book' # book
      => Reach(mc_status', nicks_seen', Head(calls).nick) = {} ]_vars
============================================================================
