---------------------------- MODULE MakerSession ----------------------------
(***************************************************************************)
(* A maker: its daemon and its client, the takers that fill its offers,    *)
(* and the network.                                                        *)
(***************************************************************************)
EXTENDS MakerDaemon, MakerClient

vars == <<linkVars, daemonVars, clientVars>>

Init == LinkInit /\ DaemonInit /\ ClientInit

(* With SerialTakers, a nick waits until what we signed for it before is   *)
(* confirmed in our wallet.                                                *)
FreeToPropose(n) ==
  SerialTakers =>
    \A s \in sigs_sent : s.nick = n =>
      /\ \E i \in 1..seen : net[i].tx = s.tx /\ net[i].conf
      /\ s.tx \notin active_txs

TakerProposes ==
  \E n \in Takers : HasOrder(n) /\
    \E tx \in ProposedTxs(active_orders[n]) : on_seen_tx(n, tx, FreeToPropose(n))

(* The process dies; files, the network and the takers remain.             *)
Crash ==
  /\ crashes < MaxCrashes
  /\ crashes' = crashes + 1
  /\ up' = <<>> /\ down' = <<[type |-> "JMUp"]>>
  /\ d_offerlist' = {} /\ pit' = {}
  /\ active_orders' = [n \in Takers |-> NoOrder]
  /\ ClientRestart
  /\ UNCHANGED <<net, fills, blacklist, sigs_sent, ioauths>>

Running == ~reactor_stopped

Next ==
  \/ Crash
  \/ Confirm /\ UNCHANGED <<daemonVars, clientVars>>
  \/ Running /\ DaemonHandles /\ UNCHANGED clientVars
  \/ Running /\ PitSpeaks /\ UNCHANGED clientVars
  \/ Running /\ TakerProposes /\ UNCHANGED clientVars
  \/ Running /\ ClientHandles /\ UNCHANGED daemonVars
  \/ Running /\ Loops /\ UNCHANGED daemonVars

Spec == Init /\ [][Next]_vars

OfferRecs == [oid : {0}, maxsize : Int]
CoinRecs == [id : CoinIds, md : Mixdepths, value : Int, conf : BOOLEAN]

TypeOK ==
  /\ fills \in 0..MaxFills /\ crashes \in 0..MaxCrashes
  /\ \A i \in DOMAIN net : IsTx(net[i].tx) /\ net[i].conf \in BOOLEAN
  /\ d_offerlist \subseteq OfferRecs /\ pit \subseteq OfferRecs
  /\ offerlist \subseteq OfferRecs
  /\ blacklist \subseteq Commits
  /\ \A n \in Takers : HasOrder(n) =>
       /\ active_orders[n].fill \in 1..fills
       /\ active_orders[n].amount \in Amounts
       /\ active_orders[n].commit \in Commits
       /\ active_orders[n].grant.fill \in 0..fills
  /\ ready_loop \in -1..MaxLoops
  /\ \A t \in unconfirm_cbs \cup confirm_cbs \cup active_txs : IsTx(t)
  /\ wallet \subseteq CoinRecs
  /\ seen \in 0..Len(net)

(***************************************************************************)
(* Safety                                                                  *)
(***************************************************************************)

(* The monitor was shown every transaction and waits for none of them.     *)
MonitorIdle ==
  /\ monitoring /\ seen = Len(net)
  /\ \A i \in DOMAIN net : net[i].conf => net[i].tx \notin active_txs

(* Coins come and go one transaction at a time, by whichever callback and  *)
(* round of the monitor; once it has caught up, the wallet holds exactly   *)
(* the coins the network holds for us, confirmed ones as confirmed.        *)
WalletMatchesChain ==
  MonitorIdle => wallet = ChainView

WalletValue(w) == SumValues(w)

(* verify_unsigned_tx ensures "that the Maker receives back what he puts   *)
(* in": whatever orders overlap, are filled again or cut off by a crash,   *)
(* no transaction that we signed takes value out of the wallet.            *)
WalletNeverShrinks ==
  [][WalletValue(wallet') >= WalletValue(wallet)]_vars

(* on_auth_received saves the wallet "for index update persistence": no    *)
(* two addresses given to takers are the same, across crashes too.         *)
NoAddressReuse ==
  \A i, j \in DOMAIN given_out : given_out[i] = given_out[j] => i = j

(* Nothing is under way between the parts of the maker.                    *)
Quiet == up = <<>> /\ down = <<>>

(* Daemon and watchers get changes of different form, the whole list and   *)
(* the differences; both end up with the client's offers.                  *)
PitKnowsOffers ==
  Quiet /\ pit # {} => pit = offerlist /\ d_offerlist = offerlist

(* on_orderbook_requested is "dealt with by daemon, assuming offerlist is  *)
(* up to date": when all is confirmed and told, the offer is the one that  *)
(* the wallet allows.                                                      *)
OffersFollowWallet ==
  /\ crashes = 0 /\ Quiet /\ MonitorIdle
  /\ \A i \in DOMAIN net : net[i].conf
  /\ ~orders_loop
  => offerlist = create_my_orders(wallet)

(* Wallet, client, daemon and pit agree on the offers once all is told.    *)
OffersAgree == PitKnowsOffers /\ OffersFollowWallet

(***************************************************************************)
(* Claims of comments that the code does not keep                          *)
(***************************************************************************)

(* on_JM_IOAUTH: "We don't need validity check here; we already did it."   *)
(* No commitment is used for two !ioauth messages.                         *)
CommitmentUsedOnce ==
  \A i, j \in DOMAIN ioauths :
    ioauths[i].opened = ioauths[j].opened => i = j

(* finalized_offers is "used for keeping track of transactions for the     *)
(* unconf/conf callbacks": a coin whose spending the wallet was shown does *)
(* not come back.                                                          *)
SpentStaysSpent ==
  \A c \in wallet : \A i \in 1..seen : c.id \notin net[i].tx.ins

=============================================================================
