---------------------------- MODULE MakerDaemon ----------------------------
(***************************************************************************)
(* The maker role of JMDaemonServerProtocol: it answers !fill on its own,  *)
(* hands !auth and !tx to the client, and sends out what the client        *)
(* returns.  An order is known by the nick of its taker only.              *)
(***************************************************************************)
EXTENDS MakerLink

VARIABLES
  d_offerlist,     \* self.offerlist
  active_orders,   \* nick -> order, NoOrder if there is none
  blacklist,       \* the file of used commitments; survives a crash
  pit,             \* our offers as the order book watchers have them
  sigs_sent,       \* transactions whose signatures were sent: [nick, tx]
  ioauths          \* !ioauth messages sent: the commitment that was opened
                   \* for it, and the one persisted as used

daemonVars == <<d_offerlist, active_orders, blacklist, pit, sigs_sent,
                ioauths>>

NoOrder == [fill |-> 0]

Order(k, amount, commit) ==
  [fill |-> k, amount |-> amount, commit |-> commit,
   authed |-> FALSE, proposed |-> FALSE, grant |-> NoGrant]

HasOrder(n) == active_orders[n] # NoOrder

Send(q, m) == Append(q, m)

WithoutOids(offers, oids) == {o \in offers : o.oid \notin oids}

on_JM_SETUP ==
  /\ DaemonGets("JMSetup")
  /\ up' = Tail(up)
  /\ d_offerlist' = Head(up).offers
  /\ pit' = Head(up).offers
  /\ UNCHANGED <<down, net, fills, crashes, active_orders, blacklist,
                 sigs_sent, ioauths>>

(* The watchers get the changes, the daemon keeps the whole list.          *)
on_JM_ANNOUNCE_OFFERS ==
  /\ DaemonGets("JMAnnounceOffers")
  /\ up' = Tail(up)
  /\ LET m == Head(up)
         cancelled == WithoutOids(pit, m.to_cancel)
     IN  /\ d_offerlist' = m.offers
         /\ pit' = WithoutOids(cancelled, {o.oid : o \in m.to_announce})
                     \cup m.to_announce
  /\ UNCHANGED <<down, net, fills, crashes, active_orders, blacklist,
                 sigs_sent, ioauths>>

(* A watcher asks for the order book: the answer is the whole list.        *)
on_orderbook_requested ==
  /\ d_offerlist # {}
  /\ pit' = d_offerlist
  /\ UNCHANGED <<linkVars, d_offerlist, active_orders, blacklist,
                 sigs_sent, ioauths>>

(* Compare a commitment with the list, without recording it.               *)
check_utxo_blacklist(commit) == commit \notin blacklist

(* A !fill against one of our offers replaces the whole entry of its nick. *)
(* With a used commitment, an unknown oid or an amount out of range only   *)
(* an error is sent and nothing changes.                                   *)
on_order_fill(n, amount, commit) ==
  /\ fills < MaxFills
  /\ check_utxo_blacklist(commit)
  /\ \E o \in d_offerlist : MinSize <= amount /\ amount <= o.maxsize
  /\ fills' = fills + 1
  /\ active_orders' = [active_orders EXCEPT
                         ![n] = Order(fills + 1, amount, commit)]
  /\ UNCHANGED <<up, down, net, crashes, d_offerlist, blacklist, pit,
                 sigs_sent, ioauths>>

on_seen_auth(n) ==
  /\ HasOrder(n)
  /\ ~active_orders[n].authed
  /\ active_orders' = [active_orders EXCEPT ![n].authed = TRUE]
  /\ LET o == active_orders[n]
     IN  down' = Send(down, [type |-> "JMAuthReceived", nick |-> n,
                             fill |-> o.fill, amount |-> o.amount,
                             commit |-> o.commit])
  /\ UNCHANGED <<up, net, fills, crashes, d_offerlist, blacklist, pit,
                 sigs_sent, ioauths>>

(* The client's data go into the entry the nick has now, and it is that    *)
(* entry's commitment which is passed on and recorded as used.             *)
on_JM_IOAUTH ==
  /\ DaemonGets("JMIOAuth")
  /\ up' = Tail(up)
  /\ LET m == Head(up)
     IN  /\ active_orders' = [active_orders EXCEPT ![m.nick].grant = m.grant]
         /\ blacklist' = blacklist \cup {active_orders[m.nick].commit}
         /\ ioauths' = Append(ioauths,
                         [opened |-> m.grant.commit,
                          burned |-> active_orders[m.nick].commit])
  /\ UNCHANGED <<down, net, fills, crashes, d_offerlist, pit, sigs_sent>>

(* Another maker tells of a used commitment.                               *)
on_commitment_seen(commit) ==
  /\ commit \notin blacklist
  /\ blacklist' = blacklist \cup {commit}
  /\ UNCHANGED <<linkVars, d_offerlist, active_orders, pit, sigs_sent,
                 ioauths>>

(* The taker proposes a transaction for the !ioauth it got, and sends it   *)
(* once.  `free` says whether this nick may (SerialTakers).                *)
on_seen_tx(n, tx, free) ==
  /\ HasOrder(n) /\ free
  /\ ~active_orders[n].proposed
  /\ active_orders[n].grant.fill = active_orders[n].fill
  /\ tx \in ProposedTxs(active_orders[n])
  /\ active_orders' = [active_orders EXCEPT ![n].proposed = TRUE]
  /\ down' = Send(down, [type |-> "JMTXReceived", nick |-> n, tx |-> tx,
                         offer |-> active_orders[n]])
  /\ UNCHANGED <<up, net, fills, crashes, d_offerlist, blacklist, pit,
                 sigs_sent, ioauths>>

on_JM_TX_SIGS ==
  /\ DaemonGets("JMTXSigs")
  /\ up' = Tail(up)
  /\ sigs_sent' = sigs_sent \cup {[nick |-> Head(up).nick, tx |-> Head(up).tx]}
  /\ UNCHANGED <<down, net, fills, crashes, d_offerlist, active_orders,
                 blacklist, pit, ioauths>>

(* A taker asks us to broadcast its transaction.                           *)
on_push_tx(tx) ==
  /\ [type |-> "JMTXBroadcast", tx |-> tx] \notin {down[i] : i \in DOMAIN down}
  /\ tx \notin NetTxs
  /\ down' = Send(down, [type |-> "JMTXBroadcast", tx |-> tx])
  /\ UNCHANGED <<up, net, fills, crashes, daemonVars>>

(* The taker broadcasts a transaction we signed.                           *)
TakerBroadcasts(tx) ==
  /\ Broadcastable(tx)
  /\ net' = Append(net, [tx |-> tx, conf |-> FALSE])
  /\ UNCHANGED <<up, down, fills, crashes, daemonVars>>

SignedTxs == {s.tx : s \in sigs_sent}

DaemonInit ==
  /\ d_offerlist = {}
  /\ active_orders = [n \in Takers |-> NoOrder]
  /\ blacklist = {}
  /\ pit = {}
  /\ sigs_sent = {}
  /\ ioauths = <<>>

DaemonHandles ==
  \/ on_JM_SETUP \/ on_JM_ANNOUNCE_OFFERS \/ on_JM_IOAUTH \/ on_JM_TX_SIGS

PitSpeaks ==
  \/ on_orderbook_requested
  \/ \E n \in Takers, a \in Amounts, c \in Commits : on_order_fill(n, a, c)
  \/ \E n \in Takers : on_seen_auth(n)
  \/ \E c \in Commits : on_commitment_seen(c)
  \/ \E t \in SignedTxs : on_push_tx(t) \/ TakerBroadcasts(t)
============================================================================
