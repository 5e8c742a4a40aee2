---------------------------- MODULE MakerClient ----------------------------
(***************************************************************************)
(* JMMakerClientProtocol with YieldGeneratorBasic as its Maker, and the    *)
(* part of WalletService a maker lives by: the coins, the index of the     *)
(* next address in each mixdepth, and the transaction monitor with its     *)
(* callbacks.  A coin is named by the address it was paid to, which is new *)
(* for every order.  All coins are of the standard type, none is frozen.   *)
(***************************************************************************)
EXTENDS MakerLink

CONSTANT MaxLoops   \* 300: rounds of submitOffers before it gives up

ASSUME LoopsAssumption == MaxLoops \in Nat

VARIABLES
  offerlist,         \* self.client.offerlist
  orders_loop,       \* sync_wait_loop is running
  ready_loop,        \* rounds of offers_ready_loop, or -1 if it is stopped
  reactor_stopped,
  finalized_offers,  \* nick -> the transaction signed for it last
  unconfirm_cbs,     \* transactions with an unconfirm_callback registered
  confirm_cbs,       \* transactions with a confirm_callback registered
  checks,            \* pending check_callback_called: [tx, cbtype]
  wallet,            \* the coins: [id, md, value, conf]
  index_cache,       \* mixdepth -> next internal index, in memory
  saved_index,       \* the same in the wallet file
  given_out,         \* addresses given to takers, in order
  active_txs,        \* transactions the monitor looks at again
  seen,              \* how many transactions of net it was shown
  monitoring         \* the looping call of transaction_monitor is alive

clientVars == <<offerlist, orders_loop, ready_loop, reactor_stopped,
                finalized_offers, unconfirm_cbs, confirm_cbs, checks,
                wallet, index_cache, saved_index, given_out,
                active_txs, seen, monitoring>>

startVars == <<orders_loop, ready_loop, reactor_stopped>>
cbVars == <<finalized_offers, unconfirm_cbs, confirm_cbs, checks>>
walletVars == <<wallet, index_cache, saved_index, given_out, active_txs,
                seen, monitoring>>

(***************************************************************************)
(* Offers                                                                  *)
(***************************************************************************)

Larger(a, b) == IF a < b THEN b ELSE a

(* Confirmed balance of a mixdepth.                                        *)
MixBalance(w, md) == SumValues({c \in w : c.md = md /\ c.conf})

MaxBalance(w) == Max({MixBalance(w, md) : md \in Mixdepths})

MaxSize(w) == MaxBalance(w) - Larger(DustThreshold, TxFee)

(* assert order['maxsize'] > 0                                             *)
OrdersAssertionFails(w) == MaxBalance(w) > 0 /\ MaxSize(w) <= 0

create_my_orders(w) ==
  IF MaxBalance(w) = 0 \/ MinSize > MaxSize(w) THEN {}
  ELSE {[oid |-> 0, maxsize |-> MaxSize(w)]}

Oids(offers) == {o.oid : o \in offers}

(* The changes from the offers we have to those the wallet allows now:     *)
(* on_tx_unconfirmed and modify_orders.                                    *)
ToAnnounce(w) == create_my_orders(w) \ offerlist
ToCancel(w) == Oids(offerlist) \ Oids(create_my_orders(w))

(* Mutant: a replaced offer is not removed.                                *)
modify_orders_keeps_old(to_cancel, to_announce) ==
  {o \in offerlist : o.oid \notin to_cancel} \cup to_announce

modify_orders(to_cancel, to_announce) ==
  {o \in offerlist : o.oid \notin to_cancel \cup Oids(to_announce)}
    \cup to_announce

try_to_create_my_orders ==
  /\ orders_loop
  /\ ~OrdersAssertionFails(wallet)
  /\ offerlist' = create_my_orders(wallet)
  /\ orders_loop' = FALSE
  /\ UNCHANGED <<linkVars, ready_loop, reactor_stopped, cbVars, walletVars>>

on_JM_UP ==
  /\ ClientGets("JMUp")
  /\ down' = Tail(down)
  /\ ready_loop' = 0
  /\ UNCHANGED <<up, net, fills, crashes, offerlist, orders_loop,
                 reactor_stopped, cbVars, walletVars>>

submitOffers ==
  /\ ready_loop \in 0..(MaxLoops - 1)
  /\ IF ready_loop + 1 = MaxLoops
       THEN reactor_stopped' = TRUE /\ ready_loop' = -1 /\ up' = up
       ELSE /\ UNCHANGED reactor_stopped
            /\ IF offerlist = {}
                 THEN ready_loop' = ready_loop + 1 /\ up' = up
                 ELSE /\ ready_loop' = -1
                      /\ up' = Append(up, [type |-> "JMSetup",
                                           offers |-> offerlist])
  /\ UNCHANGED <<down, net, fills, crashes, offerlist, orders_loop, cbVars,
                 walletVars>>

(***************************************************************************)
(* Orders                                                                  *)
(***************************************************************************)

RequiredAmount(amount) ==
  amount + TxFee + DustThreshold + 1 - CjFee[amount]

EnoughIn(amount) ==
  {md \in Mixdepths : MixBalance(wallet, md) >= RequiredAmount(amount)}

(* What select_utxos may return, whatever the merge algorithm.             *)
select_utxos(md, required) ==
  {s \in SUBSET {[id |-> c.id, value |-> c.value] :
                   c \in {d \in wallet : d.md = md /\ d.conf}} :
     s # {} /\ SumValues(s) >= required}

(* get_internal_addr, first for the coinjoin output in the next mixdepth,  *)
(* then for the change in ours.                                            *)
CjMixdepth(md) == (md + 1) % (MaxMixdepth + 1)
CjAddress(md) == <<CjMixdepth(md), index_cache[CjMixdepth(md)]>>
AfterCj(md) == [index_cache EXCEPT ![CjMixdepth(md)] = @ + 1]
ChangeAddress(md) == <<md, AfterCj(md)[md]>>
AfterChange(md) == [AfterCj(md) EXCEPT ![md] = @ + 1]

(* Mutant: the wallet is not saved.                                        *)
SavedIndex_skipped(idx) == saved_index

(* save_wallet: the file gets the index in memory.                         *)
SavedIndex(idx) == idx

(* The commitment is opened properly and there are coins for the order.    *)
on_auth_accepted ==
  /\ ClientGets("JMAuthReceived")
  /\ down' = Tail(down)
  /\ LET m == Head(down)
     IN  \E md \in EnoughIn(m.amount) :
           /\ \A other \in EnoughIn(m.amount) : md <= other
           /\ \E utxos \in select_utxos(md, RequiredAmount(m.amount)) :
                up' = Append(up, [type |-> "JMIOAuth", nick |-> m.nick,
                        grant |-> [utxos |-> utxos, cjaddr |-> CjAddress(md),
                                   changeaddr |-> ChangeAddress(md),
                                   fill |-> m.fill, commit |-> m.commit]])
           /\ given_out' = Append(Append(given_out, CjAddress(md)),
                                  ChangeAddress(md))
           /\ index_cache' = AfterChange(md)
           /\ saved_index' = SavedIndex(AfterChange(md))
  /\ UNCHANGED <<net, fills, crashes, offerlist, startVars, cbVars, wallet,
                 active_txs, seen, monitoring>>

(* The opening is not valid, its utxo too young or small, or no mixdepth   *)
(* has enough coins.                                                       *)
on_auth_refused ==
  /\ ClientGets("JMAuthReceived")
  /\ down' = Tail(down)
  /\ UNCHANGED <<up, net, fills, crashes, clientVars>>

(* Mutant: the amounts are not compared.                                   *)
PaidOnce_any_amount(tx, addr, least) ==
  Cardinality({i \in DOMAIN tx.outs : tx.outs[i][1] = addr}) = 1

(* Every output to this address pays at least `least`, and there is one.   *)
PaidOnce(tx, addr, least) ==
  LET hits == {i \in DOMAIN tx.outs : tx.outs[i][1] = addr}
  IN  Cardinality(hits) = 1 /\ \A i \in hits : tx.outs[i][2] >= least

verify_unsigned_tx(tx, o) ==
  /\ {u.id : u \in o.grant.utxos} \subseteq tx.ins
  /\ CjFee[o.amount] - TxFee >= 0
  /\ PaidOnce(tx, o.grant.cjaddr, o.amount)
  /\ PaidOnce(tx, o.grant.changeaddr, ExpectedChange(o))

on_tx_accepted ==
  /\ ClientGets("JMTXReceived")
  /\ down' = Tail(down)
  /\ LET m == Head(down)
     IN  /\ verify_unsigned_tx(m.tx, m.offer)
         /\ finalized_offers' = [finalized_offers EXCEPT ![m.nick] = m.tx]
         /\ unconfirm_cbs' = unconfirm_cbs \cup {m.tx}
         /\ confirm_cbs' = confirm_cbs \cup {m.tx}
         /\ checks' = checks \cup {[tx |-> m.tx, cbtype |-> "unconfirmed"]}
         /\ up' = Append(up, [type |-> "JMTXSigs", nick |-> m.nick,
                              tx |-> m.tx])
  /\ UNCHANGED <<net, fills, crashes, offerlist, startVars, walletVars>>

on_tx_refused ==
  /\ ClientGets("JMTXReceived")
  /\ ~verify_unsigned_tx(Head(down).tx, Head(down).offer)
  /\ down' = Tail(down)
  /\ UNCHANGED <<up, net, fills, crashes, clientVars>>

(* pushtx; whether the node takes it is not our concern.                   *)
on_JM_TX_BROADCAST ==
  /\ ClientGets("JMTXBroadcast")
  /\ down' = Tail(down)
  /\ net' = IF Broadcastable(Head(down).tx)
              THEN Append(net, [tx |-> Head(down).tx, conf |-> FALSE])
              ELSE net
  /\ UNCHANGED <<up, fills, crashes, clientVars>>

(***************************************************************************)
(* The transaction monitor                                                 *)
(***************************************************************************)

Outputs(tx, conf) ==
  {[id |-> tx.outs[i][1], md |-> tx.outs[i][1][1], value |-> tx.outs[i][2],
    conf |-> conf] : i \in DOMAIN tx.outs}

(* Mutant: a coin that is known already keeps its height.                  *)
process_new_tx_keeps_height(tx, conf) ==
  {c \in wallet : c.id \notin tx.ins}
    \cup {o \in Outputs(tx, conf) : o.id \notin {c.id : c \in wallet}}

process_new_tx(tx, conf) ==
  {c \in wallet : c.id \notin tx.ins /\ c.id \notin {o.id : o \in Outputs(tx, conf)}}
    \cup Outputs(tx, conf)

(* tx_match: a transaction is recognised by its outputs.                   *)
tx_match(tx) ==
  \E n \in Takers : finalized_offers[n].outs = tx.outs /\ tx # NoTx

IsNew(i) == i = seen + 1
Shown(tx) == \E i \in 1..seen : net[i].tx = tx

(* Both callbacks recompute our offers from the wallet.                    *)
UpdateOffers(w) ==
  /\ offerlist' = modify_orders(ToCancel(w), ToAnnounce(w))
  /\ up' = Append(up, [type |-> "JMAnnounceOffers",
                       to_announce |-> ToAnnounce(w),
                       to_cancel |-> ToCancel(w), offers |-> offerlist'])

(* An assertion in a callback ends the looping call for good.              *)
CallbackRaises(w) ==
  /\ OrdersAssertionFails(w)
  /\ monitoring' = FALSE
  /\ UNCHANGED <<up, offerlist, cbVars, active_txs>>

(* The monitor is shown a transaction without confirmations.               *)
monitor_unconfirmed(i) ==
  /\ monitoring /\ IsNew(i) /\ ~net[i].conf
  /\ seen' = seen + 1
  /\ LET tx == net[i].tx
         w == process_new_tx(tx, FALSE)
     IN  /\ wallet' = w
         /\ \/ /\ tx \in unconfirm_cbs /\ tx_match(tx)
               /\ CallbackRaises(w)
            \/ /\ tx \in unconfirm_cbs /\ tx_match(tx)
               /\ ~OrdersAssertionFails(w)
               /\ UpdateOffers(w)
               /\ unconfirm_cbs' = unconfirm_cbs \ {tx}
               /\ checks' = checks \cup {[tx |-> tx, cbtype |-> "confirmed"]}
               /\ active_txs' = active_txs \cup {tx}
               /\ UNCHANGED <<finalized_offers, confirm_cbs, monitoring>>
            \/ /\ ~(tx \in unconfirm_cbs /\ tx_match(tx))
               /\ active_txs' = active_txs \cup {tx}
               /\ UNCHANGED <<up, offerlist, cbVars, monitoring>>
  /\ UNCHANGED <<down, net, fills, crashes, startVars, index_cache,
                 saved_index, given_out>>

(* It finds a transaction confirmed, one it was shown before or a new one. *)
monitor_confirmed(i) ==
  /\ monitoring /\ net[i].conf
  /\ IsNew(i) \/ net[i].tx \in active_txs
  /\ seen' = IF IsNew(i) THEN seen + 1 ELSE seen
  /\ LET tx == net[i].tx
         w == process_new_tx(tx, TRUE)
     IN  /\ wallet' = w
         /\ \/ /\ tx \in confirm_cbs /\ tx_match(tx)
               /\ CallbackRaises(w)
            \/ /\ tx \in confirm_cbs /\ tx_match(tx)
               /\ ~OrdersAssertionFails(w)
               /\ UpdateOffers(w)
               /\ confirm_cbs' = confirm_cbs \ {tx}
               /\ active_txs' = active_txs \ {tx}
               /\ UNCHANGED <<finalized_offers, unconfirm_cbs, checks,
                              monitoring>>
            \/ /\ tx \in confirm_cbs /\ ~tx_match(tx)
               /\ UNCHANGED <<up, offerlist, cbVars, active_txs, monitoring>>
            \/ /\ tx \notin confirm_cbs
               /\ active_txs' = active_txs \ {tx}
               /\ UNCHANGED <<up, offerlist, cbVars, monitoring>>
  /\ UNCHANGED <<down, net, fills, crashes, startVars, index_cache,
                 saved_index, given_out>>

(* The delayed check drops a callback that was not called; if the monitor  *)
(* knows the transaction it stops looking at it.                           *)
StopsMonitoring(tx) == IF Shown(tx) THEN active_txs \ {tx} ELSE active_txs

check_callback_called(c) ==
  /\ c \in checks
  /\ ConfirmInTime /\ c.cbtype = "confirmed" => c.tx \notin confirm_cbs
  /\ checks' = checks \ {c}
  /\ LET missed == c.tx \in IF c.cbtype = "unconfirmed" THEN unconfirm_cbs
                            ELSE confirm_cbs
     IN  /\ unconfirm_cbs' = IF c.cbtype = "unconfirmed"
                               THEN unconfirm_cbs \ {c.tx} ELSE unconfirm_cbs
         /\ confirm_cbs' = IF c.cbtype = "confirmed"
                             THEN confirm_cbs \ {c.tx} ELSE confirm_cbs
         /\ active_txs' = IF missed THEN StopsMonitoring(c.tx) ELSE active_txs
  /\ UNCHANGED <<linkVars, offerlist, startVars, finalized_offers, wallet,
                 index_cache, saved_index, given_out, seen, monitoring>>

(***************************************************************************)
(* Start and restart                                                       *)
(***************************************************************************)

InitialCoins ==
  {[id |-> c, md |-> c[1], value |-> CoinValue[c], conf |-> TRUE] :
     c \in Coins}

(* The coins that the network holds for us.                                *)
ChainView ==
  LET made == InitialCoins
                \cup UNION {Outputs(net[i].tx, net[i].conf) : i \in DOMAIN net}
      spent == UNION {net[i].tx.ins : i \in DOMAIN net}
  IN  {c \in made : c.id \notin spent}

(* A synced wallet goes on after the saved index of a mixdepth, or after   *)
(* the last index found on the network if that is larger.                  *)
UsedIndices(md) ==
  {o.id[2] + 1 : o \in
     {p \in UNION {Outputs(net[i].tx, net[i].conf) : i \in DOMAIN net} :
        p.md = md}}

SyncedIndices ==
  {f \in [Mixdepths -> 0..(2 * MaxFills)] :
     \A md \in Mixdepths :
       /\ f[md] \in {saved_index[md]} \cup UsedIndices(md)
       /\ \A i \in {saved_index[md]} \cup UsedIndices(md) : i <= f[md]}

ClientInit ==
  /\ offerlist = {}
  /\ orders_loop = TRUE
  /\ ready_loop = -1
  /\ reactor_stopped = FALSE
  /\ finalized_offers = [n \in Takers |-> NoTx]
  /\ unconfirm_cbs = {} /\ confirm_cbs = {} /\ checks = {}
  /\ wallet = InitialCoins
  /\ index_cache = [md \in Mixdepths |-> 0]
  /\ saved_index = [md \in Mixdepths |-> 0]
  /\ given_out = <<>>
  /\ active_txs = {} /\ seen = 0
  /\ monitoring = TRUE

(* The wallet is loaded and synced again; the first round of the monitor   *)
(* follows at once and is shown every transaction.                         *)
ClientRestart ==
  /\ offerlist' = {}
  /\ orders_loop' = TRUE
  /\ ready_loop' = -1
  /\ reactor_stopped' = FALSE
  /\ finalized_offers' = [n \in Takers |-> NoTx]
  /\ unconfirm_cbs' = {} /\ confirm_cbs' = {} /\ checks' = {}
  /\ wallet' = ChainView
  /\ index_cache' \in SyncedIndices
  /\ active_txs' = {net[i].tx : i \in {j \in DOMAIN net : ~net[j].conf}}
  /\ seen' = Len(net)
  /\ monitoring' = TRUE
  /\ UNCHANGED <<saved_index, given_out>>

ClientHandles ==
  \/ on_JM_UP
  \/ on_auth_accepted \/ on_auth_refused
  \/ on_tx_accepted \/ on_tx_refused
  \/ on_JM_TX_BROADCAST

Loops ==
  \/ try_to_create_my_orders
  \/ submitOffers
  \/ \E i \in DOMAIN net : monitor_unconfirmed(i) \/ monitor_confirmed(i)
  \/ \E c \in checks : check_callback_called(c)
============================================================================
