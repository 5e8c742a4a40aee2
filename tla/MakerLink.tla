----------------------------- MODULE MakerLink -----------------------------
(***************************************************************************)
(* What the two halves of a maker share: the offers it makes, the orders   *)
(* takers place, the transactions they propose, the AMP connection between *)
(* client and daemon, and the Bitcoin network.                             *)
(*                                                                         *)
(* Takers speak the protocol in order: !auth after !pubkey, !tx after an   *)
(* !ioauth whose signature fits the key of their !fill.  They may start    *)
(* over with a new !fill at any time, stop at any point, and propose a     *)
(* transaction that does not pay what it should.  What is encrypted for    *)
(* the key of an earlier !fill cannot be read and is not delivered.        *)
(***************************************************************************)
EXTENDS Integers, Sequences, FiniteSets, FiniteSetsExt

CONSTANTS
  Takers,          \* nicks of the takers
  Commits,         \* PoDLE commitments
  Amounts,         \* coinjoin amounts that takers ask for
  Coins,           \* the coins in the wallet at the start, all confirmed:
                   \* <<mixdepth, i>> with i < 0
  CoinValue,       \* coin -> value
  MaxMixdepth,     \* wallet_service.mixdepth
  DustThreshold,   \* jm_single().DUST_THRESHOLD
  TxFee,           \* txfee_contribution
  CjFee,           \* calc_cj_fee of our offer: amount -> fee
  MinSize,         \* minsize of our offer
  SerialTakers,    \* TRUE: a nick proposes no transaction before the one it
                   \* had signed earlier is confirmed in our wallet
  ConfirmInTime,   \* TRUE: transactions confirm within confirm_timeout_hours
  MaxFills,        \* bound: !fill messages in one behaviour
  MaxCrashes       \* bound: crashes in one behaviour

ASSUME MakerAssumption ==
  /\ IsFiniteSet(Takers) /\ IsFiniteSet(Commits) /\ IsFiniteSet(Coins)
  /\ Amounts \subseteq Nat /\ IsFiniteSet(Amounts)
  /\ MaxMixdepth \in Nat
  /\ \A c \in Coins : c[1] \in 0..MaxMixdepth /\ c[2] \in Int /\ c[2] < 0
  /\ CoinValue \in [Coins -> Nat]
  /\ DustThreshold \in Nat /\ TxFee \in Nat /\ MinSize \in Nat
  /\ CjFee \in [Amounts -> Nat]
  /\ SerialTakers \in BOOLEAN /\ ConfirmInTime \in BOOLEAN
  /\ MaxFills \in Nat /\ MaxCrashes \in Nat

VARIABLES
  up,      \* calls in flight from the client to the daemon
  down,    \* calls in flight from the daemon to the client
  net,     \* the transactions on the network that touch our wallet, in the
           \* order they appeared: [tx, conf]
  fills,   \* number of !fill messages so far
  crashes  \* number of crashes so far

linkVars == <<up, down, net, fills, crashes>>

Mixdepths == 0..MaxMixdepth

(* An internal address of the wallet: mixdepth and index.  Every order     *)
(* takes two new ones.                                                     *)
Addresses == Mixdepths \X (0..(2 * MaxFills))
CoinIds == Coins \cup Addresses

(* The inputs of ours that a transaction spends, and its outputs to        *)
(* addresses of ours, in order.                                            *)
IsTx(t) ==
  /\ t.ins \subseteq CoinIds
  /\ t.outs \in Seq(Addresses \X Int)

NoTx == [ins |-> {}, outs |-> <<>>]

SumValues(utxos) == MapThenSumSet(LAMBDA u : u.value, utxos)

(* What ioauth hands to the taker, kept by the daemon as the fields utxos, *)
(* cjaddr and changeaddr of active_orders[nick]; `fill` is the number of   *)
(* the !fill whose commitment was opened for it.                           *)
NoGrant == [utxos |-> {}, cjaddr |-> <<0, 0>>, changeaddr |-> <<0, 0>>,
            fill |-> 0, commit |-> "none"]

ExpectedChange(o) ==
  SumValues(o.grant.utxos) - o.amount - TxFee + CjFee[o.amount]

(* The transactions a taker may propose for an order: the one it should,   *)
(* and some that are wrong in one place.                                   *)
ProposedTxs(o) ==
  LET ids == {u.id : u \in o.grant.utxos}
      cj(v) == <<o.grant.cjaddr, v>>
      ch(v) == <<o.grant.changeaddr, v>>
      a == o.amount
      c == ExpectedChange(o)
  IN  { [ins |-> ids, outs |-> <<cj(a), ch(c)>>],
        [ins |-> ids, outs |-> <<cj(a - 1), ch(c + 1)>>],
        [ins |-> ids, outs |-> <<ch(c - CjFee[a] - 1), cj(a)>>],
        [ins |-> ids, outs |-> <<cj(a)>>],
        [ins |-> ids, outs |-> <<cj(a), cj(a), ch(c)>>] }
      \cup { [ins |-> ids \ {i}, outs |-> <<cj(a), ch(c)>>] : i \in ids }

NetTxs == {net[i].tx : i \in DOMAIN net}

(* A node takes a transaction none of whose inputs is spent.               *)
Broadcastable(t) == \A u \in NetTxs : t.ins \cap u.ins = {}

DaemonGets(type) == up # <<>> /\ Head(up).type = type
ClientGets(type) == down # <<>> /\ Head(down).type = type

(* A block contains an unconfirmed transaction.                            *)
Confirm ==
  \E i \in DOMAIN net :
    /\ ~net[i].conf
    /\ net' = [net EXCEPT ![i].conf = TRUE]
    /\ UNCHANGED <<up, down, fills, crashes>>

LinkInit ==
  /\ up = <<>>
  /\ down = <<[type |-> "JMUp"]>>
  /\ net = <<>>
  /\ fills = 0
  /\ crashes = 0
============================================================================
