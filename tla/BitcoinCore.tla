---------------------------- MODULE BitcoinCore ----------------------------
(***************************************************************************)
(* Bitcoin Core as the wallet of JoinMarket sees it through                *)
(* blockchaininterface.py: the transactions that reached it, the addresses *)
(* imported into its watch-only wallet, and the calls that read them.      *)
(*                                                                         *)
(* A transaction has at most one input and at most one output that matter  *)
(* to the wallet, so the name of a transaction also names its coin.        *)
(***************************************************************************)
EXTENDS Integers, Sequences, FiniteSets

CONSTANTS
  Txs,          \* transactions, and the coins they create
  NoTx,         \* the input of a transaction that spends no coin of ours
  Branches,     \* the branches of the key tree, external and internal
  Bond,         \* the branch of the timelocked addresses
  Tweaks,       \* the keys that SNICKER proposals can derive, one address each
  MaxIndex,     \* bound: addresses handed out or paid on each branch
  GapLimit      \* POLICY gaplimit, addresses imported ahead of the index

ASSUME CoreAssumption ==
  /\ MaxIndex \in Nat \ {0}
  /\ GapLimit \in Nat \ {0}
  /\ NoTx \notin Txs
  /\ Bond \notin Branches
  /\ Tweaks \cap (Branches \cup {Bond, "elsewhere"}) = {}

\* The addresses of the key tree; those past MaxIndex are gap addresses only.
HD == Branches \X (0 .. MaxIndex + GapLimit - 1)
BondAddress == <<Bond, 0>>
TweakAddress(k) == <<k, 0>>
Addresses == HD \cup {BondAddress} \cup {TweakAddress(k) : k \in Tweaks}
Elsewhere == <<"elsewhere", 0>>

VARIABLES
  tx,           \* Txs -> what Core knows of the transaction
  watched       \* addresses imported under the wallet's label

coreVars == <<tx, watched>>

Unseen == [st |-> "none", spends |-> NoTx, addr |-> Elsewhere, mine |-> FALSE]

TxRecord == [st : {"none", "mempool", "mined", "conflict"},
             spends : Txs \cup {NoTx},
             addr : Addresses \cup {Elsewhere},
             mine : BOOLEAN]

CoreInit ==
  /\ tx = [t \in Txs |-> Unseen]
  /\ watched = {}

Live(t) == tx[t].st \in {"mempool", "mined"}
SpentBy(t, u) == tx[u].spends = t /\ Live(u)

-----------------------------------------------------------------------------
(* The calls of the interface. *)

\* get_transaction: the confirmations, -1 for a conflict, and 1 for any depth.
get_transaction(t) == CASE tx[t].st = "mined" -> 1
                        [] tx[t].st = "mempool" -> 0
                        [] OTHER -> -1

\* listunspent with minconf 0, as jmwalletd, the GUI and wallet-tool set it.
listunspent ==
  {t \in Txs : Live(t) /\ tx[t].mine /\ ~\E u \in Txs : SpentBy(t, u)}

\* listaddressgroupings: every address of the label that was ever paid.
listaddressgroupings ==
  {tx[t].addr : t \in {s \in Txs : tx[s].st # "none" /\ tx[s].mine}}

\* yield_transactions, the addresses of its "receive" entries.
yield_receiving == listaddressgroupings

import_addresses(addrs) == watched' = watched \cup addrs

import_needed(addrs) == ~(addrs \subseteq watched)

-----------------------------------------------------------------------------
(* What the network does. *)

Arrive(t, spends, addr) ==
  /\ tx[t].st = "none"
  /\ tx' = [tx EXCEPT ![t] = [st |-> "mempool", spends |-> spends,
                              addr |-> addr, mine |-> addr \in watched]]

\* sendrawtransaction succeeds only when the coin is there and unspent.
pushtx(t, spends, addr) ==
  /\ Live(spends) /\ ~\E u \in Txs : SpentBy(spends, u)
  /\ Arrive(t, spends, addr)

\* A block is mined with t, whose input is already in a block.
Mine(t) ==
  /\ tx[t].st = "mempool"
  /\ tx[t].spends # NoTx => tx[tx[t].spends].st = "mined"
  /\ tx' = [tx EXCEPT ![t].st = "mined"]
  /\ UNCHANGED watched

\* Another transaction that spends the same input is mined instead of t.
Conflict(t) ==
  /\ tx[t].st = "mempool"
  /\ ~\E u \in Txs : SpentBy(t, u)
  /\ tx' = [tx EXCEPT ![t].st = "conflict"]
  /\ UNCHANGED watched

\* rescanblockchain: the mined transactions of every imported address are
\* found, however old they are.
rescanblockchain ==
  /\ tx' = [t \in Txs |-> [tx[t] EXCEPT !.mine =
              @ \/ (tx[t].st = "mined" /\ tx[t].addr \in watched)]]
  /\ UNCHANGED watched

CoreTypeOK ==
  /\ tx \in [Txs -> TxRecord]
  /\ watched \subseteq Addresses
=============================================================================
