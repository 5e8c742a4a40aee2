------------------------------- MODULE FeeRate -------------------------------
(***************************************************************************)
(* The fee rate of a transaction (src/jmclient/blockchaininterface.py,     *)
(* wallet.py): a target in blocks, which Bitcoin Core turns into a rate,   *)
(* or a rate the user has set; spread at random by tx_fees_factor (here in *)
(* percent) and never below what the node's mempool accepts.               *)
(*                                                                         *)
(* A rate is a number of satoshis per 1000 vbytes.  The answers of Core:   *)
(* "mempoolminfee", and for a target its estimate, with 0 for an answer    *)
(* that holds none; NoAnswer when the connection fails, RpcError when Core *)
(* refuses the call.                                                       *)
(***************************************************************************)
EXTENDS Integers

CONSTANTS NoAnswer, RpcError

None == -1
fallback_fee == 20000

fee_per_kb_has_been_manually_set(tx_fees) == tx_fees > 1000

(* int(random.uniform(rate, rate * (1 + factor)))                          *)
Randomized(rate, factor) == rate..((rate * (100 + factor)) \div 100)

_get_mempool_min_fee(mempoolminfee) == IF mempoolminfee = NoAnswer THEN None ELSE mempoolminfee

(* For the next block, where Core often has none, the estimate for two     *)
(* blocks will do.                                                         *)
_estimate_fee_basic(conf_target, estimate) ==
  LET Fails(t) == estimate[t] = NoAnswer
      Holds(t) == estimate[t] \notin {NoAnswer, RpcError, 0}
      second == conf_target = 1 /\ ~Fails(1) /\ Holds(2)
  IN IF Holds(conf_target) THEN estimate[conf_target]
     ELSE IF second THEN estimate[2] ELSE None

(* The rates that estimate_fee_per_kb may return                           *)
AtLeast(rates, mempool_min, factor) ==
  {r \in rates : r >= mempool_min}
    \cup IF \E r \in rates : r < mempool_min THEN Randomized(mempool_min, factor) ELSE {}

estimate_fee_per_kb(tx_fees, factor, mempoolminfee, estimate) ==
  LET min == _get_mempool_min_fee(mempoolminfee)
      mempool_min == IF min = None THEN fallback_fee ELSE min
  IN IF fee_per_kb_has_been_manually_set(tx_fees)
       THEN AtLeast(Randomized(tx_fees, factor), mempool_min, factor)
       ELSE LET rate == _estimate_fee_basic(tx_fees, estimate)
            IN IF rate = None THEN Randomized(fallback_fee, factor)
               ELSE AtLeast(Randomized(rate, factor), mempool_min, factor)

(* estimate_tx_fee, for a transaction of so many vbytes: Absurd stands for *)
(* the error that ends the program.                                        *)
Absurd == -2
estimate_tx_fee(vbytes, rate, absurd_fee_per_kb) ==
  IF rate > absurd_fee_per_kb THEN Absurd ELSE (vbytes * rate) \div 1000

(***************************************************************************)
(* What a rate must be: accepted by the node, if it said what it accepts,  *)
(* and no higher than the spread of the larger of what was asked for and   *)
(* what the node accepts.                                                  *)
(***************************************************************************)
Accepted(rate, mempoolminfee) == mempoolminfee # NoAnswer => rate >= mempoolminfee

NotTooHigh(rate, asked, factor, mempoolminfee) ==
  \E r \in {asked, IF mempoolminfee = NoAnswer THEN fallback_fee ELSE mempoolminfee} :
    rate \in Randomized(r, factor)
=============================================================================
