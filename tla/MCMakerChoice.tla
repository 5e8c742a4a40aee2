---------------------------- MODULE MCMakerChoice ----------------------------
EXTENDS MakerChoice, Podle, TLC

CONSTANTS m1, m2, m3

Offer(m, rel, fee, min, max, tx) ==
  [counterparty |-> m, rel |-> rel, cjfee |-> fee, minsize |-> min,
   maxsize |-> max, txfee |-> tx]

(* m1 has a cheap offer for small amounts and a dear one without limit; a  *)
(* sweep of 1000 comes to an amount above or below the minimum of one of   *)
(* m2's, depending on the other maker.                                     *)
MCOffers ==
  { Offer(m1, FALSE, 7, 0, 600, 0), Offer(m1, TRUE, 3, 0, 2000, 1),
    Offer(m2, FALSE, 9, 950, 2000, 2), Offer(m2, FALSE, 9, 100, 2000, 1),
    Offer(m3, TRUE, 2, 0, 2000, 0) }

(* The larger coin alone pays for 500 with m1, not with m2 and m3.         *)
CONSTANTS u1, u2
MCValue == (u1 :> 463) @@ (u2 :> 537)

ASSUME FeesAreModest == ModestFees

(* The scheme behind the commitments, in a small group and with some       *)
(* function of all the coefficients for the hash.                          *)
Coefficients(P) == P[G] + 3 * P[0] + 5 * P[1] + 7 * P[2]
MCSha256(KG, KJ, P, P2) ==
  (Coefficients(KG) + 11 * Coefficients(KJ) + 13 * Coefficients(P)
     + 17 * Coefficients(P2)) % Order

ASSUME PodleIsRight ==
  /\ OpeningVerifies(1..(Order - 1), {1, 4, Order - 1})
  /\ CommitmentIsOfKeyAndIndex(1..20, {1, 9})

(* The algorithms against what a selection must be: up to four coins of 1  *)
(* to 4, equal ones among them, and every amount they could be asked for.  *)
ASSUME SelectionsAreRight ==
  \A a \in MergeAlgorithms : \A v \in [1..4 -> 0..4] : \A amount \in 1..17 :
    LET coins == {[utxo |-> i, value |-> v[i]] : i \in {j \in 1..4 : v[j] > 0}}
    IN IsSelection(a, coins, amount, Selected(a, coins, amount))

(* The rates of every kind of answer: not too high, and accepted by the    *)
(* node except when it has no estimate and accepts nothing as low as the   *)
(* default.                                                                *)
Fee == INSTANCE FeeRate WITH NoAnswer <- -3, RpcError <- -4

Estimates == [1..3 -> {-3, -4, 0, 1000, 22000}]

ASSUME RatesAreRight ==
  \A tx_fees \in {1, 2, 1001, 19900, 25000} : \A factor \in {0, 1} :
    \A min \in {-3, 1000, 20000, 24000} : \A estimate \in Estimates :
      LET manual == Fee!fee_per_kb_has_been_manually_set(tx_fees)
          core == IF manual THEN Fee!None ELSE Fee!_estimate_fee_basic(tx_fees, estimate)
          asked == IF manual THEN tx_fees
                   ELSE IF core = Fee!None THEN Fee!fallback_fee ELSE core
      IN \A rate \in Fee!estimate_fee_per_kb(tx_fees, factor, min, estimate) :
           /\ Fee!NotTooHigh(rate, asked, factor, min)
           /\ \/ Fee!Accepted(rate, min)
              \/ ~manual /\ core = Fee!None /\ min > Fee!fallback_fee
           /\ Fee!estimate_tx_fee(200, rate, 24000) <= 4800

ASSUME DefaultMayBeRefused ==
  \E rate \in Fee!estimate_fee_per_kb(3, 0, 24000, [t \in 1..3 |-> 0]) :
    ~Fee!Accepted(rate, 24000)
=============================================================================
