----------------------------- MODULE PayjoinTx -----------------------------
(***************************************************************************)
(* The transactions of a payjoin (payjoin.py): the original payment, the   *)
(* receiver's proposal built on it, the check the sender makes of that     *)
(* proposal, and the mempool of Bitcoin Core, in which both spend the same *)
(* coin.                                                                   *)
(*                                                                         *)
(* A transaction is what the checks can tell apart: whose change script it *)
(* pays, the coins it spends, what goes to the payment, to the change and  *)
(* to the fee, and whether the rest of its shape (script types, sequence   *)
(* numbers, locktime, version, no key data, fee rate) is as it should be.  *)
(***************************************************************************)
EXTENDS Integers, FiniteSets, FiniteSetsExt

CONSTANTS
  Attempts,     \* payments that are tried through payjoin
  SCoins,       \* the coins of the sender
  RCoin,        \* the coin of the receiver
  WChange,      \* a coin of another sender, worth more than it pays
  WExact,       \* a coin of another sender, which it spends to the end
  TheirCoin,    \* a coin of another receiver
  Nobody,       \* no change script, no attempt
  Amount,       \* the amount asked for
  Change,       \* the change of an original payment
  Fee,          \* the fee of an original payment
  RValue,       \* the value of the receiver's coin
  InputFee,     \* the fee of one more input, at the rate of the original
  Mafc          \* maxadditionalfeecontribution

ASSUME PayjoinAssumption ==
  /\ {Amount, Fee, RValue, InputFee} \subseteq Nat \ {0}
  /\ {Change, Mafc} \subseteq Nat
  /\ Nobody \notin Attempts
  /\ {WChange, WExact} \cap SCoins = {} /\ WChange # WExact
  /\ RCoin \notin SCoins \cup {WChange, WExact}

VARIABLE pool           \* the transactions in the mempool

-----------------------------------------------------------------------------
Tx(chg, coins, pay, change, fee) ==
  [chg |-> chg, coins |-> coins, pay |-> pay, change |-> change, fee |-> fee,
   shape |-> TRUE]

\* direct_send of a nonzero amount always has a change; another wallet may
\* spend its coin to the end.
Original(a, c) == IF c = WExact THEN Tx(Nobody, {c}, Amount, 0, Fee)
                                ELSE Tx(a, {c}, Amount, Change, Fee)

\* request_to_psbt: the receiver adds its coin to the payment and takes the
\* fee of its input from the change if the sender allows for that.
FeeBump(allowed) == IF allowed THEN Min({InputFee, Mafc}) ELSE 0

payjoin_psbt(o, bump) ==
  Tx(o.chg, o.coins \cup {RCoin}, o.pay + RValue, o.change - bump, o.fee + bump)

\* The original has no change, but the manager still has one of an earlier
\* request: an output that nobody funds.
payjoin_psbt_stale(o, old) ==
  Tx(old.chg, o.coins \cup {RCoin}, o.pay + RValue, old.change, o.fee - old.change)

-----------------------------------------------------------------------------
(* The sender's checks, numbered as in check_receiver_proposal.            *)

\* 6: the change is there, and what it lost is fee, and not too much of it.
change_checked(o, p) ==
  o.chg # Nobody =>
    /\ p.chg = o.chg
    /\ o.change - p.change <= p.fee - o.fee
    /\ o.change - p.change <= Mafc

change_checked_for_mafc_only(o, p) == p.chg = o.chg => o.change - p.change <= Mafc

\* Mutant: nothing is asked of the fee.
fee_unchecked(o, p, nosub) ==
  /\ o.coins \subseteq p.coins
  /\ nosub => p.pay >= Amount
  /\ p.shape
  /\ o.chg # Nobody => p.chg = o.chg /\ o.change - p.change <= Mafc

\* Mutant: the fee may be taken from the change without being paid.
change_unchecked(o, p, nosub) ==
  /\ o.coins \subseteq p.coins
  /\ nosub => p.pay >= Amount
  /\ p.shape
  /\ p.fee >= o.fee
  /\ change_checked_for_mafc_only(o, p)

\* nosub: the request forbade output substitution.
check_receiver_proposal(o, p, nosub) ==
  /\ o.coins \subseteq p.coins          \* 1
  /\ nosub => p.pay >= Amount           \* 2
  /\ p.fee >= o.fee                     \* 4
  /\ change_checked(o, p)               \* 6
  /\ p.shape                            \* 3, 5, 7, 8, 9

\* What another implementation of the receiver may propose.
OtherProposals(o) ==
  [chg : {o.chg, Nobody}, coins : {o.coins \cup {TheirCoin}, {TheirCoin}},
   pay : {0, Amount}, change : {0, o.change - 1, o.change},
   fee : {o.fee - 1, o.fee, o.fee + 1}, shape : BOOLEAN]

-----------------------------------------------------------------------------
(* The mempool. *)

Conflicts(t) == {u \in pool \ {t} : u.coins \cap t.coins # {}}

\* A transaction may replace those it conflicts with if it pays more: the
\* originals signal that they are replaceable, and a proposal keeps that.
Acceptable(t) == t.fee >= 0 /\ \A u \in Conflicts(t) : u.fee < t.fee

\* testmempoolaccept refuses what is in the pool already, too.
testmempoolaccept(t) == Acceptable(t) /\ t \notin pool

\* pushtx succeeds, or fails although the node might have taken it.
pushtx(t, ok) ==
  IF ok
    THEN Acceptable(t) /\ pool' = (pool \ Conflicts(t)) \cup {t}
    ELSE UNCHANGED pool
=============================================================================
