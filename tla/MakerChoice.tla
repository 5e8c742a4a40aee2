----------------------------- MODULE MakerChoice -----------------------------
(***************************************************************************)
(* How a taker comes to its makers: the choice of orders for an amount or  *)
(* for a sweep, with the makers to avoid; the PoDLE commitment that pays   *)
(* for asking them; and what becomes of makers that do not answer.         *)
(*                                                                         *)
(* One taker at a time runs in the wallet daemon.  The choice itself is    *)
(* synchronous code, taken step by step here because each step is random:  *)
(* nothing else happens in the phases "choosing", "chosen" and "prepared". *)
(* Fees are in satoshis, relative ones in percent.                         *)
(***************************************************************************)
EXTENDS MakerPenalties, CoinSelection

CONSTANTS
  Offers,       \* the order book: [counterparty, rel, cjfee, minsize, maxsize, txfee]
  N,            \* makers to choose
  Amount,       \* of a coinjoin that is not a sweep
  TxFee,        \* the estimated fee of the transaction
  MaxAbs, MaxRel,  \* max_cj_fee, the second in percent
  RelaxCooldowns,  \* taker_relax_stage2_cooldown_on_low_liquidity
  Coins,        \* of the mixdepth
  Value,        \* [Coins -> Nat]: what each is worth
  MergeAlgorithm, \* merge_algorithm
  External,     \* utxos with external commitments
  Reveals,      \* openings given for each of them
  Tries,        \* taker_utxo_retries
  MaxRetries,   \* taker_max_maker_replacement_attempts
  Judged,       \* bound: the makers an operator bans and unbans
  MaxRuns       \* bound: takers started

ASSUME ChoiceAssumption ==
  /\ IsFiniteSet(Offers)
  /\ \A o \in Offers :
       /\ o.counterparty \in Makers /\ o.rel \in BOOLEAN
       /\ {o.cjfee, o.minsize, o.maxsize, o.txfee} \subseteq Nat
  /\ N \in Nat \ {0} /\ Judged \subseteq Makers
  /\ {Amount, TxFee, MaxAbs, MaxRel, MaxRetries, MaxRuns} \subseteq Nat
  /\ Amount > 0 /\ Value \in [Coins -> Nat \ {0}] /\ IsFiniteSet(Coins)
  /\ MergeAlgorithm \in MergeAlgorithms
  /\ RelaxCooldowns \in BOOLEAN
  /\ Tries \in Nat \ {0} /\ Reveals \in Nat \ {0}

VARIABLES
  runs,
  phase,       \* "idle", "choosing", "chosen", "prepared", "filled", "stage2"
  sweep,
  hard_excluded_makers, cooldown_makers, ignored_makers,
  failed,      \* makers that failed this taker in stage 1 (history)
  pass,        \* index in the exclusion passes
  pool,        \* offers still to choose from
  chosen_orders,
  cj_amount, total_fee,
  input_utxos, \* the coins to spend
  retries,
  used,        \* the commitments file: [utxo, index]
  commitments  \* how often each was sent (2: more than once)

choiceVars == <<pass, pool, chosen_orders, cj_amount, total_fee, input_utxos>>
runVars == <<runs, sweep, hard_excluded_makers, cooldown_makers>>
commitVars == <<used, commitments>>
vars == <<penaltyVars, runVars, phase, ignored_makers, failed, choiceVars,
          retries, commitVars>>

Commitments == [utxo : Coins \cup External, index : 0..Tries]

AsCoins(us) == {[utxo |-> u, value |-> Value[u]] : u \in us}
Total == Worth(AsCoins(Coins))

TypeOK ==
  /\ PenaltyTypeOK
  /\ runs \in 0..MaxRuns
  /\ phase \in {"idle", "choosing", "chosen", "prepared", "filled", "stage2"}
  /\ sweep \in BOOLEAN
  /\ hard_excluded_makers \subseteq Makers /\ cooldown_makers \subseteq Makers
  /\ ignored_makers \subseteq Makers /\ failed \subseteq Makers
  /\ pass \in 1..2
  /\ pool \subseteq Offers
  /\ chosen_orders \subseteq Offers /\ Cardinality(chosen_orders) <= N
  /\ cj_amount \in Int /\ total_fee \in Int
  /\ input_utxos \subseteq Coins
  /\ retries \in 0..MaxRetries
  /\ used \subseteq Commitments /\ commitments \in [Commitments -> 0..2]

Init ==
  /\ PenaltyInit
  /\ runs = 0 /\ phase = "idle" /\ sweep = FALSE
  /\ hard_excluded_makers = {} /\ cooldown_makers = {}
  /\ ignored_makers = {} /\ failed = {}
  /\ pass = 1 /\ pool = {} /\ chosen_orders = {}
  /\ cj_amount = 0 /\ total_fee = 0 /\ retries = 0
  /\ input_utxos = {}
  /\ used = {} /\ commitments = [c \in Commitments |-> 0]

(***************************************************************************)
(* Fees                                                                    *)
(***************************************************************************)

(* Decimal.quantize(1): a/b to the nearest integer, half to even.          *)
Quantize(a, b) ==
  LET q == a \div b
      r == a % b
  IN IF 2 * r < b \/ (2 * r = b /\ q % 2 = 0) THEN q ELSE q + 1

calc_cj_fee(o, amount) == IF o.rel THEN Quantize(o.cjfee * amount, 100) ELSE o.cjfee

WithinMaxLimits(fee, amount) == ~(fee > MaxAbs /\ 100 * fee > MaxRel * amount)

(* calc_zero_change_cj_amount                                              *)
SumAbs(os) == SumFunction([o \in os |-> IF o.rel THEN 0 ELSE o.cjfee])
SumRel(os) == SumFunction([o \in os |-> IF o.rel THEN o.cjfee ELSE 0])
MyTxFee(os) ==
  LET s == SumFunction([o \in os |-> o.txfee])
  IN IF TxFee > s THEN TxFee - s ELSE 0

ZeroChangeAmount(os) ==
  Quantize((Total - MyTxFee(os) - SumAbs(os)) * 100, 100 + SumRel(os))
ZeroChangeFee(os, amount) == SumAbs(os) + (SumRel(os) * amount) \div 100

(***************************************************************************)
(* Order choice                                                            *)
(***************************************************************************)

(* Mutant: the second pass admits the excluded makers, too.                *)
ExclusionPasses_all_relaxed(ignored, hard, cooling) ==
  << ignored \cup hard \cup cooling, ignored >>

(* _exclusion_passes, without soft ignored makers, which no program sets.  *)
ExclusionPasses(ignored, hard, cooling) ==
  LET firm == ignored \cup hard
  IN IF RelaxCooldowns /\ cooling \ firm # {} THEN << firm \cup cooling, firm >>
     ELSE << firm \cup cooling >>

Suitable(o, excluded, swp) ==
  /\ o.counterparty \notin excluded
  /\ IF swp THEN /\ o.minsize < Total /\ o.maxsize > Total - TxFee
                 /\ WithinMaxLimits(calc_cj_fee(o, Total), Total)
     ELSE /\ o.minsize < Amount /\ o.maxsize > Amount
          /\ WithinMaxLimits(calc_cj_fee(o, Amount) - o.txfee, Amount)

RankFee(o, swp) == IF swp THEN calc_cj_fee(o, Total) ELSE calc_cj_fee(o, Amount) - o.txfee
SumOfFees(os) == SumFunction([o \in os |-> RankFee(o, FALSE)])

(* One offer of each maker, the cheapest; which of equal ones depends on   *)
(* the order of the book.                                                  *)
CheapestPools(excluded, swp) ==
  LET os == {o \in Offers : Suitable(o, excluded, swp)}
  IN {p \in SUBSET os :
        /\ \A o \in os : \E c \in p : c.counterparty = o.counterparty
        /\ \A c \in p : \A o \in os :
             o.counterparty = c.counterparty => RankFee(c, swp) <= RankFee(o, swp)
        /\ \A c, d \in p : c.counterparty = d.counterparty => c = d}

CurrentPasses == ExclusionPasses(ignored_makers, hard_excluded_makers, cooldown_makers)

(* The first step of _choose_orders_once and _choose_sweep_orders_once.    *)
EnterPass(i, excluded, swp) ==
  /\ pass' = i
  /\ pool' \in CheapestPools(excluded, swp)
  /\ chosen_orders' = {}
  /\ UNCHANGED <<cj_amount, total_fee, input_utxos>>

ShortOfOrders == Cardinality(pool) < N - Cardinality(chosen_orders)

(* chooseOrdersBy: every choosing function may return any of the orders.   *)
ChooseOrder(o) ==
  /\ phase = "choosing"
  /\ ~ShortOfOrders /\ Cardinality(chosen_orders) < N
  /\ chosen_orders' = chosen_orders \cup {o}
  /\ pool' = {x \in pool : x.counterparty # o.counterparty}
  /\ UNCHANGED <<penaltyVars, runVars, phase, ignored_makers, failed, pass,
                 cj_amount, total_fee, input_utxos, retries, commitVars>>

OrdersChosen ==
  /\ phase = "choosing" /\ ~sweep
  /\ Cardinality(chosen_orders) = N
  /\ phase' = "chosen"
  /\ cj_amount' = Amount
  /\ total_fee' = SumOfFees(chosen_orders)
  /\ UNCHANGED <<penaltyVars, runVars, ignored_makers, failed, pass, pool,
                 chosen_orders, input_utxos, retries, commitVars>>

(* Mutant: the sizes of the offers are not looked at again.                *)
SweepOrdersChosen_unchecked ==
  /\ phase = "choosing" /\ sweep
  /\ Cardinality(chosen_orders) = N
  /\ cj_amount' = ZeroChangeAmount(chosen_orders)
  /\ total_fee' = ZeroChangeFee(chosen_orders, cj_amount')
  /\ phase' = "chosen"
  /\ UNCHANGED <<penaltyVars, runVars, ignored_makers, failed, pass, pool,
                 chosen_orders, input_utxos, retries, commitVars>>

(* A sweep finds its amount when the makers are known, and gives up those  *)
(* whose offers do not allow it.                                           *)
SweepOrdersChosen ==
  /\ phase = "choosing" /\ sweep
  /\ Cardinality(chosen_orders) = N
  /\ cj_amount' = ZeroChangeAmount(chosen_orders)
  /\ total_fee' = ZeroChangeFee(chosen_orders, cj_amount')
  /\ chosen_orders' = {o \in chosen_orders : o.minsize <= cj_amount' /\ cj_amount' <= o.maxsize}
  /\ phase' = IF chosen_orders' = chosen_orders THEN "chosen" ELSE "choosing"
  /\ UNCHANGED <<penaltyVars, runVars, ignored_makers, failed, pass, pool,
                 input_utxos, retries, commitVars>>

(***************************************************************************)
(* A taker's run                                                           *)
(***************************************************************************)

(* docoinjoin asks for the penalties once, at the start.                   *)
docoinjoin(swp) ==
  /\ phase = "idle" /\ runs < MaxRuns
  /\ runs' = runs + 1
  /\ sweep' = swp
  /\ prune_stage2_maker_cooldowns
  /\ cooldown_makers' = get_active_stage2_maker_cooldowns
  /\ hard_excluded_makers' = get_active_taker_hard_bans
  /\ ignored_makers' = {} /\ failed' = {} /\ retries' = 0
  /\ phase' = "choosing"
  /\ EnterPass(1, ExclusionPasses({}, hard_excluded_makers', cooldown_makers')[1], swp)
  /\ UNCHANGED <<now, commitVars>>

(* The daemon drops the taker, and all it knew.                            *)
EndRun ==
  /\ phase' = "idle"
  /\ pool' = {} /\ chosen_orders' = {} /\ pass' = 1
  /\ cj_amount' = 0 /\ total_fee' = 0 /\ retries' = 0
  /\ input_utxos' = {}
  /\ hard_excluded_makers' = {} /\ cooldown_makers' = {}
  /\ ignored_makers' = {} /\ failed' = {} /\ sweep' = FALSE
  /\ UNCHANGED runs

(* Too few orders: the next pass, or the end of the run.                   *)
NextPass ==
  /\ phase = "choosing" /\ ShortOfOrders
  /\ \/ /\ pass < Len(CurrentPasses)
        /\ EnterPass(pass + 1, CurrentPasses[pass + 1], sweep)
        /\ UNCHANGED <<phase, runVars, ignored_makers, failed, retries>>
     \/ /\ pass = Len(CurrentPasses)
        /\ EndRun
  /\ UNCHANGED <<penaltyVars, commitVars>>

(* get_podle_tries: one more than the highest index that was used.         *)
get_podle_tries(u, max) ==
  LET mine == {i \in 0..(max - 1) : [utxo |-> u, index |-> i] \in used}
  IN IF mine = {} THEN 0 ELSE (CHOOSE i \in mine : \A j \in mine : j <= i) + 1

LeastOf(a, b) == IF a < b THEN a ELSE b

(* Mutant: the commitment is not written down as used.                     *)
update_commitments_not(c) ==
  /\ used' = used
  /\ commitments' = [commitments EXCEPT ![c] = LeastOf(@ + 1, 2)]

(* generate_podle writes the file before the commitment is returned.       *)
update_commitments(c) ==
  /\ used' = used \cup {c}
  /\ commitments' = [commitments EXCEPT ![c] = LeastOf(@ + 1, 2)]

(* prepare_my_bitcoin_data: the coins to spend, of the confirmed and       *)
(* enabled ones for an amount, all there are for a sweep (whose orders are *)
(* chosen in between).  The fee was estimated high.  Too few coins, or     *)
(* orders that filter_orders_callback refuses, end the run.                *)
PaymentCost == cj_amount + total_fee + TxFee

prepare_my_bitcoin_data(spendable) ==
  /\ phase = "chosen"
  /\ LET selected == Selected(MergeAlgorithm, AsCoins(spendable), PaymentCost)
     IN \/ /\ sweep \/ selected # NotEnough
           /\ input_utxos' = IF sweep THEN Coins ELSE {c.utxo : c \in selected}
           /\ phase' = "prepared"
           /\ UNCHANGED <<runVars, ignored_makers, failed, pass, pool, chosen_orders,
                          cj_amount, total_fee, retries>>
        \/ EndRun
  /\ UNCHANGED <<penaltyVars, commitVars>>

Filled ==
  /\ phase' = "filled"
  /\ UNCHANGED <<runVars, ignored_makers, failed, choiceVars, retries>>

(* make_commitment: of the inputs, then of the mixdepth, then of the       *)
(* external ones, those that are old and large enough.                     *)
make_commitment(old) ==
  /\ phase = "prepared"
  /\ LET unspent == {u \in old \cap Coins : get_podle_tries(u, Tries) < Tries}
         own == IF unspent \cap input_utxos # {} THEN unspent \cap input_utxos
                                                ELSE unspent
         given == {u \in old \cap External :
                     get_podle_tries(u, LeastOf(Reveals, Tries)) < Tries}
     IN \/ \E u \in own :
             /\ update_commitments([utxo |-> u, index |-> get_podle_tries(u, Tries)])
             /\ Filled
        \/ /\ own = {}
           /\ \E u \in given :
                LET i == get_podle_tries(u, LeastOf(Reveals, Tries))
                IN \/ /\ i < Reveals
                      /\ update_commitments([utxo |-> u, index |-> i])
                      /\ Filled
                   \/ /\ i >= Reveals     \* ec["reveal"][tries]: KeyError
                      /\ EndRun
                      /\ UNCHANGED commitVars
        \/ /\ own = {} /\ given = {}
           /\ EndRun
           /\ UNCHANGED commitVars
  /\ UNCHANGED penaltyVars

ChosenMakers == {o.counterparty : o \in chosen_orders}

(* Makers miss stage 1: prepare_maker_selection_retry chooses again, as    *)
(* often as the policy allows.                                             *)
prepare_maker_selection_retry(ms) ==
  /\ phase = "filled" /\ ms # {} /\ ms \subseteq ChosenMakers
  /\ \/ /\ retries < MaxRetries
        /\ retries' = retries + 1
        /\ failed' = failed \cup ms
        /\ ignored_makers' = ignored_makers \cup ms
        /\ phase' = "choosing"
        /\ EnterPass(1, ExclusionPasses(ignored_makers', hard_excluded_makers, cooldown_makers)[1], sweep)
        /\ UNCHANGED runVars
     \/ /\ retries = MaxRetries
        /\ EndRun
  /\ UNCHANGED <<penaltyVars, commitVars>>

receive_utxos ==
  /\ phase = "filled"
  /\ phase' = "stage2"
  /\ UNCHANGED <<penaltyVars, runVars, ignored_makers, failed, choiceVars,
                 retries, commitVars>>

(* All signatures arrive, or the watchdog puts the silent on cooldown.     *)
Completed ==
  /\ phase = "stage2"
  /\ EndRun
  /\ UNCHANGED <<penaltyVars, commitVars>>

on_taker_stage2_timeout(ms) ==
  /\ phase = "stage2" /\ ms # {} /\ ms \subseteq ChosenMakers
  /\ add_stage2_maker_cooldowns(ms)
  /\ EndRun
  /\ UNCHANGED <<now, commitVars>>

Restart ==
  /\ maker_penalty_store # "unopened"
  /\ RestartPenalties
  /\ EndRun
  /\ UNCHANGED commitVars

Asynchronous == phase \in {"idle", "filled", "stage2"}
takerUnchanged == UNCHANGED <<runVars, phase, ignored_makers, failed, choiceVars,
                              retries, commitVars>>

Next ==
  \/ \E swp \in BOOLEAN : docoinjoin(swp)
  \/ \E o \in pool : ChooseOrder(o)
  \/ OrdersChosen \/ SweepOrdersChosen \/ NextPass
  \/ \E spendable \in SUBSET Coins : prepare_my_bitcoin_data(spendable)
  \/ \E old \in SUBSET (Coins \cup External) : make_commitment(old)
  \/ \E ms \in SUBSET Makers :
       prepare_maker_selection_retry(ms) \/ on_taker_stage2_timeout(ms)
  \/ receive_utxos \/ Completed \/ Restart
  \/ Asynchronous /\ Tick /\ takerUnchanged
  \/ \E m \in Judged :
       /\ Asynchronous /\ takerUnchanged
       /\ unban(m) \/ \E until \in {0, now + 1} : ban(m, until)

Spec == Init /\ [][Next]_vars

(***************************************************************************)
(* Properties                                                              *)
(***************************************************************************)

(* choose_orders: whoever is chosen was neither banned when the taker was  *)
(* started nor ignored since; one on cooldown is taken only if the others  *)
(* could not make up the number.                                           *)
OthersSuffice ==
  \E p \in CheapestPools(ExclusionPasses(ignored_makers, hard_excluded_makers,
                                         cooldown_makers)[1], sweep) :
    Cardinality(p) >= N

ExclusionsKept ==
  phase \in {"chosen", "prepared", "filled", "stage2"} =>
    \A m \in ChosenMakers :
      /\ m \notin hard_excluded_makers
      /\ m \in cooldown_makers => RelaxCooldowns /\ (~sweep => ~OthersSuffice)

(* prepare_maker_selection_retry: "Failed makers become hard exclusions    *)
(* for this Taker run", over all its retries.                              *)
FailedNotAgain ==
  phase \in {"chosen", "prepared", "filled", "stage2"} =>
    /\ failed \cap ChosenMakers = {}
    /\ Cardinality(ChosenMakers) = N

(* Both: no way to choose, first or repeated, lets an excluded maker in.   *)
ExcludedNotChosen == ExclusionsKept /\ FailedNotAgain

(* A sweep leaves no change, to a satoshi for rounding, at an amount that  *)
(* all its makers offer.                                                   *)
SweepIsExact ==
  phase \in {"chosen", "prepared", "filled", "stage2"} /\ sweep =>
    /\ Total - MyTxFee(chosen_orders) - cj_amount - total_fee \in -1..1
    /\ \A o \in chosen_orders : o.minsize <= cj_amount /\ cj_amount <= o.maxsize

(* The coins taken for a payment cover its amount, its makers and its fee, *)
(* of this choice of makers and not of an earlier one, and none of them is *)
(* spent (and linked to the others) that could have stayed out.            *)
CoinsFitPayment ==
  phase \in {"prepared", "filled", "stage2"} /\ ~sweep =>
    Suffices(MergeAlgorithm, AsCoins(input_utxos), PaymentCost)

(* The makers' relative fees come to no more than the amount, and what     *)
(* they pay towards the transaction is less than all that the taker pays.  *)
ModestFees ==
  \A os \in SUBSET Offers :
    Cardinality(os) = N => SumRel(os) <= 100 /\ Amount + SumOfFees(os) + TxFee > 0

(* Both: what is chosen and what is paid fit, for a sweep and an amount.   *)
(* That nothing but rounding is left takes relative fees that are modest.  *)
AmountsFit == SweepIsExact /\ CoinsFitPayment

(* No commitment is sent twice, restarts included, and none is beyond the  *)
(* number of tries of its utxo, where makers would not accept its opening  *)
(* (see Podle: a commitment is a matter of its key and index).             *)
CommitmentsFresh ==
  \A c \in Commitments :
    commitments[c] > 0 => commitments[c] = 1 /\ c.index < Tries

(* The table implements the policy: see PenaltyPolicy.                     *)
ImplementsPolicy == Policy!PSpec

=============================================================================
