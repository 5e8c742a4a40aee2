---------------------------- MODULE CoinSelection ----------------------------
(***************************************************************************)
(* The coin selection algorithms of src/jmclient/support.py, one of which  *)
(* a wallet is configured with (merge_algorithm), and what any of them is  *)
(* for.                                                                    *)
(*                                                                         *)
(* A coin is a record with a positive "value".  The algorithms take a set  *)
(* of coins and a positive amount; which of equal coins comes first is     *)
(* left open by the code, and any one order will do.  No coins stand for   *)
(* NotEnoughFundsException.                                                *)
(***************************************************************************)
EXTENDS Integers, FiniteSets, SequencesExt

NotEnough == {}

Worth(coins) == LET v(c) == c.value IN MapThenSumSet(v, coins)

Ascending(coins) ==
  CHOOSE s \in SetToSeqs(coins) :
    \A i, j \in DOMAIN s : i < j => s[i].value <= s[j].value
Smallest(coins) == {Ascending(coins)[1]}

Slice(s, i, j) == {s[k] : k \in i..j}

(* The position at which a running sum reaches the amount *)
Reaching(s, amount) ==
  CHOOSE k \in DOMAIN s :
    Worth(Slice(s, 1, k)) >= amount /\ Worth(Slice(s, 1, k - 1)) < amount

High(coins, amount) == {c \in coins : c.value >= amount}
Low(coins, amount) == {c \in coins : c.value < amount}

(* A single coin if there is one, or else the largest ones                 *)
select(coins, amount) ==
  LET high == High(coins, amount)
      low == Reverse(Ascending(Low(coins, amount)))
  IN IF high # {} THEN Smallest(high)
     ELSE IF Worth(coins) < amount THEN NotEnough
     ELSE Slice(low, 1, Reaching(low, amount))

(* "run", a run of the smaller coins, if together they suffice; or else    *)
(* the smallest of the others                                              *)
SmallOnes(coins, amount, run) ==
  LET high == High(coins, amount)
  IN IF amount <= Worth(Low(coins, amount)) THEN run
     ELSE IF high = {} THEN NotEnough ELSE Smallest(high)

select_greediest(coins, amount) ==
  LET low == Ascending(Low(coins, amount))
      shortest == Slice(low, 1, Reaching(low, amount))
  IN SmallOnes(coins, amount, shortest)

(* The run that ends where the sum is reached, without as many of the      *)
(* smallest ones as it can do without                                      *)
select_gradual(coins, amount) ==
  LET low == Ascending(Low(coins, amount))
      end == Reaching(low, amount)
      start == CHOOSE i \in 1..end :
                 LET total(k) == Worth(Slice(low, k, end))
                 IN /\ total(i) < amount + low[i].value
                    /\ \A k \in 1..(i - 1) : total(k) >= amount + low[k].value
  IN SmallOnes(coins, amount, Slice(low, start, end))

(* The smallest ones up to the amount; then, from the largest down, all    *)
(* are left out that can be spared.                                        *)
select_greedy(coins, amount) ==
  IF Worth(coins) < amount THEN NotEnough
  ELSE LET utxos == Ascending(coins)
           cursor == Reaching(utxos, amount)
           dilute(c, acc) ==
             IF c.value <= acc.spare THEN [acc EXCEPT !.spare = @ - c.value]
                                     ELSE [acc EXCEPT !.picked = @ \cup {c}]
           start == [picked |-> {utxos[cursor]},
                     spare |-> Worth(Slice(utxos, 1, cursor)) - amount]
       IN FoldRight(dilute, SubSeq(utxos, 1, cursor - 1), start).picked

Selected(merge_algorithm, coins, amount) ==
  CASE merge_algorithm = "default" -> select(coins, amount)
    [] merge_algorithm = "gradual" -> select_gradual(coins, amount)
    [] merge_algorithm = "greedy" -> select_greedy(coins, amount)
    [] merge_algorithm = "greediest" -> select_greediest(coins, amount)

MergeAlgorithms == {"default", "gradual", "greedy", "greediest"}

(***************************************************************************)
(* What a selection must be, however it is found: coins that are there,    *)
(* enough of them, none found only when there are too few, and no coin     *)
(* that could be left out, except by the algorithm that spends as many     *)
(* small ones as it can.                                                   *)
(***************************************************************************)
Suffices(merge_algorithm, chosen, amount) ==
  /\ Worth(chosen) >= amount
  /\ merge_algorithm # "greediest" => \A c \in chosen : Worth(chosen \ {c}) < amount

IsSelection(merge_algorithm, coins, amount, chosen) ==
  /\ chosen \subseteq coins
  /\ IF Worth(coins) < amount THEN chosen = NotEnough
                             ELSE Suffices(merge_algorithm, chosen, amount)
=============================================================================
