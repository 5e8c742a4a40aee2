--------------------------- MODULE TumbleSchedule ---------------------------
(***************************************************************************)
(* The schedules of the tumbler (src/jmclient/schedule.py): how one is     *)
(* drawn up from the mixdepths that hold coins, how an entry that failed   *)
(* is changed for the next try, and what a schedule must be for every      *)
(* transaction of it to have coins to spend.                               *)
(*                                                                         *)
(* An amount is a number of parts of the balance, of which there are Whole,*)
(* and 0 for a sweep, as in the code.  Draws are the random choices, all   *)
(* of which are possible: waiting times are left out, and two of equal     *)
(* length do not make two entries equal.  Mixdepths go from 0 to the "max" *)
(* of the wallet and come round to 0 again.                                *)
(***************************************************************************)
EXTENDS Integers, FiniteSets, Sequences
LOCAL INSTANCE SequencesExt
LOCAL INSTANCE FiniteSetsExt

NO_ROUNDING == 16

Total(s) == FoldFunction(LAMBDA a, b : a + b, 0, s)

(* Positive parts of a whole, the last of them more than a twentieth of it *)
get_amount_fractions(count, whole) ==
  {y \in [1..count -> 1..whole] : Total(y) = whole /\ 20 * y[count] > whole}

Next1(m, max) == (m + 1) % (max + 1)

Entry(m, amount, n, destination, rounding) ==
  [mixdepth |-> m, amount |-> amount, makercount |-> n,
   destination |-> destination, rounding |-> rounding]

(***************************************************************************)
(* get_tumble_schedule                                                     *)
(***************************************************************************)

(* Stage 1 sweeps every mixdepth that holds coins, the highest first ...   *)
Descending(mixdepths) == SetToSortSeq(mixdepths, LAMBDA a, b : a > b)

stage1(mixdepths, makers) ==
  LET order == Descending(mixdepths)
  IN [i \in DOMAIN order |->
        Entry(order[i], 0, makers[order[i]], "INTERNAL", NO_ROUNDING)]

(* ... each into the next one: these are left with coins.                  *)
nonempty_mixdepths(mixdepths, max) ==
  FoldLeft(LAMBDA full, m : (full \ {m}) \cup {Next1(m, max)}, {},
           Descending(mixdepths))

(* Stage 2: a mixdepth that pays an address needs two transactions at      *)
(* least, except the last, which only pays.                                *)
PaysAddress(opt, m) == opt.mixdepthcount - opt.addrcount <= m /\ m < opt.mixdepthcount - 1
TxCount(opt, m, txcount) == IF PaysAddress(opt, m) /\ txcount = 1 THEN 2 ELSE txcount

(* The draws for one mixdepth: fractions, makers and roundings             *)
Draws(opt, whole, m) ==
  UNION { { [fractions |-> f, makers |-> n, roundings |-> r] :
            f \in get_amount_fractions(c, whole), n \in [1..c -> opt.makercounts],
            r \in [1..c -> opt.roundings] } :
          c \in {TxCount(opt, m, txcount) : txcount \in opt.txcounts} }

stage2(src, draw) ==
  LET last == Len(draw.fractions)
  IN [i \in 1..last |->
        IF i = last THEN Entry(src, 0, draw.makers[i], "INTERNAL", NO_ROUNDING)
        ELSE Entry(src, draw.fractions[i], draw.makers[i], "INTERNAL", draw.roundings[i])]

(* The last transaction of a mixdepth gets the address.                    *)
SendTo(txs, srcmix, address) ==
  LET of == {i \in DOMAIN txs : txs[i].mixdepth = srcmix}
  IN IF of = {} THEN txs ELSE [txs EXCEPT ![Max(of)].destination = address]

(* The mixdepth that ends the list does nothing but pay.                   *)
OnlyPays(txs) ==
  LET ending == txs[Len(txs)].mixdepth
      start == Max({0} \cup {i \in DOMAIN txs : txs[i].mixdepth # ending}) + 1
      paying == SelectSeq(SubSeq(txs, start, Len(txs)),
                          LAMBDA tx : tx.destination # "INTERNAL")
  IN SubSeq(txs, 1, start - 1)
       \o [i \in DOMAIN paying |-> [paying[i] EXCEPT !.amount = 0]]

(* From the last mixdepth back; where addresses are lacking, the user will *)
(* be asked.                                                               *)
external_dest_addrs(opt, destaddrs) ==
  [i \in 1..Max({0, opt.addrcount - Len(destaddrs)}) |-> "addrask"] \o Reverse(destaddrs)

WithDestinations(opt, txs, destaddrs, lowest, max) ==
  LET give(list, mix_offset) ==
        LET srcmix == (lowest + opt.mixdepthcount - mix_offset - 1) % (max + 1)
            sent == SendTo(list, srcmix,
                           external_dest_addrs(opt, destaddrs)[mix_offset + 1])
        IN IF mix_offset = 0 THEN OnlyPays(sent) ELSE sent
  IN FoldLeft(give, txs, [i \in 1..opt.addrcount |-> i - 1])

(* No coins: ScheduleGenerationErrorNoFunds.                               *)
get_tumble_schedule(opt, destaddrs, mixdepths, max, makers, draws) ==
  LET lowest == Min(nonempty_mixdepths(mixdepths, max))
      txs == stage1(mixdepths, makers)
               \o FlattenSeq([k \in 1..opt.mixdepthcount |->
                    stage2((lowest + k - 1) % (max + 1), draws[k - 1])])
  IN WithDestinations(opt, txs, destaddrs, lowest, max)

(***************************************************************************)
(* tweak_tumble_schedule: the entry at "failed" is to be tried again.      *)
(***************************************************************************)

(* A destination that is none of those given is forgotten; a sweep asks    *)
(* for one maker fewer, though not for fewer than minimum_makers.          *)
Altered(entry, destaddrs, minimum_makers) ==
  [entry EXCEPT
     !.destination = IF @ \in destaddrs THEN @ ELSE "INTERNAL",
     !.makercount = IF entry.amount # 0 THEN @ ELSE Max({@ - 1, minimum_makers})]

(* The others of its mixdepth are found wherever they are in the schedule; *)
(* as many entries as are to be done get the new amounts, one after the    *)
(* other, and the last of these becomes the sweep.                         *)
tobedone(schedule, failed) ==
  {i \in failed..Len(schedule) : schedule[i].mixdepth = schedule[failed].mixdepth}

alreadyspent(schedule, failed) ==
  MapThenSumSet(LAMBDA i : schedule[i].amount,
                {i \in 1..(failed - 1) : schedule[i].mixdepth = schedule[failed].mixdepth})

tweak_tumble_schedule(schedule, failed, destaddrs, minimum_makers, whole) ==
  LET altered == [schedule EXCEPT ![failed] = Altered(@, destaddrs, minimum_makers)]
      count == Cardinality(tobedone(schedule, failed))
      tobespent == whole - alreadyspent(schedule, failed)
  IN IF schedule[failed].amount = 0 THEN {altered}
     ELSE { [i \in DOMAIN altered |->
               IF i \notin failed..(failed + count - 1) THEN altered[i]
               ELSE [altered[i] EXCEPT !.amount =
                       IF i = failed + count - 1 THEN 0 ELSE y[i - failed + 1]]] :
            y \in get_amount_fractions(count, tobespent) }

(***************************************************************************)
(* What a schedule must be                                                 *)
(***************************************************************************)

(* Which mixdepths hold coins, step by step: a transaction brings coins to *)
(* the next mixdepth unless it pays an address, and a sweep leaves none    *)
(* behind.  Every transaction finds coins to spend.                        *)
Step(full, entry, max) ==
  ((IF entry.amount = 0 THEN full \ {entry.mixdepth} ELSE full)
     \cup (IF entry.destination = "INTERNAL" THEN {Next1(entry.mixdepth, max)} ELSE {}))

HoldingCoins(mixdepths, schedule, max) ==
  FoldLeft(LAMBDA full, entry : Step(full, entry, max), mixdepths, schedule)

IsFunded(mixdepths, schedule, max) ==
  \A i \in DOMAIN schedule :
    schedule[i].mixdepth \in HoldingCoins(mixdepths, SubSeq(schedule, 1, i - 1), max)

(* Every visit to a mixdepth ends with a sweep, which is not rounded, and  *)
(* what goes before leaves something for it: more than a twentieth of what *)
(* was there when the fractions were drawn.                                *)
VisitsEndInSweeps(schedule, whole) ==
  \A i \in DOMAIN schedule :
    schedule[i].amount # 0 =>
      /\ i < Len(schedule)
      /\ schedule[i + 1].mixdepth = schedule[i].mixdepth
      /\ \E j \in (i + 1)..Len(schedule) :
           /\ schedule[j].amount = 0
           /\ \A k \in i..j : schedule[k].mixdepth = schedule[i].mixdepth
           /\ Total([k \in 1..(j - i) |-> schedule[i + k - 1].amount]) < whole

(* Every address is paid once, by a sweep, and as many are asked for as    *)
(* are lacking.                                                            *)
PaysAllOnce(schedule, destaddrs, addrcount) ==
  LET paid(a) == {i \in DOMAIN schedule : schedule[i].destination = a}
  IN /\ \A a \in DOMAIN destaddrs : Cardinality(paid(destaddrs[a])) = 1
     /\ Cardinality(paid("addrask")) = addrcount - Len(destaddrs)
     /\ \A i \in DOMAIN schedule :
          schedule[i].destination # "INTERNAL" => schedule[i].amount = 0
=============================================================================
