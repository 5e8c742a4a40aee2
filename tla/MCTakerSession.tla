--------------------------- MODULE MCTakerSession ---------------------------
(* Model values and symmetry for TLC runs of TakerSession, and the         *)
(* schedules that the tumbler hands to the taker.                          *)
EXTENDS TakerSession, TLC

CONSTANTS m1, m2
Symmetry == Permutations({m1, m2})

Tumble == INSTANCE TumbleSchedule

Options(mixdepthcount, addrcount, txcounts) ==
  [mixdepthcount |-> mixdepthcount, addrcount |-> addrcount, txcounts |-> txcounts,
   makercounts |-> {3}, roundings |-> {2}]

(* All schedules that can be drawn for a wallet of mixdepths 0 to max      *)
Schedules(opt, destaddrs, mixdepths, max, whole) ==
  LET offsets == 0..(opt.mixdepthcount - 1)
      draws == {f \in [offsets -> UNION {Tumble!Draws(opt, whole, m) : m \in offsets}] :
                  \A m \in offsets : f[m] \in Tumble!Draws(opt, whole, m)}
  IN {Tumble!get_tumble_schedule(opt, destaddrs, mixdepths, max,
                                 [m \in 0..max |-> 3], d) : d \in draws}

Sound(s, mixdepths, destaddrs, addrcount, max, whole) ==
  /\ Tumble!IsFunded(mixdepths, s, max)
  /\ Tumble!VisitsEndInSweeps(s, whole)
  /\ Tumble!PaysAllOnce(s, destaddrs, addrcount)

Addresses(n) == SubSeq(<<"a", "b", "c">>, 1, n)

(* Any coins in three mixdepths, up to four visits, and as many addresses  *)
(* as visits, with or without the user having named them.                  *)
ASSUME SchedulesAreSound ==
  \A count \in 1..4 : \A addrcount \in 1..(IF count = 4 THEN 3 ELSE count) :
    \A given \in 0..addrcount : \A mixdepths \in SUBSET (0..2) \ {{}} :
      \A s \in Schedules(Options(count, addrcount, {1, 2}), Addresses(given), mixdepths, 2, 3) :
        Sound(s, mixdepths, Addresses(given), addrcount, 2, 3)

(* The entry that failed may be any of them, as long as no mixdepth is     *)
(* visited twice.                                                          *)
ASSUME TweaksAreSound ==
  \A mixdepths \in {{0}, {1, 2}} :
    \A s \in Schedules(Options(3, 2, {2, 3}), Addresses(2), mixdepths, 2, 5) :
      \A failed \in DOMAIN s :
        LET tweaked == Tumble!tweak_tumble_schedule(s, failed, {"a", "b"}, 2, 5)
        IN /\ tweaked # {}
           /\ \A t \in tweaked :
                Sound(t, mixdepths, Addresses(2), 2, 2, 5) /\ t[failed].makercount >= 2

(* Otherwise the amounts for the next try run into other mixdepths, whose  *)
(* sweeps they replace: docs/tumblerguide.md, "cycles".                    *)
ASSUME TweakOfSecondVisit ==
  \E s \in Schedules(Options(4, 2, {2}), Addresses(2), {0}, 2, 5) : \E failed \in DOMAIN s :
    \E t \in Tumble!tweak_tumble_schedule(s, failed, {"a", "b"}, 2, 5) :
      ~Tumble!VisitsEndInSweeps(t, 5)

(* With more addresses than visits, as "-M 2" and three addresses ask for, *)
(* stage 1 pays an address and leaves nothing for stage 2.                 *)
ASSUME MoreAddressesThanVisits ==
  \A s \in Schedules(Options(2, 3, {2}), Addresses(3), {0}, 3, 3) :
    ~Tumble!IsFunded({0}, s, 3)
=============================================================================
