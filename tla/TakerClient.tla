---------------------------- MODULE TakerClient ----------------------------
(***************************************************************************)
(* JMTakerClientProtocol, the Taker it drives through a schedule of        *)
(* coinjoins, the finished-callbacks of the two command line scripts that  *)
(* create a Taker (sendpayment.py and tumbler.py), and the wallet service  *)
(* callbacks that tell the Taker its transaction was seen or confirmed.    *)
(*                                                                         *)
(* A transaction is a number, in the order built; entryOf remembers which  *)
(* schedule entry it was built for.  Amounts, fees and addresses are left  *)
(* out: where they decide an outcome, the outcome is a choice.  `aborted`  *)
(* is only set by the GUI and the RPC server and is FALSE here.            *)
(***************************************************************************)
EXTENDS AmpLink

CONSTANTS
  ScheduleLen,      \* number of entries of the schedule
  Tumbling,         \* TRUE: tumbler.py, FALSE: sendpayment.py
  MaxReplacements,  \* POLICY/taker_max_maker_replacement_attempts
  StallTimeout,     \* TIMEOUT/taker_stall_monitor_timeout_seconds, in ticks
  RestartDelay,     \* the 5 seconds sendpayment waits before a restart
  WaitTime,         \* wait time of a schedule entry after its confirmation
  UnconfirmTimeout, \* TIMEOUT/unconfirm_timeout_sec, in ticks
  SelfPush,         \* tx_broadcast: FALSE "not-self", TRUE "random-peer"
  MaxStarts         \* bound: calls of clientStart in one behaviour

ASSUME ClientAssumption ==
  /\ ScheduleLen \in Nat \ {0}
  /\ Tumbling \in BOOLEAN
  /\ SelfPush \in BOOLEAN
  /\ MaxReplacements \in Nat
  /\ StallTimeout \in Nat \ {0}
  /\ RestartDelay \in Nat
  /\ WaitTime \in Nat
  /\ UnconfirmTimeout \in Nat \ {0}
  /\ MaxStarts \in Nat \ {0}

VARIABLES
  schedule_index,
  n_counterparties,  \* third field of each schedule entry
  completed,         \* completion flag of each schedule entry
  ignored_makers,
  honest_makers,
  honest_only,
  replacements,      \* maker_replacement_attempts
  replacement_index, \* maker_replacement_schedule_index
  nonrespondants,
  maker_utxo_data,   \* makers whose inputs are in the transaction
  unsigned,          \* maker inputs of latest_tx that lack a signature
  latest_tx,
  txid,              \* set when a transaction is pushed
  waiting_for_conf,
  cj_entry,          \* the entry initialize last read (amount, address)
  entryOf,           \* the schedule entry of every transaction built
  starts,            \* calls of clientStart so far
  unconfirm_cbs,     \* transactions whose unconfirm_callback is registered
  confirm_cbs,
  monitoring         \* the wallet service's transaction monitor is alive

scheduleVars == <<schedule_index, n_counterparties, completed>>
makerVars == <<ignored_makers, honest_makers, honest_only>>
replaceVars == <<replacements, replacement_index>>
txVars == <<nonrespondants, maker_utxo_data, unsigned, latest_tx, entryOf,
            cj_entry>>
pushVars == <<txid, waiting_for_conf>>
walletVars == <<unconfirm_cbs, confirm_cbs, monitoring>>
clientVars == <<scheduleVars, makerVars, replaceVars, txVars, pushVars,
                walletVars, starts>>

Entries == 0..(ScheduleLen - 1)

ClientTypeOK ==
  /\ schedule_index \in Int
  /\ n_counterparties \in [Entries -> Nat]
  /\ completed \in [Entries -> BOOLEAN]
  /\ ignored_makers \in SUBSET Makers
  /\ honest_makers \in SUBSET Makers
  /\ honest_only \in BOOLEAN
  /\ replacements \in 0..MaxReplacements
  /\ replacement_index \in Int
  /\ nonrespondants \in SUBSET Makers
  /\ maker_utxo_data \in SUBSET Makers
  /\ unsigned \in SUBSET (Makers \X Inputs)
  /\ latest_tx \in Txs \cup {NoTx}
  /\ txid \in Txs \cup {NoTx}
  /\ waiting_for_conf \in BOOLEAN
  /\ cj_entry \in Entries
  /\ entryOf \in Seq(Entries)
  /\ Len(entryOf) <= MaxTxs
  /\ starts \in 0..MaxStarts
  /\ unconfirm_cbs \in SUBSET Txs
  /\ confirm_cbs \in SUBSET Txs
  /\ monitoring \in BOOLEAN

ClientInit ==
  /\ schedule_index = -1
  /\ n_counterparties = [e \in Entries |-> Cardinality(Makers)]
  /\ completed = [e \in Entries |-> FALSE]
  /\ ignored_makers = {} /\ honest_makers = {} /\ honest_only = FALSE
  /\ replacements = 0
  /\ replacement_index = -2     \* None
  /\ nonrespondants = {} /\ maker_utxo_data = {} /\ unsigned = {}
  /\ latest_tx = NoTx /\ txid = NoTx /\ waiting_for_conf = FALSE
  /\ cj_entry = 0 /\ entryOf = <<>>
  /\ starts = 0
  /\ unconfirm_cbs = {} /\ confirm_cbs = {} /\ monitoring = TRUE

(***************************************************************************)
(* schedule[i] in Python: a negative index counts from the end, an index   *)
(* outside -len..len-1 raises IndexError.                                  *)
(***************************************************************************)
InRange(i) == -ScheduleLen <= i /\ i < ScheduleLen
Entry(i) == i % ScheduleLen

MakerInputs(ms) == ms \X Inputs

SymDiff(S, T) == (S \ T) \cup (T \ S)

(***************************************************************************)
(* The finished-callback.  Each script has its own.                        *)
(***************************************************************************)

(* on_finished_callback(res, False): the schedule is over.                 *)
Finished(res) == status' = IF res THEN "done" ELSE "failed"

Restart(tms, delay) == Append(tms, CallLater("clientStart", delay, 0))

(* sendpayment's taker_finished(False, True): try again with the makers    *)
(* that behaved, if there are enough.  nr is the Taker's nonrespondants    *)
(* and tms the delayed calls at that moment.                               *)
SendpaymentFailed(nr, tms) ==
  LET honest == honest_makers \cup SymDiff(maker_utxo_data, nr) IN
  /\ UNCHANGED <<ignored_makers, completed>>
  /\ IF latest_tx = NoTx
       THEN /\ Finished(FALSE)
            /\ timers' = tms
            /\ UNCHANGED <<honest_makers, honest_only, schedule_index,
                           n_counterparties>>
       ELSE /\ honest_makers' = honest
            /\ IF Cardinality(honest) < MinMakers
                 THEN /\ Finished(FALSE)
                      /\ timers' = tms
                      /\ UNCHANGED <<honest_only, schedule_index,
                                     n_counterparties>>
               ELSE IF InRange(schedule_index)
                 THEN /\ n_counterparties' = [n_counterparties EXCEPT
                           ![Entry(schedule_index)] = Cardinality(honest)]
                      /\ schedule_index' = schedule_index - 1
                      /\ honest_only' = (honest_only \/ honest # {})
                      /\ timers' = Restart(tms, RestartDelay)
                      /\ status' = status
               ELSE /\ timers' = tms   \* IndexError
                    /\ UNCHANGED <<honest_only, schedule_index,
                                   n_counterparties, status>>

(* tweak_tumble_schedule: a sweep is retried with one counterparty fewer,  *)
(* down to minimum_makers, which is also where a smaller number is raised. *)
TweakedCount(n) == {n, IF n - 1 < MinMakers THEN MinMakers ELSE n - 1}

(* The tumbler's taker_finished(False, True): ignore the makers that did   *)
(* not respond; restart with the honest subset of a failed phase 2, or     *)
(* tweak the schedule entry and try again.                                 *)
TumblerFailed(nr, tms) ==
  LET honest == SymDiff(maker_utxo_data, nr)
      phase2 == latest_tx # NoTx /\ nr # {}
      subset == phase2 /\ Cardinality(honest) >= MinMakers
  IN
  /\ UNCHANGED <<completed, status>>
  /\ IF ~InRange(schedule_index)
       THEN /\ timers' = tms   \* IndexError
            /\ UNCHANGED <<ignored_makers, honest_makers, honest_only,
                           schedule_index, n_counterparties>>
       ELSE /\ ignored_makers' = ignored_makers \cup nr
            /\ honest_makers' = IF phase2 THEN honest ELSE honest_makers
            /\ honest_only' = (honest_only \/ (subset /\ honest # {}))
            /\ schedule_index' = schedule_index - 1
            /\ \E n \in IF subset THEN {Cardinality(honest)}
                        ELSE TweakedCount(n_counterparties[Entry(schedule_index)]) :
                 n_counterparties' = [n_counterparties EXCEPT
                                        ![Entry(schedule_index)] = n]
            /\ timers' = Restart(tms, 0)

TakerFailed(nr, tms) ==
  IF Tumbling THEN TumblerFailed(nr, tms) ELSE SendpaymentFailed(nr, tms)

(***************************************************************************)
(* Starting a session.                                                     *)
(***************************************************************************)
clientStart ==
  \E i \in 1..Len(timers) :
    /\ Fires(i, "clientStart")
    /\ starts < MaxStarts
    /\ starts' = starts + 1
    /\ timers' = Append(Without(timers, i),
         CallLater("stallMonitor", StallTimeout, schedule_index + 1))
    /\ up' = Append(up, [type |-> "JMInit"])
    /\ UNCHANGED <<down, status, net, scheduleVars, makerVars, replaceVars,
                   txVars, pushVars, walletVars>>

on_JM_INIT_PROTO ==
  /\ ClientGets("JMInitProto")
  /\ down' = Tail(down)
  /\ up' = Append(up, [type |-> "JMStartMC"])
  /\ UNCHANGED <<timers, status, net, clientVars>>

on_JM_UP ==
  /\ ClientGets("JMUp")
  /\ down' = Tail(down)
  /\ up' = Append(up, [type |-> "JMSetup"])
  /\ UNCHANGED <<timers, status, net, clientVars>>

on_JM_SETUP_DONE ==
  /\ ClientGets("JMSetupDone")
  /\ down' = Tail(down)
  /\ timers' = Append(timers, CallLater("get_offers", MakerTimeout, 0))
  /\ UNCHANGED <<up, status, net, clientVars>>

get_offers ==
  \E i \in 1..Len(timers) :
    /\ Fires(i, "get_offers")
    /\ timers' = Without(timers, i)
    /\ up' = Append(up, [type |-> "JMRequestOffers"])
    /\ UNCHANGED <<down, status, net, clientVars>>

(* checkClientResponse: a refused call is fatal.                           *)
checkClientResponse ==
  /\ ClientGets("Rejected")
  /\ down' = Tail(down)
  /\ Finished(FALSE)
  /\ UNCHANGED <<up, timers, net, clientVars>>

(***************************************************************************)
(* Taker.initialize, called with the orderbook: the next schedule entry,   *)
(* then the choice of its makers, the coins and the commitment.            *)
(***************************************************************************)
Eligible == (IF honest_only THEN honest_makers ELSE Makers) \ ignored_makers

NextEntry ==
  /\ schedule_index' = schedule_index + 1
  /\ IF replacement_index # schedule_index + 1
       THEN replacements' = 0 /\ replacement_index' = schedule_index + 1
       ELSE UNCHANGED replaceVars
  /\ cj_entry' = Entry(schedule_index + 1)
  /\ latest_tx' = NoTx
  /\ txid' = NoTx

on_JM_OFFERS ==
  /\ ClientGets("JMOffers")
  /\ down' = Tail(down)
  /\ UNCHANGED <<timers, net, n_counterparties, completed, makerVars,
                 maker_utxo_data, unsigned, entryOf, waiting_for_conf,
                 walletVars, starts>>
  /\ \/ (* the schedule is exhausted *)
        /\ schedule_index + 1 = ScheduleLen
        /\ schedule_index' = schedule_index + 1
        /\ Finished(TRUE)
        /\ UNCHANGED <<up, replaceVars, nonrespondants, latest_tx, txid,
                       cj_entry>>
     \/ (* IndexError: only the index has moved *)
        /\ ~InRange(schedule_index + 1)
        /\ schedule_index + 1 # ScheduleLen
        /\ schedule_index' = schedule_index + 1
        /\ UNCHANGED <<up, status, replaceVars, nonrespondants, latest_tx, txid,
                       cj_entry>>
     \/ (* not enough offers, no coins, or no commitment old enough: a     *)
        (* schedule of one entry gives up, a longer one waits to be found  *)
        (* stalled                                                         *)
        /\ InRange(schedule_index + 1)
        /\ NextEntry
        /\ IF ScheduleLen = 1 THEN Finished(FALSE) ELSE status' = status
        /\ UNCHANGED <<up, nonrespondants>>
     \/ (* no commitment can be made at all *)
        /\ InRange(schedule_index + 1)
        /\ NextEntry
        /\ Finished(FALSE)
        /\ UNCHANGED <<up, nonrespondants>>
     \/ (* enough offers: fill them *)
        /\ InRange(schedule_index + 1)
        /\ NextEntry
        /\ \E ms \in SUBSET Eligible :
             /\ Cardinality(ms) = n_counterparties[Entry(schedule_index + 1)]
             /\ nonrespondants' = ms
             /\ up' = Append(up, [type |-> "JMFill", makers |-> ms])
        /\ status' = status

(***************************************************************************)
(* prepare_maker_selection_retry followed by retry_maker_selection.        *)
(***************************************************************************)
(* Mutant: one attempt too many.                                           *)
CanReplace_once_more(failed) ==
  /\ failed # {}
  /\ latest_tx = NoTx
  /\ replacements <= MaxReplacements
  /\ schedule_index >= 0

CanReplace(failed) ==
  /\ failed # {}
  /\ latest_tx = NoTx
  /\ replacements < MaxReplacements
  /\ schedule_index >= 0

ReplaceMakers ==
  /\ replacements' = replacements + 1
  /\ replacement_index' = schedule_index
  /\ schedule_index' = schedule_index - 1
  /\ timers' = Append(timers, CallLater("get_offers", 0, 0))

FillAnswer(a, s) == [type |-> "FillAnswer", answer |-> a, success |-> s]

(* The tail of on_JM_FILL_RESPONSE for a response the Taker cannot use:    *)
(* replace the failed makers, or give up when the schedule is one entry.   *)
PhaseOneFailed(failed, success) ==
  IF CanReplace(failed)
    THEN /\ ReplaceMakers
         /\ up' = Append(up, FillAnswer("accepted", success))
         /\ status' = status
    ELSE /\ UNCHANGED <<replaceVars, schedule_index, timers>>
         /\ status' = IF ScheduleLen = 1 THEN "failed" ELSE status
         /\ up' = Append(up, FillAnswer(
                IF success \/ ScheduleLen = 1 THEN "refused" ELSE "accepted",
                success))

(* The daemon reports which makers did not answer in time.                 *)
on_fill_failure ==
  /\ ClientGets("JMFillResponse")
  /\ ~Head(down).success
  /\ down' = Tail(down)
  /\ ignored_makers' = IF latest_tx = NoTx
                         THEN ignored_makers \cup Head(down).makers
                         ELSE ignored_makers
  /\ PhaseOneFailed(Head(down).makers, FALSE)
  /\ UNCHANGED <<net, n_counterparties, completed, honest_makers, honest_only,
                 txVars, pushVars, walletVars, starts>>

(***************************************************************************)
(* receive_utxos: `valid` are the makers whose authorisation and inputs    *)
(* verify, `malicious` those of the others that sent an invalid address.   *)
(***************************************************************************)
receive_utxos_too_few(valid, malicious) ==
  LET missing == nonrespondants \ valid IN
  /\ Cardinality(valid) < MinMakers
  /\ maker_utxo_data' = valid
  /\ nonrespondants' = missing
  /\ ignored_makers' = ignored_makers \cup malicious \cup missing
  /\ PhaseOneFailed(missing, TRUE)
  /\ UNCHANGED <<unsigned, latest_tx, entryOf, cj_entry>>

(* Enough makers, but the fee of a sweep is out of range ("refused") or    *)
(* our inputs cannot pay the fee (ValueError: "error"): no transaction.    *)
receive_utxos_no_tx(valid, malicious) ==
  /\ Cardinality(valid) >= MinMakers
  /\ maker_utxo_data' = valid
  /\ nonrespondants' = valid
  /\ ignored_makers' = ignored_makers \cup malicious
  /\ \/ PhaseOneFailed({}, TRUE)
     \/ /\ up' = Append(up, FillAnswer("error", TRUE))
        /\ UNCHANGED <<replaceVars, schedule_index, timers, status>>
  /\ UNCHANGED <<unsigned, latest_tx, entryOf, cj_entry>>

(* The transaction is built and will be sent by make_tx: a delayed call,   *)
(* so that the answer to JMFillResponse reaches the daemon first.          *)
receive_utxos_build(valid, malicious) ==
  /\ Cardinality(valid) >= MinMakers
  /\ Len(entryOf) < MaxTxs
  /\ maker_utxo_data' = valid
  /\ nonrespondants' = valid
  /\ ignored_makers' = ignored_makers \cup malicious
  /\ unsigned' = MakerInputs(valid)
  /\ latest_tx' = Len(entryOf) + 1
  /\ entryOf' = Append(entryOf, cj_entry)
  /\ up' = Append(up, FillAnswer("accepted", TRUE))
  /\ timers' = Append(timers,
       [CallLater("make_tx", 0, Len(entryOf) + 1) EXCEPT !.makers = valid])
  /\ UNCHANGED <<replaceVars, schedule_index, status, cj_entry>>

receive_utxos ==
  /\ ClientGets("JMFillResponse")
  /\ Head(down).success
  /\ down' = Tail(down)
  /\ \E valid \in SUBSET Head(down).makers :
     \E malicious \in SUBSET (Head(down).makers \ valid) :
        \/ receive_utxos_too_few(valid, malicious)
        \/ receive_utxos_no_tx(valid, malicious)
        \/ receive_utxos_build(valid, malicious)
  /\ UNCHANGED <<net, n_counterparties, completed, honest_makers, honest_only,
                 pushVars, walletVars, starts>>

make_tx ==
  \E i \in 1..Len(timers) :
    /\ Fires(i, "make_tx")
    /\ timers' = Without(timers, i)
    /\ up' = Append(up, [type |-> "JMMakeTx", makers |-> timers[i].makers,
                         tx |-> timers[i].arg])
    /\ UNCHANGED <<down, status, net, clientVars>>

(***************************************************************************)
(* on_sig: a signature is inserted if it verifies against latest_tx; the   *)
(* last one completes the transaction, which is signed and pushed.         *)
(***************************************************************************)
InsertSig(u) == u \ {<<Head(down).nick, Head(down).input>>}

(* Mutant: one signature settles all inputs of its maker.                  *)
StillOwing_first_sig(u) == nonrespondants \ {Head(down).nick}

(* utxos[nick] is empty once all inputs of the maker are signed.           *)
StillOwing(u) == {m \in nonrespondants :
                    m # Head(down).nick \/ \E i \in Inputs : <<m, i>> \in u}

SigMatches ==
  /\ Head(down).nick \in nonrespondants
  /\ Head(down).tx = latest_tx

(* Mutant: only the inputs of the maker that just signed are looked at.    *)
TxSigned_by_sender(u) == \A i \in Inputs : <<Head(down).nick, i>> \notin u

(* The loop over the inputs that decides whether the transaction is        *)
(* complete.                                                               *)
TxSigned(u) == u = {}

on_sig_ignored ==
  /\ ClientGets("JMSigReceived")
  /\ ~SigMatches
  /\ down' = Tail(down)
  /\ UNCHANGED <<up, timers, status, net, clientVars>>

(* Signatures are still missing; or none is, but logging the schedule item *)
(* raises IndexError before anything is pushed.                            *)
on_sig_partial ==
  /\ ClientGets("JMSigReceived")
  /\ SigMatches
  /\ down' = Tail(down)
  /\ unsigned' = InsertSig(unsigned)
  /\ ~TxSigned(unsigned') \/ ~InRange(schedule_index)
  /\ nonrespondants' = StillOwing(unsigned')
  /\ UNCHANGED <<up, timers, status, net, scheduleVars, makerVars, replaceVars,
                 maker_utxo_data, latest_tx, entryOf, cj_entry, pushVars,
                 walletVars, starts>>

(* push: the callbacks are registered and the broadcast check is scheduled *)
(* before the transaction is pushed.                                       *)
ArmBroadcastCheck(tms) ==
  Append(tms, CallLater("handle_unbroadcast", UnconfirmTimeout, latest_tx))

push_ourselves_ok(t) ==
  net' = [net EXCEPT ![t] = IF @ \in {"none", "offered"} THEN "mempool" ELSE @]

on_sig_push ==
  /\ ClientGets("JMSigReceived")
  /\ SigMatches
  /\ down' = Tail(down)
  /\ unsigned' = InsertSig(unsigned)
  /\ TxSigned(unsigned') /\ InRange(schedule_index)
  /\ nonrespondants' = StillOwing(unsigned')
  /\ txid' = latest_tx
  /\ unconfirm_cbs' = unconfirm_cbs \cup {latest_tx}
  /\ confirm_cbs' = confirm_cbs \cup {latest_tx}
  /\ \/ (* a maker is to broadcast it *)
        /\ up' = Append(up, [type |-> "JMPushTx", tx |-> latest_tx])
        /\ timers' = ArmBroadcastCheck(timers)
        /\ UNCHANGED <<net, status, scheduleVars, makerVars>>
     \/ (* our own node accepts it *)
        /\ SelfPush
        /\ push_ourselves_ok(latest_tx)
        /\ timers' = ArmBroadcastCheck(timers)
        /\ UNCHANGED <<up, status, scheduleVars, makerVars>>
     \/ (* our own node refuses it: on_finished_callback(False, True) *)
        /\ SelfPush
        /\ TakerFailed(nonrespondants', ArmBroadcastCheck(timers))
        /\ UNCHANGED <<up, net>>
  /\ UNCHANGED <<replaceVars, maker_utxo_data, latest_tx, entryOf, cj_entry,
                 waiting_for_conf, monitoring, starts>>

(* The check made unconfirm_timeout_sec after a push, for transaction      *)
(* `arg` of the delayed call.  Whether the callback is still waiting is    *)
(* asked for self.txid; it is registered again for `arg`.  A node takes no *)
(* transaction that lacks signatures.                                      *)
handle_unbroadcast_transaction ==
  \E i \in 1..Len(timers) :
    /\ Fires(i, "handle_unbroadcast")
    /\ timers' = Without(timers, i)
    /\ IF txid \in unconfirm_cbs
         THEN /\ unconfirm_cbs' = (unconfirm_cbs \ {txid}) \cup {timers[i].arg}
              /\ \/ SelfPush /\ unsigned = {} /\ push_ourselves_ok(latest_tx)
                 \/ net' = net
         ELSE UNCHANGED <<unconfirm_cbs, net>>
    /\ UNCHANGED <<up, down, status, scheduleVars, makerVars, replaceVars,
                   txVars, pushVars, confirm_cbs, monitoring, starts>>

(***************************************************************************)
(* The stall monitor of one clientStart.                                   *)
(***************************************************************************)
(* Mutant: a transaction that was built counts as progress.                *)
Stalled_before_tx(index) ==
  /\ schedule_index = index
  /\ ~waiting_for_conf
  /\ txid = NoTx
  /\ latest_tx = NoTx

Stalled(index) ==
  /\ schedule_index = index
  /\ ~waiting_for_conf
  /\ txid = NoTx

stallMonitor ==
  \E i \in 1..Len(timers) :
    /\ Fires(i, "stallMonitor")
    /\ IF Stalled(timers[i].arg)
         THEN TakerFailed(nonrespondants, Without(timers, i))
         ELSE /\ timers' = Without(timers, i)
              /\ UNCHANGED <<status, scheduleVars, makerVars>>
    /\ UNCHANGED <<up, down, net, replaceVars, txVars, pushVars, walletVars,
                   starts>>

(***************************************************************************)
(* The wallet service's transaction_monitor and the callbacks it makes.    *)
(* Taker.tx_match asserts that latest_tx is set; the exception would end   *)
(* the looping call that is the monitor.                                   *)
(***************************************************************************)
MonitorDies == monitoring' = FALSE

(* The tumbler's unconf_update: honest-only mode ends and the entry at the *)
(* current index is flagged (IndexError if there is none).                 *)
unconf_update ==
  /\ honest_only' = FALSE
  /\ honest_makers' = {}
  /\ completed' = IF InRange(schedule_index)
                    THEN [completed EXCEPT ![Entry(schedule_index)] = TRUE]
                    ELSE completed

(* on_finished_callback(True, "unconfirmed") and what follows it.          *)
unconfirm_callback(t) ==
  IF Tumbling
    THEN /\ unconf_update
         /\ status' = status
         /\ IF InRange(schedule_index)
              THEN /\ waiting_for_conf' = TRUE
                   /\ net' = [net EXCEPT ![t] = "seen"]
                   /\ UNCHANGED monitoring
              ELSE MonitorDies /\ UNCHANGED <<waiting_for_conf, net>>
    ELSE /\ status' = IF schedule_index + 1 = ScheduleLen THEN "done"
                                                           ELSE status
         /\ waiting_for_conf' = TRUE
         /\ net' = [net EXCEPT ![t] = "seen"]
         /\ UNCHANGED <<honest_only, honest_makers, completed, monitoring>>

monitor_unconfirmed(t) ==
  /\ Running /\ monitoring
  /\ net[t] = "mempool"
  /\ IF t \in unconfirm_cbs /\ latest_tx = NoTx
       THEN /\ MonitorDies
            /\ unconfirm_cbs' = unconfirm_cbs \ {t}
            /\ UNCHANGED <<net, status, honest_only, honest_makers, completed,
                           waiting_for_conf>>
     ELSE IF t \in unconfirm_cbs /\ t = latest_tx
       THEN /\ unconfirm_callback(t)
            /\ unconfirm_cbs' = unconfirm_cbs \ {t}
     ELSE /\ net' = [net EXCEPT ![t] = "seen"]
          /\ UNCHANGED <<status, honest_only, honest_makers, completed,
                         waiting_for_conf, unconfirm_cbs, monitoring>>
  /\ UNCHANGED <<up, down, timers, schedule_index, n_counterparties,
                 ignored_makers, replaceVars, txVars, txid, confirm_cbs,
                 starts>>

(* The last entry ends the run.  The tumbler then sets field 5 of the      *)
(* entry, which is its rounding, not its completion flag.                  *)
confirm_callback ==
  IF schedule_index + 1 = ScheduleLen
    THEN /\ Finished(TRUE)
         /\ UNCHANGED <<timers, honest_only, honest_makers, completed>>
    ELSE /\ timers' = Restart(timers, WaitTime)
         /\ status' = status
         /\ IF Tumbling THEN unconf_update
                        ELSE UNCHANGED <<honest_only, honest_makers, completed>>

monitor_confirmed(t) ==
  /\ Running /\ monitoring
  /\ net[t] \in {"mempool", "seen"} \/ (net[t] = "confirmed" /\ t \in confirm_cbs)
  /\ net' = [net EXCEPT ![t] = "confirmed"]
  /\ IF t \in confirm_cbs /\ (latest_tx = NoTx \/
                              (t = latest_tx /\ ~InRange(schedule_index)))
       THEN /\ MonitorDies
            /\ confirm_cbs' = confirm_cbs \ {t}
            /\ waiting_for_conf' =
                 IF latest_tx = NoTx THEN waiting_for_conf ELSE FALSE
            /\ UNCHANGED <<timers, status, honest_only, honest_makers,
                           completed>>
     ELSE IF t \in confirm_cbs /\ t = latest_tx
       THEN /\ confirm_callback
            /\ waiting_for_conf' = FALSE
            /\ confirm_cbs' = confirm_cbs \ {t}
            /\ UNCHANGED monitoring
     ELSE UNCHANGED <<timers, status, honest_only, honest_makers, completed,
                      waiting_for_conf, confirm_cbs, monitoring>>
  /\ UNCHANGED <<up, down, schedule_index, n_counterparties, ignored_makers,
                 replaceVars, txVars, txid, unconfirm_cbs, starts>>

(* External: a maker that was asked to broadcast does so.                  *)
maker_broadcasts(t) ==
  /\ Running
  /\ net[t] = "offered"
  /\ net' = [net EXCEPT ![t] = "mempool"]
  /\ UNCHANGED <<up, down, timers, status, clientVars>>

ClientHandles ==
  \/ clientStart \/ on_JM_INIT_PROTO \/ on_JM_UP \/ on_JM_SETUP_DONE
  \/ get_offers \/ checkClientResponse \/ on_JM_OFFERS \/ on_fill_failure
  \/ receive_utxos \/ make_tx
  \/ on_sig_ignored \/ on_sig_partial \/ on_sig_push
  \/ handle_unbroadcast_transaction \/ stallMonitor

NetworkSteps ==
  \E t \in Txs :
    monitor_unconfirmed(t) \/ monitor_confirmed(t) \/ maker_broadcasts(t)
============================================================================
