------------------------- MODULE TakerSessionProofs -------------------------
(***************************************************************************)
(* Theorems about a taker's run, for every number of makers, inputs,       *)
(* schedule entries, restarts and every choice of the timeouts.            *)
(***************************************************************************)
EXTENDS TakerSession, FiniteSetTheorems, TLAPS

USE LinkAssumption, ClientAssumption

(***************************************************************************)
(* Queues of calls and of delayed calls                                    *)
(***************************************************************************)

(* Taking the head off a queue, or appending to it, keeps its type.        *)
LEMMA QueueType ==
  ASSUME NEW S, NEW q \in Seq(S)
  PROVE  /\ q # <<>> => Head(q) \in S /\ Tail(q) \in Seq(S)
         /\ \A x \in S : Append(q, x) \in Seq(S)
OBVIOUS

(* Removing a delayed call that has run.                                   *)
LEMMA WithoutType ==
  ASSUME NEW S, NEW s \in Seq(S), NEW i \in 1..Len(s)
  PROVE  Without(s, i) \in Seq(S)
<1>1. Len(s) - 1 \in Nat
  OBVIOUS
<1>2. \A j \in 1..(Len(s) - 1) : (IF j < i THEN s[j] ELSE s[j + 1]) \in S
  OBVIOUS
<1> QED
  BY <1>1, <1>2 DEF Without

(* The calls that the two sides send have the type of their queue, and a   *)
(* call that is received has the arguments of its type.                    *)
LEMMA UpMessageType ==
  /\ \A ty \in {"JMInit", "JMStartMC", "JMSetup", "JMRequestOffers"} :
       [type |-> ty] \in UpMessages
  /\ \A ms \in SUBSET Makers :
       [type |-> "JMFill", makers |-> ms] \in UpMessages
  /\ \A ms \in SUBSET Makers, t \in Txs :
       [type |-> "JMMakeTx", makers |-> ms, tx |-> t] \in UpMessages
  /\ \A t \in Txs : [type |-> "JMPushTx", tx |-> t] \in UpMessages
  /\ \A a \in {"accepted", "refused", "error"}, s \in BOOLEAN :
       FillAnswer(a, s) \in UpMessages
  /\ \A m \in UpMessages :
       /\ m.type = "JMFill" => m.makers \in SUBSET Makers
       /\ m.type = "JMMakeTx" => m.makers \in SUBSET Makers /\ m.tx \in Txs
       /\ m.type = "JMPushTx" => m.tx \in Txs
BY DEF UpMessages, FillAnswer

LEMMA DownMessageType ==
  /\ \A ty \in {"JMInitProto", "JMUp", "JMSetupDone", "JMOffers", "Rejected"} :
       [type |-> ty] \in DownMessages
  /\ \A ms \in SUBSET Makers, s \in BOOLEAN :
       [type |-> "JMFillResponse", success |-> s, makers |-> ms]
         \in DownMessages
  /\ \A m \in Makers, t \in Txs, i \in Inputs :
       [type |-> "JMSigReceived", nick |-> m, tx |-> t, input |-> i]
         \in DownMessages
  /\ \A m \in DownMessages :
       /\ m.type = "JMFillResponse" =>
            m.makers \in SUBSET Makers /\ m.success \in BOOLEAN
       /\ m.type = "JMSigReceived" =>
            m.nick \in Makers /\ m.tx \in Txs /\ m.input \in Inputs
BY DEF DownMessages

LEMMA TimerType ==
  /\ \A k \in OtherTimers, d \in Nat, a \in Int : CallLater(k, d, a) \in TimerRecs
  /\ \A k \in OtherTimers : CallLater(k, 0, 0) \in TimerRecs
  /\ \A k \in TxTimers, d \in Nat, t \in Txs : CallLater(k, d, t) \in TimerRecs
  /\ \A ms \in SUBSET Makers, d \in Nat, t \in Txs :
       [CallLater("make_tx", d, t) EXCEPT !.makers = ms] \in TimerRecs
  /\ \A r \in TimerRecs : r.kind \in TxTimers => r.arg \in Txs
  /\ \A r \in TimerRecs : r.makers \in SUBSET Makers /\ r.left \in Nat
  /\ \A r \in TimerRecs : r.left > 0 => [r EXCEPT !.left = @ - 1] \in TimerRecs
<1>1. /\ \A k \in OtherTimers, d \in Nat, a \in Int : CallLater(k, d, a) \in TimerRecs
      /\ \A k \in OtherTimers : CallLater(k, 0, 0) \in TimerRecs
      /\ \A k \in TxTimers, d \in Nat, t \in Txs : CallLater(k, d, t) \in TimerRecs
      /\ \A ms \in SUBSET Makers, d \in Nat, t \in Txs :
           [CallLater("make_tx", d, t) EXCEPT !.makers = ms] \in TimerRecs
  BY DEF TimerRecs, TxTimers, OtherTimers, CallLater, Txs
<1>2. /\ \A r \in TimerRecs : r.kind \in TxTimers => r.arg \in Txs
      /\ \A r \in TimerRecs : r.makers \in SUBSET Makers /\ r.left \in Nat
      /\ \A r \in TimerRecs : r.left > 0 => [r EXCEPT !.left = @ - 1] \in TimerRecs
  BY DEF TimerRecs, TxTimers, OtherTimers
<1> QED
  BY <1>1, <1>2

(* Sets of makers are finite: counting them gives a natural number.        *)
LEMMA MakerCount ==
  ASSUME NEW ms \in SUBSET Makers
  PROVE  Cardinality(ms) \in Nat
BY FS_Subset, FS_CardinalityType

(***************************************************************************)
(* Type correctness                                                        *)
(***************************************************************************)

(* The response to the client, whichever way stage 1 ends.                 *)
LEMMA RespondType ==
  ASSUME NEW a \in BOOLEAN, NEW data \in SUBSET Makers,
         active_orders \ data \in SUBSET Makers,
         down \in Seq(DownMessages), jm_state \in 0..4,
         respondToIoauths(a, data)
  PROVE  down' \in Seq(DownMessages) /\ jm_state' \in 0..4
<1>1. CASE jm_state # 2
  BY <1>1 DEF respondToIoauths
<1>2. CASE jm_state = 2
  <2> DEFINE msg == [type |-> "JMFillResponse", success |-> a,
                     makers |-> IF a THEN data ELSE active_orders \ data]
  <2>1. msg \in DownMessages
    BY DownMessageType
  <2>2. down' = Append(down, msg) /\ jm_state' = 3
    BY <1>2 DEF respondToIoauths
  <2> QED
    BY <2>1, <2>2, QueueType
<1> QED
  BY <1>1, <1>2

(* The steps of the daemon and of the makers keep the types of the link    *)
(* and of the daemon's own state.                                          *)
LEMMA DaemonStepType ==
  ASSUME TypeOK, DaemonHandles \/ MakerReplies
  PROVE  LinkTypeOK' /\ DaemonTypeOK'
<1> USE UpMessageType, DownMessageType
<1> USE DEF TypeOK, DaemonGets, Running, linkVars, daemonVars
<1>0. /\ up \in Seq(UpMessages) /\ down \in Seq(DownMessages)
      /\ timers \in Seq(TimerRecs)
      /\ up # <<>> => Head(up) \in UpMessages /\ Tail(up) \in Seq(UpMessages)
      /\ \A m \in DownMessages : Append(down, m) \in Seq(DownMessages)
      /\ \A r \in TimerRecs : Append(timers, r) \in Seq(TimerRecs)
  BY QueueType DEF LinkTypeOK
<1>1. CASE on_JM_INIT
  BY <1>0, <1>1 DEF on_JM_INIT, LinkTypeOK, DaemonTypeOK
<1>2. CASE on_JM_START_MC
  <2>1. up' \in Seq(UpMessages) /\ down' \in Seq(DownMessages)
    BY <1>0, <1>2 DEF on_JM_START_MC
  <2> QED
    BY <1>0, <1>2, <2>1 DEF on_JM_START_MC, LinkTypeOK, DaemonTypeOK
<1>3. CASE on_welcome
  BY <1>0, <1>3 DEF on_welcome, LinkTypeOK, DaemonTypeOK
<1>4. CASE on_JM_SETUP
  <2>1. up' \in Seq(UpMessages) /\ down' \in Seq(DownMessages)
    BY <1>0, <1>4 DEF on_JM_SETUP
  <2>2. Outdated(wire) \in SUBSET WireRecs
    BY DEF Outdated, Reply, WireRecs, DaemonTypeOK
  <2>3. NoBoxes \in [Makers -> {"none", "good", "spoiled"}]
    BY DEF NoBoxes
  <2> QED
    BY <1>0, <1>4, <2>1, <2>2, <2>3 DEF on_JM_SETUP, LinkTypeOK, DaemonTypeOK
<1>5. CASE on_JM_REQUEST_OFFERS
  BY <1>0, <1>5 DEF on_JM_REQUEST_OFFERS, LinkTypeOK, DaemonTypeOK
<1>6. CASE on_JM_FILL
  <2>1. up' \in Seq(UpMessages) /\ down' \in Seq(DownMessages)
    BY <1>0, <1>6 DEF on_JM_FILL
  <2>2. Head(up) \in UpMessages /\ Head(up).makers \in SUBSET Makers
    BY <1>0, <1>6 DEF on_JM_FILL
  <2>3. {Reply(m, "pubkey") : m \in Head(up).makers} \in SUBSET WireRecs
    BY <2>2 DEF Reply, WireRecs
  <2>4. timers' \in Seq(TimerRecs)
    <3>1. fill_no + 1 \in Int
      BY DEF DaemonTypeOK
    <3>2. CallLater("completeStage1", MakerTimeout, fill_no + 1) \in TimerRecs
      BY <3>1, TimerType DEF OtherTimers
    <3> QED
      BY <1>0, <1>6, <3>2 DEF on_JM_FILL
  <2>5. LinkTypeOK'
    BY <1>6, <2>1, <2>4 DEF on_JM_FILL, LinkTypeOK
  <2>6. CASE jm_state # 1
    BY <1>6, <2>5, <2>6 DEF on_JM_FILL, DaemonTypeOK
  <2>7. CASE jm_state = 1
    <3>1. wire' \in SUBSET WireRecs
      BY <1>6, <2>3, <2>7 DEF on_JM_FILL, DaemonTypeOK
    <3>2. fill_no' \in Nat /\ jm_state' \in 0..4
      BY <1>6, <2>7 DEF on_JM_FILL, DaemonTypeOK
    <3> QED
      BY <1>6, <2>2, <2>5, <2>7, <3>1, <3>2 DEF on_JM_FILL, DaemonTypeOK
  <2> QED
    BY <2>6, <2>7
<1>7. CASE checkUtxosAccepted
  BY <1>0, <1>7 DEF checkUtxosAccepted, LinkTypeOK, DaemonTypeOK
<1>8. CASE on_JM_MAKE_TX
  <2>1. up' \in Seq(UpMessages) /\ down' \in Seq(DownMessages)
    <3>1. down' = down \/ down' = Append(down, [type |-> "Rejected"])
      BY <1>8 DEF on_JM_MAKE_TX
    <3>2. up # <<>> /\ up' = Tail(up)
      BY <1>8 DEF on_JM_MAKE_TX
    <3> QED
      BY <1>0, <3>1, <3>2
  <2>2. /\ Head(up) \in UpMessages
        /\ Head(up).makers \in SUBSET Makers /\ Head(up).tx \in Txs
    BY <1>0, <1>8 DEF on_JM_MAKE_TX
  <2>3. {[from |-> m, cmd |-> "sig", tx |-> Head(up).tx, input |-> i] :
           m \in {x \in Head(up).makers : crypto_boxes[x] = "good"},
           i \in Inputs} \in SUBSET WireRecs
    BY <2>2 DEF WireRecs
  <2> QED
    BY <1>0, <1>8, <2>1, <2>3 DEF on_JM_MAKE_TX, LinkTypeOK, DaemonTypeOK
<1>9. CASE on_JM_PushTx
  <2>1. up' \in Seq(UpMessages)
    BY <1>0, <1>9 DEF on_JM_PushTx
  <2> QED
    BY <1>0, <1>9, <2>1 DEF on_JM_PushTx, LinkTypeOK, DaemonTypeOK
<1>10. CASE completeStage1
  <2>1. PICK i \in 1..Len(timers) :
          /\ timers' = Without(timers, i)
          /\ respondToIoauths(Cardinality(ioauth_data) >= MinMakers, ioauth_data)
          /\ UNCHANGED <<up, status, net, mc, active_orders, ioauth_data,
                         crypto_boxes, fill_no, wire>>
    BY <1>10 DEF completeStage1
  <2>2. timers' \in Seq(TimerRecs)
    BY <1>0, <2>1, WithoutType
  <2>3. down' \in Seq(DownMessages) /\ jm_state' \in 0..4
    <3>1. Cardinality(ioauth_data) \in Nat
      BY MakerCount DEF DaemonTypeOK
    <3>2. (Cardinality(ioauth_data) >= MinMakers) \in BOOLEAN
      BY <3>1
    <3>3. ioauth_data \in SUBSET Makers /\ jm_state \in 0..4
          /\ active_orders \ ioauth_data \in SUBSET Makers
      BY DEF DaemonTypeOK
    <3> QED
      BY <1>0, <2>1, <3>2, <3>3, RespondType
  <2> QED
    BY <1>0, <2>1, <2>2, <2>3 DEF LinkTypeOK, DaemonTypeOK
<1>11. ASSUME NEW r \in wire, on_pubkey(r.from, r.cmd)
       PROVE  LinkTypeOK' /\ DaemonTypeOK'
  <2>1. r.from \in Makers /\ r \in WireRecs
    BY DEF DaemonTypeOK, WireRecs
  <2>2. Reply(r.from, "ioauth") \in WireRecs
    BY <2>1 DEF Reply, WireRecs
  <2> QED
    BY <1>11, <2>1, <2>2 DEF on_pubkey, LinkTypeOK, DaemonTypeOK
<1>12. ASSUME NEW r \in wire, on_ioauth(r.from)
       PROVE  LinkTypeOK' /\ DaemonTypeOK'
  <2>1. r.from \in Makers
    BY DEF DaemonTypeOK, WireRecs
  <2>2. ioauth_data' \in SUBSET Makers /\ wire' \in SUBSET WireRecs
    BY <1>12, <2>1 DEF on_ioauth, DaemonTypeOK
  <2>3. down' \in Seq(DownMessages) /\ jm_state' \in 0..4
    <3>1. \/ UNCHANGED <<down, jm_state>>
          \/ respondToIoauths(TRUE, ioauth_data')
      BY <1>12 DEF on_ioauth
    <3>2. jm_state \in 0..4 /\ active_orders \ ioauth_data' \in SUBSET Makers
      BY DEF DaemonTypeOK
    <3> QED
      BY <1>0, <2>2, <3>1, <3>2, RespondType
  <2> QED
    BY <1>0, <1>12, <2>2, <2>3 DEF on_ioauth, LinkTypeOK, DaemonTypeOK
<1>13. ASSUME NEW r \in wire, on_sig(r)
       PROVE  LinkTypeOK' /\ DaemonTypeOK'
  <2>1. r.from \in Makers /\ r.tx \in Txs /\ r.input \in Inputs
    BY <1>13 DEF on_sig, DaemonTypeOK, WireRecs
  <2>2. down' \in Seq(DownMessages)
    BY <1>0, <1>13, <2>1 DEF on_sig
  <2> QED
    BY <1>0, <1>13, <2>2 DEF on_sig, LinkTypeOK, DaemonTypeOK
<1> QED
  BY <1>1, <1>2, <1>3, <1>4, <1>5, <1>6, <1>7, <1>8, <1>9, <1>10, <1>11,
     <1>12, <1>13 DEF DaemonHandles, MakerReplies

(* What the finished-callback does to the schedule and the delayed calls.  *)
LEMMA TakerFailedType ==
  ASSUME TypeOK, NEW nr \in SUBSET Makers, NEW tms \in Seq(TimerRecs),
         TakerFailed(nr, tms)
  PROVE  /\ timers' \in Seq(TimerRecs)
         /\ status' \in {"running", "failed", "done"}
         /\ schedule_index' \in Int
         /\ n_counterparties' \in [Entries -> Nat]
         /\ completed' = completed
         /\ ignored_makers' \in SUBSET Makers
         /\ honest_makers' \in SUBSET Makers
         /\ honest_only' \in BOOLEAN
<1> DEFINE cur == Entry(schedule_index)
<1>1. \A d \in Nat : Restart(tms, d) \in Seq(TimerRecs)
  <2>1. \A d \in Nat : CallLater("clientStart", d, 0) \in TimerRecs
    BY TimerType DEF OtherTimers
  <2> QED
    BY <2>1, QueueType DEF Restart
<1>2. SymDiff(maker_utxo_data, nr) \in SUBSET Makers
  BY DEF SymDiff, TypeOK, ClientTypeOK
<1>3. /\ schedule_index \in Int /\ n_counterparties \in [Entries -> Nat]
      /\ ignored_makers \in SUBSET Makers /\ honest_makers \in SUBSET Makers
      /\ honest_only \in BOOLEAN /\ status \in {"running", "failed", "done"}
  BY DEF TypeOK, ClientTypeOK, LinkTypeOK
<1>4. \A n \in Nat : [n_counterparties EXCEPT ![cur] = n] \in [Entries -> Nat]
  BY <1>3
<1>5. CASE ~Tumbling
  <2> DEFINE honest == honest_makers \cup SymDiff(maker_utxo_data, nr)
  <2>1. SendpaymentFailed(nr, tms)
    BY <1>5 DEF TakerFailed
  <2>2. honest \in SUBSET Makers /\ Cardinality(honest) \in Nat
    BY <1>2, <1>3, MakerCount
  <2>3. [n_counterparties EXCEPT ![cur] = Cardinality(honest)] \in [Entries -> Nat]
    BY <1>4, <2>2
  <2>4. honest_makers' \in SUBSET Makers /\ honest_only' \in BOOLEAN
    BY <1>3, <2>1, <2>2 DEF SendpaymentFailed
  <2>5. timers' \in {tms, Restart(tms, RestartDelay)}
    BY <2>1 DEF SendpaymentFailed
  <2>6. n_counterparties' \in [Entries -> Nat] /\ schedule_index' \in Int
    <3>1. \/ n_counterparties' = n_counterparties
          \/ n_counterparties' = [n_counterparties EXCEPT ![cur] = Cardinality(honest)]
      BY <2>1 DEF SendpaymentFailed
    <3>2. schedule_index' \in {schedule_index, schedule_index - 1}
      BY <2>1 DEF SendpaymentFailed
    <3> QED
      BY <1>3, <2>3, <3>1, <3>2
  <2>7. status' \in {"running", "failed", "done"}
    BY <1>3, <2>1 DEF SendpaymentFailed, Finished
  <2> QED
    BY <1>1, <1>3, <2>1, <2>4, <2>5, <2>6, <2>7 DEF SendpaymentFailed
<1>6. CASE Tumbling
  <2> DEFINE honest == SymDiff(maker_utxo_data, nr)
  <2>1. TumblerFailed(nr, tms)
    BY <1>6 DEF TakerFailed
  <2>2. honest \in SUBSET Makers /\ Cardinality(honest) \in Nat
    BY <1>2, MakerCount
  <2>3. CASE ~InRange(schedule_index)
    BY <1>3, <2>1, <2>3 DEF TumblerFailed
  <2>4. CASE InRange(schedule_index)
    <3>1. cur \in Entries
      BY <1>3 DEF Entry, Entries
    <3>2. n_counterparties[cur] \in Nat
      BY <1>3, <3>1
    <3>3. TweakedCount(n_counterparties[cur]) \subseteq Nat
      BY <3>2 DEF TweakedCount
    <3>4. n_counterparties' \in [Entries -> Nat]
      BY <1>4, <2>1, <2>2, <2>4, <3>3 DEF TumblerFailed
    <3>5. honest_makers' \in SUBSET Makers /\ honest_only' \in BOOLEAN
      BY <1>3, <2>1, <2>2, <2>4 DEF TumblerFailed
    <3>6. timers' \in Seq(TimerRecs)
      BY <1>1, <2>1, <2>4 DEF TumblerFailed
    <3> QED
      BY <1>3, <2>1, <2>4, <3>4, <3>5, <3>6 DEF TumblerFailed
  <2> QED
    BY <2>3, <2>4
<1> QED
  BY <1>5, <1>6

(* The steps of the client, and of the wallet and the network around it,   *)
(* keep the types of the link and of the client's own state.               *)
LEMMA ClientStepType ==
  ASSUME TypeOK, ClientHandles \/ NetworkSteps
  PROVE  LinkTypeOK' /\ ClientTypeOK'
<1> USE DEF TypeOK, ClientGets, Running, linkVars, clientVars, scheduleVars,
            makerVars, replaceVars, txVars, pushVars, walletVars
<1>0. /\ up \in Seq(UpMessages) /\ down \in Seq(DownMessages)
      /\ timers \in Seq(TimerRecs)
      /\ down # <<>> => Head(down) \in DownMessages
                        /\ Tail(down) \in Seq(DownMessages)
      /\ \A m \in UpMessages : Append(up, m) \in Seq(UpMessages)
      /\ \A r \in TimerRecs : Append(timers, r) \in Seq(TimerRecs)
      /\ \A i \in 1..Len(timers) :
            timers[i] \in TimerRecs /\ Without(timers, i) \in Seq(TimerRecs)
  BY QueueType, WithoutType DEF LinkTypeOK
<1>1. CASE clientStart
  <2>1. PICK i \in 1..Len(timers) :
          /\ starts < MaxStarts
          /\ timers' = Append(Without(timers, i),
               CallLater("stallMonitor", StallTimeout, schedule_index + 1))
    BY <1>1 DEF clientStart
  <2>2. schedule_index + 1 \in Int
    BY DEF ClientTypeOK
  <2>3. timers' \in Seq(TimerRecs)
    BY <1>0, <2>1, <2>2, TimerType, QueueType DEF OtherTimers
  <2>4. up' \in Seq(UpMessages)
    BY <1>0, <1>1, UpMessageType DEF clientStart
  <2> QED
    BY <1>1, <2>3, <2>4 DEF clientStart, LinkTypeOK, ClientTypeOK
<1>2. CASE on_JM_INIT_PROTO
  BY <1>0, <1>2, UpMessageType DEF on_JM_INIT_PROTO, LinkTypeOK, ClientTypeOK
<1>3. CASE on_JM_UP
  BY <1>0, <1>3, UpMessageType DEF on_JM_UP, LinkTypeOK, ClientTypeOK
<1>4. CASE on_JM_SETUP_DONE
  <2>1. CallLater("get_offers", MakerTimeout, 0) \in TimerRecs
    BY TimerType DEF OtherTimers
  <2> QED
    BY <1>0, <1>4, <2>1 DEF on_JM_SETUP_DONE, LinkTypeOK, ClientTypeOK
<1>5. CASE get_offers
  <2>1. timers' \in Seq(TimerRecs)
    BY <1>0, <1>5 DEF get_offers
  <2> QED
    BY <1>0, <1>5, <2>1, UpMessageType DEF get_offers, LinkTypeOK, ClientTypeOK
<1>6. CASE checkClientResponse
  BY <1>0, <1>6 DEF checkClientResponse, Finished, LinkTypeOK, ClientTypeOK
<1>7. CASE make_tx
  <2>1. PICK i \in 1..Len(timers) :
          /\ Fires(i, "make_tx")
          /\ timers' = Without(timers, i)
          /\ up' = Append(up, [type |-> "JMMakeTx", makers |-> timers[i].makers,
                               tx |-> timers[i].arg])
    BY <1>7 DEF make_tx
  <2>2. timers[i].makers \in SUBSET Makers /\ timers[i].arg \in Txs
    BY <1>0, <2>1, TimerType DEF Fires, TxTimers
  <2>3. up' \in Seq(UpMessages)
    BY <1>0, <2>1, <2>2, UpMessageType
  <2> QED
    BY <1>0, <1>7, <2>1, <2>3 DEF make_tx, LinkTypeOK, ClientTypeOK
<1>8. CASE on_sig_ignored
  BY <1>0, <1>8 DEF on_sig_ignored, LinkTypeOK, ClientTypeOK
<1>9. CASE on_sig_partial
  <2>1. unsigned' \in SUBSET (Makers \X Inputs)
    BY <1>9 DEF on_sig_partial, InsertSig, ClientTypeOK
  <2>2. nonrespondants' \in SUBSET Makers
    BY <1>9 DEF on_sig_partial, StillOwing, ClientTypeOK
  <2> QED
    BY <1>0, <1>9, <2>1, <2>2 DEF on_sig_partial, LinkTypeOK, ClientTypeOK
<1>10. CASE stallMonitor
  <2>1. PICK i \in 1..Len(timers) :
          \/ TakerFailed(nonrespondants, Without(timers, i))
          \/ /\ timers' = Without(timers, i)
             /\ UNCHANGED <<status, scheduleVars, makerVars>>
    BY <1>10 DEF stallMonitor
  <2>2. nonrespondants \in SUBSET Makers /\ Without(timers, i) \in Seq(TimerRecs)
    BY <1>0 DEF ClientTypeOK
  <2>3. UNCHANGED <<up, down, net, replaceVars, txVars, pushVars, walletVars,
                    starts>>
    BY <1>10 DEF stallMonitor
  <2>4. CASE TakerFailed(nonrespondants, Without(timers, i))
    BY <2>2, <2>3, <2>4, TakerFailedType DEF LinkTypeOK, ClientTypeOK
  <2>5. CASE /\ timers' = Without(timers, i)
             /\ UNCHANGED <<status, scheduleVars, makerVars>>
    BY <2>2, <2>3, <2>5 DEF LinkTypeOK, ClientTypeOK
  <2> QED
    BY <2>1, <2>4, <2>5
<1>11. CASE handle_unbroadcast_transaction
  <2>1. PICK i \in 1..Len(timers) :
          /\ Fires(i, "handle_unbroadcast")
          /\ timers' = Without(timers, i)
          /\ unconfirm_cbs' \in
               {unconfirm_cbs, (unconfirm_cbs \ {txid}) \cup {timers[i].arg}}
          /\ net' = net \/ push_ourselves_ok(latest_tx)
    BY <1>11 DEF handle_unbroadcast_transaction
  <2>2. timers[i].arg \in Txs
    BY <1>0, <2>1, TimerType DEF Fires, TxTimers
  <2>3. unconfirm_cbs' \in SUBSET Txs
    BY <2>1, <2>2 DEF ClientTypeOK
  <2>4. LinkTypeOK'
    BY <1>0, <1>11, <2>1
       DEF handle_unbroadcast_transaction, push_ourselves_ok, LinkTypeOK
  <2> QED
    BY <1>11, <2>3, <2>4 DEF handle_unbroadcast_transaction, ClientTypeOK
<1>12. CASE on_JM_OFFERS
  <2>1. up' = up \/ \E ms \in SUBSET Makers :
                      /\ up' = Append(up, [type |-> "JMFill", makers |-> ms])
                      /\ nonrespondants' = ms
    BY <1>12 DEF on_JM_OFFERS, Eligible, ClientTypeOK
  <2>2. up' \in Seq(UpMessages)
    BY <1>0, <2>1, UpMessageType
  <2>3. nonrespondants' \in SUBSET Makers
    BY <1>12 DEF on_JM_OFFERS, Eligible, ClientTypeOK
  <2>4. status' \in {"running", "failed", "done"}
    BY <1>12 DEF on_JM_OFFERS, Finished, LinkTypeOK
  <2>5. schedule_index' = schedule_index + 1
    BY <1>12 DEF on_JM_OFFERS, NextEntry
  <2>6. /\ replacements' \in {0, replacements}
        /\ replacement_index' \in {replacement_index, schedule_index + 1}
        /\ latest_tx' \in {latest_tx, NoTx}
        /\ txid' \in {txid, NoTx}
        /\ cj_entry' \in {cj_entry, Entry(schedule_index + 1)}
    BY <1>12 DEF on_JM_OFFERS, NextEntry
  <2>7. Entry(schedule_index + 1) \in Entries
    BY DEF Entry, Entries, ClientTypeOK
  <2>8. LinkTypeOK'
    BY <1>0, <1>12, <2>2, <2>4 DEF on_JM_OFFERS, LinkTypeOK
  <2> QED
    BY <1>12, <2>3, <2>5, <2>6, <2>7, <2>8 DEF on_JM_OFFERS, ClientTypeOK
<1>13. ASSUME NEW ms \in SUBSET Makers, NEW b \in BOOLEAN,
              PhaseOneFailed(ms, b)
       PROVE  /\ timers' \in Seq(TimerRecs) /\ up' \in Seq(UpMessages)
              /\ status' \in {"running", "failed", "done"}
              /\ schedule_index' \in Int /\ replacement_index' \in Int
              /\ replacements' \in 0..MaxReplacements
  <2>1. CASE CanReplace(ms)
    <3>1. CallLater("get_offers", 0, 0) \in TimerRecs
      BY TimerType DEF OtherTimers
    <3>2. FillAnswer("accepted", b) \in UpMessages
      BY UpMessageType
    <3>3. replacements < MaxReplacements
      BY <2>1 DEF CanReplace
    <3>4. /\ timers' = Append(timers, CallLater("get_offers", 0, 0))
          /\ up' = Append(up, FillAnswer("accepted", b))
          /\ status' = status
          /\ schedule_index' = schedule_index - 1
          /\ replacement_index' = schedule_index
          /\ replacements' = replacements + 1
      BY <1>13, <2>1 DEF PhaseOneFailed, ReplaceMakers
    <3>5. timers' \in Seq(TimerRecs) /\ up' \in Seq(UpMessages)
      BY <1>0, <3>1, <3>2, <3>4
    <3> QED
      BY <3>3, <3>4, <3>5 DEF ClientTypeOK, LinkTypeOK
  <2>2. CASE ~CanReplace(ms)
    <3>1. FillAnswer(IF b \/ ScheduleLen = 1 THEN "refused" ELSE "accepted", b)
            \in UpMessages
      BY UpMessageType
    <3>2. /\ UNCHANGED <<replaceVars, schedule_index, timers>>
          /\ status' \in {"failed", status}
          /\ up' = Append(up, FillAnswer(
                IF b \/ ScheduleLen = 1 THEN "refused" ELSE "accepted", b))
      BY <1>13, <2>2 DEF PhaseOneFailed
    <3>3. up' \in Seq(UpMessages)
      BY <1>0, <3>1, <3>2
    <3> QED
      BY <3>2, <3>3 DEF ClientTypeOK, LinkTypeOK
  <2> QED
    BY <2>1, <2>2
<1>14. CASE on_fill_failure
  <2>1. /\ Head(down).makers \in SUBSET Makers
        /\ PhaseOneFailed(Head(down).makers, FALSE)
    BY <1>0, <1>14, DownMessageType DEF on_fill_failure
  <2>2. ignored_makers' \in SUBSET Makers
    BY <1>14, <2>1 DEF on_fill_failure, ClientTypeOK
  <2> QED
    BY <1>0, <1>13, <1>14, <2>1, <2>2
       DEF on_fill_failure, LinkTypeOK, ClientTypeOK
<1>15. CASE receive_utxos
  <2>1. Head(down).makers \in SUBSET Makers
    BY <1>0, <1>15, DownMessageType DEF receive_utxos
  <2>2. PICK valid \in SUBSET Makers, malicious \in SUBSET Makers :
          \/ receive_utxos_too_few(valid, malicious)
          \/ receive_utxos_no_tx(valid, malicious)
          \/ receive_utxos_build(valid, malicious)
    BY <1>15, <2>1 DEF receive_utxos
  <2>3. /\ down' \in Seq(DownMessages)
        /\ UNCHANGED <<net, n_counterparties, completed, honest_makers,
                       honest_only, pushVars, walletVars, starts>>
    BY <1>0, <1>15 DEF receive_utxos
  <2>4. CASE receive_utxos_too_few(valid, malicious)
    <3>1. nonrespondants \ valid \in SUBSET Makers
      BY DEF ClientTypeOK
    <3>2. /\ timers' \in Seq(TimerRecs) /\ up' \in Seq(UpMessages)
          /\ status' \in {"running", "failed", "done"}
          /\ schedule_index' \in Int /\ replacement_index' \in Int
          /\ replacements' \in 0..MaxReplacements
      BY <1>13, <2>4, <3>1 DEF receive_utxos_too_few
    <3> QED
      BY <2>3, <2>4, <3>1, <3>2 DEF receive_utxos_too_few, LinkTypeOK, ClientTypeOK
  <2>5. CASE receive_utxos_no_tx(valid, malicious)
    <3>1. /\ timers' \in Seq(TimerRecs) /\ up' \in Seq(UpMessages)
          /\ status' \in {"running", "failed", "done"}
          /\ schedule_index' \in Int /\ replacement_index' \in Int
          /\ replacements' \in 0..MaxReplacements
      <4>1. CASE PhaseOneFailed({}, TRUE)
        BY <1>13, <4>1
      <4>2. CASE /\ up' = Append(up, FillAnswer("error", TRUE))
                 /\ UNCHANGED <<replaceVars, schedule_index, timers, status>>
        BY <1>0, <4>2, UpMessageType DEF LinkTypeOK, ClientTypeOK
      <4> QED
        BY <2>5, <4>1, <4>2 DEF receive_utxos_no_tx
    <3> QED
      BY <2>3, <2>5, <3>1 DEF receive_utxos_no_tx, LinkTypeOK, ClientTypeOK
  <2>6. CASE receive_utxos_build(valid, malicious)
    <3> DEFINE t == Len(entryOf) + 1
    <3>1. t \in Txs /\ Len(entryOf) \in Nat
      BY <2>6 DEF receive_utxos_build, Txs, ClientTypeOK
    <3>2. up' \in Seq(UpMessages)
      BY <1>0, <2>6, UpMessageType DEF receive_utxos_build
    <3>3. timers' \in Seq(TimerRecs)
      <4>1. [CallLater("make_tx", 0, t) EXCEPT !.makers = valid] \in TimerRecs
        BY <3>1, TimerType
      <4> QED
        BY <1>0, <2>6, <4>1 DEF receive_utxos_build
    <3>4. LinkTypeOK'
      BY <2>3, <2>6, <3>2, <3>3 DEF receive_utxos_build, LinkTypeOK
    <3>5. entryOf' \in Seq(Entries) /\ Len(entryOf') <= MaxTxs
      BY <2>6, <3>1 DEF receive_utxos_build, ClientTypeOK
    <3>6. unsigned' \in SUBSET (Makers \X Inputs)
      BY <2>6 DEF receive_utxos_build, MakerInputs
    <3> QED
      BY <2>3, <2>6, <3>1, <3>4, <3>5, <3>6 DEF receive_utxos_build, ClientTypeOK
  <2> QED
    BY <2>2, <2>4, <2>5, <2>6
<1>16. CASE on_sig_push
  <2>1. latest_tx \in Txs /\ Head(down).tx = latest_tx
    BY <1>0, <1>16, DownMessageType DEF on_sig_push, SigMatches
  <2>2. /\ unsigned' \in SUBSET (Makers \X Inputs)
        /\ nonrespondants' \in SUBSET Makers
    BY <1>16 DEF on_sig_push, InsertSig, StillOwing, ClientTypeOK
  <2>3. ArmBroadcastCheck(timers) \in Seq(TimerRecs)
    <3>1. CallLater("handle_unbroadcast", UnconfirmTimeout, latest_tx) \in TimerRecs
      BY <2>1, TimerType DEF TxTimers
    <3> QED
      BY <1>0, <3>1 DEF ArmBroadcastCheck
  <2>4. /\ down' \in Seq(DownMessages)
        /\ txid' = latest_tx
        /\ unconfirm_cbs' \in SUBSET Txs /\ confirm_cbs' \in SUBSET Txs
        /\ UNCHANGED <<replaceVars, maker_utxo_data, latest_tx, entryOf, cj_entry,
                       waiting_for_conf, monitoring, starts>>
    BY <1>0, <1>16, <2>1 DEF on_sig_push, ClientTypeOK
  <2>5. CASE /\ up' = Append(up, [type |-> "JMPushTx", tx |-> latest_tx])
             /\ timers' = ArmBroadcastCheck(timers)
             /\ UNCHANGED <<net, status, scheduleVars, makerVars>>
    <3>1. up' \in Seq(UpMessages)
      BY <1>0, <2>1, <2>5, UpMessageType
    <3> QED
      BY <2>1, <2>2, <2>3, <2>4, <2>5, <3>1 DEF LinkTypeOK, ClientTypeOK
  <2>6. CASE /\ push_ourselves_ok(latest_tx)
             /\ timers' = ArmBroadcastCheck(timers)
             /\ UNCHANGED <<up, status, scheduleVars, makerVars>>
    <3>1. LinkTypeOK'
      BY <2>3, <2>4, <2>6 DEF push_ourselves_ok, LinkTypeOK
    <3> QED
      BY <2>1, <2>2, <2>4, <2>6, <3>1 DEF ClientTypeOK
  <2>7. CASE /\ TakerFailed(nonrespondants', ArmBroadcastCheck(timers))
             /\ UNCHANGED <<up, net>>
    <3>1. /\ timers' \in Seq(TimerRecs)
          /\ status' \in {"running", "failed", "done"}
          /\ schedule_index' \in Int
          /\ n_counterparties' \in [Entries -> Nat]
          /\ completed' = completed
          /\ ignored_makers' \in SUBSET Makers
          /\ honest_makers' \in SUBSET Makers
          /\ honest_only' \in BOOLEAN
      BY <2>2, <2>3, <2>7, TakerFailedType
    <3> QED
      BY <2>1, <2>2, <2>4, <2>7, <3>1 DEF LinkTypeOK, ClientTypeOK
  <2> QED
    BY <1>16, <2>5, <2>6, <2>7 DEF on_sig_push
<1>17. /\ unconf_update => /\ honest_only' \in BOOLEAN
                           /\ honest_makers' \in SUBSET Makers
                           /\ completed' \in [Entries -> BOOLEAN]
  BY DEF unconf_update, ClientTypeOK
<1>18. \A t \in Txs : \A v \in {"seen", "mempool", "confirmed"} :
         [net EXCEPT ![t] = v] \in
           [Txs -> {"none", "offered", "mempool", "seen", "confirmed"}]
  BY DEF LinkTypeOK
<1>19. ASSUME NEW t \in Txs, monitor_unconfirmed(t)
       PROVE  LinkTypeOK' /\ ClientTypeOK'
  <2>1. net' \in {net, [net EXCEPT ![t] = "seen"]}
    BY <1>19 DEF monitor_unconfirmed, unconfirm_callback
  <2>2. /\ honest_only' \in BOOLEAN /\ honest_makers' \in SUBSET Makers
        /\ completed' \in [Entries -> BOOLEAN]
    <3>1. \/ unconf_update
          \/ UNCHANGED <<honest_only, honest_makers, completed>>
      BY <1>19 DEF monitor_unconfirmed, unconfirm_callback
    <3> QED
      BY <1>17, <3>1 DEF ClientTypeOK
  <2>3. /\ status' \in {"done", status}
        /\ waiting_for_conf' \in {waiting_for_conf, TRUE}
        /\ monitoring' \in {monitoring, FALSE}
        /\ unconfirm_cbs' \in {unconfirm_cbs, unconfirm_cbs \ {t}}
    BY <1>19 DEF monitor_unconfirmed, unconfirm_callback, MonitorDies
  <2>4. LinkTypeOK'
    BY <1>18, <1>19, <2>1, <2>3 DEF monitor_unconfirmed, LinkTypeOK
  <2> QED
    BY <1>19, <2>2, <2>3, <2>4 DEF monitor_unconfirmed, ClientTypeOK
<1>20. ASSUME NEW t \in Txs, monitor_confirmed(t)
       PROVE  LinkTypeOK' /\ ClientTypeOK'
  <2>1. timers' \in {timers, Restart(timers, WaitTime)}
    BY <1>20 DEF monitor_confirmed, confirm_callback
  <2>2. timers' \in Seq(TimerRecs)
    <3>1. CallLater("clientStart", WaitTime, 0) \in TimerRecs
      BY TimerType DEF OtherTimers
    <3> QED
      BY <1>0, <2>1, <3>1 DEF Restart
  <2>3. /\ honest_only' \in BOOLEAN /\ honest_makers' \in SUBSET Makers
        /\ completed' \in [Entries -> BOOLEAN]
    <3>1. \/ unconf_update
          \/ UNCHANGED <<honest_only, honest_makers, completed>>
      BY <1>20 DEF monitor_confirmed, confirm_callback
    <3> QED
      BY <1>17, <3>1 DEF ClientTypeOK
  <2>4. /\ status' \in {"done", status}
        /\ waiting_for_conf' \in {waiting_for_conf, FALSE}
        /\ monitoring' \in {monitoring, FALSE}
        /\ confirm_cbs' \in {confirm_cbs, confirm_cbs \ {t}}
    BY <1>20 DEF monitor_confirmed, confirm_callback, Finished, MonitorDies
  <2>5. LinkTypeOK'
    BY <1>18, <1>20, <2>2, <2>4 DEF monitor_confirmed, LinkTypeOK
  <2> QED
    BY <1>20, <2>3, <2>4, <2>5 DEF monitor_confirmed, ClientTypeOK
<1>21. ASSUME NEW t \in Txs, maker_broadcasts(t)
       PROVE  LinkTypeOK' /\ ClientTypeOK'
  BY <1>18, <1>21 DEF maker_broadcasts, LinkTypeOK, ClientTypeOK
<1> QED
  BY <1>1, <1>2, <1>3, <1>4, <1>5, <1>6, <1>7, <1>8, <1>9, <1>10, <1>11,
     <1>12, <1>14, <1>15, <1>16, <1>19, <1>20, <1>21
     DEF ClientHandles, NetworkSteps

(* Time passes: every delayed call comes one tick closer.                  *)
LEMMA TickType ==
  ASSUME TypeOK, Tick
  PROVE  LinkTypeOK'
<1>1. timers \in Seq(TimerRecs) /\ \A i \in 1..Len(timers) : timers[i].left > 0
  BY DEF TypeOK, LinkTypeOK, Tick
<1>2. \A i \in 1..Len(timers) : [timers[i] EXCEPT !.left = @ - 1] \in TimerRecs
  BY <1>1, TimerType
<1>3. timers' \in Seq(TimerRecs)
  BY <1>1, <1>2 DEF Tick
<1> QED
  BY <1>3 DEF TypeOK, LinkTypeOK, Tick

LEMMA InitType == Init => TypeOK
<1> SUFFICES ASSUME Init PROVE TypeOK
  OBVIOUS
<1>1. LinkTypeOK
  <2>1. CallLater("clientStart", 0, 0) \in TimerRecs
    BY TimerType DEF OtherTimers
  <2> QED
    BY <2>1 DEF Init, LinkInit, LinkTypeOK
<1>2. DaemonTypeOK
  BY DEF Init, DaemonInit, DaemonTypeOK
<1>3. ClientTypeOK
  <2>1. Cardinality(Makers) \in Nat
    BY MakerCount
  <2>2. n_counterparties \in [Entries -> Nat] /\ completed \in [Entries -> BOOLEAN]
    BY <2>1 DEF Init, ClientInit
  <2>3. cj_entry \in Entries /\ latest_tx = NoTx /\ txid = NoTx
    BY DEF Init, ClientInit, Entries
  <2>4. entryOf \in Seq(Entries) /\ Len(entryOf) <= MaxTxs
    BY DEF Init, ClientInit
  <2>5. /\ schedule_index \in Int /\ replacement_index \in Int
        /\ replacements \in 0..MaxReplacements /\ starts \in 0..MaxStarts
    BY DEF Init, ClientInit
  <2> QED
    BY <2>2, <2>3, <2>4, <2>5 DEF Init, ClientInit, ClientTypeOK
<1> QED
  BY <1>1, <1>2, <1>3 DEF TypeOK

LEMMA NextType == TypeOK /\ [Next]_vars => TypeOK'
<1> SUFFICES ASSUME TypeOK, [Next]_vars PROVE TypeOK'
  OBVIOUS
<1>1. UNCHANGED linkVars => LinkTypeOK'
  BY DEF linkVars, TypeOK, LinkTypeOK
<1>2. UNCHANGED daemonVars => DaemonTypeOK'
  BY DEF daemonVars, TypeOK, DaemonTypeOK
<1>3. UNCHANGED clientVars => ClientTypeOK'
  BY DEF clientVars, scheduleVars, makerVars, replaceVars, txVars, pushVars,
         walletVars, TypeOK, ClientTypeOK
<1> QED
  BY <1>1, <1>2, <1>3, DaemonStepType, ClientStepType, TickType
     DEF Next, vars, TypeOK

(* Every variable of the model keeps its type in every behaviour; in       *)
(* particular a delayed make_tx or broadcast check is about a transaction  *)
(* that was built, and replacements never exceed the configured maximum.   *)
THEOREM TypeCorrect == Spec => []TypeOK
BY InitType, NextType, PTL DEF Spec

(***************************************************************************)
(* Only complete transactions are handed out                               *)
(*                                                                         *)
(* PushedIsComplete speaks of the latest transaction.  A new transaction   *)
(* could break it only if its number had been handed out before, so the    *)
(* invariant also says that whatever was handed out, or has a txid, was    *)
(* built.                                                                  *)
(***************************************************************************)
OnlyBuilt ==
  /\ latest_tx <= Len(entryOf)
  /\ txid <= Len(entryOf)
  /\ \A t \in Txs : HandedOut(t) => t <= Len(entryOf)

PushInv == OnlyBuilt /\ PushedIsComplete

LEMMA AsksTail ==
  ASSUME NEW q \in Seq(UpMessages), q # <<>>, NEW t \in Txs,
         AsksToPush(Tail(q), t)
  PROVE  AsksToPush(q, t)
<1>1. PICK i \in 1..Len(Tail(q)) :
        Tail(q)[i].type = "JMPushTx" /\ Tail(q)[i].tx = t
  BY DEF AsksToPush
<1>2. i + 1 \in 1..Len(q) /\ q[i + 1] = Tail(q)[i]
  OBVIOUS
<1> QED
  BY <1>1, <1>2 DEF AsksToPush

LEMMA AsksAppend ==
  ASSUME NEW q \in Seq(UpMessages), NEW m \in UpMessages, NEW t \in Txs,
         AsksToPush(Append(q, m), t)
  PROVE  AsksToPush(q, t) \/ (m.type = "JMPushTx" /\ m.tx = t)
<1>1. PICK i \in 1..Len(Append(q, m)) :
        Append(q, m)[i].type = "JMPushTx" /\ Append(q, m)[i].tx = t
  BY DEF AsksToPush
<1>2. CASE i \in 1..Len(q)
  BY <1>1, <1>2 DEF AsksToPush
<1>3. CASE i = Len(q) + 1
  BY <1>1, <1>3
<1> QED
  BY <1>2, <1>3

(* The calls in flight change without a new request to broadcast.          *)
QuietUp ==
  \/ up' = up
  \/ up # <<>> /\ up' = Tail(up)
  \/ \E m \in UpMessages : m.type # "JMPushTx" /\ up' = Append(up, m)

LEMMA QuietAsks ==
  ASSUME up \in Seq(UpMessages), QuietUp, NEW t \in Txs, AsksToPush(up', t)
  PROVE  AsksToPush(up, t)
<1>1. CASE up' = up
  BY <1>1
<1>2. CASE up # <<>> /\ up' = Tail(up)
  BY <1>2, AsksTail
<1>3. CASE \E m \in UpMessages : m.type # "JMPushTx" /\ up' = Append(up, m)
  BY <1>3, AsksAppend
<1> QED
  BY <1>1, <1>2, <1>3 DEF QuietUp

(* A step that hands out nothing new and leaves the transaction alone.     *)
LEMMA PushFrame ==
  ASSUME PushInv, UNCHANGED <<latest_tx, txid, entryOf, unsigned>>,
         latest_tx \in Txs \cup {NoTx},
         \A t \in Txs : HandedOut(t)' => HandedOut(t)
  PROVE  PushInv'
BY DEF PushInv, OnlyBuilt, PushedIsComplete

(* The daemon hands a transaction to a maker only when the client asked.   *)
LEMMA DaemonStepPush ==
  ASSUME TypeOK, PushInv, DaemonHandles \/ MakerReplies, UNCHANGED clientVars
  PROVE  PushInv'
<1>0. up \in Seq(UpMessages) /\ latest_tx \in Txs \cup {NoTx}
  BY DEF TypeOK, LinkTypeOK, ClientTypeOK
<1>1. UNCHANGED <<latest_tx, txid, entryOf, unsigned>>
  BY DEF clientVars, txVars, pushVars
<1>2. CASE on_JM_PushTx
  <2>1. /\ up # <<>> /\ up' = Tail(up) /\ Head(up).type = "JMPushTx"
        /\ net' = [net EXCEPT ![Head(up).tx] = IF @ = "none" THEN "offered" ELSE @]
    BY <1>2 DEF on_JM_PushTx, DaemonGets
  <2>2. AsksToPush(up, Head(up).tx)
    <3>1. 1 \in 1..Len(up) /\ up[1] = Head(up)
      BY <1>0, <2>1
    <3> QED
      BY <2>1, <3>1 DEF AsksToPush
  <2>3. ASSUME NEW t \in Txs, HandedOut(t)'
        PROVE  HandedOut(t)
    <3>1. CASE t = Head(up).tx
      BY <2>2, <3>1 DEF HandedOut
    <3>2. CASE t # Head(up).tx
      <4>1. net'[t] = net[t]
        BY <2>1, <3>2 DEF TypeOK, LinkTypeOK
      <4>2. AsksToPush(up', t) => AsksToPush(up, t)
        BY <1>0, <2>1, QuietAsks DEF QuietUp
      <4> QED
        BY <2>3, <4>1, <4>2 DEF HandedOut
    <3> QED
      BY <3>1, <3>2
  <2> QED
    BY <1>0, <1>1, <2>3, PushFrame
<1>3. CASE ~on_JM_PushTx
  <2>1. net' = net /\ QuietUp
    <3> USE DEF DaemonGets, QuietUp, linkVars
    <3>1. CASE MakerReplies
      BY <3>1 DEF MakerReplies, on_pubkey, on_ioauth, on_sig
    <3>2. CASE on_JM_INIT \/ on_JM_START_MC \/ on_welcome
      BY <3>2 DEF on_JM_INIT, on_JM_START_MC, on_welcome
    <3>3. CASE on_JM_SETUP \/ on_JM_REQUEST_OFFERS \/ on_JM_FILL
      BY <3>3 DEF on_JM_SETUP, on_JM_REQUEST_OFFERS, on_JM_FILL
    <3>4. CASE checkUtxosAccepted \/ on_JM_MAKE_TX \/ completeStage1
      BY <3>4 DEF checkUtxosAccepted, on_JM_MAKE_TX, completeStage1
    <3> QED
      BY <1>3, <3>1, <3>2, <3>3, <3>4 DEF DaemonHandles
  <2>2. \A t \in Txs : HandedOut(t)' => HandedOut(t)
    BY <1>0, <2>1, QuietAsks DEF HandedOut
  <2> QED
    BY <1>0, <1>1, <2>2, PushFrame
<1> QED
  BY <1>2, <1>3

(* The client's steps that neither build, sign nor push.                   *)
QuietClient ==
  \/ clientStart \/ on_JM_INIT_PROTO \/ on_JM_UP \/ on_JM_SETUP_DONE
  \/ get_offers \/ checkClientResponse \/ on_fill_failure \/ make_tx
  \/ on_sig_ignored \/ stallMonitor

LEMMA QuietClientUp ==
  ASSUME TypeOK, QuietClient
  PROVE  /\ QuietUp /\ net' = net
         /\ UNCHANGED <<latest_tx, txid, entryOf, unsigned>>
<1> USE DEF QuietUp, clientVars, txVars, pushVars
<1>1. CASE clientStart
  BY <1>1, UpMessageType DEF clientStart
<1>2. CASE on_JM_INIT_PROTO
  BY <1>2, UpMessageType DEF on_JM_INIT_PROTO
<1>3. CASE on_JM_UP
  BY <1>3, UpMessageType DEF on_JM_UP
<1>4. CASE on_JM_SETUP_DONE
  BY <1>4 DEF on_JM_SETUP_DONE
<1>5. CASE get_offers
  BY <1>5, UpMessageType DEF get_offers
<1>6. CASE checkClientResponse
  BY <1>6 DEF checkClientResponse
<1>7. CASE on_fill_failure
  <2>1. \E a \in {"accepted", "refused", "error"} :
          up' = Append(up, FillAnswer(a, FALSE))
    BY <1>7 DEF on_fill_failure, PhaseOneFailed
  <2> QED
    BY <1>7, <2>1, UpMessageType DEF on_fill_failure, FillAnswer
<1>8. CASE make_tx
  <2>1. PICK i \in 1..Len(timers) :
          /\ Fires(i, "make_tx")
          /\ up' = Append(up, [type |-> "JMMakeTx", makers |-> timers[i].makers,
                               tx |-> timers[i].arg])
    BY <1>8 DEF make_tx
  <2>2. timers[i].makers \in SUBSET Makers /\ timers[i].arg \in Txs
    BY <2>1, TimerType DEF Fires, TxTimers, TypeOK, LinkTypeOK
  <2> QED
    BY <1>8, <2>1, <2>2, UpMessageType DEF make_tx
<1>9. CASE on_sig_ignored
  BY <1>9 DEF on_sig_ignored
<1>10. CASE stallMonitor
  BY <1>10 DEF stallMonitor
<1> QED
  BY <1>1, <1>2, <1>3, <1>4, <1>5, <1>6, <1>7, <1>8, <1>9, <1>10 DEF QuietClient

(* The client hands out a transaction only when its last signature is in.  *)
LEMMA ClientStepPush ==
  ASSUME TypeOK, PushInv, ClientHandles
  PROVE  PushInv'
<1>0. /\ up \in Seq(UpMessages) /\ latest_tx \in Txs \cup {NoTx}
      /\ txid \in Txs \cup {NoTx} /\ Len(entryOf) \in Nat
      /\ Len(entryOf) <= MaxTxs /\ entryOf \in Seq(Entries)
      /\ net \in [Txs -> {"none", "offered", "mempool", "seen", "confirmed"}]
  BY DEF TypeOK, LinkTypeOK, ClientTypeOK
<1>1. CASE QuietClient
  BY <1>0, <1>1, QuietClientUp, QuietAsks, PushFrame DEF HandedOut
<1>2. CASE on_JM_OFFERS
  <2>1. /\ UNCHANGED <<net, entryOf, unsigned>>
        /\ UNCHANGED <<latest_tx, txid>> \/ (latest_tx' = NoTx /\ txid' = NoTx)
    BY <1>2 DEF on_JM_OFFERS, NextEntry
  <2>2. QuietUp
    <3>1. up' = up \/ \E ms \in SUBSET Makers :
                        up' = Append(up, [type |-> "JMFill", makers |-> ms])
      BY <1>2 DEF on_JM_OFFERS, Eligible, TypeOK, ClientTypeOK
    <3> QED
      BY <3>1, UpMessageType DEF QuietUp
  <2>3. \A t \in Txs : HandedOut(t)' => HandedOut(t)
    BY <1>0, <2>1, <2>2, QuietAsks DEF HandedOut
  <2>4. CASE UNCHANGED <<latest_tx, txid>>
    BY <1>0, <2>1, <2>3, <2>4, PushFrame
  <2>5. CASE latest_tx' = NoTx /\ txid' = NoTx
    BY <1>0, <2>1, <2>3, <2>5 DEF PushInv, OnlyBuilt, PushedIsComplete, NoTx
  <2> QED
    BY <2>1, <2>4, <2>5
<1>3. CASE receive_utxos
  <2>1. PICK valid \in SUBSET Makers, malicious \in SUBSET Makers :
          \/ receive_utxos_too_few(valid, malicious)
          \/ receive_utxos_no_tx(valid, malicious)
          \/ receive_utxos_build(valid, malicious)
    <3>1. Head(down).makers \in SUBSET Makers
      BY <1>3, QueueType, DownMessageType
         DEF receive_utxos, ClientGets, TypeOK, LinkTypeOK
    <3> QED
      BY <1>3, <3>1 DEF receive_utxos
  <2>2. net' = net /\ txid' = txid
    BY <1>3 DEF receive_utxos, pushVars
  <2>3. QuietUp
    <3>1. \E a \in {"accepted", "refused", "error"} :
            up' = Append(up, FillAnswer(a, TRUE))
      BY <2>1 DEF receive_utxos_too_few, receive_utxos_no_tx,
         receive_utxos_build, PhaseOneFailed
    <3> QED
      BY <3>1, UpMessageType DEF QuietUp, FillAnswer
  <2>4. \A t \in Txs : HandedOut(t)' => HandedOut(t)
    BY <1>0, <2>2, <2>3, QuietAsks DEF HandedOut
  <2>5. CASE UNCHANGED <<latest_tx, entryOf, unsigned>>
    BY <1>0, <2>2, <2>4, <2>5, PushFrame
  <2>6. CASE receive_utxos_build(valid, malicious)
    <3>1. /\ latest_tx' = Len(entryOf) + 1 /\ Len(entryOf') = Len(entryOf) + 1
          /\ latest_tx' \in Txs
      BY <1>0, <2>6 DEF receive_utxos_build, Txs
    <3>2. OnlyBuilt'
      BY <1>0, <2>2, <2>4, <3>1 DEF PushInv, OnlyBuilt, Txs, NoTx
    <3>3. ~HandedOut(latest_tx)' /\ txid' # latest_tx'
      <4>1. \A t \in Txs : HandedOut(t)' => t <= Len(entryOf)
        BY <2>4 DEF PushInv, OnlyBuilt
      <4>2. txid' # latest_tx'
        BY <1>0, <2>2, <3>1 DEF PushInv, OnlyBuilt, Txs, NoTx
      <4>3. HandedOut(latest_tx)' <=>
              net'[latest_tx'] # "none" \/ AsksToPush(up', latest_tx')
        BY DEF HandedOut
      <4>4. \A t \in Txs : HandedOut(t)' <=> net'[t] # "none" \/ AsksToPush(up', t)
        BY DEF HandedOut
      <4> QED
        BY <1>0, <3>1, <4>1, <4>2, <4>3, <4>4
    <3> QED
      BY <3>2, <3>3 DEF PushInv, PushedIsComplete
  <2> QED
    BY <2>1, <2>5, <2>6 DEF receive_utxos_too_few, receive_utxos_no_tx
<1>4. CASE on_sig_partial
  <2>1. /\ UNCHANGED <<up, net, latest_tx, txid, entryOf>>
        /\ unsigned' \subseteq unsigned
    BY <1>4 DEF on_sig_partial, InsertSig, pushVars
  <2> QED
    BY <1>0, <2>1
       DEF PushInv, OnlyBuilt, PushedIsComplete, HandedOut, AsksToPush
<1>5. CASE on_sig_push
  <2>1. /\ UNCHANGED <<latest_tx, entryOf>>
        /\ txid' = latest_tx /\ unsigned' = {}
    BY <1>5 DEF on_sig_push, TxSigned
  <2>2. latest_tx \in Txs
    BY <1>5, QueueType, DownMessageType
       DEF on_sig_push, SigMatches, ClientGets, TypeOK, LinkTypeOK
  <2>3. ASSUME NEW t \in Txs, HandedOut(t)'
        PROVE  HandedOut(t) \/ t = latest_tx
    <3>1. CASE /\ up' = Append(up, [type |-> "JMPushTx", tx |-> latest_tx])
               /\ net' = net
      BY <1>0, <2>2, <2>3, <3>1, AsksAppend, UpMessageType DEF HandedOut
    <3>2. CASE up' = up /\ push_ourselves_ok(latest_tx)
      BY <1>0, <2>3, <3>2 DEF HandedOut, push_ourselves_ok
    <3>3. CASE up' = up /\ net' = net
      BY <2>3, <3>3 DEF HandedOut
    <3> QED
      BY <1>5, <3>1, <3>2, <3>3 DEF on_sig_push
  <2>4. OnlyBuilt'
    BY <1>0, <2>1, <2>2, <2>3 DEF PushInv, OnlyBuilt
  <2> QED
    BY <2>1, <2>4 DEF PushInv, PushedIsComplete
<1>6. CASE handle_unbroadcast_transaction
  <2>1. /\ UNCHANGED <<up, latest_tx, txid, entryOf, unsigned>>
        /\ \/ net' = net
           \/ txid \in unconfirm_cbs /\ unsigned = {} /\ push_ourselves_ok(latest_tx)
    BY <1>6 DEF handle_unbroadcast_transaction, txVars, pushVars
  <2>2. CASE net' = net
    BY <1>0, <2>1, <2>2, PushFrame DEF HandedOut
  <2>3. CASE unsigned = {} /\ push_ourselves_ok(latest_tx)
    <3>1. \A t \in Txs : HandedOut(t)' => HandedOut(t) \/ t = latest_tx
      BY <1>0, <2>1, <2>3 DEF HandedOut, push_ourselves_ok
    <3> QED
      BY <1>0, <2>1, <2>3, <3>1 DEF PushInv, OnlyBuilt, PushedIsComplete
  <2> QED
    BY <2>1, <2>2, <2>3
<1> QED
  BY <1>1, <1>2, <1>3, <1>4, <1>5, <1>6 DEF ClientHandles, QuietClient

(* The wallet and the network move only what was handed out.               *)
LEMMA NetworkStepPush ==
  ASSUME TypeOK, PushInv, NetworkSteps
  PROVE  PushInv'
<1>0. /\ latest_tx \in Txs \cup {NoTx}
      /\ net \in [Txs -> {"none", "offered", "mempool", "seen", "confirmed"}]
  BY DEF TypeOK, LinkTypeOK, ClientTypeOK
<1>1. PICK t \in Txs :
        monitor_unconfirmed(t) \/ monitor_confirmed(t) \/ maker_broadcasts(t)
  BY DEF NetworkSteps
<1>2. UNCHANGED <<up, latest_tx, txid, entryOf, unsigned>>
  BY <1>1 DEF monitor_unconfirmed, monitor_confirmed, maker_broadcasts,
     clientVars, txVars, pushVars
<1>3. net[t] # "none"
  BY <1>1 DEF monitor_unconfirmed, monitor_confirmed, maker_broadcasts
<1>4. net' = net \/ \E v \in {"seen", "mempool", "confirmed"} :
                      net' = [net EXCEPT ![t] = v]
  BY <1>1 DEF monitor_unconfirmed, monitor_confirmed, maker_broadcasts,
     unconfirm_callback
<1>5. \A u \in Txs : HandedOut(u)' => HandedOut(u)
  BY <1>0, <1>2, <1>3, <1>4 DEF HandedOut
<1> QED
  BY <1>0, <1>2, <1>5, PushFrame

LEMMA NextPush == TypeOK /\ PushInv /\ [Next]_vars => PushInv'
<1> SUFFICES ASSUME TypeOK, PushInv, [Next]_vars PROVE PushInv'
  OBVIOUS
<1>1. CASE UNCHANGED <<up, net, clientVars>>
  BY <1>1, PushFrame DEF clientVars, txVars, pushVars, HandedOut, TypeOK,
     ClientTypeOK
<1>2. Tick /\ UNCHANGED clientVars => UNCHANGED <<up, net, clientVars>>
  BY DEF Tick
<1>3. UNCHANGED vars => UNCHANGED <<up, net, clientVars>>
  BY DEF vars, linkVars
<1> QED
  BY <1>1, <1>2, <1>3, DaemonStepPush, ClientStepPush, NetworkStepPush DEF Next

LEMMA InitPush == Init => PushInv
BY DEF Init, LinkInit, ClientInit, PushInv, OnlyBuilt, PushedIsComplete,
       HandedOut, AsksToPush, NoTx, Txs

(* In every behaviour, with any number of makers, restarts and overlapping *)
(* sessions, a transaction that Taker.push has given a txid, that a maker  *)
(* was asked to broadcast or that is on the network carries the signatures *)
(* of all its makers as long as the Taker works on it.                     *)
THEOREM OnlyCompletePushed == Spec => []PushedIsComplete
<1>1. Init => TypeOK /\ PushInv
  BY InitType, InitPush
<1>2. (TypeOK /\ PushInv) /\ [Next]_vars => (TypeOK /\ PushInv)'
  BY NextType, NextPush
<1>3. TypeOK /\ PushInv => PushedIsComplete
  BY DEF PushInv
<1> QED
  BY <1>1, <1>2, <1>3, PTL DEF Spec
=============================================================================
