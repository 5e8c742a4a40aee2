--------------------------- MODULE PayjoinProofs ---------------------------
(***************************************************************************)
(* What the sender of a payjoin can rely on, for any number of payments,   *)
(* amounts and fees, whoever the receivers are: its loss is bounded, the   *)
(* original stays due until the payment is made or reported, and no        *)
(* fallback replaces a payjoin that is on the network.                     *)
(***************************************************************************)
EXTENDS Payjoin, TLAPS

(***************************************************************************)
(* Transactions                                                            *)
(***************************************************************************)

(* A transaction with amounts that can be compared.                        *)
HasAmounts(t) == t.change \in Int /\ t.fee \in Int /\ t.pay \in Int

LEMMA BumpIsNumber == \A allowed : FeeBump(allowed) \in Int
<1>1. \A S : S = {InputFee, Mafc} => Min(S) \in Int
  <2> SUFFICES ASSUME NEW S, S = {InputFee, Mafc} PROVE Min(S) \in Int
    OBVIOUS
  <2>1. InputFee \in Int /\ Mafc \in Int
    BY PayjoinAssumption
  <2>2. \E x \in S : \A y \in S : x =< y
    BY <2>1
  <2> QED
    BY <2>1, <2>2 DEF Min
<1> QED
  BY <1>1 DEF FeeBump

(* An original spends one coin, and only one that is spent to the end has  *)
(* no change.                                                              *)
LEMMA OriginalForm ==
  ASSUME NEW a, NEW c
  PROVE  /\ HasAmounts(Original(a, c))
         /\ Original(a, c).coins = {c}
         /\ Original(a, c).fee = Fee /\ Original(a, c).pay = Amount
         /\ c # WExact => Original(a, c).chg = a /\ Original(a, c).change = Change
         /\ c = WExact => Original(a, c).chg = Nobody
BY PayjoinAssumption DEF Original, Tx, HasAmounts

(* The coins of the senders, those with a change and all of them.          *)
ChangeCoins == SCoins \cup {WChange}
SenderCoins == ChangeCoins \cup {WExact}

(* What our receiver may propose: for an original with a change, or for    *)
(* one without a change while the manager still has one of an earlier one. *)
Bumped == {payjoin_psbt(Original(a, c), FeeBump(allowed)) :
             a \in Attempts, c \in ChangeCoins, allowed \in BOOLEAN}
Stale == {payjoin_psbt_stale(Original(a, WExact), Original(b, c)) :
            a \in Attempts, b \in Attempts, c \in ChangeCoins}
Made == Bumped \cup Stale

LEMMA MadeHasAmounts == \A t \in Made : HasAmounts(t)
<1>1. \A t \in Bumped : HasAmounts(t)
  BY OriginalForm, BumpIsNumber, PayjoinAssumption DEF Bumped, payjoin_psbt, Tx, HasAmounts
<1>2. \A t \in Stale : HasAmounts(t)
  BY OriginalForm, PayjoinAssumption DEF Stale, payjoin_psbt_stale, Tx, HasAmounts
<1> QED
  BY <1>1, <1>2 DEF Made

(* A proposal of ours that is accepted for an original without a change    *)
(* takes nothing: the change that nobody funds would lower the fee.        *)
LEMMA StaleIsRefused ==
  ASSUME NEW t \in Made, WExact \in t.coins, t.fee >= Fee
  PROVE  Change = 0 /\ t.change = 0
<1>1. t \notin Bumped
  <2> SUFFICES ASSUME t \in Bumped PROVE FALSE
    OBVIOUS
  <2>1. PICK a \in Attempts, c \in ChangeCoins, b \in BOOLEAN :
          t = payjoin_psbt(Original(a, c), FeeBump(b))
    BY DEF Bumped
  <2>2. t.coins = {c, RCoin}
    BY <2>1, OriginalForm DEF payjoin_psbt, Tx
  <2> QED
    BY <2>2, PayjoinAssumption DEF ChangeCoins
<1>2. PICK a \in Attempts, b \in Attempts, c \in ChangeCoins :
        t = payjoin_psbt_stale(Original(a, WExact), Original(b, c))
  BY <1>1 DEF Made, Stale
<1>3. c # WExact
  BY PayjoinAssumption DEF ChangeCoins
<1>4. t.fee = Fee - Change /\ t.change = Change
  BY <1>2, <1>3, OriginalForm DEF payjoin_psbt_stale, Tx
<1> QED
  BY <1>4, PayjoinAssumption

(* The proposals of other receivers have amounts.                          *)
LEMMA OthersHaveAmounts ==
  ASSUME NEW o, HasAmounts(o)
  PROVE  \A t \in OtherProposals(o) : HasAmounts(t)
BY PayjoinAssumption DEF OtherProposals, HasAmounts

(***************************************************************************)
(* The coins of payments                                                   *)
(***************************************************************************)

Lives == {"no", "yes", "ended", "killed"}

(* A payment that was begun has its coin for good, and a payment of this   *)
(* program one of its own coins.                                           *)
CoinInv ==
  /\ route \in [Attempts -> Routes]
  /\ run \in [Attempts -> Lives]
  /\ DOMAIN coin = Attempts
  /\ \A a \in Attempts : run[a] # "no" =>
       coin[a] \in IF Ours(a) THEN SCoins ELSE {WChange, WExact}

(* What a payment goes on doing with its coin and program once begun.      *)
Begun(a) == a \in Attempts /\ run[a] # "no"

CoinsStay ==
  /\ route' = route
  /\ \A a : Begun(a) => Begun(a)' /\ coin'[a] = coin[a]

Payments ==
  \E a \in Attempts :
    \/ \E c \in SCoins : send_payjoin(a, c)
    \/ \E c \in {WChange, WExact} : OtherWalletStarts(a, c)

(* Every other step leaves the coins alone, and starts no program.         *)
Keeps ==
  /\ UNCHANGED <<route, coin>>
  /\ \/ UNCHANGED run
     \/ \E a \in Attempts : Running(a) /\ run' = [run EXCEPT ![a] = "ended"]
     \/ run' = [a \in Attempts |-> IF Ours(a) /\ Running(a) THEN "killed" ELSE run[a]]

LEMMA FallbackKeeps ==
  ASSUME NEW a \in Attempts, NEW ok, NEW active, Running(a), UNCHANGED <<route, coin>>,
         fallback_nonpayjoin_broadcast(a, ok, active)
  PROVE  Keeps
BY DEF fallback_nonpayjoin_broadcast, process_shutdown, Keeps

LEMMA StepOfCoins ==
  ASSUME [Next]_vars
  PROVE  Payments \/ Keeps
<1>1. CASE \E a \in Attempts : SenderNext(a)
  <2>1. PICK a \in Attempts : SenderNext(a)
    BY <1>1
  <2>2. CASE \E c \in SCoins : send_payjoin(a, c)
    BY <2>2 DEF Payments
  <2>3. CASE \E ok \in BOOLEAN : SenderTimeout(a, ok)
    BY <2>3, FallbackKeeps DEF SenderTimeout
  <2>4. CASE PostElsewhere(a) \/ NoResponse(a)
    BY <2>4 DEF PostElsewhere, NoResponse, Keeps
  <2>5. CASE \E ok \in BOOLEAN : process_error_from_server(a, ok) \/ UnreadableProposal(a, ok)
    BY <2>5, FallbackKeeps DEF process_error_from_server, UnreadableProposal
  <2>6. CASE process_payjoin_proposal_from_server(a)
    BY <2>6 DEF process_payjoin_proposal_from_server, process_payjoin_proposal, ProposalRefused,
         BroadcastPayjoin, PayjoinNotBroadcast, process_shutdown, Keeps
  <2> QED
    BY <2>1, <2>2, <2>3, <2>4, <2>5, <2>6 DEF SenderNext
<1>2. CASE \E a \in Attempts : OtherNext(a)
  <2>1. PICK a \in Attempts : OtherNext(a)
    BY <1>2
  <2>2. CASE \E c \in {WChange, WExact} : OtherWalletStarts(a, c)
    BY <2>2 DEF Payments
  <2> QED
    BY <2>1, <2>2 DEF OtherNext, OtherServerAnswers, OtherServerPushes, OtherWalletPushes,
         senderVars, Keeps
<1>3. CASE SenderKilled
  BY <1>3 DEF SenderKilled, Keeps
<1>4. CASE ReceiverNext
  BY <1>4 DEF ReceiverNext, render_POST, PostRequest, SendAnswer, request_to_psbt, end_receipt,
       end_failure, stopReceiver, ReceiverTimeout, ReceiverKilled, senderVars, Keeps
<1>5. CASE UNCHANGED vars
  BY <1>5 DEF vars, senderVars, Keeps
<1> QED
  BY <1>1, <1>2, <1>3, <1>4, <1>5 DEF Next

LEMMA NextCoins ==
  ASSUME CoinInv, [Next]_vars
  PROVE  CoinInv' /\ CoinsStay
<1>1. CASE Payments
  BY <1>1 DEF Payments, send_payjoin, make_payment_psbt, OtherWalletStarts, CoinInv, CoinsStay,
       Begun, Ours, Lives, Routes
<1>2. CASE Keeps
  BY <1>2 DEF Keeps, Running, CoinInv, CoinsStay, Begun, Ours, Lives
<1> QED
  BY <1>1, <1>2, StepOfCoins

LEMMA OriginalStays ==
  ASSUME CoinInv, CoinsStay
  PROVE  \A a : Begun(a) => initial_psbt(a)' = initial_psbt(a)
BY DEF CoinsStay, initial_psbt, Original

(***************************************************************************)
(* No payment is forgotten                                                 *)
(***************************************************************************)

(* What ends the wait for the fallback of a payment: its program ends, or  *)
(* the payment is made or reported.                                        *)
LEMMA FallbackArms ==
  ASSUME NEW a \in Attempts, NEW ok \in BOOLEAN, CoinInv, FallbackArmed,
         fallback_nonpayjoin_broadcast(a, ok, timer) \/ fallback_nonpayjoin_broadcast(a, ok, timer \ {a}),
         UNCHANGED route
  PROVE  FallbackArmed'
BY DEF fallback_nonpayjoin_broadcast, process_shutdown, FallbackArmed, CoinInv, Running, Ours

LEMMA NextArmed ==
  ASSUME CoinInv, FallbackArmed, [Next]_vars
  PROVE  FallbackArmed'
<1>1. CASE \E a \in Attempts : SenderNext(a)
  <2>1. PICK a \in Attempts : SenderNext(a)
    BY <1>1
  <2>2. CASE \E c \in SCoins : send_payjoin(a, c)
    BY <2>2 DEF send_payjoin, FallbackArmed, CoinInv, Running, Ours
  <2>3. CASE \E ok \in BOOLEAN : SenderTimeout(a, ok)
    BY <2>3, FallbackArms DEF SenderTimeout
  <2>4. CASE PostElsewhere(a) \/ NoResponse(a)
    BY <2>4 DEF PostElsewhere, NoResponse, FallbackArmed, Running, Ours
  <2>5. CASE \E ok \in BOOLEAN : process_error_from_server(a, ok) \/ UnreadableProposal(a, ok)
    BY <2>5, FallbackArms DEF process_error_from_server, UnreadableProposal
  <2>6. CASE process_payjoin_proposal_from_server(a)
    BY <2>6 DEF process_payjoin_proposal_from_server, process_payjoin_proposal, ProposalRefused,
         BroadcastPayjoin, PayjoinNotBroadcast, process_shutdown, FallbackArmed, CoinInv, Running, Ours
  <2> QED
    BY <2>1, <2>2, <2>3, <2>4, <2>5, <2>6 DEF SenderNext
<1>2. CASE \E a \in Attempts : OtherNext(a)
  BY <1>2 DEF OtherNext, OtherServerAnswers, OtherServerPushes, OtherWalletPushes, OtherWalletStarts,
       senderVars, FallbackArmed, CoinInv, Running, Ours
<1>3. CASE SenderKilled
  BY <1>3 DEF SenderKilled, FallbackArmed, Running, Ours
<1>4. CASE ReceiverNext
  BY <1>4 DEF ReceiverNext, render_POST, PostRequest, SendAnswer, request_to_psbt, end_receipt,
       end_failure, stopReceiver, ReceiverTimeout, ReceiverKilled, senderVars, FallbackArmed,
       Running, Ours
<1>5. CASE UNCHANGED vars
  BY <1>5 DEF vars, senderVars, FallbackArmed, Running, Ours
<1> QED
  BY <1>1, <1>2, <1>3, <1>4, <1>5 DEF Next

(***************************************************************************)
(* Where proposals come from                                               *)
(***************************************************************************)

Answers == {Reject, Unavailable} \cup {Propose(t) : t \in Made}

AllBegun(s) == \A i \in DOMAIN s : run[s[i]] # "no"

(* The originals that reach the manager are of payments that were begun.   *)
(* Its change output is that of such an original, and its answers, and     *)
(* whatever a payment is answered by it, are its proposals.  Which request *)
(* an answer is written to is of no matter.                                *)
AnswerInv ==
  /\ inbox \in Seq(Attempts) /\ AllBegun(inbox)
  /\ change_out \in {NoChange} \cup {Original(a, c) : a \in Attempts, c \in ChangeCoins}
  /\ outbox \in Seq(Answers)
  /\ DOMAIN reply = Attempts
  /\ \A a \in Attempts : reply[a].kind = "proposal" /\ route[a] # "server" => reply[a].tx \in Made

LEMMA NothingWaits ==
  /\ <<>> \in Seq(Attempts) /\ <<>> \in Seq(Answers)
  /\ inbox' = <<>> => AllBegun(inbox)'
BY DEF AllBegun

LEMMA AnswersFrame ==
  ASSUME AnswerInv, CoinsStay, UNCHANGED <<inbox, change_out, outbox>>,
         DOMAIN reply' = Attempts,
         \A a \in Attempts : reply'[a] = reply[a] \/ reply'[a].kind # "proposal" \/ route[a] = "server"
  PROVE  AnswerInv'
BY DEF AnswerInv, AllBegun, Begun, CoinsStay

LEMMA HandledAnswers ==
  ASSUME NEW a, NEW answered, DOMAIN reply = Attempts, Handled(a, answered)
  PROVE  /\ DOMAIN reply' = Attempts
         /\ \A b \in Attempts : reply'[b] = reply[b] \/ reply'[b].kind # "proposal"
BY DEF Handled, Taken

(* What the manager may propose for a payment that was begun.              *)
LEMMA ConvertedIsMade ==
  ASSUME NEW a, Begun(a), CoinInv, NEW s \in {NoChange} \cup {Original(b, c) : b \in Attempts, c \in ChangeCoins}
  PROVE  /\ initial_psbt(a).chg # Nobody =>
              \A allowed \in BOOLEAN : payjoin_psbt(initial_psbt(a), FeeBump(allowed)) \in Made
         /\ initial_psbt(a).chg = Nobody /\ s # NoChange =>
              payjoin_psbt_stale(initial_psbt(a), s) \in Made
         /\ initial_psbt(a).chg # Nobody =>
              initial_psbt(a) \in {Original(b, c) : b \in Attempts, c \in ChangeCoins}
<1>1. a \in Attempts /\ coin[a] \in SenderCoins /\ a # Nobody
  BY PayjoinAssumption DEF Begun, CoinInv, SenderCoins, ChangeCoins
<1>2. initial_psbt(a).chg = Nobody <=> coin[a] = WExact
  BY <1>1, OriginalForm DEF initial_psbt
<1> QED
  BY <1>1, <1>2 DEF Made, Bumped, Stale, initial_psbt, SenderCoins

LEMMA ConvertedAnswers ==
  ASSUME CoinInv, AnswerInv, CoinsStay, request_to_psbt
  PROVE  AnswerInv'
<1> DEFINE a == Head(inbox)
           Changes == {Original(b, c) : b \in Attempts, c \in ChangeCoins}
<1>1. Begun(a) /\ Tail(inbox) \in Seq(Attempts) /\ AllBegun(Tail(inbox))
  BY DEF request_to_psbt, AnswerInv, AllBegun, Begun
<1>2. change_out' \in {NoChange} \cup Changes
  <2>1. UNCHANGED change_out \/ set_payment_tx_and_psbt(a)
    BY DEF request_to_psbt, RefuseOriginal
  <2> QED
    BY <2>1, <1>1, ConvertedIsMade DEF AnswerInv, set_payment_tx_and_psbt
<1>3. \/ LinkLost
      \/ \E ans \in Answers : Answer(ans)
  <2>1. CASE RefuseOriginal(a)
    BY <2>1 DEF RefuseOriginal, Answers
  <2>2. CASE ConvertOriginal(a)
    <3>1. CASE Answer(Unavailable) \/ Answer(Reject) \/ LinkLost
      BY <3>1 DEF Answers
    <3>2. CASE initial_psbt(a).chg # Nobody
               /\ \E p \in {payjoin_psbt(initial_psbt(a), FeeBump(allowed)) : allowed \in {TRUE, ~Ours(a)}} :
                    Answer(Propose(p))
      <4>1. PICK allowed \in {TRUE, ~Ours(a)} :
              Answer(Propose(payjoin_psbt(initial_psbt(a), FeeBump(allowed))))
        BY <3>2
      <4>2. allowed \in BOOLEAN
        BY DEF Ours
      <4>3. payjoin_psbt(initial_psbt(a), FeeBump(allowed)) \in Made
        BY <1>1, <3>2, <4>2, ConvertedIsMade
      <4> QED
        BY <4>1, <4>3 DEF Answers
    <3>3. CASE initial_psbt(a).chg = Nobody /\ change_out # NoChange
               /\ \E p \in {payjoin_psbt_stale(initial_psbt(a), change_out)} : Answer(Propose(p))
      BY <3>3, <1>1, ConvertedIsMade DEF Answers, AnswerInv
    <3>4. CASE initial_psbt(a).chg # Nobody
      BY <2>2, <3>1, <3>2, <3>4 DEF ConvertOriginal
    <3>5. CASE initial_psbt(a).chg = Nobody /\ change_out # NoChange
      BY <2>2, <3>1, <3>3, <3>5 DEF ConvertOriginal
    <3>6. CASE initial_psbt(a).chg = Nobody /\ change_out = NoChange
      BY <2>2, <3>1, <3>6 DEF ConvertOriginal
    <3> QED
      BY <3>4, <3>5, <3>6
  <2> QED
    BY <2>1, <2>2 DEF request_to_psbt
<1>4. UNCHANGED senderVars
  BY DEF request_to_psbt
<1>5. CASE LinkLost
  BY <1>2, <1>4, <1>5 DEF LinkLost, AnswerInv, AllBegun, senderVars
<1>6. ASSUME NEW ans \in Answers, Answer(ans) PROVE AnswerInv'
  <2>1. outbox' \in Seq(Answers)
    BY <1>6 DEF AnswerInv, Answer
  <2>2. inbox' = Tail(inbox)
    BY <1>6 DEF Answer
  <2>3. UNCHANGED <<reply, route>> /\ AllBegun(inbox)'
    BY <1>1, <1>4, <2>2 DEF senderVars, AllBegun
  <2> QED
    BY <1>1, <1>2, <2>1, <2>2, <2>3 DEF AnswerInv
<1> QED
  BY <1>3, <1>5, <1>6

LEMMA NextAnswers ==
  ASSUME CoinInv, AnswerInv, [Next]_vars
  PROVE  AnswerInv'
<1>0. CoinsStay
  BY NextCoins
<1>1. CASE \E a \in Attempts : SenderNext(a)
  <2>1. PICK a \in Attempts : SenderNext(a)
    BY <1>1
  <2>2. UNCHANGED receiverVars
    BY <2>1 DEF SenderNext, PostElsewhere
  <2>3. DOMAIN reply = Attempts
    BY DEF AnswerInv
  <2>4. /\ DOMAIN reply' = Attempts
        /\ \A b \in Attempts : reply'[b] = reply[b] \/ reply'[b].kind # "proposal"
    <3>1. CASE \E answered : Handled(a, answered)
      BY <3>1, <2>3, HandledAnswers
    <3>2. CASE PostElsewhere(a) \/ NoResponse(a)
      BY <3>2, <2>3 DEF PostElsewhere, PostRequest, NoResponse, Waiting, Failure
    <3> QED
      BY <2>1, <2>3, <3>1, <3>2 DEF SenderNext, send_payjoin, SenderTimeout,
           process_error_from_server, UnreadableProposal, process_payjoin_proposal_from_server
  <2> QED
    BY <1>0, <2>2, <2>4, AnswersFrame DEF receiverVars
<1>2. CASE \E a \in Attempts : OtherNext(a)
  <2>1. PICK a \in Attempts : OtherNext(a)
    BY <1>2
  <2>2. UNCHANGED receiverVars
    BY <2>1 DEF OtherNext
  <2>3. CASE \E r : OtherServerAnswers(a, r)
    <3>1. DOMAIN reply' = Attempts /\ \A b \in Attempts : reply'[b] = reply[b] \/ route[b] = "server"
      BY <2>3 DEF OtherServerAnswers, AnswerInv
    <3> QED
      BY <1>0, <2>2, <3>1, AnswersFrame DEF receiverVars
  <2>4. CASE UNCHANGED reply
    BY <1>0, <2>2, <2>4, AnswersFrame DEF receiverVars, AnswerInv
  <2> QED
    BY <2>1, <2>3, <2>4 DEF OtherNext, OtherServerPushes, OtherWalletPushes, OtherWalletStarts, senderVars
<1>3. CASE SenderKilled /\ UNCHANGED receiverVars
  BY <1>0, <1>3, AnswersFrame DEF SenderKilled, receiverVars, AnswerInv, Taken
<1>4. CASE ReceiverNext
  <2>1. CASE \E a \in Attempts : render_POST(a)
    <3>1. PICK a \in Attempts : render_POST(a)
      BY <2>1
    <3>2. Begun(a)
      BY <3>1 DEF render_POST, PostRequest, Running, Begun
    <3>3. inbox' \in Seq(Attempts) /\ AllBegun(inbox)'
      BY <3>1, <3>2 DEF render_POST, AnswerInv, AllBegun, Begun
    <3> QED
      BY <3>1, <3>3 DEF render_POST, PostRequest, Waiting, AnswerInv
  <2>2. CASE SendAnswer
    <3>1. Head(outbox) \in Answers /\ Tail(outbox) \in Seq(Answers)
      BY <2>2 DEF SendAnswer, AnswerInv
    <3>2. /\ inbox' = inbox \/ inbox' = <<>>
          /\ outbox' \in Seq(Answers)
      BY <2>2, <3>1, NothingWaits DEF SendAnswer, LinkLost
    <3>5. UNCHANGED <<change_out, route, run>>
      BY <2>2 DEF SendAnswer
    <3>3. Head(outbox).reply.kind = "proposal" => Head(outbox).reply.tx \in Made
      BY <3>1 DEF Answers, Reject, Unavailable, Propose, Proposal, Failure
    <3>4. /\ DOMAIN reply' = Attempts
          /\ \A a \in Attempts : reply'[a] \in {reply[a], Head(outbox).reply}
      BY <2>2 DEF SendAnswer, write, AnswerInv
    <3> QED
      <4>1. inbox' \in Seq(Attempts) /\ AllBegun(inbox)'
        <5>1. CASE inbox' = inbox
          BY <5>1, <3>5 DEF AnswerInv, AllBegun
        <5>2. CASE inbox' = <<>>
          BY <5>2, NothingWaits
        <5> QED
          BY <3>2, <5>1, <5>2
      <4> QED
        BY <3>2, <3>3, <3>4, <3>5, <4>1 DEF AnswerInv
  <2>3. CASE request_to_psbt
    BY <1>0, <2>3, ConvertedAnswers
  <2>4. ASSUME UNCHANGED senderVars, UNCHANGED <<inbox, outbox, change_out>>
        PROVE  AnswerInv'
    BY <2>4 DEF AnswerInv, AllBegun, senderVars
  <2>6. ASSUME UNCHANGED senderVars, inbox' = <<>>, outbox' = <<>>, change_out' = NoChange
        PROVE  AnswerInv'
    <3>1. inbox' \in Seq(Attempts) /\ AllBegun(inbox)' /\ outbox' \in Seq(Answers)
      BY <2>6, NothingWaits
    <3> QED
      BY <2>6, <3>1 DEF AnswerInv, senderVars
  <2>5. CASE \/ \E t \in watch : end_receipt(t)
             \/ end_failure \/ stopReceiver \/ ReceiverKilled
             \/ \E ok \in BOOLEAN : ReceiverTimeout(ok)
    <3>1. UNCHANGED senderVars
      BY <2>5 DEF end_receipt, end_failure, stopReceiver, ReceiverKilled, ReceiverTimeout
    <3>2. CASE ReceiverEnds
      <4>1. inbox' = <<>> /\ outbox' = <<>> /\ change_out' = NoChange
        BY <3>2 DEF ReceiverEnds, LinkLost
      <4> QED
        BY <3>1, <4>1, <2>6
    <3>3. CASE ~ReceiverEnds
      <4>1. UNCHANGED <<inbox, outbox, change_out>>
        BY <3>3, <2>5 DEF end_receipt, end_failure, stopReceiver, ReceiverKilled,
             ReceiverTimeout, shutdown
      <4> QED
        BY <3>1, <4>1, <2>4
    <3> QED
      BY <3>2, <3>3
  <2> QED
    BY <1>4, <2>1, <2>2, <2>3, <2>5 DEF ReceiverNext
<1>5. CASE UNCHANGED vars
  BY <1>0, <1>5, AnswersFrame DEF vars, senderVars, receiverVars, AnswerInv
<1> QED
  BY <1>1, <1>2, <1>3, <1>4, <1>5 DEF Next

(***************************************************************************)
(* The mempool                                                             *)
(***************************************************************************)

(* No two transactions of the mempool spend the same coin.                 *)
PoolInv == \A t, u \in pool : t # u => t.coins \cap u.coins = {}

Pushed(t) == Acceptable(t) /\ pool' = (pool \ Conflicts(t)) \cup {t}

LEMMA NextPushes ==
  ASSUME [Next]_vars
  PROVE  UNCHANGED pool \/ \E t : Pushed(t)
<1>0. \A t, ok : pushtx(t, ok) => UNCHANGED pool \/ Pushed(t)
  BY DEF pushtx, Pushed
<1>1. \A a, ok, active : fallback_nonpayjoin_broadcast(a, ok, active) => UNCHANGED pool \/ \E t : Pushed(t)
  BY <1>0 DEF fallback_nonpayjoin_broadcast
<1>2. CASE \E a \in Attempts : SenderNext(a)
  BY <1>0, <1>1, <1>2 DEF SenderNext, send_payjoin, SenderTimeout, PostElsewhere, NoResponse,
       process_error_from_server, UnreadableProposal, process_payjoin_proposal_from_server,
       process_payjoin_proposal, ProposalRefused, BroadcastPayjoin, PayjoinNotBroadcast
<1>3. CASE \E a \in Attempts : OtherNext(a)
  BY <1>0, <1>3 DEF OtherNext, OtherServerAnswers, OtherServerPushes, OtherWalletStarts, OtherWalletPushes
<1>4. CASE SenderKilled
  BY <1>4 DEF SenderKilled
<1>5. CASE ReceiverNext
  BY <1>0, <1>5 DEF ReceiverNext, render_POST, SendAnswer, request_to_psbt, end_receipt,
       end_failure, stopReceiver, ReceiverTimeout, ReceiverKilled
<1>6. CASE UNCHANGED vars
  BY <1>6 DEF vars
<1> QED
  BY <1>2, <1>3, <1>4, <1>5, <1>6 DEF Next

LEMMA NextPool ==
  ASSUME PoolInv, [Next]_vars
  PROVE  PoolInv'
BY NextPushes DEF PoolInv, Pushed, Conflicts

(***************************************************************************)
(* What the sender signs                                                   *)
(***************************************************************************)

(* A payjoin that was broadcast is of a payment that was begun, and pays   *)
(* no less fee than the original it was made from.                         *)
CosignInv ==
  /\ SenderLossBounded
  /\ \A s \in cosigned : Begun(s.by) /\ HasAmounts(s.tx) /\ s.tx.fee >= Fee

LEMMA CosignStays ==
  ASSUME CosignInv, CoinsStay, UNCHANGED cosigned
  PROVE  CosignInv'
BY DEF CosignInv, SenderLossBounded, CoinsStay, disable_output_substitution

(* Whatever receiver it comes from, a proposal that passes the checks of   *)
(* the sender bounds its loss.                                             *)
LEMMA CheckedIsBounded ==
  ASSUME CoinInv, AnswerInv, NEW a \in Attempts, Running(a), reply[a].kind = "proposal",
         NEW p \in IF route[a] = "server" THEN OtherProposals(initial_psbt(a)) ELSE {reply[a].tx},
         is_final(a, p),
         check_receiver_proposal(initial_psbt(a), p, disable_output_substitution(a))
  PROVE  /\ HasAmounts(p) /\ p.fee >= Fee /\ coin[a] \in p.coins
         /\ Change - (IF p.chg = a THEN p.change ELSE 0) <= Mafc
         /\ disable_output_substitution(a) => p.pay >= Amount
<1> DEFINE o == initial_psbt(a)
<1>1. /\ HasAmounts(o) /\ o.fee = Fee
      /\ coin[a] # WExact => o.chg = a /\ o.change = Change
  BY OriginalForm DEF initial_psbt
<1>2. a # Nobody /\ Begun(a)
  BY PayjoinAssumption DEF Begun, Running
<1>3. HasAmounts(p)
  <2>1. CASE route[a] = "server"
    BY <2>1, <1>1, OthersHaveAmounts
  <2>2. CASE route[a] # "server"
    BY <2>2, MadeHasAmounts DEF AnswerInv
  <2> QED
    BY <2>1, <2>2
<1>4. p.fee >= Fee /\ coin[a] \in p.coins /\ (disable_output_substitution(a) => p.pay >= Amount)
  BY <1>1 DEF check_receiver_proposal, is_final
<1>5. CASE coin[a] # WExact
  <2>1. p.chg = a /\ Change - p.change <= Mafc
    BY <1>1, <1>2, <1>5 DEF check_receiver_proposal, change_checked
  <2> QED
    BY <1>3, <1>4, <2>1
<1>6. CASE coin[a] = WExact
  <2>1. route[a] # "server"
    BY <1>2, <1>6, PayjoinAssumption DEF CoinInv, Ours, Begun
  <2>2. p \in Made
    BY <2>1 DEF AnswerInv
  <2>3. Change = 0 /\ p.change = 0
    BY <1>4, <1>6, <2>2, StaleIsRefused
  <2> QED
    BY <1>3, <1>4, <2>3, PayjoinAssumption
<1> QED
  BY <1>5, <1>6

LEMMA NextCosigns ==
  ASSUME CoinInv, AnswerInv, CosignInv, [Next]_vars
  PROVE  CosignInv'
<1>0. CoinsStay
  BY NextCoins
<1>1. \/ UNCHANGED cosigned
      \/ \E a \in Attempts : process_payjoin_proposal_from_server(a) /\ UNCHANGED receiverVars
  <2>1. CASE \E a \in Attempts : SenderNext(a)
    BY <2>1 DEF SenderNext, send_payjoin, SenderTimeout, PostElsewhere, NoResponse,
         process_error_from_server, UnreadableProposal
  <2>2. CASE \E a \in Attempts : OtherNext(a)
    BY <2>2 DEF OtherNext, OtherServerAnswers, OtherServerPushes, OtherWalletStarts,
         OtherWalletPushes, senderVars
  <2>3. CASE SenderKilled \/ UNCHANGED vars
    BY <2>3 DEF SenderKilled, vars, senderVars
  <2>4. CASE ReceiverNext
    BY <2>4 DEF ReceiverNext, render_POST, SendAnswer, request_to_psbt, end_receipt,
         end_failure, stopReceiver, ReceiverTimeout, ReceiverKilled, senderVars
  <2> QED
    BY <2>1, <2>2, <2>3, <2>4 DEF Next
<1>2. CASE UNCHANGED cosigned
  BY <1>0, <1>2, CosignStays
<1>3. ASSUME NEW a \in Attempts, process_payjoin_proposal_from_server(a)
      PROVE  CosignInv'
  <2>1. PICK p \in IF route[a] = "server" THEN OtherProposals(initial_psbt(a)) ELSE {reply[a].tx} :
          process_payjoin_proposal(a, p)
    BY <1>3 DEF process_payjoin_proposal_from_server
  <2>2. CASE UNCHANGED cosigned
    BY <1>0, <2>2, CosignStays
  <2>3. CASE cosigned' # cosigned
    <3>1. /\ is_final(a, p)
          /\ check_receiver_proposal(initial_psbt(a), p, disable_output_substitution(a))
          /\ cosigned' = cosigned \cup {[by |-> a, tx |-> p]}
      BY <2>1, <2>3 DEF process_payjoin_proposal, ProposalRefused, BroadcastPayjoin, PayjoinNotBroadcast
    <3>2. /\ HasAmounts(p) /\ p.fee >= Fee /\ coin[a] \in p.coins
          /\ Change - (IF p.chg = a THEN p.change ELSE 0) <= Mafc
          /\ disable_output_substitution(a) => p.pay >= Amount
      BY <1>3, <2>1, <3>1, CheckedIsBounded DEF process_payjoin_proposal_from_server
    <3>3. Begun(a) /\ Begun(a)'
      BY <1>0, <1>3 DEF process_payjoin_proposal_from_server, Running, Begun, CoinsStay
    <3>4. (Amount + Change + Fee) - (IF p.chg = a THEN p.change ELSE 0) <= Amount + Fee + Mafc
      BY <3>2, PayjoinAssumption DEF HasAmounts
    <3> DEFINE Bounded(s) ==
          /\ coin[s.by] \in s.tx.coins
          /\ (Amount + Change + Fee) - (IF s.tx.chg = s.by THEN s.tx.change ELSE 0)
                <= Amount + Fee + Mafc
          /\ disable_output_substitution(s.by) => s.tx.pay >= Amount
          /\ Begun(s.by) /\ HasAmounts(s.tx) /\ s.tx.fee >= Fee
    <3>5. \A s \in cosigned' : Bounded(s)
      BY <3>1, <3>2, <3>3, <3>4 DEF CosignInv, SenderLossBounded
    <3>6. \A s : Begun(s.by) => coin'[s.by] = coin[s.by] /\ Begun(s.by)' /\ route' = route
      BY <1>0 DEF CoinsStay
    <3> HIDE DEF Bounded
    <3>7. \A s \in cosigned' : Begun(s.by)' /\ HasAmounts(s.tx) /\ s.tx.fee >= Fee
      BY <3>5, <3>6 DEF Bounded
    <3>8. SenderLossBounded'
      BY <3>5, <3>6 DEF Bounded, SenderLossBounded, disable_output_substitution
    <3> QED
      BY <3>7, <3>8 DEF CosignInv
  <2> QED
    BY <2>2, <2>3
<1> QED
  BY <1>1, <1>2, <1>3

(***************************************************************************)
(* The theorems                                                            *)
(***************************************************************************)

PayjoinInv == CoinInv /\ FallbackArmed /\ AnswerInv /\ PoolInv /\ CosignInv

LEMMA InitPays == Init => PayjoinInv
<1> SUFFICES ASSUME Init PROVE PayjoinInv
  OBVIOUS
<1>1. AllBegun(inbox)
  BY DEF Init, ReceiverInit, AllBegun
<1>2. CoinInv
  BY RouteAssumption DEF Init, SenderInit, CoinInv, Lives
<1>3. AnswerInv
  BY <1>1, NothingWaits DEF Init, SenderInit, ReceiverInit, AnswerInv, NoReply
<1>4. FallbackArmed /\ PoolInv /\ CosignInv
  BY DEF Init, SenderInit, FallbackArmed, PoolInv, CosignInv, SenderLossBounded, Running
<1> QED
  BY <1>2, <1>3, <1>4 DEF PayjoinInv

LEMMA NextPays == PayjoinInv /\ [Next]_vars => PayjoinInv'
BY NextCoins, NextArmed, NextAnswers, NextPool, NextCosigns DEF PayjoinInv

LEMMA PayjoinInvHolds == Spec => []PayjoinInv
BY InitPays, NextPays, PTL DEF Spec

(* FallbackArmed: as long as the program lives, a payment neither made nor *)
(* reported as failed still has its fallback call (send_payjoin).          *)
THEOREM ArmedHolds == Spec => []FallbackArmed
<1>1. PayjoinInv => FallbackArmed
  BY DEF PayjoinInv
<1> QED
  BY <1>1, PayjoinInvHolds, PTL

(* SenderLossBounded: no payjoin that the sender broadcasts costs it more  *)
(* than the amount, the fee of the original and the contribution it agreed *)
(* to, whoever proposed it (check_receiver_proposal).                      *)
THEOREM LossIsBounded == Spec => []SenderLossBounded
<1>1. PayjoinInv => SenderLossBounded
  BY DEF PayjoinInv, CosignInv
<1> QED
  BY <1>1, PayjoinInvHolds, PTL

(* A fallback would have to pay more than the payjoin to replace it, and   *)
(* the check of its fee does not allow that.                               *)
LEMMA OriginalCannotReplace ==
  ASSUME PayjoinInv, [Next]_vars, NEW s \in cosigned, s.tx \in pool, s.tx \notin pool'
  PROVE  initial_psbt(s.by) \notin pool'
<1> DEFINE o == initial_psbt(s.by)
<1>1. /\ HasAmounts(s.tx) /\ s.tx.fee >= Fee /\ coin[s.by] \in s.tx.coins
      /\ o.fee = Fee /\ o.coins = {coin[s.by]}
  BY OriginalForm DEF PayjoinInv, CosignInv, SenderLossBounded, initial_psbt
<1>2. PICK t : Pushed(t)
  BY NextPushes
<1>3. s.tx.fee < t.fee
  BY <1>2 DEF Pushed, Acceptable, Conflicts
<1>4. o # t
  BY <1>1, <1>3, PayjoinAssumption DEF HasAmounts
<1>5. SUFFICES ASSUME o \in pool' PROVE FALSE
  OBVIOUS
<1>6. o \in pool /\ o # s.tx
  BY <1>2, <1>4, <1>5 DEF Pushed
<1>7. o.coins \cap s.tx.coins = {}
  BY <1>6 DEF PayjoinInv, PoolInv
<1> QED
  BY <1>1, <1>7

(* PayjoinIsNotReplaced: no fallback of either end replaces a payjoin on   *)
(* the network (process_payjoin_proposal_from_server).                     *)
THEOREM NotReplaced == Spec => PayjoinIsNotReplaced
<1>1. PayjoinInv /\ [Next]_vars =>
        [\A s \in cosigned :
           s.tx \in pool /\ s.tx \notin pool' => initial_psbt(s.by) \notin pool']_vars
  BY OriginalCannotReplace
<1> QED
  BY <1>1, PayjoinInvHolds, PTL DEF Spec, PayjoinIsNotReplaced
====
