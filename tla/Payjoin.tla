------------------------------ MODULE Payjoin ------------------------------
(***************************************************************************)
(* Payments through payjoin: senders, one receiver, and Bitcoin Core.      *)
(***************************************************************************)
EXTENDS PayjoinReceiver

vars == <<pool, senderVars, receiverVars>>

Init ==
  /\ pool = {}
  /\ SenderInit
  /\ ReceiverInit

\* The request of a payment to another receiver.
PostElsewhere(a) ==
  /\ route[a] = "server"
  /\ PostRequest(a)
  /\ UNCHANGED <<pool, smode, route, run, coin, st, timer, told, paid, cosigned,
                 receiverVars>>

SenderNext(a) ==
  \/ \E c \in SCoins : send_payjoin(a, c) /\ UNCHANGED receiverVars
  \/ \E ok \in BOOLEAN : SenderTimeout(a, ok) /\ UNCHANGED receiverVars
  \/ PostElsewhere(a)
  \/ NoResponse(a) /\ UNCHANGED receiverVars
  \/ \E ok \in BOOLEAN : process_error_from_server(a, ok) /\ UNCHANGED receiverVars
  \/ \E ok \in BOOLEAN : UnreadableProposal(a, ok) /\ UNCHANGED receiverVars
  \/ process_payjoin_proposal_from_server(a) /\ UNCHANGED receiverVars

OtherNext(a) ==
  \/ \E r \in {Failure, Proposal(Nobody)} :
       OtherServerAnswers(a, r) /\ UNCHANGED receiverVars
  \/ OtherServerPushes(a) /\ UNCHANGED receiverVars
  \/ \E c \in {WChange, WExact} : OtherWalletStarts(a, c) /\ UNCHANGED receiverVars
  \/ \E t \in {initial_psbt(a)} \cup ({reply[a].tx} \ {Nobody}) :
       OtherWalletPushes(a, t) /\ UNCHANGED receiverVars

ReceiverNext ==
  \/ \E a \in Attempts : render_POST(a)
  \/ SendAnswer
  \/ request_to_psbt
  \/ \E t \in watch : end_receipt(t)
  \/ end_failure
  \/ stopReceiver
  \/ \E ok \in BOOLEAN : ReceiverTimeout(ok)
  \/ ReceiverKilled

Next ==
  \/ \E a \in Attempts : SenderNext(a) \/ OtherNext(a)
  \/ SenderKilled /\ UNCHANGED receiverVars
  \/ ReceiverNext

\* The reactor of each program runs the calls that are due.
Fairness ==
  /\ \A a \in Attempts :
       WF_vars(\E ok \in BOOLEAN : SenderTimeout(a, ok) /\ UNCHANGED receiverVars)
  /\ WF_vars(\E ok \in BOOLEAN : ReceiverTimeout(ok))

Spec == Init /\ [][Next]_vars /\ Fairness

-----------------------------------------------------------------------------
(* Properties. *)

\* The type invariant of both ends.
TypeOK ==
  /\ SenderTypeOK
  /\ ReceiverTypeOK

\* payjoin.py check_receiver_proposal: whatever a receiver proposes, and
\* whichever proposal the receiver's daemon wrote to the wrong request, the
\* sender broadcasts no payjoin in which its coin pays more than the amount,
\* the fee of the original and the contribution it agreed to, and none that
\* pays less than asked where substitution was forbidden.
SenderLossBounded ==
  \A s \in cosigned :
    LET spent == Amount + Change + Fee
        back == IF s.tx.chg = s.by THEN s.tx.change ELSE 0
    IN  /\ coin[s.by] \in s.tx.coins
        /\ spent - back <= Amount + Fee + Mafc
        /\ disable_output_substitution(s.by) => s.tx.pay >= Amount

\* payjoin.py process_payjoin_proposal_from_server and the two fallback calls:
\* once a sender's payjoin is on the network, no fallback of either end, early,
\* late or repeated, replaces it by the original it was made from.
PayjoinIsNotReplaced ==
  [][\A s \in cosigned :
       s.tx \in pool /\ s.tx \notin pool' => initial_psbt(s.by) \notin pool']_vars

\* payjoin.py send_payjoin: "delayed call to broadcast this after 1 minute": as
\* long as the program lives, a payment that was neither made nor reported as
\* failed still has its fallback call, over errors, refused proposals,
\* handlers that raise and transactions that are not accepted.
FallbackArmed ==
  \A a \in Attempts :
    Running(a) /\ Ours(a) /\ a \notin paid \cup told => a \in timer

\* payjoin.py send_payjoin, fallback_nonpayjoin_broadcast: a payment that was
\* begun is made or its failure reported, unless the program is killed or, on
\* the command line, ends because its payjoin was not accepted.
PaidOrTold ==
  \A a \in Attempts :
    st[a] = "created" ~> \/ a \in paid \cup told
                         \/ run[a] = "killed"
                         \/ run[a] = "ended" /\ st[a] = "cosigned"

\* payjoin.py request_to_psbt: "we schedule fallback in case anything fails
\* later on": a receiver that accepted an original ends by trying to broadcast
\* it, or by a shutdown.
ReceiverSettles == owed ~> ~owed

\* Both ends of a payment settle: by the payjoin, the original, or a report.
PaymentsSettle == PaidOrTold /\ ReceiverSettles
=============================================================================
