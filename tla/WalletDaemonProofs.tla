-------------------------- MODULE WalletDaemonProofs --------------------------
(***************************************************************************)
(* For any wallets, bounds and schedule: the tokens that are accepted are  *)
(* those of the open wallet; and, for a client that is careful and a       *)
(* daemon that connects at once, what JMWalletDaemon reports is what runs, *)
(* and what has ended leaves nothing behind.                               *)
(***************************************************************************)
EXTENDS WalletDaemon, Integers, SequenceTheorems, TLAPS

(***************************************************************************)
(* Tokens                                                                  *)
(***************************************************************************)

(* No token is ahead of the present key of its kind.                       *)
TokenInv ==
  /\ session \in Nat /\ access_key \in Nat /\ refresh_key \in Nat
  /\ \A t \in access_tokens : t.key \in Nat /\ t.key <= access_key
  /\ \A t \in refresh_tokens : t.key \in Nat /\ t.key <= refresh_key
  /\ TokensFollowSession

(* Tokens given to the session of the open wallet, under the present key   *)
(* or a fresh one.                                                         *)
LEMMA IssueTokens ==
  ASSUME TokenInv, NEW a \in {access_key, ResetKey(access_key)},
         NEW r \in {refresh_key, ResetKey(refresh_key)},
         wallet_up', session' \in Nat, issue(a, r, session'),
         a = access_key => (wallet_up => session' = session)
  PROVE  TokenInv'
<1>1. /\ access_key' = a /\ refresh_key' = r + 1
      /\ access_tokens' = access_tokens \cup {[key |-> a, session |-> session']}
      /\ refresh_tokens' = refresh_tokens \cup {[key |-> r + 1, session |-> session']}
  BY DEF issue, Token
<1>2. a \in Nat /\ r \in Nat /\ access_key <= a /\ refresh_key <= r
      /\ (a # access_key => access_key < a)
  BY DEF TokenInv, ResetKey
<1>3. \A t \in access_tokens : t.key = a => wallet_up' /\ t.session = session'
  BY <1>2 DEF TokenInv, TokensFollowSession
<1>4. \A t \in refresh_tokens : t.key # r + 1
  BY <1>2 DEF TokenInv
<1>5. \A t \in access_tokens' : t.key \in Nat /\ t.key <= access_key'
      /\ (t.key = access_key' => t.session = session')
  BY <1>1, <1>2, <1>3 DEF TokenInv
<1>6. \A t \in refresh_tokens' : t.key \in Nat /\ t.key <= refresh_key'
      /\ (t.key = refresh_key' => t.session = session')
  BY <1>1, <1>2, <1>4 DEF TokenInv
<1>7. TokensFollowSession'
  BY <1>5, <1>6 DEF TokensFollowSession
<1> QED
  BY <1>1, <1>2, <1>5, <1>6, <1>7 DEF TokenInv

(* Every step: an authorized request finds its wallet open.                *)
LEMMA NextTokens ==
  ASSUME TokenInv, [Next]_vars
  PROVE  TokenInv'
<1>1. CASE refresh
  <2>1. wallet_up
    BY <1>1 DEF refresh, TokenInv, TokensFollowSession
  <2>2. UNCHANGED walletVars /\ issue(access_key, refresh_key, session)
    BY <1>1 DEF refresh
  <2>3. wallet_up' /\ session' = session /\ session' \in Nat
    BY <2>1, <2>2 DEF walletVars, TokenInv
  <2> QED
    BY <2>2, <2>3, IssueTokens
<1>2. CASE unlock_again
  <2>1. wallet_up /\ UNCHANGED walletVars /\ issue(access_key, refresh_key, session)
    BY <1>2 DEF unlock_again
  <2>2. wallet_up' /\ session' = session /\ session' \in Nat
    BY <2>1 DEF walletVars, TokenInv
  <2> QED
    BY <2>1, <2>2, IssueTokens
<1>3. ASSUME NEW w \in Wallets, open_wallet(w) PROVE TokenInv'
  <2>1. session' = session + 1 /\ wallet_up' /\ session' \in Nat
    BY <1>3 DEF open_wallet, initialize_wallet_service, TokenInv
  <2>2. CASE wallet_up /\ issue(ResetKey(access_key), ResetKey(refresh_key), session')
    BY <2>1, <2>2, IssueTokens DEF ResetKey, TokenInv
  <2>3. CASE ~wallet_up /\ issue(access_key, refresh_key, session')
    BY <2>1, <2>3, IssueTokens
  <2> QED
    BY <1>3, <2>1, <2>2, <2>3 DEF open_wallet, initialize_wallet_service
<1>4. CASE lockwallet
  <2>1. /\ access_key' = access_key + 1 /\ refresh_key' = refresh_key + 1
        /\ UNCHANGED <<session, access_tokens, refresh_tokens>>
    BY <1>4 DEF lockwallet, ResetKey
  <2> QED
    BY <2>1 DEF TokenInv, TokensFollowSession
<1>5. CASE UNCHANGED <<walletVars, tokenVars>>
  BY <1>5 DEF walletVars, tokenVars, TokenInv, TokensFollowSession
<1>6. ASSUME ~(refresh \/ unlock_again \/ lockwallet),
             ~ \E w \in Wallets : open_wallet(w)
      PROVE  UNCHANGED <<walletVars, tokenVars>>
  BY <1>6 DEF Next, vars, Requests, Events, directsend, configset, start_maker, stop_maker,
     stopService, monitor, docoinjoin, start_tumbler, StartTaker, stopcoinjoin,
     restUnchanged, Connect, Stage1Fails, on_taker_stage2_started,
     on_taker_stage2_completed, PushFails, stallMonitor, unconfirm_callback,
     confirm_callback, clientStart, on_taker_stage2_timeout
<1> QED
  BY <1>1, <1>2, <1>3, <1>4, <1>5, <1>6

(* A token of an earlier session is never accepted: whichever way a wallet *)
(* is locked or replaced, both of its keys have changed before the next    *)
(* token is given out.                                                     *)
THEOREM TokensDieWithSession == Spec => []TokensFollowSession
<1>1. Init => TokenInv
  BY DEF Init, TokenInv, TokensFollowSession
<1>2. TokenInv /\ [Next]_vars => TokenInv'
  BY NextTokens
<1>3. TokenInv => TokensFollowSession
  BY DEF TokenInv
<1> QED
  BY <1>1, <1>2, <1>3, PTL DEF Spec

(***************************************************************************)
(* What runs, and what it leaves                                           *)
(***************************************************************************)

PartyShape == [kind : Kinds, session : Nat, phase : Phases, conn : {"none", "up", "lost"},
               aborted : BOOLEAN, left : Int]

Shapes ==
  /\ session \in Nat /\ wallet_up \in BOOLEAN /\ tumbler_options \in BOOLEAN
  /\ coinjoin_state \in {"none", "maker", "taker"}
  /\ parties \in Seq(PartyShape)
  /\ maker \in 0..Len(parties) /\ taker \in 0..Len(parties)
  /\ clientfactory \in 0..Len(parties)
  /\ restarts \subseteq Ids

(* A taker has no connection only at first; a maker runs or does not.      *)
Plausible(p) ==
  IF p.kind = "maker" THEN p.phase \in {"off", "running"}
  ELSE p.phase # "running" /\ (p.conn = "none" => p.phase = "stage1" /\ ~p.aborted)

PartiesInv == \A i \in Ids : parties[i].session <= session /\ Plausible(parties[i])

Alive(p) == p.kind # "maker" /\ p.conn # "lost" /\ ~p.aborted
AtWork(p) == Alive(p) /\ p.phase \in {"stage1", "stage2"}

(* What a careful client waits for, and may call taker_finished.           *)
Unsettled(p) ==
  p.session = session /\ (p.phase = "pushed" \/ (p.phase = "seen" /\ ~p.aborted))

(* Who can still act is the present taker; a transaction of another is     *)
(* unsettled only as long as nothing else has been started.                *)
TakerInv ==
  /\ coinjoin_connection = taker
  /\ clientfactory # 0 => parties[clientfactory].kind # "maker"
  /\ taker # 0 => /\ clientfactory = taker /\ wallet_up
                  /\ Alive(parties[taker]) /\ parties[taker].session = session
  /\ tumbler_options <=> taker # 0 /\ parties[taker].kind = "tumbler"
  /\ \A i \in Ids : AtWork(parties[i]) => i = taker
  /\ \A i \in restarts : parties[i].kind = "tumbler" /\ (Alive(parties[i]) => i = taker)
  /\ \A i \in Ids : Unsettled(parties[i]) =>
                      i = taker \/ (taker = 0 /\ coinjoin_state = "none")
  /\ tumbler_options => tx_fees = default_policy_tx_fees

DaemonInv ==
  Shapes /\ PartiesInv /\ TakerInv /\ ReportedIsRunning /\ NothingLeftBehind

(* Each party is a record of the shape.                                    *)
LEMMA PartyIsShaped == ASSUME DaemonInv PROVE \A i \in Ids : parties[i] \in PartyShape
<1>1. parties \in Seq(PartyShape)
  BY DEF DaemonInv, Shapes
<1> QED
  BY <1>1, ElementOfSeq DEF Ids

(* Without a taker the daemon can always reach the last one: it had been   *)
(* connected.                                                              *)
LEMMA LastIsConnected ==
  ASSUME DaemonInv, taker = 0 \/ parties[taker].conn # "none"
  PROVE  Reachable(parties)
<1>1. CASE clientfactory = 0
  BY <1>1 DEF Reachable
<1>2. CASE clientfactory # 0
  <2>1. clientfactory \in Ids
    BY <1>2 DEF DaemonInv, Shapes, Ids
  <2>2. CASE taker = 0
    BY <1>2, <2>1, <2>2 DEF Reachable, DaemonInv, PartiesInv, Plausible, TakerInv, AtWork, Alive
  <2>3. CASE taker # 0
    BY <2>3 DEF Reachable, DaemonInv, TakerInv
  <2> QED
    BY <2>2, <2>3
<1> QED
  BY <1>1, <1>2

(* Requests come when all connections have been made.                      *)
LEMMA RequestsReach ==
  ASSUME PromptConnect, DaemonInv, Request
  PROVE  Reachable(parties)
<1>1. \A i \in Ids : parties[i].conn = "none" => parties[i].phase = "off"
  BY DEF Request, Connecting
<1>2. CASE taker = 0
  BY <1>2, LastIsConnected
<1>3. CASE taker # 0
  <2>1. taker \in Ids
    BY <1>3 DEF DaemonInv, Shapes, Ids
  <2>2. parties[taker].conn # "none"
    BY <1>1, <1>3, <2>1 DEF DaemonInv, PartiesInv, Plausible, TakerInv, Alive
  <2> QED
    BY <2>2, LastIsConnected
<1> QED
  BY <1>2, <1>3

(* A party is replaced by another record of its shape.                     *)
LEMMA OneChanged ==
  ASSUME NEW ps \in Seq(PartyShape), NEW i \in 1..Len(ps), NEW r \in PartyShape
  PROVE  /\ [ps EXCEPT ![i] = r] \in Seq(PartyShape)
         /\ Len([ps EXCEPT ![i] = r]) = Len(ps)
         /\ [ps EXCEPT ![i] = r][i] = r
         /\ \A j \in 1..Len(ps) : j # i => [ps EXCEPT ![i] = r][j] = ps[j]
BY ExceptSeq

(* ps: the parties after a change that makes and connects nobody, and puts *)
(* nobody to work who was not.                                             *)
Later(ps) ==
  /\ ps \in Seq(PartyShape) /\ Len(ps) = Len(parties)
  /\ \A i \in Ids : /\ ps[i].kind = parties[i].kind /\ ps[i].session = parties[i].session
                    /\ ps[i].conn = parties[i].conn
                    /\ parties[i].aborted => ps[i].aborted
                    /\ IF ps[i].kind = "maker" THEN ps[i].phase = "off"
                       ELSE ps[i].phase # "running"
                    /\ i # taker /\ AtWork(ps[i]) => AtWork(parties[i])

(* stop_taker: the connection of the taker is lost, and with it everything *)
(* it could still do.                                                      *)
LEMMA StopLeavesNothing ==
  ASSUME DaemonInv, NEW ps, Later(ps), Reachable(parties), stop_taker(ps),
         ~tumbler_options', tumbler_options' \in BOOLEAN,
         tx_fees' = default_policy_tx_fees',
         UNCHANGED <<clientfactory, restarts>>,
         session' \in Nat, session <= session', wallet_up' \in BOOLEAN,
         maker' \in 0..Len(parties)
  PROVE  DaemonInv'
<1>1. /\ taker' = 0 /\ coinjoin_state' = "none" /\ watchdog' = 0
      /\ coinjoin_connection' = 0
      /\ parties' = Disconnected(ps, taker)
  BY DEF stop_taker, Reachable, Later, DaemonInv, Shapes, TakerInv, Ids
<1>2. /\ parties' \in Seq(PartyShape) /\ Len(parties') = Len(parties)
      /\ \A i \in Ids : /\ parties'[i].kind = ps[i].kind
                        /\ parties'[i].session = ps[i].session
                        /\ parties'[i].phase = ps[i].phase
                        /\ parties'[i].aborted = ps[i].aborted
                        /\ parties'[i].conn = IF i = taker THEN "lost" ELSE ps[i].conn
  <2>1. CASE taker = 0
    BY <1>1, <2>1 DEF Disconnected, Later, Ids
  <2>2. CASE taker # 0
    <3>1. taker \in 1..Len(ps) /\ ps[taker] \in PartyShape
      BY <2>2, ElementOfSeq DEF DaemonInv, Shapes, Later
    <3>2. [ps[taker] EXCEPT !.conn = "lost"] \in PartyShape
      BY <3>1 DEF PartyShape
    <3>3. parties' = [ps EXCEPT ![taker] = [ps[taker] EXCEPT !.conn = "lost"]]
      BY <1>1, <2>2 DEF Disconnected
    <3>4. \A i \in Ids : parties'[i] = IF i = taker THEN [ps[taker] EXCEPT !.conn = "lost"]
                                                    ELSE ps[i]
      BY <3>1, <3>2, <3>3, OneChanged DEF Later, Ids
    <3>5. parties' \in Seq(PartyShape) /\ Len(parties') = Len(parties)
      BY <3>1, <3>2, <3>3, OneChanged DEF Later
    <3> QED
      BY <3>1, <3>4, <3>5 DEF PartyShape
  <2> QED
    BY <2>1, <2>2
<1>3. Ids' = Ids
  BY <1>2 DEF Ids
<1>4. Shapes'
  BY <1>1, <1>2, <1>3 DEF DaemonInv, Shapes
<1>5. \A i \in Ids : ~AtWork(parties'[i])
  BY <1>2 DEF Later, AtWork, Alive, DaemonInv, TakerInv
<1>6. \A i \in Ids : /\ parties'[i].session <= session'
                     /\ Plausible(parties'[i])
  <2>1. \A i \in Ids : parties'[i].kind # "maker" => parties'[i].conn # "none"
    <3>1. SUFFICES ASSUME NEW i \in Ids, parties[i].kind # "maker", parties[i].conn = "none"
                   PROVE  i = taker
      BY <1>2 DEF Later
    <3> QED
      BY <3>1 DEF DaemonInv, PartiesInv, Plausible, TakerInv, AtWork, Alive
  <2>2. \A i \in Ids : parties[i].session \in Nat
    BY PartyIsShaped DEF PartyShape
  <2> QED
    BY <1>2, <2>1, <2>2 DEF Later, DaemonInv, Shapes, PartiesInv, Plausible
<1>7. PartiesInv'
  BY <1>3, <1>6 DEF PartiesInv, Plausible
<1>8. TakerInv'
  <2>1. \A i \in restarts' : parties'[i].kind = "tumbler" /\ ~Alive(parties'[i])
    BY <1>2 DEF Later, Alive, DaemonInv, TakerInv, Shapes
  <2>2. clientfactory' # 0 => parties'[clientfactory'].kind # "maker"
    BY <1>2 DEF Later, DaemonInv, TakerInv, Shapes, Ids
  <2> QED
    BY <1>1, <1>3, <1>5, <2>1, <2>2 DEF TakerInv, AtWork, Alive
<1>9. ReportedIsRunning'
  BY <1>1, <1>2, <1>3 DEF ReportedIsRunning, IsRunning, Later
<1>10. NothingLeftBehind'
  BY <1>1, <1>2, <1>3
     DEF NothingLeftBehind, LockedIsQuiet, WatchdogIsCurrent, FeesRestored, IsRunning, Later
<1> QED
  BY <1>4, <1>7, <1>8, <1>9, <1>10 DEF DaemonInv

(* Only the taker moves, and is still alive afterwards.                    *)
LEMMA TakerGoesOn ==
  ASSUME DaemonInv, taker # 0, parties[taker].conn = "up", NEW r \in PartyShape,
         r.kind = parties[taker].kind, r.session = parties[taker].session,
         r.conn = "up", ~r.aborted, r.phase # "running",
         parties' = [parties EXCEPT ![taker] = r],
         UNCHANGED <<walletVars, maker, coinjoin_state, taker, clientfactory,
                     coinjoin_connection, tumbler_options, feeVars>>,
         restarts' \subseteq restarts \cup {taker},
         restarts' \subseteq restarts \/ tumbler_options,
         watchdog' # 0 => /\ watchdog' = taker /\ r.kind = "coinjoin"
                          /\ r.phase = "stage2"
  PROVE  DaemonInv'
<1>0. taker \in Ids /\ parties \in Seq(PartyShape)
  BY DEF DaemonInv, Shapes, Ids
<1>1. /\ parties' \in Seq(PartyShape) /\ Len(parties') = Len(parties)
      /\ parties'[taker] = r
      /\ \A j \in Ids : j # taker => parties'[j] = parties[j]
  BY <1>0, OneChanged DEF Ids
<1>2. Ids' = Ids
  BY <1>1 DEF Ids
<1>3. /\ UNCHANGED <<session, wallet_up, tx_fees, default_policy_tx_fees>>
      /\ UNCHANGED <<maker, coinjoin_state, taker, clientfactory, coinjoin_connection,
                     tumbler_options>>
  BY DEF walletVars, feeVars
<1>4. Shapes'
  BY <1>0, <1>1, <1>2, <1>3 DEF DaemonInv, Shapes
<1>5. parties[taker].kind # "maker" /\ coinjoin_state = "taker"
  BY DEF DaemonInv, TakerInv, Alive, ReportedIsRunning
<1>6. PartiesInv'
  BY <1>0, <1>1, <1>2, <1>3, <1>5 DEF DaemonInv, PartiesInv, Plausible
<1>7. TakerInv'
  <2>1. clientfactory' # 0 => parties'[clientfactory'].kind # "maker"
    BY <1>1, <1>3, <1>5 DEF DaemonInv, TakerInv
  <2>2. Alive(parties'[taker']) /\ parties'[taker'].session = session'
    BY <1>1, <1>3, <1>5 DEF DaemonInv, TakerInv, Alive
  <2>3. tumbler_options' <=> taker' # 0 /\ parties'[taker'].kind = "tumbler"
    BY <1>1, <1>3 DEF DaemonInv, TakerInv
  <2>4. \A i \in Ids' : AtWork(parties'[i]) => i = taker'
    BY <1>1, <1>2, <1>3 DEF DaemonInv, TakerInv
  <2>5. \A i \in restarts' : parties'[i].kind = "tumbler" /\ (Alive(parties'[i]) => i = taker')
    BY <1>1, <1>3 DEF DaemonInv, TakerInv, Shapes
  <2>6. \A i \in Ids' : Unsettled(parties[i])' =>
                      i = taker' \/ (taker' = 0 /\ coinjoin_state' = "none")
    BY <1>1, <1>2, <1>3 DEF DaemonInv, TakerInv, Unsettled
  <2> QED
    BY <1>3, <2>1, <2>2, <2>3, <2>4, <2>5, <2>6 DEF DaemonInv, TakerInv, Alive, AtWork
<1>8. ReportedIsRunning'
  <2>1. \A m \in Ids : IsRunning(m)' <=> IsRunning(m)
    BY <1>1, <1>5 DEF IsRunning
  <2> QED
    BY <1>2, <1>3, <2>1 DEF DaemonInv, ReportedIsRunning
<1>9. NothingLeftBehind'
  <2>1. wallet_up
    BY DEF DaemonInv, TakerInv
  <2> QED
    BY <1>1, <1>3, <1>5, <2>1
       DEF NothingLeftBehind, LockedIsQuiet, WatchdogIsCurrent, FeesRestored
<1> QED
  BY <1>4, <1>6, <1>7, <1>8, <1>9 DEF DaemonInv

(* taker_finished, however it is called: a run that is over is stopped.    *)
LEMMA FinishedIsStopped ==
  ASSUME DaemonInv, NEW ps, Later(ps), Reachable(parties), NEW fromtx,
         taker_finished(fromtx, ps), fromtx = "final" \/ ~tumbler_options,
         session' \in Nat, session <= session', wallet_up' \in BOOLEAN,
         maker' \in 0..Len(parties)
  PROVE  DaemonInv'
<1>1. Reachable(ps)
  BY DEF Reachable, Later, DaemonInv, Shapes, Ids
<1>2. UNCHANGED <<clientfactory, default_policy_tx_fees>>
  BY DEF taker_finished
<1>3. CASE finish_single(ps)
  <2>1. /\ stop_taker(ps) /\ ~tumbler_options' /\ tumbler_options' \in BOOLEAN
        /\ tx_fees' = default_policy_tx_fees' /\ UNCHANGED restarts
    BY <1>1, <1>2, <1>3 DEF finish_single, DaemonInv, Shapes
  <2> QED
    BY <1>2, <2>1, StopLeavesNothing
<1>4. CASE finish_tumbler(fromtx, ps)
  <2>1. /\ fromtx = "final" /\ tumbler_options
        /\ stop_taker(ps) /\ tumbler_options' = ~Reachable(ps)
        /\ UNCHANGED <<restarts, tx_fees>>
    BY <1>4 DEF finish_tumbler
  <2>2. tumbler_options' = FALSE
    BY <1>1, <2>1
  <2>3. tx_fees' = default_policy_tx_fees'
    BY <1>2, <2>1 DEF DaemonInv, TakerInv
  <2> QED
    BY <1>2, <2>1, <2>2, <2>3, StopLeavesNothing
<1>5. ~finish_nobody(ps)
  BY DEF finish_nobody, DaemonInv, TakerInv
<1> QED
  BY <1>3, <1>4, <1>5 DEF taker_finished

(* Or the tumbler goes on with its taker.                                  *)
LEMMA FinishedGoesOn ==
  ASSUME DaemonInv, tumbler_options, parties[taker].conn = "up",
         NEW r \in PartyShape,
         r.kind = parties[taker].kind, r.session = parties[taker].session,
         r.conn = "up", ~r.aborted, r.phase # "running",
         NEW fromtx \in {"more", "unconfirmed"},
         taker_finished(fromtx, [parties EXCEPT ![taker] = r]),
         UNCHANGED <<walletVars, maker>>
  PROVE  DaemonInv'
<1>1. taker # 0 /\ clientfactory = taker /\ parties[taker].kind = "tumbler"
  BY DEF DaemonInv, TakerInv
<1>2. finish_tumbler(fromtx, [parties EXCEPT ![taker] = r])
      /\ UNCHANGED <<clientfactory, default_policy_tx_fees>>
  BY <1>1 DEF taker_finished, finish_single, finish_nobody
<1>3. /\ parties' = [parties EXCEPT ![taker] = r]
      /\ UNCHANGED <<taker, coinjoin_state, watchdog, coinjoin_connection,
                     tumbler_options, tx_fees>>
      /\ restarts' \subseteq restarts \cup {taker}
  BY <1>1, <1>2 DEF finish_tumbler
<1>4. watchdog' = 0
  BY <1>1, <1>3 DEF DaemonInv, NothingLeftBehind, WatchdogIsCurrent
<1>5. UNCHANGED feeVars
  BY <1>2, <1>3 DEF feeVars
<1> QED
  BY <1>1, <1>2, <1>3, <1>4, <1>5, TakerGoesOn

(* One taker changed, in phase or by an abort.                             *)
LEMMA ChangedIsLater ==
  ASSUME DaemonInv, coinjoin_state # "maker", NEW t \in Ids, NEW r \in PartyShape,
         parties[t].kind # "maker", r.kind = parties[t].kind,
         r.session = parties[t].session, r.conn = parties[t].conn,
         parties[t].aborted => r.aborted, r.phase # "running",
         t # taker /\ AtWork(r) => AtWork(parties[t])
  PROVE  Later([parties EXCEPT ![t] = r])
<1>1. parties \in Seq(PartyShape) /\ t \in 1..Len(parties)
  BY DEF DaemonInv, Shapes, Ids
<1>2. \A i \in Ids : parties[i].kind = "maker" => parties[i].phase = "off"
  BY DEF DaemonInv, ReportedIsRunning, IsRunning, PartiesInv, Plausible, Ids
<1>3. \A i \in Ids : parties[i].kind # "maker" => parties[i].phase # "running"
  BY DEF DaemonInv, PartiesInv, Plausible
<1> DEFINE ps == [parties EXCEPT ![t] = r]
<1>4. /\ ps \in Seq(PartyShape) /\ Len(ps) = Len(parties) /\ ps[t] = r
      /\ \A i \in Ids : i # t => ps[i] = parties[i]
  BY <1>1, OneChanged DEF Ids
<1> HIDE DEF ps
<1>5. Later(ps)
  BY <1>2, <1>3, <1>4 DEF Later
<1> QED
  BY <1>5 DEF ps

(* A taker in another phase.                                               *)
LEMMA MovedIsLater ==
  ASSUME DaemonInv, coinjoin_state # "maker", NEW t \in Ids, parties[t].kind # "maker",
         NEW phase \in Phases \ {"running"},
         t # taker => phase \notin {"stage1", "stage2"}
  PROVE  Later(Moved(t, phase))
<1> DEFINE r == [parties[t] EXCEPT !.phase = phase]
<1>1. parties[t] \in PartyShape
  BY PartyIsShaped
<1>2. r \in PartyShape /\ r.kind = parties[t].kind /\ r.session = parties[t].session
      /\ r.conn = parties[t].conn /\ r.aborted = parties[t].aborted /\ r.phase = phase
  BY <1>1 DEF PartyShape
<1>3. Moved(t, phase) = [parties EXCEPT ![t] = r]
  BY DEF Moved
<1> HIDE DEF r
<1>4. Later([parties EXCEPT ![t] = r])
  BY <1>2, ChangedIsLater DEF AtWork
<1> QED
  BY <1>3, <1>4

(* The taker aborted.                                                      *)
LEMMA AbortedIsLater ==
  ASSUME DaemonInv, taker # 0
  PROVE  Later(Aborted(parties, taker))
<1> DEFINE r == [parties[taker] EXCEPT !.aborted = TRUE]
<1>0. taker \in Ids /\ coinjoin_state = "taker" /\ parties[taker].kind # "maker"
  BY DEF DaemonInv, Shapes, Ids, ReportedIsRunning, TakerInv, Alive
<1>1. parties[taker] \in PartyShape
  BY <1>0, PartyIsShaped
<1>2. r \in PartyShape /\ r.kind = parties[taker].kind /\ r.session = parties[taker].session
      /\ r.conn = parties[taker].conn /\ r.aborted /\ r.phase = parties[taker].phase
  BY <1>1 DEF PartyShape
<1>3. r.phase # "running"
  BY <1>0, <1>2 DEF DaemonInv, PartiesInv, Plausible
<1>4. Aborted(parties, taker) = [parties EXCEPT ![taker] = r]
  BY DEF Aborted
<1> HIDE DEF r
<1> QED
  BY <1>0, <1>2, <1>3, <1>4, ChangedIsLater

(* No taker, and the maker, if there was one, is stopped.                  *)
LEMMA MakerGoes ==
  ASSUME DaemonInv, coinjoin_state # "taker",
         coinjoin_state' = IF IsRunning(maker) THEN "none" ELSE coinjoin_state,
         parties' = MakerStopped(parties, maker),
         UNCHANGED <<takerVars, feeVars>>,
         session' \in Nat, session <= session', wallet_up' \in BOOLEAN,
         maker' \in 0..Len(parties)
  PROVE  DaemonInv'
<1>1. taker = 0 /\ watchdog = 0
  BY DEF DaemonInv, ReportedIsRunning, NothingLeftBehind, WatchdogIsCurrent
<1>2. /\ coinjoin_state' = IF IsRunning(maker) THEN "none" ELSE coinjoin_state
      /\ parties' = MakerStopped(parties, maker)
      /\ UNCHANGED <<taker, clientfactory, coinjoin_connection, tumbler_options,
                     watchdog, restarts, tx_fees, default_policy_tx_fees>>
  BY DEF takerVars, feeVars
<1>3. /\ parties' \in Seq(PartyShape) /\ Len(parties') = Len(parties)
      /\ \A i \in Ids : parties'[i] = IF IsRunning(i) THEN [parties[i] EXCEPT !.phase = "off"]
                                                      ELSE parties[i]
  <2>1. \A i \in Ids : IsRunning(i) => i = maker
    BY DEF DaemonInv, ReportedIsRunning
  <2>2. CASE IsRunning(maker)
    <3>1. maker \in 1..Len(parties) /\ parties \in Seq(PartyShape)
      BY <2>2 DEF IsRunning, DaemonInv, Shapes
    <3>2. [parties[maker] EXCEPT !.phase = "off"] \in PartyShape
      BY <3>1, PartyIsShaped DEF PartyShape, Phases, Ids
    <3>3. parties' = [parties EXCEPT ![maker] = [parties[maker] EXCEPT !.phase = "off"]]
      BY <1>2, <2>2 DEF MakerStopped
    <3> QED
      BY <2>1, <2>2, <3>1, <3>2, <3>3, OneChanged DEF Ids
  <2>3. CASE ~IsRunning(maker)
    BY <1>2, <2>1, <2>3 DEF MakerStopped, DaemonInv, Shapes
  <2> QED
    BY <2>2, <2>3
<1>4. Ids' = Ids
  BY <1>3 DEF Ids
<1>5. coinjoin_state' = "none"
  BY <1>2 DEF DaemonInv, Shapes, ReportedIsRunning
<1>6. \A i \in Ids : /\ parties'[i].kind = parties[i].kind
                     /\ parties'[i].session = parties[i].session
                     /\ parties'[i].conn = parties[i].conn
                     /\ parties'[i].aborted = parties[i].aborted
                     /\ parties[i].kind # "maker" => parties'[i].phase = parties[i].phase
                     /\ parties[i].kind = "maker" => parties'[i].phase = "off"
  <2> TAKE i \in Ids
  <2>2. parties[i] \in PartyShape
    BY PartyIsShaped
  <2>3. CASE IsRunning(i)
    BY <1>3, <2>2, <2>3 DEF PartyShape, IsRunning
  <2>4. CASE ~IsRunning(i)
    <3>1. parties'[i] = parties[i]
      BY <1>3, <2>4
    <3>2. i # 0
      BY DEF Ids
    <3>3. parties[i].kind = "maker" => parties[i].phase = "off"
      BY <2>4, <3>2 DEF IsRunning, DaemonInv, PartiesInv, Plausible
    <3> QED
      BY <3>1, <3>3
  <2> QED
    BY <2>3, <2>4
<1>7. Shapes'
  BY <1>1, <1>2, <1>3, <1>4, <1>5 DEF DaemonInv, Shapes
<1>8. PartiesInv'
  <2>1. \A i \in Ids : parties[i].session \in Nat
    BY PartyIsShaped DEF PartyShape
  <2> QED
    BY <1>4, <1>6, <2>1 DEF DaemonInv, Shapes, PartiesInv, Plausible
<1>9. TakerInv'
  <2>1. \A i \in Ids' : ~AtWork(parties'[i])
    BY <1>1, <1>4, <1>6 DEF DaemonInv, TakerInv, AtWork, Alive, Ids
  <2>2. \A i \in restarts' : parties'[i].kind = "tumbler" /\ ~Alive(parties'[i])
    BY <1>1, <1>2, <1>6 DEF DaemonInv, TakerInv, Alive, Shapes, Ids
  <2>3. clientfactory' # 0 => parties'[clientfactory'].kind # "maker"
    BY <1>2, <1>6 DEF DaemonInv, TakerInv, Shapes, Ids
  <2>4. ~tumbler_options'
    BY <1>1, <1>2 DEF DaemonInv, TakerInv
  <2> QED
    BY <1>1, <1>2, <1>5, <2>1, <2>2, <2>3, <2>4 DEF DaemonInv, TakerInv, AtWork, Alive
<1>10. ReportedIsRunning'
  BY <1>1, <1>2, <1>4, <1>5, <1>6 DEF ReportedIsRunning, IsRunning
<1>11. NothingLeftBehind'
  BY <1>1, <1>2, <1>4, <1>5, <1>6
     DEF DaemonInv, NothingLeftBehind, LockedIsQuiet, WatchdogIsCurrent, FeesRestored, IsRunning
<1> QED
  BY <1>7, <1>8, <1>9, <1>10, <1>11 DEF DaemonInv

(* stopSubServices, of a wallet that is locked or replaced.                *)
LEMMA SubServicesStop ==
  ASSUME DaemonInv, Reachable(parties), stopSubServices,
         session' \in Nat, session <= session', wallet_up' \in BOOLEAN
  PROVE  DaemonInv'
<1>0. maker' = 0 /\ maker' \in 0..Len(parties)
  BY DEF stopSubServices, DaemonInv, Shapes
<1>1. CASE coinjoin_state = "taker"
  <2>1. taker # 0 /\ ~IsRunning(maker)
    <3>1. \A m \in Ids : ~IsRunning(m)
      BY <1>1 DEF DaemonInv, ReportedIsRunning
    <3>2. maker = 0 \/ maker \in Ids
      BY DEF DaemonInv, Shapes, Ids
    <3> QED
      BY <1>1, <3>1, <3>2 DEF IsRunning, DaemonInv, ReportedIsRunning
  <2>2. taker_finished("final", Aborted(parties, taker))
    BY <1>1, <2>1 DEF stopSubServices, MakerStopped
  <2>3. Later(Aborted(parties, taker))
    BY <2>1, AbortedIsLater
  <2> QED
    BY <1>0, <2>2, <2>3, FinishedIsStopped
<1>2. CASE coinjoin_state # "taker"
  BY <1>0, <1>2, MakerGoes DEF stopSubServices
<1> QED
  BY <1>1, <1>2

(* Nothing that the invariant looks at has changed, or only the fees.      *)
LEMMA DaemonFrame ==
  ASSUME DaemonInv,
         UNCHANGED <<walletVars, coinjoin_state, parties, maker, takerVars>>,
         UNCHANGED feeVars \/ tx_fees' = default_policy_tx_fees'
  PROVE  DaemonInv'
<1>1. UNCHANGED <<session, wallet_up, coinjoin_state, parties, maker, taker, clientfactory,
                  coinjoin_connection, tumbler_options, watchdog, restarts>>
  BY DEF walletVars, takerVars
<1>2. Ids' = Ids
  BY <1>1 DEF Ids
<1>3. Shapes' /\ PartiesInv'
  BY <1>1, <1>2 DEF DaemonInv, Shapes, PartiesInv
<1>4. TakerInv'
  BY <1>1, <1>2 DEF DaemonInv, TakerInv, Unsettled, feeVars
<1>5. ReportedIsRunning'
  BY <1>1, <1>2 DEF DaemonInv, ReportedIsRunning, IsRunning
<1>6. NothingLeftBehind'
  BY <1>1, <1>2 DEF DaemonInv, NothingLeftBehind, LockedIsQuiet, WatchdogIsCurrent,
     FeesRestored, IsRunning, feeVars
<1> QED
  BY <1>3, <1>4, <1>5, <1>6 DEF DaemonInv

(* The first wallet, or another one.                                       *)
LEMMA WalletOpens ==
  ASSUME PromptConnect, DaemonInv, NEW w \in Wallets, open_wallet(w)
  PROVE  DaemonInv'
<1>1. session' = session + 1 /\ session \in Nat /\ wallet_up' = TRUE /\ Request
  BY DEF open_wallet, initialize_wallet_service, DaemonInv, Shapes
<1>2. CASE wallet_up /\ stopSubServices
  BY <1>1, <1>2, RequestsReach, SubServicesStop
<1>3. CASE ~wallet_up /\ UNCHANGED <<coinjoin_state, parties, maker, takerVars, feeVars>>
  <2>1. UNCHANGED <<coinjoin_state, parties, maker, taker, clientfactory,
                    coinjoin_connection, tumbler_options, watchdog, restarts, tx_fees,
                    default_policy_tx_fees>>
    BY <1>3 DEF takerVars, feeVars
  <2>2. Ids' = Ids
    BY <2>1 DEF Ids
  <2>3. taker = 0 /\ watchdog = 0 /\ coinjoin_state = "none"
    BY <1>3 DEF DaemonInv, NothingLeftBehind, LockedIsQuiet
  <2>4. Shapes'
    BY <1>1, <2>1, <2>2 DEF DaemonInv, Shapes
  <2>5. PartiesInv'
    <3>1. \A i \in Ids : parties[i].session \in Nat
      BY PartyIsShaped DEF PartyShape
    <3> QED
      BY <1>1, <2>1, <2>2, <3>1 DEF DaemonInv, PartiesInv
  <2>6. TakerInv'
    BY <2>1, <2>2, <2>3 DEF DaemonInv, TakerInv
  <2>7. ReportedIsRunning'
    BY <2>1, <2>2 DEF DaemonInv, ReportedIsRunning, IsRunning
  <2>8. NothingLeftBehind'
    BY <1>1, <2>1, <2>3 DEF DaemonInv, NothingLeftBehind, LockedIsQuiet,
       WatchdogIsCurrent, FeesRestored
  <2> QED
    BY <2>4, <2>5, <2>6, <2>7, <2>8 DEF DaemonInv
<1> QED
  BY <1>2, <1>3 DEF open_wallet, initialize_wallet_service

(* A party more.                                                           *)
LEMMA OneMore ==
  ASSUME DaemonInv, NEW p \in PartyShape, parties' = Append(parties, p)
  PROVE  /\ parties' \in Seq(PartyShape) /\ Len(parties') = Len(parties) + 1
         /\ Len(parties) \in Nat
         /\ Ids' = Ids \cup {Len(parties) + 1} /\ Len(parties) + 1 \notin Ids
         /\ parties'[Len(parties) + 1] = p
         /\ \A i \in Ids : parties'[i] = parties[i]
<1>1. parties \in Seq(PartyShape) /\ Len(parties) \in Nat
  BY DEF DaemonInv, Shapes
<1>2. /\ parties' \in Seq(PartyShape) /\ Len(parties') = Len(parties) + 1
      /\ parties'[Len(parties) + 1] = p
      /\ \A i \in 1..Len(parties) : parties'[i] = parties[i]
  BY <1>1, AppendProperties
<1>3. Ids' = Ids \cup {Len(parties) + 1} /\ Len(parties) + 1 \notin Ids
  BY <1>1, <1>2 DEF Ids
<1> QED
  BY <1>1, <1>2, <1>3 DEF Ids

(* A maker service is started, or is set up in vain.                       *)
LEMMA MakerStarts ==
  ASSUME Careful, DaemonInv, NEW coins \in BOOLEAN, start_maker(coins)
  PROVE  DaemonInv'
<1> DEFINE n == Len(parties) + 1
<1>1. wallet_up /\ Settled
  BY DEF start_maker, MayStart, AuthRequest
<1>2. UNCHANGED <<session, wallet_up, taker, clientfactory, coinjoin_connection,
                  tumbler_options, watchdog, restarts, tx_fees, default_policy_tx_fees>>
      /\ maker' = n
  BY DEF start_maker, walletVars, takerVars, feeVars
<1>3. PICK phase \in {"off", "running"} :
        /\ parties' = Append(parties, NewParty("maker", phase, 0))
        /\ phase = "running" => coinjoin_state = "none" /\ coinjoin_state' = "maker"
        /\ phase = "off" => coinjoin_state' = coinjoin_state
  BY DEF start_maker, startService
<1> DEFINE p == NewParty("maker", phase, 0)
<1>4. /\ p \in PartyShape /\ p.kind = "maker" /\ p.phase = phase /\ p.session = session
      /\ ~Unsettled(p)
  BY DEF NewParty, PartyShape, Kinds, Phases, Unsettled, DaemonInv, Shapes
<1> HIDE DEF p
<1>5. /\ parties' \in Seq(PartyShape) /\ Len(parties') = n /\ Len(parties) \in Nat
      /\ Ids' = Ids \cup {n} /\ n \notin Ids /\ parties'[n] = p
      /\ \A i \in Ids : parties'[i] = parties[i]
  BY <1>3, <1>4, OneMore DEF p
<1>6. \A i \in Ids : ~IsRunning(i) /\ ~Unsettled(parties[i])
  BY <1>1 DEF Settled, Unsettled
<1>7. coinjoin_state # "maker"
  BY <1>6 DEF DaemonInv, ReportedIsRunning
<1> HIDE DEF n
<1>8. taker # n /\ clientfactory # n /\ n \notin restarts /\ n # 0
  BY <1>5 DEF DaemonInv, Shapes, Ids, n
<1>9. taker \in {0} \cup Ids /\ clientfactory \in {0} \cup Ids /\ restarts \subseteq Ids
  BY DEF DaemonInv, Shapes, Ids
<1>10. Shapes'
  BY <1>2, <1>3, <1>5 DEF DaemonInv, Shapes, Ids, n
<1>11. PartiesInv'
  <2>1. Plausible(p) /\ p.session <= session
    BY <1>4 DEF Plausible, DaemonInv, Shapes
  <2> QED
    BY <1>2, <1>5, <2>1 DEF DaemonInv, PartiesInv, Plausible
<1>12. TakerInv'
  <2>1. \A i \in Ids' : AtWork(parties'[i]) => i = taker
    BY <1>4, <1>5 DEF DaemonInv, TakerInv, AtWork, Alive
  <2>2. \A i \in Ids' : ~Unsettled(parties[i])'
    BY <1>2, <1>4, <1>5, <1>6 DEF Unsettled
  <2>3. \A i \in restarts' : parties'[i].kind = "tumbler" /\ (Alive(parties'[i]) => i = taker)
    BY <1>2, <1>5, <1>9 DEF DaemonInv, TakerInv
  <2>4. clientfactory' # 0 => parties'[clientfactory'].kind # "maker"
    BY <1>2, <1>5, <1>9 DEF DaemonInv, TakerInv
  <2>5. taker' # 0 => parties'[taker'] = parties[taker]
    BY <1>2, <1>5, <1>9
  <2> QED
    BY <1>2, <2>1, <2>2, <2>3, <2>4, <2>5 DEF DaemonInv, TakerInv, AtWork, Alive
<1>13. ReportedIsRunning'
  <2>1. \A m \in Ids : ~IsRunning(m)'
    BY <1>5, <1>6 DEF IsRunning
  <2>2. \A m \in Ids' : IsRunning(m)' <=> m = n /\ phase = "running"
    BY <1>4, <1>5, <1>8, <2>1 DEF IsRunning
  <2>3. coinjoin_state' = "maker" <=> phase = "running"
    BY <1>3, <1>7
  <2>4. coinjoin_state' = "taker" <=> taker' # 0
    BY <1>2, <1>3 DEF DaemonInv, ReportedIsRunning
  <2> QED
    BY <1>2, <1>5, <2>2, <2>3, <2>4 DEF ReportedIsRunning
<1>14. NothingLeftBehind'
  BY <1>1, <1>2, <1>3, <1>5, <1>9
     DEF DaemonInv, NothingLeftBehind, LockedIsQuiet, WatchdogIsCurrent, FeesRestored
<1> QED
  BY <1>10, <1>11, <1>12, <1>13, <1>14 DEF DaemonInv

(* A maker service ends, by request or of itself.                          *)
LEMMA MakerStops ==
  ASSUME DaemonInv, NEW m \in Ids, stopService(m)
  PROVE  DaemonInv'
<1>1. IsRunning(m) /\ parties' = MakerStopped(parties, m) /\ coinjoin_state' = "none"
      /\ UNCHANGED <<walletVars, maker, takerVars, feeVars>>
  BY DEF stopService
<1>2. m = maker /\ coinjoin_state = "maker"
  BY <1>1 DEF DaemonInv, ReportedIsRunning
<1>3. UNCHANGED <<session, wallet_up, maker>>
  BY <1>1 DEF walletVars
<1> QED
  BY <1>1, <1>2, <1>3, MakerGoes DEF DaemonInv, Shapes

(* A taker is started, where nothing was at work.                          *)
LEMMA TakerStarts ==
  ASSUME DaemonInv, coinjoin_state = "none", wallet_up, Settled,
         NEW kind \in {"coinjoin", "tumbler"}, NEW left \in Nat, StartTaker(kind, left),
         tumbler_options' = (kind = "tumbler"),
         kind = "tumbler" => UNCHANGED tx_fees
  PROVE  DaemonInv'
<1> DEFINE n == Len(parties) + 1
           p == NewParty(kind, "stage1", left)
<1>1. /\ taker' = n /\ clientfactory' = n /\ coinjoin_connection' = n
      /\ coinjoin_state' = "taker" /\ parties' = Append(parties, p)
      /\ UNCHANGED <<session, wallet_up, maker, watchdog, restarts, default_policy_tx_fees>>
  BY DEF StartTaker, walletVars
<1>2. taker = 0 /\ watchdog = 0
  BY DEF DaemonInv, ReportedIsRunning, NothingLeftBehind, WatchdogIsCurrent
<1>3. /\ p \in PartyShape /\ p.kind = kind /\ p.phase = "stage1" /\ p.session = session
      /\ Alive(p) /\ ~Unsettled(p) /\ Plausible(p)
  BY DEF NewParty, PartyShape, Kinds, Phases, Alive, Unsettled, Plausible, DaemonInv, Shapes
<1> HIDE DEF p
<1>4. /\ parties' \in Seq(PartyShape) /\ Len(parties') = n /\ Len(parties) \in Nat
      /\ Ids' = Ids \cup {n} /\ n \notin Ids /\ parties'[n] = p
      /\ \A i \in Ids : parties'[i] = parties[i]
  BY <1>1, <1>3, OneMore
<1>5. \A i \in Ids : ~IsRunning(i) /\ ~Unsettled(parties[i])
  BY DEF Settled, Unsettled
<1>6. n # 0 /\ restarts \subseteq Ids /\ maker \in 0..n
  BY <1>4 DEF DaemonInv, Shapes
<1> HIDE DEF n
<1>7. Shapes'
  <2>1. Len(parties') \in Nat /\ n \in 0..Len(parties')
    BY <1>4 DEF n
  <2> QED
    BY <1>1, <1>4, <1>6, <2>1 DEF DaemonInv, Shapes
<1>8. PartiesInv'
  <2>1. p.session <= session
    BY <1>3 DEF DaemonInv, Shapes
  <2>2. \A i \in Ids : parties[i].session <= session /\ Plausible(parties[i])
    BY DEF DaemonInv, PartiesInv
  <2>3. \A i \in Ids' : parties'[i].session <= session' /\ Plausible(parties'[i])
    BY <1>1, <1>3, <1>4, <2>1, <2>2
  <2> QED
    BY <2>3 DEF PartiesInv, Plausible
<1>9. TakerInv'
  <2>1. \A i \in Ids' : AtWork(parties'[i]) => i = n
    BY <1>2, <1>4 DEF DaemonInv, TakerInv, AtWork, Alive, Ids
  <2>2. \A i \in Ids' : ~Unsettled(parties[i])'
    BY <1>1, <1>3, <1>4, <1>5 DEF Unsettled
  <2>3. \A i \in restarts' : parties'[i].kind = "tumbler" /\ ~Alive(parties'[i])
    BY <1>1, <1>2, <1>4, <1>6 DEF DaemonInv, TakerInv, Ids
  <2>4. tumbler_options' => tx_fees' = default_policy_tx_fees'
    BY <1>1 DEF DaemonInv, NothingLeftBehind, FeesRestored
  <2>5. Alive(parties[taker])' /\ parties'[taker'].session = session' /\ wallet_up'
    BY <1>1, <1>3, <1>4 DEF Alive
  <2>6. tumbler_options' <=> taker' # 0 /\ parties'[taker'].kind = "tumbler"
    BY <1>1, <1>3, <1>4, <1>6
  <2>7. clientfactory' # 0 => parties'[clientfactory'].kind # "maker"
    BY <1>1, <1>3, <1>4
  <2> QED
    BY <1>1, <2>1, <2>2, <2>3, <2>4, <2>5, <2>6, <2>7 DEF TakerInv, AtWork, Alive
<1>10. ReportedIsRunning'
  <2>1. \A m \in Ids' : ~IsRunning(m)'
    BY <1>3, <1>4, <1>5 DEF IsRunning
  <2> QED
    BY <1>1, <1>6, <2>1 DEF ReportedIsRunning
<1>11. NothingLeftBehind'
  BY <1>1, <1>2 DEF NothingLeftBehind, LockedIsQuiet, WatchdogIsCurrent, FeesRestored
<1> QED
  BY <1>7, <1>8, <1>9, <1>10, <1>11 DEF DaemonInv

(* Every request of a careful client.                                      *)
LEMMA RequestKeeps ==
  ASSUME PromptConnect, Careful, DaemonInv, Requests
  PROVE  DaemonInv'
<1>1. CASE refresh \/ unlock_again
  BY <1>1, DaemonFrame DEF refresh, unlock_again
<1>2. CASE \E w \in Wallets : open_wallet(w)
  BY <1>2, WalletOpens
<1>3. CASE lockwallet
  <2>1. /\ Reachable(parties) /\ stopSubServices
        /\ session' = session /\ wallet_up' = FALSE
    BY <1>3, RequestsReach DEF lockwallet, AuthRequest
  <2>2. session' \in Nat /\ session <= session'
    BY <2>1 DEF DaemonInv, Shapes
  <2>3. wallet_up' \in BOOLEAN
    BY <2>1
  <2> QED
    BY <2>1, <2>2, <2>3, SubServicesStop
<1>4. CASE directsend
  BY <1>4, DaemonFrame DEF directsend
<1>5. CASE configset
  BY <1>5, DaemonFrame DEF configset
<1>6. CASE \E coins \in BOOLEAN : start_maker(coins)
  BY <1>6, MakerStarts
<1>7. CASE stop_maker
  <2>1. maker \in Ids /\ stopService(maker)
    BY <1>7 DEF stop_maker, DaemonInv, Shapes, Ids
  <2> QED
    BY <2>1, MakerStops
<1>8. CASE (\E fee \in {"policy", "custom"} : docoinjoin(fee)) \/ start_tumbler
  <2>0. wallet_up /\ Settled /\ coinjoin_state = "none" /\ ~tumbler_options
    BY <1>8 DEF docoinjoin, start_tumbler, MayStart, AuthRequest, DaemonInv, TakerInv,
       ReportedIsRunning
  <2>1. CASE \E fee \in {"policy", "custom"} : docoinjoin(fee)
    <3>1. StartTaker("coinjoin", 1) /\ UNCHANGED tumbler_options
      BY <2>1 DEF docoinjoin
    <3>2. tumbler_options' = ("coinjoin" = "tumbler")
      BY <2>0, <3>1 DEF DaemonInv, Shapes
    <3> QED
      BY <2>0, <3>1, <3>2, TakerStarts
  <2>2. CASE start_tumbler
    <3>1. StartTaker("tumbler", Entries) /\ tumbler_options' = TRUE /\ UNCHANGED tx_fees
      BY <2>2 DEF start_tumbler
    <3>2. Entries \in Nat
      BY DaemonAssumption
    <3> QED
      BY <2>0, <3>1, <3>2, TakerStarts
  <2> QED
    BY <1>8, <2>1, <2>2
<1>9. CASE stopcoinjoin
  <2>1. /\ Reachable(parties) /\ taker # 0
        /\ taker_finished("final", Aborted(parties, taker))
        /\ UNCHANGED <<session, wallet_up, maker>>
    BY <1>9, RequestsReach DEF stopcoinjoin, AuthRequest, walletVars
  <2>2. Later(Aborted(parties, taker))
    BY <2>1, AbortedIsLater
  <2>3. /\ session' \in Nat /\ session <= session' /\ wallet_up' \in BOOLEAN
        /\ maker' \in 0..Len(parties)
    BY <2>1 DEF DaemonInv, Shapes
  <2> QED
    BY <2>1, <2>2, <2>3, FinishedIsStopped
<1> QED
  BY <1>1, <1>2, <1>3, <1>4, <1>5, <1>6, <1>7, <1>8, <1>9 DEF Requests

(* A connection is made: nobody is more alive for it.                      *)
LEMMA ConnectKeeps ==
  ASSUME DaemonInv, NEW t \in Ids, Connect(t)
  PROVE  DaemonInv'
<1> DEFINE r == [parties[t] EXCEPT !.conn = "up"]
<1>0. /\ parties[t] \in PartyShape /\ t \in 1..Len(parties) /\ parties \in Seq(PartyShape)
      /\ parties[t].conn = "none"
  BY PartyIsShaped DEF DaemonInv, Shapes, Ids, Connect
<1>1. r \in PartyShape /\ r.kind = parties[t].kind /\ r.session = parties[t].session
      /\ r.phase = parties[t].phase /\ r.aborted = parties[t].aborted /\ r.conn = "up"
  BY <1>0 DEF PartyShape
<1>2. /\ parties' = [parties EXCEPT ![t] = r]
      /\ UNCHANGED <<session, wallet_up, maker, coinjoin_state, taker, clientfactory,
                     coinjoin_connection, tumbler_options, watchdog, restarts,
                     tx_fees, default_policy_tx_fees>>
  BY DEF Connect, restUnchanged, walletVars, takerVars, feeVars
<1> HIDE DEF r
<1>3. /\ parties' \in Seq(PartyShape) /\ Len(parties') = Len(parties) /\ Ids' = Ids
      /\ \A i \in Ids : /\ parties'[i].kind = parties[i].kind
                        /\ parties'[i].session = parties[i].session
                        /\ parties'[i].phase = parties[i].phase
                        /\ parties'[i].aborted = parties[i].aborted
                        /\ parties'[i].conn = IF i = t THEN "up" ELSE parties[i].conn
  BY <1>0, <1>1, <1>2, OneChanged DEF Ids
<1>4. /\ maker \in {0} \cup Ids /\ taker \in {0} \cup Ids /\ clientfactory \in {0} \cup Ids
      /\ restarts \subseteq Ids
  BY DEF DaemonInv, Shapes, Ids
<1>5. Shapes'
  BY <1>2, <1>3 DEF DaemonInv, Shapes
<1>6. PartiesInv'
  BY <1>2, <1>3 DEF DaemonInv, PartiesInv, Plausible
<1>7. \A i \in Ids : /\ Alive(parties'[i]) <=> Alive(parties[i])
                     /\ AtWork(parties'[i]) <=> AtWork(parties[i])
  BY <1>0, <1>3 DEF Alive, AtWork
<1>8. TakerInv'
  BY <1>2, <1>3, <1>4, <1>7 DEF DaemonInv, TakerInv, Unsettled, Alive, AtWork
<1>9. ReportedIsRunning'
  BY <1>2, <1>3 DEF DaemonInv, ReportedIsRunning, IsRunning
<1>10. NothingLeftBehind'
  BY <1>2, <1>3, <1>4
     DEF DaemonInv, NothingLeftBehind, LockedIsQuiet, WatchdogIsCurrent, FeesRestored, IsRunning
<1> QED
  BY <1>5, <1>6, <1>8, <1>9, <1>10 DEF DaemonInv

(* Who is working is the taker, connected and reachable.                   *)
LEMMA WorkingIsTaker ==
  ASSUME DaemonInv, NEW t \in Ids, Working(t, "stage1") \/ Working(t, "stage2")
  PROVE  /\ t = taker /\ taker # 0 /\ coinjoin_state = "taker"
         /\ parties[t].kind # "maker" /\ parties[t].conn = "up" /\ ~parties[t].aborted
         /\ Reachable(parties)
<1>1. parties[t].kind # "maker" /\ parties[t].conn = "up" /\ ~parties[t].aborted
      /\ AtWork(parties[t])
  BY DEF Working, IsTaker, AtWork, Alive
<1>2. t = taker /\ taker # 0
  BY <1>1 DEF DaemonInv, TakerInv, Ids
<1>3. Reachable(parties)
  BY <1>1, <1>2, LastIsConnected
<1> QED
  BY <1>1, <1>2, <1>3 DEF DaemonInv, ReportedIsRunning

(* The taker goes into another phase, and neither it nor its daemon ends.  *)
LEMMA PhaseGoesOn ==
  ASSUME DaemonInv, taker # 0, parties[taker].conn = "up",
         NEW phase \in Phases \ {"running"}, parties' = Moved(taker, phase),
         UNCHANGED <<walletVars, maker, coinjoin_state, taker, clientfactory,
                     coinjoin_connection, tumbler_options, feeVars>>,
         restarts' \subseteq restarts,
         watchdog' # 0 => /\ watchdog' = taker /\ parties[taker].kind = "coinjoin"
                          /\ phase = "stage2"
  PROVE  DaemonInv'
<1> DEFINE r == [parties[taker] EXCEPT !.phase = phase]
<1>1. taker \in Ids /\ parties[taker] \in PartyShape /\ Alive(parties[taker])
  BY PartyIsShaped DEF DaemonInv, Shapes, Ids, TakerInv
<1>2. /\ r \in PartyShape /\ r.kind = parties[taker].kind /\ r.phase = phase
      /\ r.session = parties[taker].session /\ r.conn = "up" /\ ~r.aborted
  BY <1>1 DEF PartyShape, Alive
<1>3. parties' = [parties EXCEPT ![taker] = r]
  BY DEF Moved
<1>4. restarts' \subseteq restarts \cup {taker}
  OBVIOUS
<1> HIDE DEF r
<1> QED
  BY <1>2, <1>3, <1>4, TakerGoesOn

(* taker_finished, called by a taker that is in another phase by then: it  *)
(* is the present one, or there is none.                                   *)
LEMMA CallerFinishes ==
  ASSUME DaemonInv, NEW t \in Ids, parties[t].kind # "maker",
         t = taker \/ (taker = 0 /\ coinjoin_state = "none"),
         Reachable(parties), NEW r \in PartyShape,
         r.kind = parties[t].kind, r.session = parties[t].session,
         r.conn = parties[t].conn, r.aborted = parties[t].aborted,
         r.phase # "running",
         t # taker => r.phase \notin {"stage1", "stage2"},
         NEW fromtx \in {"final", "more", "unconfirmed"},
         taker_finished(fromtx, [parties EXCEPT ![t] = r]), restUnchanged
  PROVE  DaemonInv'
<1>1. coinjoin_state # "maker" /\ UNCHANGED <<session, wallet_up, maker>>
  BY DEF DaemonInv, ReportedIsRunning, restUnchanged, walletVars, Ids
<1>2. CASE fromtx = "final" \/ ~tumbler_options
  <2>1. Later([parties EXCEPT ![t] = r])
    BY <1>1, ChangedIsLater DEF AtWork
  <2>2. /\ session' \in Nat /\ session <= session' /\ wallet_up' \in BOOLEAN
        /\ maker' \in 0..Len(parties)
    BY <1>1 DEF DaemonInv, Shapes
  <2> QED
    BY <1>2, <2>1, <2>2, FinishedIsStopped
<1>3. CASE fromtx \in {"more", "unconfirmed"} /\ tumbler_options
  <2>1. t = taker /\ taker # 0 /\ clientfactory = taker
    BY <1>3 DEF DaemonInv, TakerInv
  <2>2. parties[taker].conn = "up"
    <3>1. parties[taker].conn \in {"none", "up", "lost"}
      BY <2>1, PartyIsShaped DEF PartyShape
    <3> QED
      BY <2>1, <3>1 DEF Reachable, DaemonInv, TakerInv, Alive
  <2>3. ~r.aborted
    BY <2>1 DEF DaemonInv, TakerInv, Alive
  <2> QED
    BY <1>3, <2>1, <2>2, <2>3, FinishedGoesOn DEF restUnchanged
<1> QED
  BY <1>2, <1>3

(* A taker at work comes to an end, or starts over.                        *)
LEMMA WorkerFinishes ==
  ASSUME DaemonInv, NEW t \in Ids, Working(t, "stage1") \/ Working(t, "stage2"),
         NEW phase \in Phases \ {"running"}, NEW fromtx \in {"final", "more"},
         taker_finished(fromtx, Moved(t, phase)), restUnchanged
  PROVE  DaemonInv'
<1> DEFINE r == [parties[t] EXCEPT !.phase = phase]
<1>1. /\ t = taker /\ parties[t].kind # "maker" /\ ~parties[t].aborted
      /\ Reachable(parties)
  BY WorkingIsTaker
<1>2. parties[t] \in PartyShape
  BY PartyIsShaped
<1>3. /\ r \in PartyShape /\ r.kind = parties[t].kind /\ r.session = parties[t].session
      /\ r.conn = parties[t].conn /\ r.aborted = parties[t].aborted /\ r.phase = phase
  BY <1>2 DEF PartyShape
<1>4. taker_finished(fromtx, [parties EXCEPT ![t] = r])
  BY DEF Moved
<1> HIDE DEF r
<1> QED
  BY <1>1, <1>3, <1>4, CallerFinishes

(* The stage of signatures begins, with a watchdog for a single coinjoin.  *)
LEMMA Stage2Starts ==
  ASSUME DaemonInv, NEW t \in Ids, on_taker_stage2_started(t)
  PROVE  DaemonInv'
<1>1. /\ t = taker /\ taker # 0 /\ parties[taker].conn = "up"
  BY WorkingIsTaker DEF on_taker_stage2_started
<1>2. /\ parties' = Moved(taker, "stage2")
      /\ UNCHANGED <<walletVars, maker, coinjoin_state, taker, clientfactory,
                     coinjoin_connection, tumbler_options, feeVars>>
      /\ restarts' \subseteq restarts
  BY <1>1 DEF on_taker_stage2_started, restUnchanged
<1>3. watchdog' # 0 => watchdog' = taker /\ parties[taker].kind = "coinjoin"
  <2>1. CASE tumbler_options
    BY <2>1 DEF on_taker_stage2_started, DaemonInv, TakerInv, NothingLeftBehind,
       WatchdogIsCurrent
  <2>2. CASE ~tumbler_options
    <3>1. parties[taker].kind \in Kinds
      BY <1>1, PartyIsShaped DEF PartyShape
    <3>2. parties[taker].kind = "coinjoin"
      BY <1>1, <2>2, <3>1 DEF Kinds, DaemonInv, TakerInv, Alive
    <3> QED
      BY <1>1, <2>2, <3>2 DEF on_taker_stage2_started
  <2> QED
    BY <2>1, <2>2
<1> QED
  BY <1>1, <1>2, <1>3, PhaseGoesOn DEF Phases

(* The last signature takes the watchdog along.                            *)
LEMMA Stage2Completes ==
  ASSUME DaemonInv, NEW t \in Ids, on_taker_stage2_completed(t)
  PROVE  DaemonInv'
<1>1. /\ t = taker /\ taker # 0 /\ parties[taker].conn = "up"
  BY WorkingIsTaker DEF on_taker_stage2_completed
<1>2. /\ parties' = Moved(taker, "pushed")
      /\ UNCHANGED <<walletVars, maker, coinjoin_state, taker, clientfactory,
                     coinjoin_connection, tumbler_options, feeVars>>
      /\ restarts' \subseteq restarts
  BY <1>1 DEF on_taker_stage2_completed, restUnchanged
<1>3. watchdog' = 0
  BY <1>1 DEF on_taker_stage2_completed, DaemonInv, NothingLeftBehind, WatchdogIsCurrent
<1> QED
  BY <1>1, <1>2, <1>3, PhaseGoesOn DEF Phases

(* The timeout finds the taker it was set for, and stops it.               *)
LEMMA Stage2TimesOut ==
  ASSUME DaemonInv, on_taker_stage2_timeout
  PROVE  DaemonInv'
<1>1. watchdog # 0 /\ UNCHANGED <<session, wallet_up, maker>>
  BY DEF on_taker_stage2_timeout, walletVars
<1>2. /\ watchdog = taker /\ taker # 0 /\ parties[taker].phase = "stage2"
      /\ ~parties[taker].aborted /\ coinjoin_state = "taker"
  BY <1>1 DEF DaemonInv, NothingLeftBehind, WatchdogIsCurrent, ReportedIsRunning
<1>3. taker_finished("final", Aborted(parties, taker))
  BY <1>2 DEF on_taker_stage2_timeout
<1>4. taker \in Ids
  BY <1>2 DEF DaemonInv, Shapes, Ids
<1>5. Reachable(parties)
  <2>1. parties[taker].conn # "none"
    BY <1>2, <1>4 DEF DaemonInv, PartiesInv, Plausible, TakerInv, Alive
  <2> QED
    BY <2>1, LastIsConnected
<1>6. Later(Aborted(parties, taker))
  BY <1>2, AbortedIsLater
<1>7. /\ session' \in Nat /\ session <= session' /\ wallet_up' \in BOOLEAN
      /\ maker' \in 0..Len(parties)
  BY <1>1 DEF DaemonInv, Shapes
<1> QED
  BY <1>3, <1>5, <1>6, <1>7, FinishedIsStopped

(* Whose transaction the wallet service still follows has been connected,  *)
(* and is the taker or alone.                                              *)
LEMMA ServedIsLast ==
  ASSUME DaemonInv, NEW t \in Ids, Served(t),
         parties[t].phase = "pushed" \/ (parties[t].phase = "seen" /\ ~parties[t].aborted)
  PROVE  /\ t = taker \/ (taker = 0 /\ coinjoin_state = "none")
         /\ parties[t].kind # "maker" /\ Reachable(parties)
<1>1. parties[t].kind # "maker" /\ Unsettled(parties[t])
  BY DEF Served, IsTaker, Unsettled
<1>2. t = taker \/ (taker = 0 /\ coinjoin_state = "none")
  BY <1>1 DEF DaemonInv, TakerInv
<1>3. parties[t].conn # "none"
  BY <1>1 DEF DaemonInv, PartiesInv, Plausible
<1> QED
  BY <1>1, <1>2, <1>3, LastIsConnected

(* The transaction is in the mempool.                                      *)
LEMMA UnconfirmKeeps ==
  ASSUME DaemonInv, NEW t \in Ids, unconfirm_callback(t)
  PROVE  DaemonInv'
<1> DEFINE r == [parties[t] EXCEPT !.phase = "seen"]
<1>1. /\ t = taker \/ (taker = 0 /\ coinjoin_state = "none")
      /\ parties[t].kind # "maker" /\ Reachable(parties)
  BY ServedIsLast DEF unconfirm_callback
<1>2. parties[t] \in PartyShape
  BY PartyIsShaped
<1>3. /\ r \in PartyShape /\ r.kind = parties[t].kind /\ r.session = parties[t].session
      /\ r.conn = parties[t].conn /\ r.aborted = parties[t].aborted /\ r.phase = "seen"
  BY <1>2 DEF PartyShape, Phases
<1>4. taker_finished("unconfirmed", [parties EXCEPT ![t] = r]) /\ restUnchanged
  BY DEF unconfirm_callback, Moved
<1> HIDE DEF r
<1> QED
  BY <1>1, <1>3, <1>4, CallerFinishes

(* A transaction of a taker that was stopped settles, and nothing else.    *)
LEMMA AbortedSettles ==
  ASSUME DaemonInv, NEW t \in Ids, parties[t].kind # "maker", parties[t].aborted,
         parties' = [parties EXCEPT ![t].phase = "confirmed"],
         UNCHANGED <<walletVars, maker, coinjoin_state, takerVars, feeVars>>
  PROVE  DaemonInv'
<1> DEFINE r == [parties[t] EXCEPT !.phase = "confirmed"]
<1>0. parties[t] \in PartyShape /\ t \in 1..Len(parties) /\ parties \in Seq(PartyShape)
  BY PartyIsShaped DEF DaemonInv, Shapes, Ids
<1>1. r \in PartyShape /\ r.kind = parties[t].kind /\ r.session = parties[t].session
      /\ r.phase = "confirmed" /\ r.aborted /\ r.conn = parties[t].conn
  BY <1>0 DEF PartyShape, Phases
<1>2. /\ parties' = [parties EXCEPT ![t] = r]
      /\ UNCHANGED <<session, wallet_up, maker, coinjoin_state, taker, clientfactory,
                     coinjoin_connection, tumbler_options, watchdog, restarts,
                     tx_fees, default_policy_tx_fees>>
  BY DEF walletVars, takerVars, feeVars
<1> HIDE DEF r
<1>3. /\ parties' \in Seq(PartyShape) /\ Len(parties') = Len(parties) /\ Ids' = Ids
      /\ parties'[t] = r /\ \A i \in Ids : i # t => parties'[i] = parties[i]
  <2>1. /\ parties' \in Seq(PartyShape) /\ Len(parties') = Len(parties)
        /\ parties'[t] = r /\ \A i \in 1..Len(parties) : i # t => parties'[i] = parties[i]
    BY <1>0, <1>1, <1>2, OneChanged
  <2> QED
    BY <2>1 DEF Ids
<1>4. /\ maker \in {0} \cup Ids /\ taker \in {0} \cup Ids /\ clientfactory \in {0} \cup Ids
      /\ restarts \subseteq Ids
  BY DEF DaemonInv, Shapes, Ids
<1>5. Shapes'
  BY <1>2, <1>3 DEF DaemonInv, Shapes
<1>6. parties[t].conn # "none" /\ t # taker
  BY <1>4 DEF DaemonInv, PartiesInv, Plausible, TakerInv, Alive, Ids
<1>7. PartiesInv'
  BY <1>1, <1>2, <1>3, <1>6 DEF DaemonInv, PartiesInv, Plausible
<1>8. TakerInv'
  <2>1. \A i \in Ids : /\ Alive(parties'[i]) <=> Alive(parties[i])
                       /\ AtWork(parties'[i]) => AtWork(parties[i])
                       /\ Unsettled(parties[i])' => Unsettled(parties[i])
    BY <1>1, <1>2, <1>3 DEF Alive, AtWork, Unsettled
  <2>2. \A i \in Ids : /\ parties'[i].kind = parties[i].kind
                       /\ parties'[i].session = parties[i].session
    BY <1>1, <1>3
  <2>3. /\ \A i \in Ids' : Unsettled(parties[i])' =>
                      i = taker' \/ (taker' = 0 /\ coinjoin_state' = "none")
        /\ \A i \in Ids' : AtWork(parties'[i]) => i = taker'
        /\ \A i \in restarts' : parties'[i].kind = "tumbler" /\ (Alive(parties'[i]) => i = taker')
    BY <1>2, <1>3, <1>4, <2>1, <2>2 DEF DaemonInv, TakerInv
  <2>4. taker' # 0 => /\ clientfactory' = taker' /\ wallet_up'
                      /\ Alive(parties'[taker']) /\ parties'[taker'].session = session'
    BY <1>2, <1>4, <2>1, <2>2 DEF DaemonInv, TakerInv
  <2> QED
    BY <1>2, <1>4, <2>2, <2>3, <2>4 DEF DaemonInv, TakerInv, Alive, AtWork
<1>9. ReportedIsRunning'
  <2>1. \A m \in Ids : IsRunning(m)' <=> IsRunning(m)
    BY <1>1, <1>3 DEF IsRunning
  <2> QED
    BY <1>2, <1>3, <2>1 DEF DaemonInv, ReportedIsRunning
<1>10. NothingLeftBehind'
  <2>1. \A m \in Ids : IsRunning(m)' <=> IsRunning(m)
    BY <1>1, <1>3 DEF IsRunning
  <2>2. taker # 0 => parties'[taker] = parties[taker]
    BY <1>3, <1>4, <1>6
  <2> QED
    BY <1>2, <1>3, <2>1, <2>2
       DEF DaemonInv, NothingLeftBehind, LockedIsQuiet, WatchdogIsCurrent, FeesRestored
<1> QED
  BY <1>5, <1>7, <1>8, <1>9, <1>10 DEF DaemonInv

(* The transaction is confirmed.                                           *)
LEMMA ConfirmKeeps ==
  ASSUME DaemonInv, NEW t \in Ids, confirm_callback(t)
  PROVE  DaemonInv'
<1>0. Served(t) /\ parties[t].kind # "maker" /\ parties[t].phase \in {"pushed", "seen"}
      /\ parties[t] \in PartyShape /\ restUnchanged
  BY PartyIsShaped DEF confirm_callback, Served, IsTaker
<1>1. CASE parties[t].aborted
  <2>1. /\ parties' = [parties EXCEPT ![t].phase = "confirmed"]
        /\ UNCHANGED <<walletVars, maker, coinjoin_state, takerVars, feeVars>>
    BY <1>1 DEF confirm_callback, restUnchanged
  <2> QED
    BY <1>0, <1>1, <2>1, AbortedSettles
<1>2. CASE ~parties[t].aborted
  <2> DEFINE phase == IF parties[t].left > 1 THEN "waiting" ELSE "confirmed"
             r == [parties[t] EXCEPT !.left = @ - 1, !.phase = phase]
             fromtx == IF parties[t].left > 1 THEN "more" ELSE "final"
  <2>1. taker_finished(fromtx, [parties EXCEPT ![t] = r])
    <3>1. [parties EXCEPT ![t].left = @ - 1, ![t].phase = phase] = [parties EXCEPT ![t] = r]
      BY DEF DaemonInv, Shapes, Ids
    <3> QED
      BY <1>2, <3>1 DEF confirm_callback
  <2>2. /\ t = taker \/ (taker = 0 /\ coinjoin_state = "none")
        /\ Reachable(parties)
    BY <1>0, <1>2, ServedIsLast
  <2>3. /\ r \in PartyShape /\ r.kind = parties[t].kind /\ r.session = parties[t].session
        /\ r.conn = parties[t].conn /\ r.aborted = parties[t].aborted
        /\ r.phase \in {"waiting", "confirmed"}
    <3>1. phase \in {"waiting", "confirmed"} /\ parties[t].left - 1 \in Int
      BY <1>0 DEF PartyShape
    <3> HIDE DEF phase
    <3> QED
      BY <1>0, <3>1 DEF PartyShape, Phases
  <2>4. fromtx \in {"final", "more", "unconfirmed"}
    OBVIOUS
  <2> HIDE DEF r, fromtx
  <2>5. r.phase # "running" /\ (t # taker => r.phase \notin {"stage1", "stage2"})
    BY <2>3
  <2> QED
    BY <1>0, <2>1, <2>2, <2>3, <2>4, <2>5, CallerFinishes
<1> QED
  BY <1>1, <1>2

(* The delayed start moves the tumbler's taker, or none.                   *)
LEMMA RestartKeeps ==
  ASSUME DaemonInv, NEW t \in Ids, clientStart(t)
  PROVE  DaemonInv'
<1>1. /\ t \in restarts /\ restarts' \subseteq restarts
      /\ parties[t].kind = "tumbler" /\ (Alive(parties[t]) => t = taker)
      /\ UNCHANGED <<walletVars, maker, coinjoin_state, taker, clientfactory,
                     coinjoin_connection, tumbler_options, watchdog, feeVars>>
  BY DEF clientStart, restUnchanged, DaemonInv, TakerInv
<1>2. CASE ~parties[t].aborted /\ parties[t].conn = "up"
  <2>1. t = taker /\ taker # 0 /\ parties' = Moved(taker, "stage1")
    BY <1>1, <1>2 DEF clientStart, Alive, Ids
  <2>2. watchdog' = 0
    BY <1>1, <2>1 DEF DaemonInv, NothingLeftBehind, WatchdogIsCurrent
  <2> QED
    BY <1>1, <1>2, <2>1, <2>2, PhaseGoesOn DEF Phases
<1>3. CASE parties[t].aborted \/ parties[t].conn # "up"
  <2>1. /\ UNCHANGED <<session, wallet_up, maker, coinjoin_state, taker, clientfactory,
                       coinjoin_connection, tumbler_options, watchdog,
                       tx_fees, default_policy_tx_fees, parties>>
        /\ Ids' = Ids
    BY <1>1, <1>3 DEF clientStart, walletVars, feeVars, Ids
  <2>2. Shapes' /\ PartiesInv'
    BY <1>1, <2>1 DEF DaemonInv, Shapes, PartiesInv
  <2>3. TakerInv'
    BY <1>1, <2>1 DEF DaemonInv, TakerInv, Unsettled
  <2>4. ReportedIsRunning' /\ NothingLeftBehind'
    BY <2>1 DEF DaemonInv, ReportedIsRunning, NothingLeftBehind, LockedIsQuiet,
       WatchdogIsCurrent, FeesRestored, IsRunning
  <2> QED
    BY <2>2, <2>3, <2>4 DEF DaemonInv
<1> QED
  BY <1>2, <1>3

(* What becomes of makers and takers.                                      *)
LEMMA EventKeeps ==
  ASSUME DaemonInv, Events
  PROVE  DaemonInv'
<1>1. CASE monitor
  BY <1>1, MakerStops DEF monitor
<1>2. ASSUME NEW t \in Ids, Stage1Fails(t) \/ PushFails(t) \/ stallMonitor(t)
      PROVE  DaemonInv'
  <2>1. CASE Stage1Fails(t)
    BY <2>1, WorkerFinishes DEF Stage1Fails, Phases
  <2>2. CASE PushFails(t)
    BY <2>2, WorkerFinishes DEF PushFails, Phases
  <2>3. CASE stallMonitor(t)
    BY <2>3, WorkerFinishes DEF stallMonitor, Phases
  <2> QED
    BY <1>2, <2>1, <2>2, <2>3
<1> QED
  BY <1>1, <1>2, ConnectKeeps, Stage2Starts, Stage2Completes, UnconfirmKeeps,
     ConfirmKeeps, RestartKeeps DEF Events

(* Before anything was opened.                                             *)
LEMMA DaemonBegins == Init => DaemonInv
<1> SUFFICES ASSUME Init PROVE DaemonInv
  OBVIOUS
<1>1. parties = <<>> /\ parties \in Seq(PartyShape) /\ Len(parties) = 0 /\ Ids = {}
  BY DEF Init, Ids
<1>2. Shapes /\ PartiesInv
  <2>1. PartiesInv
    BY <1>1 DEF PartiesInv
  <2>2. wallet_up \in BOOLEAN /\ tumbler_options \in BOOLEAN
    BY DEF Init
  <2>3. session \in Nat /\ {maker, taker, clientfactory} \subseteq 0..0 /\ restarts = {}
    BY DEF Init
  <2>4. coinjoin_state \in {"none", "maker", "taker"}
    BY DEF Init
  <2> QED
    BY <1>1, <2>1, <2>2, <2>3, <2>4 DEF Shapes
<1>3. TakerInv
  BY <1>1 DEF Init, TakerInv
<1>4. ReportedIsRunning
  BY <1>1 DEF Init, ReportedIsRunning
<1>5. NothingLeftBehind
  BY <1>1 DEF Init, NothingLeftBehind, LockedIsQuiet, WatchdogIsCurrent, FeesRestored
<1> QED
  BY <1>2, <1>3, <1>4, <1>5 DEF DaemonInv

(* The invariant holds whenever clients are careful and connections prompt. *)
LEMMA DaemonAlways ==
  ASSUME PromptConnect, Careful
  PROVE  Spec => []DaemonInv
<1>1. DaemonInv /\ [Next]_vars => DaemonInv'
  <2> SUFFICES ASSUME DaemonInv, [Next]_vars PROVE DaemonInv'
    OBVIOUS
  <2>1. CASE UNCHANGED vars
    BY <2>1, DaemonFrame DEF vars
  <2> QED
    BY <2>1, RequestKeeps, EventKeeps, Stage2TimesOut DEF Next
<1> QED
  BY <1>1, DaemonBegins, PTL DEF Spec

(* coinjoin_state says "maker" exactly when the maker service runs and     *)
(* "taker" exactly when there is a taker, through every request, callback  *)
(* and timeout that sets one or the other.                                 *)
THEOREM StateIsWhatRuns ==
  ASSUME PromptConnect, Careful
  PROVE  Spec => []ReportedIsRunning
<1>1. DaemonInv => ReportedIsRunning
  BY DEF DaemonInv
<1> QED
  BY <1>1, DaemonAlways, PTL

(* Whichever way a service ends, no watchdog, no fee of a single coinjoin  *)
(* and, when the wallet is locked, no party outlives it.                   *)
THEOREM EndsAreClean ==
  ASSUME PromptConnect, Careful
  PROVE  Spec => []NothingLeftBehind
<1>1. DaemonInv => NothingLeftBehind
  BY DEF DaemonInv
<1> QED
  BY <1>1, DaemonAlways, PTL
===============================================================================
