---------------------------- MODULE WalletDaemon ----------------------------
(***************************************************************************)
(* JMWalletDaemon, the HTTP server that opens one wallet at a time and     *)
(* runs at most one coinjoin service on it: a maker (yield generator), a   *)
(* single coinjoin or the tumbler.                                         *)
(*                                                                         *)
(* Requests that are refused change nothing and are left out.  Makers and  *)
(* Takers are `parties`, numbered as they are created; a Taker lives on    *)
(* after the daemon has dropped it, as long as the wallet service calls    *)
(* its callbacks.  The messaging daemon serves (check_daemon_ready), but   *)
(* the connection to it takes time: until it is made, the factory has no   *)
(* proto_client and request_mc_shutdown raises.                            *)
(***************************************************************************)
EXTENDS Naturals, Sequences, FiniteSets

CONSTANTS
  Wallets,        \* names of wallet files
  NoWallet,
  Entries,        \* length of the tumbler's schedule
  MaxSessions,    \* bound: wallets opened
  MaxIssues,      \* bound: tokens issued in a session
  MaxParties,     \* bound: makers and takers created
  PromptConnect,  \* TRUE: connections are made before the next request
  Careful         \* TRUE: the client starts nothing while a maker runs or
                  \* a transaction of an earlier taker is unsettled

ASSUME DaemonAssumption ==
  /\ NoWallet \notin Wallets
  /\ Entries \in Nat \ {0}
  /\ MaxSessions \in Nat /\ MaxIssues \in Nat /\ MaxParties \in Nat
  /\ PromptConnect \in BOOLEAN /\ Careful \in BOOLEAN

VARIABLES
  session,          \* wallets opened so far; names the wallet service
  wallet_up,        \* services["wallet"] is set
  wallet_name,
  access_key, refresh_key,        \* signature_key of the JMTokenAuthority
  access_tokens, refresh_tokens,  \* issued: [key, session]
  coinjoin_state,   \* "none", "maker", "taker"
  parties,          \* makers and takers created
  maker,            \* services["maker"], a party or 0
  taker,            \* self.taker, a party or 0
  clientfactory,    \* the party it was created for, or 0
  coinjoin_connection,
  tumbler_options,  \* set or not
  watchdog,         \* attempt of the pending stage-2 timeout, or 0
  restarts,         \* parties with a delayed clientStart
  tx_fees, default_policy_tx_fees

tokenVars == <<access_key, refresh_key, access_tokens, refresh_tokens>>
walletVars == <<session, wallet_up, wallet_name>>
feeVars == <<tx_fees, default_policy_tx_fees>>
takerVars == <<taker, clientfactory, coinjoin_connection, tumbler_options,
               watchdog, restarts>>
vars == <<walletVars, tokenVars, coinjoin_state, parties, maker, takerVars,
          feeVars>>

Kinds == {"maker", "coinjoin", "tumbler"}
Phases == {"off", "running", "stage1", "stage2", "pushed", "seen", "waiting",
           "confirmed"}
PartyRecs == [kind : Kinds, session : 1..MaxSessions, phase : Phases,
              conn : {"none", "up", "lost"}, aborted : BOOLEAN,
              left : 0..Entries]
TokenRecs == [key : Nat, session : 0..MaxSessions]
Fees == {"policy", "changed", "custom"}

TypeOK ==
  /\ session \in 0..MaxSessions
  /\ wallet_up \in BOOLEAN /\ wallet_name \in Wallets \cup {NoWallet}
  /\ access_key \in Nat /\ refresh_key \in Nat
  /\ access_tokens \subseteq TokenRecs /\ refresh_tokens \subseteq TokenRecs
  /\ coinjoin_state \in {"none", "maker", "taker"}
  /\ parties \in Seq(PartyRecs) /\ Len(parties) <= MaxParties
  /\ maker \in 0..Len(parties) /\ taker \in 0..Len(parties)
  /\ clientfactory \in 0..Len(parties)
  /\ coinjoin_connection \in 0..Len(parties)
  /\ tumbler_options \in BOOLEAN
  /\ watchdog \in 0..Len(parties)
  /\ restarts \subseteq 1..Len(parties)
  /\ tx_fees \in Fees /\ default_policy_tx_fees \in Fees

Init ==
  /\ session = 0 /\ wallet_up = FALSE /\ wallet_name = NoWallet
  /\ access_key = 0 /\ refresh_key = 0
  /\ access_tokens = {} /\ refresh_tokens = {}
  /\ coinjoin_state = "none"
  /\ parties = <<>> /\ maker = 0 /\ taker = 0
  /\ clientfactory = 0 /\ coinjoin_connection = 0
  /\ tumbler_options = FALSE /\ watchdog = 0 /\ restarts = {}
  /\ tx_fees = "policy" /\ default_policy_tx_fees = "policy"

Ids == 1..Len(parties)
IsRunning(m) == m # 0 /\ parties[m].kind = "maker" /\ parties[m].phase = "running"

(***************************************************************************)
(* Tokens                                                                  *)
(***************************************************************************)

Token(k, s) == [key |-> k, session |-> s]

(* check_cookie: the token was signed with the present key.                *)
Authorized == \E t \in access_tokens : t.key = access_key

(* issue: a new refresh key, and both kinds of token; `a` and `r` are the  *)
(* keys before, `s` the session they are given to.                         *)
issue(a, r, s) ==
  /\ access_key' = a /\ refresh_key' = r + 1
  /\ access_tokens' = access_tokens \cup {Token(a, s)}
  /\ refresh_tokens' = refresh_tokens \cup {Token(r + 1, s)}

(* Mutant: the key is not changed, so that old tokens stay good.           *)
ResetKey_same(k) == k
ResetKey(k) == k + 1

(***************************************************************************)
(* Stopping                                                                *)
(***************************************************************************)

(* The factory of the last taker has a protocol to send JMShutdown with.   *)
Reachable(ps) == clientfactory = 0 \/ ps[clientfactory].conn # "none"

Disconnected(ps, c) ==
  IF c = 0 THEN ps ELSE [ps EXCEPT ![c].conn = "lost"]

(* stop_taker.  Without a protocol it raises half way, and its caller      *)
(* stops there too.                                                        *)
stop_taker(ps) ==
  /\ taker' = 0
  /\ coinjoin_state' = "none"
  /\ watchdog' = 0
  /\ coinjoin_connection' = IF Reachable(ps) THEN 0 ELSE coinjoin_connection
  /\ parties' = IF Reachable(ps) THEN Disconnected(ps, coinjoin_connection) ELSE ps

(* taker_finished, the callback of every Taker the daemon ever created.    *)
(* fromtx: "final", "more" or "unconfirmed"; ps: the parties as the caller *)
(* has changed them.                                                       *)
finish_single(ps) ==
  /\ ~tumbler_options
  /\ stop_taker(ps)
  /\ tx_fees' = IF Reachable(ps) THEN default_policy_tx_fees ELSE tx_fees
  /\ UNCHANGED <<tumbler_options, restarts>>

finish_tumbler(fromtx, ps) ==
  /\ tumbler_options /\ taker # 0
  /\ \/ /\ fromtx = "final"
        /\ stop_taker(ps)
        /\ tumbler_options' = ~Reachable(ps)
        /\ UNCHANGED restarts
     \/ /\ fromtx = "more"
        /\ restarts' = restarts \cup {clientfactory}
        /\ parties' = ps
        /\ UNCHANGED <<taker, coinjoin_state, watchdog, coinjoin_connection,
                       tumbler_options>>
     \/ /\ fromtx = "unconfirmed"
        /\ parties' = ps
        /\ UNCHANGED <<taker, coinjoin_state, watchdog, coinjoin_connection,
                       tumbler_options, restarts>>
  /\ UNCHANGED tx_fees

(* tumbler_taker_finished_update raises if there is no taker.              *)
finish_nobody(ps) ==
  /\ tumbler_options /\ taker = 0
  /\ parties' = ps
  /\ UNCHANGED <<taker, coinjoin_state, watchdog, coinjoin_connection,
                 tumbler_options, restarts, tx_fees>>

taker_finished(fromtx, ps) ==
  /\ finish_single(ps) \/ finish_tumbler(fromtx, ps) \/ finish_nobody(ps)
  /\ UNCHANGED <<clientfactory, default_policy_tx_fees>>

Aborted(ps, t) == [ps EXCEPT ![t].aborted = TRUE]
MakerStopped(ps, m) == IF IsRunning(m) THEN [ps EXCEPT ![m].phase = "off"] ELSE ps

(* Mutant: a running taker is left alone.                                  *)
stopSubServices_keeps_taker ==
  /\ maker' = 0
  /\ coinjoin_state' = IF IsRunning(maker) THEN "none" ELSE coinjoin_state
  /\ parties' = MakerStopped(parties, maker)
  /\ UNCHANGED <<takerVars, feeVars>>

(* stopSubServices: the wallet's and the maker's service are stopped, the  *)
(* maker's cleanup resets coinjoin_state, then a running taker is aborted. *)
stopSubServices ==
  /\ maker' = 0
  /\ \/ /\ coinjoin_state # "taker"
        /\ coinjoin_state' = IF IsRunning(maker) THEN "none" ELSE coinjoin_state
        /\ parties' = MakerStopped(parties, maker)
        /\ UNCHANGED <<takerVars, feeVars>>
     \/ /\ coinjoin_state = "taker"
        /\ taker_finished("final", Aborted(MakerStopped(parties, maker), taker))

(***************************************************************************)
(* Requests                                                                *)
(***************************************************************************)

Connecting == \E i \in Ids : parties[i].conn = "none" /\ parties[i].phase # "off"

(* The client waits for the settlement of what it started before.          *)
Settled ==
  /\ ~\E i \in Ids : IsRunning(i)
  /\ ~\E i \in Ids : /\ parties[i].session = session
                     /\ \/ parties[i].phase = "pushed"
                        \/ parties[i].phase = "seen" /\ ~parties[i].aborted

Request == PromptConnect => ~Connecting
AuthRequest == Request /\ Authorized /\ wallet_up
MayStart == AuthRequest /\ (Careful => Settled)

refresh ==
  /\ Request
  /\ \E a \in access_tokens : a.key = access_key
  /\ \E r \in refresh_tokens : r.key = refresh_key
  /\ refresh_key < MaxIssues * (session + 1)
  /\ issue(access_key, refresh_key, session)
  /\ UNCHANGED <<walletVars, coinjoin_state, parties, maker, takerVars,
                 feeVars>>

(* unlockwallet for the wallet that is open: a password gives a new token. *)
unlock_again ==
  /\ Request /\ wallet_up
  /\ refresh_key < MaxIssues * (session + 1)
  /\ issue(access_key, refresh_key, session)
  /\ UNCHANGED <<walletVars, coinjoin_state, parties, maker, takerVars,
                 feeVars>>

(* A wallet that was open before is stopped, and its tokens with it.       *)
initialize_wallet_service(w) ==
  /\ session' = session + 1
  /\ wallet_up' = TRUE /\ wallet_name' = w
  /\ \/ /\ wallet_up
        /\ stopSubServices
        /\ issue(ResetKey(access_key), ResetKey(refresh_key), session + 1)
     \/ /\ ~wallet_up
        /\ issue(access_key, refresh_key, session + 1)
        /\ UNCHANGED <<coinjoin_state, parties, maker, takerVars, feeVars>>

(* createwallet, recoverwallet and unlockwallet of another wallet.         *)
open_wallet(w) ==
  /\ Request
  /\ session < MaxSessions
  /\ w # wallet_name
  /\ initialize_wallet_service(w)

lockwallet ==
  /\ AuthRequest
  /\ stopSubServices
  /\ access_key' = ResetKey(access_key) /\ refresh_key' = ResetKey(refresh_key)
  /\ wallet_up' = FALSE /\ wallet_name' = NoWallet
  /\ UNCHANGED <<session, access_tokens, refresh_tokens>>

(* directsend: a fee given with the request holds for this payment only.   *)
directsend ==
  /\ AuthRequest
  /\ coinjoin_state = "none"
  /\ tx_fees' = default_policy_tx_fees
  /\ UNCHANGED <<walletVars, tokenVars, coinjoin_state, parties, maker,
                 takerVars, default_policy_tx_fees>>

(* configset of POLICY/tx_fees.                                            *)
configset ==
  /\ AuthRequest
  /\ tx_fees' = "changed" /\ default_policy_tx_fees' = "changed"
  /\ UNCHANGED <<walletVars, tokenVars, coinjoin_state, parties, maker,
                 takerVars>>

NewParty(kind, phase, left) ==
  [kind |-> kind, session |-> session, phase |-> phase, conn |-> "none",
   aborted |-> FALSE, left |-> left]

(* Mutant: the state says maker before the service has started.            *)
start_maker_state_first(coins) ==
  /\ MayStart /\ Len(parties) < MaxParties
  /\ maker' = Len(parties) + 1
  /\ coinjoin_state' = IF coinjoin_state = "none" THEN "maker" ELSE coinjoin_state
  /\ parties' = Append(parties,
       NewParty("maker", IF coins /\ coinjoin_state = "none" THEN "running" ELSE "off", 0))
  /\ UNCHANGED <<walletVars, tokenVars, takerVars, feeVars>>

(* YieldGeneratorService.startService: the setup functions come first, and *)
(* one that raises leaves the service as it was created.                   *)
startService(coins) ==
  \/ /\ coins /\ coinjoin_state = "none"
     /\ coinjoin_state' = "maker"
     /\ parties' = Append(parties, NewParty("maker", "running", 0))
  \/ /\ ~coins \/ coinjoin_state # "none"
     /\ parties' = Append(parties, NewParty("maker", "off", 0))
     /\ UNCHANGED coinjoin_state

(* start_maker: the new service replaces the old one before the setup      *)
(* functions look at the coins and then at coinjoin_state.                 *)
start_maker(coins) ==
  /\ MayStart /\ Len(parties) < MaxParties
  /\ maker' = Len(parties) + 1
  /\ startService(coins)
  /\ UNCHANGED <<walletVars, tokenVars, takerVars, feeVars>>

(* YieldGeneratorService.stopService and the cleanup it was given.         *)
stopService(m) ==
  /\ IsRunning(m) /\ parties[m].conn = "up"
  /\ parties' = MakerStopped(parties, m)
  /\ coinjoin_state' = "none"
  /\ UNCHANGED <<walletVars, tokenVars, maker, takerVars, feeVars>>

stop_maker == AuthRequest /\ coinjoin_state = "maker" /\ maker # 0 /\ stopService(maker)

(* monitor: the Maker has aborted, having nothing to offer.                *)
monitor == \E m \in Ids : stopService(m)

StartTaker(kind, left) ==
  /\ coinjoin_state' = "taker"
  /\ parties' = Append(parties, NewParty(kind, "stage1", left))
  /\ taker' = Len(parties) + 1
  /\ clientfactory' = Len(parties) + 1
  /\ coinjoin_connection' = Len(parties) + 1
  /\ UNCHANGED <<walletVars, tokenVars, maker, watchdog, restarts,
                 default_policy_tx_fees>>

docoinjoin(fee) ==
  /\ MayStart /\ Len(parties) < MaxParties
  /\ coinjoin_state = "none"
  /\ tx_fees' = IF fee = "custom" THEN "custom" ELSE tx_fees
  /\ StartTaker("coinjoin", 1)
  /\ UNCHANGED tumbler_options

start_tumbler ==
  /\ MayStart /\ Len(parties) < MaxParties
  /\ coinjoin_state = "none" /\ ~tumbler_options
  /\ tumbler_options' = TRUE
  /\ StartTaker("tumbler", Entries)
  /\ UNCHANGED tx_fees

stopcoinjoin ==
  /\ AuthRequest
  /\ coinjoin_state = "taker" /\ taker # 0
  /\ taker_finished("final", Aborted(parties, taker))
  /\ UNCHANGED <<walletVars, tokenVars, maker>>

Requests ==
  \/ refresh \/ unlock_again \/ lockwallet
  \/ \E w \in Wallets : open_wallet(w)
  \/ directsend \/ configset
  \/ \E coins \in BOOLEAN : start_maker(coins)
  \/ stop_maker
  \/ \E fee \in {"policy", "custom"} : docoinjoin(fee)
  \/ start_tumbler \/ stopcoinjoin

(***************************************************************************)
(* What becomes of makers and takers                                       *)
(***************************************************************************)

IsTaker(t) == parties[t].kind # "maker"
Working(t, phase) ==
  /\ IsTaker(t) /\ parties[t].phase = phase
  /\ parties[t].conn = "up" /\ ~parties[t].aborted

Moved(t, phase) == [parties EXCEPT ![t].phase = phase]

restUnchanged == UNCHANGED <<walletVars, tokenVars, maker>>

Connect(i) ==
  /\ parties[i].conn = "none" /\ parties[i].phase # "off"
  /\ parties' = [parties EXCEPT ![i].conn = "up"]
  /\ restUnchanged
  /\ UNCHANGED <<coinjoin_state, takerVars, feeVars>>

(* The client protocol gives up a single coinjoin in stage 1; either kind  *)
(* fails for good if no commitment can be made.                            *)
Stage1Fails(t) ==
  /\ Working(t, "stage1") /\ t \notin restarts
  /\ taker_finished("final", Moved(t, "off"))
  /\ restUnchanged

(* on_taker_stage2_started, called when the transaction is proposed.       *)
on_taker_stage2_started(t) ==
  /\ Working(t, "stage1") /\ t \notin restarts
  /\ parties' = Moved(t, "stage2")
  /\ watchdog' = IF t = taker /\ ~tumbler_options THEN t ELSE watchdog
  /\ restUnchanged
  /\ UNCHANGED <<coinjoin_state, taker, clientfactory, coinjoin_connection,
                 tumbler_options, restarts, feeVars>>

(* The last signature: on_taker_stage2_completed, and the push.            *)
on_taker_stage2_completed(t) ==
  /\ Working(t, "stage2") /\ t \notin restarts
  /\ parties' = Moved(t, "pushed")
  /\ watchdog' = IF t = taker /\ t = watchdog THEN 0 ELSE watchdog
  /\ restUnchanged
  /\ UNCHANGED <<coinjoin_state, taker, clientfactory, coinjoin_connection,
                 tumbler_options, restarts, feeVars>>

(* The node refuses the transaction.                                       *)
PushFails(t) ==
  /\ Working(t, "stage2") /\ t \notin restarts
  /\ taker_finished("more", Moved(t, "stage1"))
  /\ restUnchanged

(* stallMonitor, which only watches the tumbler's taker.                   *)
stallMonitor(t) ==
  /\ parties[t].kind = "tumbler" /\ t \notin restarts
  /\ Working(t, "stage1") \/ Working(t, "stage2")
  /\ taker_finished("more", Moved(t, "stage1"))
  /\ restUnchanged

(* Mutant: the timeout only clears itself.                                 *)
on_taker_stage2_timeout_stays ==
  /\ watchdog # 0
  /\ watchdog' = 0
  /\ UNCHANGED <<walletVars, tokenVars, coinjoin_state, parties, maker, taker,
                 clientfactory, coinjoin_connection, tumbler_options, restarts, feeVars>>

on_taker_stage2_timeout ==
  /\ watchdog # 0
  /\ \/ /\ coinjoin_state = "taker" /\ taker = watchdog
        /\ ~parties[taker].aborted /\ parties[taker].phase = "stage2"
        /\ taker_finished("final", Aborted(parties, taker))
     \/ /\ \/ coinjoin_state # "taker" \/ taker # watchdog
           \/ parties[taker].aborted \/ parties[taker].phase # "stage2"
        /\ watchdog' = 0
        /\ UNCHANGED <<coinjoin_state, parties, taker, clientfactory,
                       coinjoin_connection, tumbler_options, restarts, feeVars>>
  /\ UNCHANGED <<walletVars, tokenVars, maker>>

(* The wallet service that the party was given still runs.                 *)
Served(t) == IsTaker(t) /\ wallet_up /\ parties[t].session = session

(* Taker.unconfirm_callback does not look at `aborted`.                    *)
unconfirm_callback(t) ==
  /\ Served(t) /\ parties[t].phase = "pushed"
  /\ taker_finished("unconfirmed", Moved(t, "seen"))
  /\ restUnchanged

confirm_callback(t) ==
  /\ Served(t) /\ parties[t].phase \in {"pushed", "seen"}
  /\ LET ps == [parties EXCEPT ![t].left = @ - 1,
                               ![t].phase = IF parties[t].left > 1 THEN "waiting" ELSE "confirmed"]
     IN \/ /\ parties[t].aborted
           /\ parties' = [parties EXCEPT ![t].phase = "confirmed"]
           /\ UNCHANGED <<coinjoin_state, takerVars, feeVars>>
        \/ /\ ~parties[t].aborted
           /\ taker_finished(IF parties[t].left > 1 THEN "more" ELSE "final", ps)
  /\ restUnchanged

(* The delayed clientStart of the tumbler.                                 *)
clientStart(t) ==
  /\ t \in restarts
  /\ restarts' = restarts \ {t}
  /\ parties' = IF parties[t].aborted \/ parties[t].conn # "up" THEN parties
                ELSE Moved(t, "stage1")
  /\ restUnchanged
  /\ UNCHANGED <<coinjoin_state, taker, clientfactory, coinjoin_connection,
                 tumbler_options, watchdog, feeVars>>

Events ==
  \/ monitor
  \/ \E t \in Ids :
       \/ Connect(t) \/ Stage1Fails(t)
       \/ on_taker_stage2_started(t) \/ on_taker_stage2_completed(t)
       \/ PushFails(t) \/ stallMonitor(t)
       \/ unconfirm_callback(t) \/ confirm_callback(t) \/ clientStart(t)

Next == Requests \/ Events \/ on_taker_stage2_timeout

Spec == Init /\ [][Next]_vars

(* The reactor fires its delayed calls; clients, makers and the network    *)
(* promise nothing.                                                        *)
FairSpec == Spec /\ WF_vars(on_taker_stage2_timeout)

(***************************************************************************)
(* Properties                                                              *)
(***************************************************************************)

(* activate_coinjoin_state: maker and taker "cannot both operate at once,  *)
(* nor can we run repeated instances of either": what the daemon reports   *)
(* and guards its requests with is what runs.                              *)
ReportedIsRunning ==
  /\ coinjoin_state = "maker" <=> \E m \in Ids : IsRunning(m)
  /\ coinjoin_state = "taker" <=> taker # 0
  /\ \A m \in Ids : IsRunning(m) => m = maker

(* The same, without the assumption that clients are careful.              *)
NotBothAtOnce ==
  ~(taker # 0 /\ \E m \in Ids : IsRunning(m))

(* lockwallet "shuts down everything": without a wallet nothing runs and   *)
(* no timeout is pending.                                                  *)
LockedIsQuiet ==
  ~wallet_up =>
    /\ coinjoin_state = "none" /\ taker = 0 /\ watchdog = 0
    /\ \A m \in Ids : ~IsRunning(m)

(* Every way a single coinjoin can end takes its watchdog along: a timeout *)
(* that is pending is for the present taker, which is in stage 2.          *)
WatchdogIsCurrent ==
  watchdog # 0 =>
    /\ watchdog = taker
    /\ parties[taker].kind = "coinjoin"
    /\ parties[taker].phase = "stage2" /\ ~parties[taker].aborted

(* A token that is accepted was given out for the wallet that is open:     *)
(* those of earlier sessions die when it is locked or replaced.            *)
TokensFollowSession ==
  \A t \in access_tokens \cup refresh_tokens :
    /\ t \in access_tokens /\ t.key = access_key => wallet_up /\ t.session = session
    /\ t \in refresh_tokens /\ t.key = refresh_key => wallet_up /\ t.session = session

(* A fee that came with one coinjoin is gone when no coinjoin runs.        *)
FeesRestored ==
  coinjoin_state # "taker" => tx_fees = default_policy_tx_fees

(* A service that has ended, by whichever of its many ways, leaves nothing *)
(* behind: no timeout, no fee, and with the wallet gone no party either.   *)
NothingLeftBehind == LockedIsQuiet /\ WatchdogIsCurrent /\ FeesRestored

(* The stage-2 watchdog: a single coinjoin that waits for signatures comes *)
(* to an end, whatever the makers do.                                      *)
Stage2Ends ==
  \A t \in 1..MaxParties :
    (taker = t /\ parties[t].kind = "coinjoin" /\ parties[t].phase = "stage2")
      ~> (taker # t \/ parties[t].phase # "stage2")
=============================================================================
