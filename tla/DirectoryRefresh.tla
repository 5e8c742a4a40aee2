-------------------------- MODULE DirectoryRefresh --------------------------
(***************************************************************************)
(* The paced refresh of the order book watcher: which directory node is    *)
(* asked next for its offers, and when.  ObBasic (scripts/obwatch/         *)
(* ob-watcher.py) runs refresh_orderbook_once in several threads, one at a *)
(* time, over the table of RefreshStateStore (src/jmdaemon/                *)
(* orderbookwatch.py), a file that survives the program.  Each method of   *)
(* the store is one transaction and one step; hooks and answers come in    *)
(* the reactor's thread between any two of them.  The order book itself is *)
(* in OrderbookWatch.                                                      *)
(*                                                                         *)
(* Times are ages in ticks, up to the longest that is compared.  A run of  *)
(* refresh_orderbook_once, network included, takes less than a tick.       *)
(***************************************************************************)
EXTENDS Integers, FiniteSets

CONSTANTS
  Nodes,         \* directory nodes
  Silent,       \* those that never send an offer
  Interval,     \* orderbook_request_interval
  Target,       \* directory_refresh_target_seconds
  Cooldown,     \* directory_cooldown_seconds
  MaxMissing,   \* consecutive_missing_count is followed up to here
  MaxHooksDue      \* connection hooks that may be due at once

ASSUME RefreshAssumption ==
  /\ IsFiniteSet(Nodes) /\ Nodes # {} /\ Silent \subseteq Nodes
  /\ Interval \in Nat \ {0} /\ Target \in Nat /\ Cooldown \in Nat
  /\ MaxMissing \in Nat \ {0} /\ MaxHooksDue \in Nat \ {0}

VARIABLES
  running,      \* the program is up
  connected,       \* directories whose handshake is done
  hooks_due,        \* directories whose connection hook is due
  initialized,  \* startup_refresh_initialized
  proc,         \* where each thread is, and the directories it goes on with
  sleep,        \* ticks until periodic_orderbook_refresh runs again
  row,          \* directory_peers_refresh, on disk
  sentAge       \* since a request was really sent (as the directory sees)

threadVars == <<initialized, proc, sleep>>
refreshVars == <<running, connected, hooks_due, threadVars, row, sentAge>>

Never == -1                       \* NULL in a column that holds a time
Overaged == Target + 1            \* a success that is too old
Cooled == Cooldown + 1            \* a request whose cooldown is over
Aged(age, oldest) == IF age \in {Never, oldest} THEN age ELSE age + 1

(* The periodic thread, and those that make a single run: at startup, for  *)
(* the web page's button.  One of these at a time.                         *)
Threads == {"periodic", "single"}

RowType == [need : BOOLEAN,             \* need_refresh
            asking : BOOLEAN,           \* current_refresh_id is set
            heard : BOOLEAN,            \* offers or bonds counted for it
            request : {Never} \cup 0..Cooled,    \* last_request_at
            success : {Never} \cup 0..Overaged,  \* last_successful_refresh_at
            answered : BOOLEAN,         \* and it is not before last_request_at
            missing : 0..MaxMissing,    \* consecutive_missing_count
            accounted : BOOLEAN]        \* last_missing_accounted_request_at is
                                        \* that of the last request

RefreshTypeOK ==
  /\ running \in BOOLEAN /\ initialized \in BOOLEAN
  /\ connected \subseteq Nodes
  /\ hooks_due \subseteq Nodes
  /\ proc \in [Threads -> [pc : {"idle", "initialize", "select", "record", "send", "failed"},
                         dirs : SUBSET Nodes]]
  /\ sleep \in 0..Interval
  /\ row \in [Nodes -> RowType]
  /\ sentAge \in [Nodes -> 0..Cooled]

(* The defaults of the table's columns: what _ensure_directory_locked      *)
(* inserts, so that a directory without a row is one with this row.        *)
NewRow == [need |-> TRUE, asking |-> FALSE, heard |-> FALSE, request |-> Never,
           success |-> Never, answered |-> FALSE, missing |-> 0, accounted |-> FALSE]

(* What an earlier version stored for offers that were only relayed        *)
PassiveRow == [NewRow EXCEPT !.need = FALSE, !.success = 0]

(* Mutant: the repair takes every row, as the order book is empty anyway   *)
MigratedAll(r) ==
  [r EXCEPT !.need = TRUE, !.asking = FALSE, !.heard = FALSE, !.request = Never,
            !.success = Never, !.answered = FALSE, !.accounted = FALSE]

(* The repair of _migrate, for rows that look refreshed but never asked    *)
Migrated(r) ==
  IF r.request = Never /\ (~r.need \/ r.asking \/ r.heard \/ r.success # Never)
  THEN [r EXCEPT !.need = TRUE, !.asking = FALSE, !.heard = FALSE,
                 !.success = Never, !.answered = FALSE, !.accounted = FALSE]
  ELSE r

At(pc, dirs) == [pc |-> pc, dirs |-> dirs]
AllIdle == [p \in Threads |-> At("idle", {})]

RefreshInit ==
  /\ running = FALSE /\ initialized = FALSE
  /\ connected = {} /\ hooks_due = {}
  /\ proc = AllIdle /\ sleep = Interval
  /\ row \in [Nodes -> {NewRow, PassiveRow}]
  /\ sentAge = [d \in Nodes |-> Cooled]

-----------------------------------------------------------------------------
(* The transactions of RefreshStateStore, on the row of one directory      *)

(* Mutant: in SQL, a time minus NULL is not larger than the target         *)
OverdueNull(r) == r.success = Overaged

Overdue(r) == r.success \in {Never, Overaged}

(* mark_due_connected_directories *)
MarkedDue(r, reset_fresh) ==
  [r EXCEPT !.need = Overdue(r) \/ (~reset_fresh /\ r.need)]

mark_due_connected_directories(dirs, reset_fresh) ==
  row' = [d \in Nodes |-> IF d \in dirs THEN MarkedDue(row[d], reset_fresh) ELSE row[d]]

mark_need_refresh(dirs) ==
  row' = [d \in Nodes |-> IF d \in dirs THEN [row[d] EXCEPT !.need = TRUE] ELSE row[d]]

mark_connected(d, mark_need) == row' = [row EXCEPT ![d].need = @ \/ mark_need]

(* A counter that stays at its bound *)
Bump(n, bound) == IF n < bound THEN n + 1 ELSE n

Unaccounted(r) == r.request # Never /\ ~r.accounted /\ ~r.heard

AccountMissing(r) ==
  IF Unaccounted(r)
  THEN [r EXCEPT !.missing = Bump(@, MaxMissing), !.accounted = TRUE]
  ELSE r

(* record_request.  cooldown_time is set to the time of the request plus   *)
(* the cooldown and by nothing else, so the age of the request tells it.   *)
Requested(r) ==
  [AccountMissing(r) EXCEPT
     !.need = FALSE, !.asking = TRUE, !.heard = FALSE, !.request = 0,
     !.answered = (r.success = 0), !.accounted = FALSE]

(* record_request_send_failure *)
SendFailed(r) ==
  [AccountMissing(r) EXCEPT !.need = TRUE, !.asking = FALSE, !.heard = FALSE]

(* record_response: an offer or a bond that this directory relayed, asked  *)
(* for or not.  The first one after a request makes it a success.          *)
HasCurrentRequest(r) == r.asking /\ r.request # Never

FirstResponse(r) == HasCurrentRequest(r) /\ ~r.answered

Responded(r) ==
  IF FirstResponse(r)
  THEN [r EXCEPT !.success = 0, !.answered = TRUE, !.need = FALSE,
                 !.heard = TRUE, !.missing = 0, !.accounted = FALSE]
  ELSE [r EXCEPT !.heard = @ \/ HasCurrentRequest(r)]

(* The order of select_next_refresh.  Directories it cannot tell apart, or *)
(* whose counts or ages are at their bounds, may come either way.          *)
Selectable(r) == r.need /\ r.request \in {Never, Cooled}

EarlierTime(a, b) == a # b /\ (a = Never \/ (b # Never /\ a > b))

Before(r, s) ==
  \/ r.missing < s.missing
  \/ /\ r.missing = s.missing /\ r.missing < MaxMissing
     /\ \/ EarlierTime(r.success, s.success)
        \/ /\ r.success = s.success /\ r.success # Overaged
           /\ EarlierTime(r.request, s.request)

NextRefresh(dirs, rows) ==
  LET due == {d \in dirs : Selectable(rows[d])}
  IN  {d \in due : ~\E e \in due : Before(rows[e], rows[d])}

-----------------------------------------------------------------------------
(* The program starts, and may be killed at any step: the table is kept,   *)
(* the order book and all that waits is lost.                              *)
Start ==
  /\ ~running /\ running' = TRUE
  /\ row' = [d \in Nodes |-> Migrated(row[d])]
  /\ sleep' = Interval
  /\ UNCHANGED <<connected, hooks_due, initialized, proc, sentAge>>

Crash ==
  /\ running /\ running' = FALSE
  /\ connected' = {} /\ hooks_due' = {} /\ initialized' = FALSE
  /\ proc' = AllIdle /\ sleep' = Interval
  /\ UNCHANGED <<row, sentAge>>

(* A directory completes its handshake, or its connection ends.  The hook  *)
(* is called later; that of a lost connection touches nothing that is read *)
(* here.                                                                   *)
DirectoryLinked(d) ==
  /\ running /\ d \notin connected /\ Cardinality(hooks_due) < MaxHooksDue
  /\ connected' = connected \cup {d} /\ hooks_due' = hooks_due \cup {d}
  /\ UNCHANGED <<running, threadVars, row, sentAge>>

DirectoryLost(d) ==
  /\ d \in connected /\ connected' = connected \ {d}
  /\ UNCHANGED <<running, hooks_due, threadVars, row, sentAge>>

(* on_directory_peer_connected *)
DirectoryHook(d) ==
  /\ d \in hooks_due
  /\ hooks_due' = hooks_due \ {d}
  /\ mark_connected(d, initialized)
  /\ UNCHANGED <<running, connected, threadVars, sentAge>>

(* on_valid_orderbook_response *)
Response(d) ==
  /\ d \in connected \ Silent
  /\ row' = [row EXCEPT ![d] = Responded(@)]
  /\ UNCHANGED <<running, connected, hooks_due, threadVars, sentAge>>

(* on_welcome, in the reactor's thread: it does not take the run lock to   *)
(* initialize, so a thread may be about to do so as well.  The thread that *)
(* it starts then is one that makes a SingleRun.                           *)
Welcome ==
  /\ running /\ ~initialized
  /\ mark_due_connected_directories(connected, TRUE)
  /\ initialized' = TRUE
  /\ UNCHANGED <<running, connected, hooks_due, proc, sleep, sentAge>>

-----------------------------------------------------------------------------
(* refresh_orderbook_once in thread p, from one shared access to the next: *)
(* those that commute with what others do in between are taken together.   *)
(* refresh_run_lock is held from the first of them to the end of the run.  *)
Locked == \E p \in Threads : proc[p].pc # "idle"

Goes(p, pc, dirs) == proc' = [proc EXCEPT ![p] = At(pc, dirs)]

Ends(p) ==
  /\ Goes(p, "idle", {})
  /\ sleep' = IF p = "periodic" THEN Interval ELSE sleep

InRun(p, pc) == running /\ proc[p].pc = pc
outside == <<running, connected, hooks_due>>

(* The run is skipped while another one goes on *)
AcquireRunLock(p) ==
  \/ Locked /\ Ends(p)
  \/ ~Locked /\ initialized /\ Goes(p, "select", {}) /\ UNCHANGED sleep
  \/ ~Locked /\ ~initialized /\ Goes(p, "initialize", connected) /\ UNCHANGED sleep

periodic_orderbook_refresh ==
  /\ InRun("periodic", "idle") /\ sleep = 0
  /\ AcquireRunLock("periodic")
  /\ UNCHANGED <<outside, initialized, row, sentAge>>

(* A thread that makes one run.  For the button of the web page all that   *)
(* are connected are marked first.                                         *)
SingleRun ==
  /\ InRun("single", "idle")
  /\ \E dirs \in {{}, connected} : mark_need_refresh(dirs)
  /\ AcquireRunLock("single")
  /\ UNCHANGED <<outside, initialized, sentAge>>

(* initialize_startup_refresh_state *)
Initialize(p) ==
  /\ InRun(p, "initialize")
  /\ mark_due_connected_directories(proc[p].dirs, TRUE)
  /\ initialized' = TRUE
  /\ Goes(p, "select", {})
  /\ UNCHANGED <<outside, sleep, sentAge>>

(* mark_due_connected_directories and select_next_refresh *)
Select(p) ==
  /\ InRun(p, "select")
  /\ mark_due_connected_directories(connected, FALSE)
  /\ LET next == NextRefresh(connected, row')
     IN  \/ next = {} /\ Ends(p)
         \/ \E d \in next : Goes(p, "record", {d}) /\ UNCHANGED sleep
  /\ UNCHANGED <<outside, initialized, sentAge>>

RecordRequest(p, d) ==
  /\ InRun(p, "record") /\ proc[p].dirs = {d}
  /\ row' = [row EXCEPT ![d] = Requested(@)]
  /\ Goes(p, "send", {d})
  /\ UNCHANGED <<outside, initialized, sleep, sentAge>>

(* request_orderbook_from_directory: a connection that is up may fail too  *)
SendRequest(p, d) ==
  /\ InRun(p, "send") /\ proc[p].dirs = {d}
  /\ \/ /\ d \in connected /\ Ends(p)
        /\ sentAge' = [sentAge EXCEPT ![d] = 0]
     \/ Goes(p, "failed", {d}) /\ UNCHANGED <<sleep, sentAge>>
  /\ UNCHANGED <<outside, initialized, row>>

RecordSendFailure(p, d) ==
  /\ InRun(p, "failed") /\ proc[p].dirs = {d}
  /\ row' = [row EXCEPT ![d] = SendFailed(@)]
  /\ Ends(p)
  /\ UNCHANGED <<outside, initialized, sentAge>>

RunStep(p) ==
  \/ Initialize(p) \/ Select(p)
  \/ \E d \in Nodes : RecordRequest(p, d) \/ SendRequest(p, d) \/ RecordSendFailure(p, d)

-----------------------------------------------------------------------------
(* Time passes: not within a run, nor before a thread that is due.  The    *)
(* program may be down meanwhile.                                          *)
RowOlder(r) == [r EXCEPT !.request = Aged(@, Cooled), !.success = Aged(@, Overaged)]

RefreshTick ==
  /\ ~Locked
  /\ running => sleep > 0
  /\ sleep' = IF running THEN sleep - 1 ELSE sleep
  /\ row' = [d \in Nodes |-> RowOlder(row[d])]
  /\ sentAge' = [d \in Nodes |-> Aged(sentAge[d], Cooled)]
  /\ UNCHANGED <<running, connected, hooks_due, initialized, proc>>

RefreshNext ==
  \/ Start \/ Crash \/ Welcome \/ RefreshTick
  \/ periodic_orderbook_refresh \/ SingleRun
  \/ \E d \in Nodes : DirectoryLinked(d) \/ DirectoryLost(d) \/ DirectoryHook(d) \/ Response(d)
  \/ \E p \in Threads : RunStep(p)

RefreshSpec == RefreshInit /\ [][RefreshNext]_refreshVars

(* The threads run and someone starts the program again; time passes       *)
(* however often runs are made (SF: it does not pass within one).          *)
RefreshFairSpec ==
  /\ RefreshSpec
  /\ WF_refreshVars(Start) /\ SF_refreshVars(RefreshTick) /\ WF_refreshVars(periodic_orderbook_refresh)
  /\ WF_refreshVars(\E p \in Threads : RunStep(p))

-----------------------------------------------------------------------------
(* No directory is asked twice within its cooldown, whichever threads ask, *)
(* and not after the program was killed and restarted in between either:   *)
(* record_request comes before the request is sent.                        *)
Asks(d) == \E p \in Threads : /\ proc[p] = At("send", {d})
                              /\ proc'[p].pc = "idle" /\ running'
AskedIsSpaced == [][\A d \in Nodes : Asks(d) => sentAge[d] > Cooldown]_refreshVars

(* A directory that stays connected is asked again and again, whatever the *)
(* others do: reconnecting all the time, silent, or answering.  It needs   *)
(* that the cooldown is long enough for every directory to have its turn   *)
(* (select_next_refresh, one request a run).                               *)
ConnectedIsAsked ==
  \A d \in Nodes : []<>(row[d].request = 0 \/ d \notin connected)

=============================================================================
