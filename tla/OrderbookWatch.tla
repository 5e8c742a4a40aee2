--------------------------- MODULE OrderbookWatch ---------------------------
(***************************************************************************)
(* The order book of orderbookwatch.py: offers and fidelity bonds, the     *)
(* directories that vouch for each of them, the status of the directories, *)
(* and the cached view that takers and web pages are given.  Each handler  *)
(* holds dblock throughout and is one step.  The book lives in one of two  *)
(* programs: a JoinMarket daemon, where private messages wait for their    *)
(* signature to be verified, or the order book watcher, which prunes what  *)
(* no directory mentions any more from a thread of its own.                *)
(*                                                                         *)
(* Times are ages, in ticks, up to the largest interval that is compared.  *)
(* Prices and sizes are left out: an entry is in the book or not.          *)
(***************************************************************************)
EXTENDS Integers, Sequences, FiniteSets

CONSTANTS
  Nicks, Oids,        \* makers, and the ids of their offers
  Dirs,               \* directory nodes
  Texts, BadTexts,    \* contents of messages, and those that are not valid
  PrivateTexts,       \* contents that makers also send privately
  Grace, Retention, Ttl,  \* the watcher's intervals, in ticks
  MaxHooks, MaxVerifying

ASSUME IntervalsAssumption ==
  /\ Grace \in Int /\ Grace >= -1 /\ Retention \in Int /\ Retention >= -1
  /\ Ttl \in Nat
ASSUME BoundsAssumption == MaxHooks \in Nat /\ MaxVerifying \in Nat
ASSUME TextsAssumption == BadTexts \subseteq Texts /\ PrivateTexts \subseteq Texts

NoDir == "nodir"   \* for messages that come without a directory
ASSUME DirsAssumption == NoDir \notin Dirs

Bond == "bond"
Offers == Nicks \X Oids
Bonds == Nicks \X {Bond}
Keys == Offers \cup Bonds

VARIABLES
  role,        \* "daemon" or "watcher"
  linked,      \* directories whose connection is up
  hooks,       \* delayed (dis)connection hooks
  present,     \* active_directories: where a nick is known to be
  pending,     \* _pending_privmsg_sources
  verifying,   \* private messages at the client, in order
  book,        \* tables orderbook and fidelitybonds
  sources,     \* tables orderbook_sources and fidelitybond_sources
  status,      \* column status of directory_peers
  cache,       \* the visible rows as last computed, and whether to recompute
  refresh      \* the thread in refresh_orderbook_once

linkVars == <<linked, hooks, present>>
amqVars == <<pending, verifying>>
tableVars == <<book, sources, status>>
vars == <<role, linkVars, amqVars, tableVars, cache, refresh>>

Max2(a, b) == IF a > b THEN a ELSE b
MaxAge == Max2(Ttl + 1, Max2(Grace, Retention))

NoSrc == [active |-> FALSE, age |-> -1]
Fresh == [active |-> TRUE, age |-> 0]
Gone  == [active |-> FALSE, age |-> 0]
Dirty == [dirty |-> TRUE, rows |-> {}]   \* the old rows are not read again
Idle  == [pc |-> "idle", dir |-> NoDir]

SourceRecs == {NoSrc} \cup [active : BOOLEAN, age : 0..MaxAge]
Messages == [key : Keys, text : PrivateTexts]

TypeOK ==
  /\ role \in {"daemon", "watcher"}
  /\ linked \subseteq Dirs
  /\ hooks \in Seq([dir : Dirs, up : BOOLEAN])
  /\ present \in [Nicks -> [Dirs -> {"unknown", "in", "out"}]]
  /\ pending \in [Messages -> Dirs \cup {NoDir}]
  /\ verifying \in Seq(Messages)
  /\ book \subseteq Keys
  /\ sources \in [Keys -> [Dirs -> SourceRecs]]
  /\ status \in [Dirs -> {"none", "connected", "disconnected"}]
  /\ cache \in [dirty : BOOLEAN, rows : SUBSET Keys]
  /\ refresh \in [pc : {"idle", "prune", "request"}, dir : Dirs \cup {NoDir}]

(* Directories that connect before the welcome are not announced by a hook.*)
Init ==
  /\ role \in {"daemon", "watcher"}
  /\ linked \in SUBSET Dirs
  /\ hooks = <<>>
  /\ present = [n \in Nicks |-> [d \in Dirs |-> "unknown"]]
  /\ pending = [m \in Messages |-> NoDir] /\ verifying = <<>>
  /\ book = {} /\ sources = [k \in Keys |-> [d \in Dirs |-> NoSrc]]
  /\ status = [d \in Dirs |-> "none"]
  /\ cache = Dirty
  /\ refresh = Idle

(***************************************************************************)
(* The tables                                                              *)
(***************************************************************************)

(* source_inactive_grace_seconds and orphan_source_retention_seconds.      *)
GraceNow == IF role = "watcher" THEN Grace ELSE -1
RetentionNow == IF role = "watcher" THEN Retention ELSE 0

HasActive(s, k) == \E d \in Dirs : s[k][d].active
HasAny(s, k) == \E d \in Dirs : s[k][d] # NoSrc

(* A source that stops vouching keeps the time at which it first did.      *)
Deactivated(s, k, d) ==
  [s EXCEPT ![k][d] = IF s[k][d].active THEN Gone ELSE s[k][d]]

NickDeactivated(s, n, d) ==
  [k \in Keys |-> [e \in Dirs |->
     IF k[1] = n /\ e = d /\ s[k][e].active THEN Gone ELSE s[k][e]]]

(* One directory's word refreshes all that vouch for the entry.            *)
Upserted(s, k, d) ==
  [s EXCEPT ![k] = [e \in Dirs |-> IF e = d \/ s[k][e].active THEN Fresh ELSE s[k][e]]]

(* Mutant: an entry that is still vouched for is pruned, too.              *)
Prunable_any(s, k) ==
  /\ HasAny(s, k)
  /\ \A d \in Dirs : s[k][d] # NoSrc => s[k][d].age >= GraceNow

(* The last source to go has been gone for the grace period.               *)
Prunable(s, k) ==
  /\ HasAny(s, k) /\ ~HasActive(s, k)
  /\ \A d \in Dirs : s[k][d] # NoSrc => s[k][d].age >= GraceNow

PrunedBook(b, s, K) == b \ {k \in K : Prunable(s, k)}

(* Sources of entries that are no longer in the book, after the retention. *)
PrunedSources(b, s, K) ==
  [k \in Keys |-> [d \in Dirs |->
     IF /\ k \in K \ b
        /\ RetentionNow >= 0 /\ s[k][d].age >= RetentionNow
     THEN NoSrc ELSE s[k][d]]]

View(b, s, st) ==
  {k \in b : \E d \in Dirs : s[k][d].active /\ st[d] = "connected"}

(* _mark_visibility_cache_dirty_locked, when one of the conditions holds.  *)
MarkIf(changed) == cache' = IF changed THEN Dirty ELSE cache

(* _prune_sources_locked, applied to the sources s.                        *)
PruneSources(s) ==
  /\ book' = PrunedBook(book, s, Keys)
  /\ sources' = PrunedSources(PrunedBook(book, s, Keys), s, Keys)

(***************************************************************************)
(* The handlers.  d is the directory a message came through, or NoDir; st  *)
(* is the status of the directories once the message itself was recorded.  *)
(***************************************************************************)
Connected(d) == [status EXCEPT ![d] = "connected"]

(* The old offer goes first, whatever is wrong with the new one.           *)
order_from_directory(k, d, valid, st) ==
  LET s1 == Deactivated(sources, k, d)
      b1 == PrunedBook(book, s1, {k})
      s2 == PrunedSources(b1, s1, Offers)
  IN /\ book' = IF valid THEN b1 \cup {k} ELSE b1
     /\ sources' = IF valid THEN Upserted(s2, k, d) ELSE s2
     /\ status' = IF valid THEN [st EXCEPT ![d] = "connected"] ELSE st
     /\ cache' = Dirty

order_without_directory(k, valid, st) ==
  /\ book' = IF valid THEN book \cup {k} ELSE book \ {k}
  /\ MarkIf(valid \/ st # status)
  /\ status' = st /\ UNCHANGED sources

on_order_seen(k, d, valid, st) ==
  \/ d # NoDir /\ order_from_directory(k, d, valid, st)
  \/ d = NoDir /\ order_without_directory(k, valid, st)

on_fidelity_bond_seen(k, d, valid, st) ==
  \/ /\ valid /\ d # NoDir
     /\ sources' = Upserted(sources, k, d)
     /\ status' = [st EXCEPT ![d] = "connected"]
     /\ book' = book \cup {k} /\ cache' = Dirty
  \/ /\ valid /\ d = NoDir
     /\ book' = book \cup {k} /\ cache' = Dirty
     /\ status' = st /\ UNCHANGED sources
  \/ /\ ~valid
     /\ status' = st /\ MarkIf(st # status)
     /\ UNCHANGED <<book, sources>>

entry_seen(k, d, text, st) ==
  \/ k \in Offers /\ on_order_seen(k, d, text \notin BadTexts, st)
  \/ k \in Bonds /\ on_fidelity_bond_seen(k, d, text \notin BadTexts, st)

on_order_cancel(k, d, st) ==
  /\ \/ d # NoDir /\ PruneSources(Deactivated(sources, k, d))
     \/ /\ d = NoDir
        /\ book' = book \ {k}
        /\ sources' = [sources EXCEPT ![k] = [e \in Dirs |-> NoSrc]]
  /\ status' = st /\ cache' = Dirty

OfNick(n) == {k \in Keys : k[1] = n}

(* on_nick_leave without a directory: everything of the nick goes.         *)
forget_nick(n, b, s) ==
  /\ book' = b \ OfNick(n)
  /\ sources' = [k \in Keys |-> IF k \in OfNick(n) THEN [d \in Dirs |-> NoSrc]
                               ELSE s[k]]
  /\ cache' = Dirty /\ UNCHANGED status

(***************************************************************************)
(* Messages                                                                *)
(***************************************************************************)
Heard(n, d) == present' = [present EXCEPT ![n][d] = "in"]

linkUnchanged == UNCHANGED <<role, linked, hooks>>

(* A public message that a directory relays: an offer or a cancellation,   *)
(* or anything else.                                                       *)
PublicMessage(d, k) ==
  /\ d \in linked /\ Heard(k[1], d)
  /\ \/ k \in Offers /\ \E t \in Texts : on_order_seen(k, d, t \notin BadTexts, Connected(d))
     \/ k \in Offers /\ on_order_cancel(k, d, Connected(d))
     \/ /\ status' = Connected(d) /\ MarkIf(status[d] # "connected")
        /\ UNCHANGED <<book, sources>>
  /\ linkUnchanged /\ UNCHANGED <<amqVars, refresh>>

(* A private message, which the watcher takes at its word; only a valid    *)
(* entry tells it that the directory is connected.                         *)
WatcherGetsPrivate(d, k, t) ==
  /\ role = "watcher" /\ d \in linked /\ Heard(k[1], d)
  /\ entry_seen(k, d, t, status)
  /\ linkUnchanged /\ UNCHANGED <<amqVars, refresh>>

WatcherGetsDirect(k, t) ==
  /\ role = "watcher"
  /\ entry_seen(k, NoDir, t, status)
  /\ UNCHANGED <<role, linkVars, amqVars, refresh>>

(* The daemon remembers the directory by nick and text, and asks the       *)
(* client to verify the signature.                                         *)
on_privmsg(d, m) ==
  /\ role = "daemon" /\ Len(verifying) < MaxVerifying
  /\ verifying' = Append(verifying, m)
  /\ \/ /\ d \in linked /\ Heard(m.key[1], d)
        /\ pending' = [pending EXCEPT ![m] = d]
        /\ status' = Connected(d) /\ MarkIf(status[d] # "connected")
     \/ d = NoDir /\ UNCHANGED <<present, pending, status, cache>>
  /\ linkUnchanged /\ UNCHANGED <<book, sources, refresh>>

on_verified_privmsg ==
  /\ verifying # <<>>
  /\ LET m == Head(verifying) IN
       /\ entry_seen(m.key, pending[m], m.text, status)
       /\ pending' = [pending EXCEPT ![m] = NoDir]
  /\ verifying' = Tail(verifying)
  /\ UNCHANGED <<role, linkVars, refresh>>

(* Cancellations and departures on a channel without directories.          *)
UnsourcedCancel(k) ==
  /\ on_order_cancel(k, NoDir, status)
  /\ UNCHANGED <<role, linkVars, amqVars, refresh>>

UnsourcedLeave(n) ==
  /\ forget_nick(n, book, sources)
  /\ UNCHANGED <<role, linkVars, amqVars, refresh>>

(* A directory says that a nick has left; with the last one it is gone.    *)
on_nick_leave_directory(d, n) ==
  LET s1 == NickDeactivated(sources, n, d)
      b1 == PrunedBook(book, s1, Keys)
  IN
  /\ d \in linked /\ present[n][d] # "unknown"
  /\ present' = [present EXCEPT ![n][d] = "out"]
  /\ \/ /\ \E e \in Dirs \ {d} : present[n][e] = "in"
        /\ PruneSources(s1)
        /\ cache' = Dirty /\ UNCHANGED status
     \/ /\ \A e \in Dirs \ {d} : present[n][e] # "in"
        /\ forget_nick(n, b1, PrunedSources(b1, s1, Keys))
  /\ linkUnchanged /\ UNCHANGED <<amqVars, refresh>>

(***************************************************************************)
(* Connections of directories, their delayed hooks, and the clock          *)
(***************************************************************************)

(* active_directories of the nicks heard of through d.                     *)
update_directory_map(d, where) ==
  present' = [n \in Nicks |-> [e \in Dirs |->
    IF e = d /\ present[n][e] # "unknown" THEN where ELSE present[n][e]]]

Connects(d) ==
  /\ d \notin linked /\ Len(hooks) < MaxHooks
  /\ linked' = linked \cup {d} /\ update_directory_map(d, "in")
  /\ hooks' = Append(hooks, [dir |-> d, up |-> TRUE])
  /\ UNCHANGED <<role, amqVars, tableVars, cache, refresh>>

(* Only the watcher installs a hook for lost connections.                  *)
Disconnects(d) ==
  /\ d \in linked /\ Len(hooks) < MaxHooks
  /\ linked' = linked \ {d} /\ update_directory_map(d, "out")
  /\ hooks' = IF role = "watcher" THEN Append(hooks, [dir |-> d, up |-> FALSE])
              ELSE hooks
  /\ UNCHANGED <<role, amqVars, tableVars, cache, refresh>>

(* Mutant: the cache is not marked for a rebuild.                          *)
set_status_quiet(d, st) == status' = [status EXCEPT ![d] = st] /\ UNCHANGED cache

set_status(d, st) ==
  /\ status' = [status EXCEPT ![d] = st]
  /\ MarkIf(status[d] # st)

(* Mutant: the hooks of a directory run in the wrong order.                *)
HookFires_last ==
  /\ hooks # <<>> /\ hooks' = SubSeq(hooks, 1, Len(hooks) - 1)
  /\ set_status(hooks[Len(hooks)].dir,
                IF hooks[Len(hooks)].up THEN "connected" ELSE "disconnected")
  /\ UNCHANGED <<role, linked, present, amqVars, book, sources, refresh>>

(* record_directory_connected and record_directory_disconnected            *)
HookFires ==
  /\ hooks # <<>> /\ hooks' = Tail(hooks)
  /\ set_status(Head(hooks).dir, IF Head(hooks).up THEN "connected" ELSE "disconnected")
  /\ UNCHANGED <<role, linked, present, amqVars, book, sources, refresh>>

(* The daemon compares no times; in the watcher, a refresh takes less than *)
(* a tick.                                                                 *)
Older(src) == IF src = NoSrc \/ src.age = MaxAge THEN src
              ELSE [src EXCEPT !.age = src.age + 1]

Tick ==
  /\ role = "watcher" /\ refresh = Idle
  /\ sources' = [k \in Keys |-> [d \in Dirs |-> Older(sources[k][d])]]
  /\ UNCHANGED <<role, linkVars, amqVars, book, status, cache, refresh>>

(***************************************************************************)
(* Readers, and the watcher's refresh thread                               *)
(***************************************************************************)
refresh_visibility_cache ==
  cache' = IF cache.dirty
           THEN [dirty |-> FALSE, rows |-> View(book, sources, status)]
           ELSE cache

get_visible_rows ==
  /\ refresh_visibility_cache
  /\ UNCHANGED <<role, linkVars, amqVars, tableVars, refresh>>

(* Mutant: nothing is pruned when no directory is asked.                   *)
refresh_orderbook_once_early_return ==
  /\ role = "watcher" /\ refresh = Idle
  /\ refresh_visibility_cache
  /\ refresh' \in {Idle} \cup [pc : {"prune"}, dir : linked]
  /\ UNCHANGED <<role, linkVars, amqVars, tableVars>>

(* Counts the visible rows, looks which directories are connected, and     *)
(* lets the refresh store choose one of them, or none.                     *)
refresh_orderbook_once ==
  /\ role = "watcher" /\ refresh = Idle
  /\ refresh_visibility_cache
  /\ refresh' \in IF linked = {} THEN {Idle}
                  ELSE [pc : {"prune"}, dir : linked \cup {NoDir}]
  /\ UNCHANGED <<role, linkVars, amqVars, tableVars>>

Stale(s, k, d) == Ttl > 0 /\ s[k][d].active /\ s[k][d].age > Ttl

prune_stale_sources ==
  /\ refresh.pc = "prune"
  /\ LET s1 == [k \in Keys |-> [d \in Dirs |->
                 IF Stale(sources, k, d) THEN Gone ELSE sources[k][d]]]
     IN /\ PruneSources(s1)
        /\ MarkIf(s1 # sources \/ book' # book)
  /\ refresh' = IF refresh.dir = NoDir THEN Idle ELSE [refresh EXCEPT !.pc = "request"]
  /\ UNCHANGED <<role, linkVars, amqVars, status>>

(* The status is set whether or not the directory is still connected.      *)
record_orderbook_request ==
  /\ refresh.pc = "request"
  /\ set_status(refresh.dir, "connected")
  /\ refresh' = Idle
  /\ UNCHANGED <<role, linkVars, amqVars, book, sources>>

RefreshThread ==
  refresh_orderbook_once \/ prune_stale_sources \/ record_orderbook_request

Makers ==
  \/ \E d \in Dirs, k \in Keys : PublicMessage(d, k)
  \/ \E d \in Dirs, k \in Keys, t \in PrivateTexts : WatcherGetsPrivate(d, k, t)
  \/ \E k \in Keys, t \in PrivateTexts : WatcherGetsDirect(k, t)
  \/ \E d \in Dirs \cup {NoDir}, m \in Messages : on_privmsg(d, m)
  \/ \E k \in Offers : UnsourcedCancel(k)
  \/ \E n \in Nicks : UnsourcedLeave(n)

Directories ==
  \/ \E d \in Dirs : Connects(d) \/ Disconnects(d)
  \/ \E d \in Dirs, n \in Nicks : on_nick_leave_directory(d, n)

Next ==
  \/ Makers \/ Directories
  \/ on_verified_privmsg \/ HookFires
  \/ get_visible_rows \/ RefreshThread \/ Tick

Spec == Init /\ [][Next]_vars

(* Time passes (between refreshes, hence strongly), the reactor runs its   *)
(* delayed calls, and the periodic thread comes round; makers, directories *)
(* and readers promise nothing.                                            *)
Fairness ==
  SF_vars(Tick) /\ WF_vars(HookFires) /\ WF_vars(RefreshThread)

FairSpec == Spec /\ Fairness

(***************************************************************************)
(* Properties                                                              *)
(***************************************************************************)

(* Whoever changes a table or a status marks the cache: what readers are   *)
(* given without a new query is what a query would give.                   *)
CacheIsView ==
  ~cache.dirty => cache.rows = View(book, sources, status)

(* While a directory vouches for an entry, nobody removes it from the book *)
(* without removing or ending the directory's word as well.                *)
VouchedIsInBook ==
  \A k \in Keys, d \in Dirs : sources[k][d].active => k \in book

(* Once the hooks have run, what a connected directory vouches for is      *)
(* visible, however its connections and messages came about.               *)
VouchedIsVisible ==
  hooks = <<>> =>
    \A k \in Keys, d \in linked :
      sources[k][d].active => k \in View(book, sources, status)

(* The watcher: a connected directory vouches for a nick only while it is  *)
(* known to hold it; a departure, heeded or ignored, leaves nothing behind *)
(* and only a new message brings the entry back.                           *)
DepartedIsNotVouched ==
  role = "watcher" =>
    \A k \in Keys, d \in linked :
      sources[k][d].active => present[k[1]][d] = "in"

(* A connected directory's word counts, and is about those who are there.  *)
VouchingIsCurrent == VouchedIsVisible /\ DepartedIsNotVouched

Visible(k) == k \in View(book, sources, status)
JustSeen(k) == \E d \in Dirs : sources[k][d] = Fresh

(* In the watcher, as long as some directory stays connected, an entry     *)
(* that is visible is heard of again or disappears.                        *)
StaleDisappears ==
  (role = "watcher" /\ <>[](linked # {})) =>
    \A k \in Keys : []<>(~Visible(k) \/ JustSeen(k))

=============================================================================
