------------------------ MODULE OrderbookWatchProofs ------------------------
(***************************************************************************)
(* The order book keeps its types, its cache and the entries that a        *)
(* directory vouches for, for any makers, directories, intervals and       *)
(* bounds.  The cache is only right if no invalid offer is ever sent       *)
(* privately: the deletion of an offer that came without a directory does  *)
(* not mark it (OnlyValidPrivate).  The refresh that fills the book of the *)
(* watcher (DirectoryRefresh) asks no directory within its cooldown.       *)
(***************************************************************************)
EXTENDS OrderbookWatch, DirectoryRefresh, TLAPS

OnlyValidPrivate == PrivateTexts \cap BadTexts = {}

Tables == [Keys -> [Dirs -> SourceRecs]]
Statuses == [Dirs -> {"none", "connected", "disconnected"}]

Vouched(b, s) == \A k \in Keys, d \in Dirs : s[k][d].active => k \in b

(***************************************************************************)
(* The operators on the tables                                             *)
(***************************************************************************)

(* Times are not negative, and the three records in use are sources.       *)
LEMMA SourceFacts ==
  /\ MaxAge \in Nat
  /\ NoSrc \in SourceRecs /\ Fresh \in SourceRecs /\ Gone \in SourceRecs
  /\ Fresh.active /\ ~Gone.active /\ ~NoSrc.active
<1>1. MaxAge \in Nat
  BY IntervalsAssumption DEF MaxAge, Max2
<1>2. NoSrc \in SourceRecs /\ Fresh \in SourceRecs /\ Gone \in SourceRecs
  <2>1. 0 \in 0..MaxAge
    BY <1>1
  <2> QED
    BY <2>1 DEF SourceRecs, Fresh, Gone
<1>3. Fresh.active /\ ~Gone.active /\ ~NoSrc.active
  BY DEF NoSrc, Fresh, Gone
<1> QED
  BY <1>1, <1>2, <1>3

(* Every operator of the handlers returns a table of sources.              *)
LEMMA TablesStay ==
  ASSUME NEW s \in Tables, NEW b, NEW K, NEW d \in Dirs, NEW n
  PROVE  /\ \A k \in Keys : Deactivated(s, k, d) \in Tables /\ Upserted(s, k, d) \in Tables
         /\ NickDeactivated(s, n, d) \in Tables
         /\ PrunedSources(b, s, K) \in Tables
<1>1. \A k \in Keys : Deactivated(s, k, d) \in Tables
  BY SourceFacts DEF Deactivated, Tables
<1>2. NickDeactivated(s, n, d) \in Tables
  BY SourceFacts DEF NickDeactivated, Tables
<1>3. \A k \in Keys : Upserted(s, k, d) \in Tables
  BY SourceFacts DEF Upserted, Tables
<1>4. PrunedSources(b, s, K) \in Tables
  BY SourceFacts DEF PrunedSources, Tables
<1> QED
  BY <1>1, <1>2, <1>3, <1>4

(* Pruning takes no entry that has an active source.                       *)
LEMMA PruneKeepsVouched ==
  ASSUME NEW s \in Tables, NEW b, NEW K, NEW L, Vouched(b, s)
  PROVE  Vouched(PrunedBook(b, s, K), PrunedSources(PrunedBook(b, s, K), s, L))
<1> SUFFICES ASSUME NEW k \in Keys, NEW d \in Dirs,
                    PrunedSources(PrunedBook(b, s, K), s, L)[k][d].active
             PROVE  k \in PrunedBook(b, s, K)
  BY DEF Vouched
<1>1. s[k][d].active
  BY SourceFacts DEF PrunedSources
<1>2. ~Prunable(s, k)
  BY <1>1 DEF Prunable, HasActive
<1> QED
  BY <1>1, <1>2 DEF Vouched, PrunedBook

(* Pruning takes nothing that is visible.                                  *)
LEMMA PruneKeepsView ==
  ASSUME NEW s \in Tables, NEW b \in SUBSET Keys, NEW K, NEW L, NEW st
  PROVE  View(PrunedBook(b, s, K), PrunedSources(PrunedBook(b, s, K), s, L), st)
           = View(b, s, st)
<1> DEFINE b1 == PrunedBook(b, s, K)
           s1 == PrunedSources(b1, s, L)
<1>1. ASSUME NEW k \in b1
      PROVE  s1[k] = s[k]
  <2>1. k \in Keys
    BY DEF PrunedBook
  <2>2. s1[k] = [d \in Dirs |-> s[k][d]]
    BY <2>1 DEF PrunedSources
  <2> QED
    BY <2>1, <2>2 DEF Tables
<1>2. ASSUME NEW k \in b, k \notin b1
      PROVE  \A d \in Dirs : ~s[k][d].active
  BY <1>2 DEF PrunedBook, Prunable, HasActive
<1>3. b1 \subseteq b
  BY DEF PrunedBook
<1> HIDE DEF b1, s1
<1>4. View(b1, s1, st) = View(b, s, st)
  BY <1>1, <1>2, <1>3 DEF View
<1> QED
  BY <1>4 DEF b1, s1

(* What ends a source's word makes no other source vouch.                  *)
LEMMA DeactivationKeepsVouched ==
  ASSUME NEW s \in Tables, NEW b, NEW k \in Keys, NEW d \in Dirs, Vouched(b, s)
  PROVE  Vouched(b, Deactivated(s, k, d))
<1>1. ASSUME NEW j \in Keys, NEW e \in Dirs, Deactivated(s, k, d)[j][e].active
      PROVE  s[j][e].active
  BY <1>1, SourceFacts DEF Deactivated, Tables
<1> QED
  BY <1>1 DEF Vouched

(* The same for all entries of a nick.                                     *)
LEMMA NickDeactivationKeepsVouched ==
  ASSUME NEW s \in Tables, NEW b, NEW d \in Dirs, NEW n, Vouched(b, s)
  PROVE  Vouched(b, NickDeactivated(s, n, d))
<1>1. ASSUME NEW j \in Keys, NEW e \in Dirs, NickDeactivated(s, n, d)[j][e].active
      PROVE  s[j][e].active
  BY <1>1, SourceFacts DEF NickDeactivated
<1> QED
  BY <1>1 DEF Vouched

(* An entry that is written has its sources in the book.                   *)
LEMMA UpsertKeepsVouched ==
  ASSUME NEW s \in Tables, NEW b, NEW k \in Keys, NEW d \in Dirs, Vouched(b, s)
  PROVE  Vouched(b \cup {k}, Upserted(s, k, d))
<1> SUFFICES ASSUME NEW j \in Keys, NEW e \in Dirs, Upserted(s, k, d)[j][e].active,
                    j # k
             PROVE  j \in b
  BY DEF Vouched
<1> QED
  BY DEF Upserted, Tables, Vouched

(***************************************************************************)
(* The handlers                                                            *)
(***************************************************************************)

(* What a handler finds and leaves, apart from the links and queues.       *)
BookOK ==
  /\ book \subseteq Keys /\ sources \in Tables /\ status \in Statuses
  /\ cache \in [dirty : BOOLEAN, rows : SUBSET Keys]

Good == BookOK /\ VouchedIsInBook /\ CacheIsView

(* A marked cache is a cache, and marked.                                  *)
LEMMA DirtyFacts == Dirty \in [dirty : BOOLEAN, rows : SUBSET Keys] /\ Dirty.dirty
  BY DEF Dirty

(* An offer or a bond, valid or not, leaves tables and cache in order.     *)
LEMMA SeenPreserves ==
  ASSUME Good, NEW k \in Keys, NEW d \in Dirs \cup {NoDir}, NEW text \in Texts,
         NEW st \in Statuses,
         d = NoDir => text \notin BadTexts,
         entry_seen(k, d, text, st)
  PROVE  Good'
<1> DEFINE valid == text \notin BadTexts
<1> USE DirtyFacts, DirsAssumption DEF Good
<1>0. k \in Offers => Offers \subseteq Keys
  BY DEF Keys
<1>1. CASE d \in Dirs /\ order_from_directory(k, d, valid, st)
  <2> DEFINE s1 == Deactivated(sources, k, d)
             b1 == PrunedBook(book, s1, {k})
             s2 == PrunedSources(b1, s1, Offers)
  <2>1. s1 \in Tables /\ s2 \in Tables /\ Upserted(s2, k, d) \in Tables
    BY <1>1, TablesStay DEF BookOK
  <2>2. Vouched(book, s1)
    BY <1>1, DeactivationKeepsVouched DEF BookOK, Vouched, VouchedIsInBook
  <2>3. Vouched(b1, s2)
    BY <2>1, <2>2, PruneKeepsVouched
  <2>4. Vouched(b1 \cup {k}, Upserted(s2, k, d))
    BY <1>1, <2>1, <2>3, UpsertKeepsVouched
  <2>5. b1 \subseteq book
    BY DEF PrunedBook
  <2>6. /\ book' = IF valid THEN b1 \cup {k} ELSE b1
        /\ sources' = IF valid THEN Upserted(s2, k, d) ELSE s2
        /\ status' = IF valid THEN [st EXCEPT ![d] = "connected"] ELSE st
        /\ cache' = Dirty
    BY <1>1 DEF order_from_directory
  <2>7. BookOK'
    BY <1>1, <2>1, <2>5, <2>6 DEF BookOK, Statuses
  <2>8. VouchedIsInBook'
    BY <2>3, <2>4, <2>6 DEF Vouched, VouchedIsInBook
  <2>9. CacheIsView'
    BY <2>6 DEF CacheIsView
  <2> QED
    BY <2>7, <2>8, <2>9
<1>2. CASE d = NoDir /\ order_without_directory(k, valid, st)
  <2>1. /\ book' = book \cup {k} /\ cache' = Dirty
        /\ status' = st /\ sources' = sources
    BY <1>2 DEF order_without_directory, MarkIf
  <2> QED
    BY <2>1 DEF BookOK, VouchedIsInBook, CacheIsView
<1>3. CASE on_fidelity_bond_seen(k, d, valid, st)
  <2>1. CASE /\ valid /\ d # NoDir
             /\ sources' = Upserted(sources, k, d)
             /\ status' = [st EXCEPT ![d] = "connected"]
             /\ book' = book \cup {k} /\ cache' = Dirty
    <3>1. BookOK'
      BY <2>1, TablesStay DEF BookOK, Statuses
    <3>2. Vouched(book \cup {k}, Upserted(sources, k, d))
      BY <2>1, UpsertKeepsVouched DEF BookOK, Vouched, VouchedIsInBook
    <3> QED
      BY <2>1, <3>1, <3>2 DEF Vouched, VouchedIsInBook, CacheIsView
  <2>2. CASE /\ valid /\ d = NoDir
             /\ book' = book \cup {k} /\ cache' = Dirty
             /\ status' = st /\ UNCHANGED sources
    BY <2>2 DEF BookOK, VouchedIsInBook, CacheIsView
  <2>3. CASE /\ ~valid
             /\ status' = st /\ MarkIf(st # status)
             /\ UNCHANGED <<book, sources>>
    BY <2>3 DEF BookOK, VouchedIsInBook, CacheIsView, MarkIf
  <2> QED
    BY <1>3, <2>1, <2>2, <2>3 DEF on_fidelity_bond_seen
<1> QED
  BY <1>1, <1>2, <1>3 DEF entry_seen, on_order_seen

(* So does a cancellation.                                                 *)
LEMMA CancelPreserves ==
  ASSUME Good, NEW k \in Keys, NEW d \in Dirs \cup {NoDir}, NEW st \in Statuses,
         on_order_cancel(k, d, st)
  PROVE  Good'
<1> USE DirtyFacts DEF Good
<1>1. status' = st /\ cache' = Dirty
  BY DEF on_order_cancel
<1>2. CASE d \in Dirs /\ PruneSources(Deactivated(sources, k, d))
  <2> DEFINE s1 == Deactivated(sources, k, d)
             b1 == PrunedBook(book, s1, Keys)
  <2>1. s1 \in Tables /\ PrunedSources(b1, s1, Keys) \in Tables
    BY <1>2, TablesStay DEF BookOK
  <2>2. Vouched(b1, PrunedSources(b1, s1, Keys))
    <3>1. Vouched(book, s1)
      BY <1>2, DeactivationKeepsVouched DEF BookOK, Vouched, VouchedIsInBook
    <3> QED
      BY <2>1, <3>1, PruneKeepsVouched
  <2>3. book' = b1 /\ sources' = PrunedSources(b1, s1, Keys)
    BY <1>2 DEF PruneSources
  <2>4. b1 \subseteq book
    BY DEF PrunedBook
  <2> QED
    BY <1>1, <2>1, <2>2, <2>3, <2>4 DEF BookOK, Vouched, VouchedIsInBook, CacheIsView
<1>3. CASE /\ book' = book \ {k}
           /\ sources' = [sources EXCEPT ![k] = [e \in Dirs |-> NoSrc]]
  <2>1. BookOK'
    BY <1>1, <1>3, SourceFacts DEF BookOK, Tables
  <2>2. VouchedIsInBook'
    BY <1>3, SourceFacts DEF BookOK, Tables, VouchedIsInBook
  <2> QED
    BY <1>1, <2>1, <2>2 DEF CacheIsView
<1> QED
  BY <1>2, <1>3 DEF on_order_cancel

(* So does a departure, from tables that are in order.                     *)
LEMMA LeavePreserves ==
  ASSUME Good, NEW n \in Nicks, NEW b, NEW s \in Tables, b \subseteq Keys, Vouched(b, s),
         forget_nick(n, b, s)
  PROVE  Good'
<1> USE DirtyFacts DEF Good
<1>1. /\ book' = b \ OfNick(n) /\ cache' = Dirty /\ status' = status
      /\ sources' = [k \in Keys |-> IF k \in OfNick(n) THEN [d \in Dirs |-> NoSrc]
                                   ELSE s[k]]
  BY DEF forget_nick
<1>2. BookOK'
  BY <1>1, SourceFacts DEF BookOK, Tables
<1>3. VouchedIsInBook'
  BY <1>1, SourceFacts DEF Vouched, VouchedIsInBook
<1> QED
  BY <1>1, <1>2, <1>3 DEF CacheIsView

(* A change of status is all that can disturb the cache in these steps.    *)
LEMMA StatusPreserves ==
  ASSUME Good, NEW st \in Statuses, status' = st, MarkIf(st # status),
         UNCHANGED <<book, sources>>
  PROVE  Good'
BY DirtyFacts DEF Good, BookOK, VouchedIsInBook, CacheIsView, MarkIf

(***************************************************************************)
(* The specification                                                       *)
(***************************************************************************)

(* The rest of the type invariant: the links, the queues and the thread.   *)
RestOK ==
  /\ role \in {"daemon", "watcher"}
  /\ linked \subseteq Dirs
  /\ hooks \in Seq([dir : Dirs, up : BOOLEAN])
  /\ present \in [Nicks -> [Dirs -> {"unknown", "in", "out"}]]
  /\ pending \in [Messages -> Dirs \cup {NoDir}]
  /\ verifying \in Seq(Messages)
  /\ refresh \in [pc : {"idle", "prune", "request"}, dir : Dirs \cup {NoDir}]
  /\ refresh.pc = "request" => refresh.dir # NoDir

IInv == RestOK /\ Good

(* The invariant holds at the start.                                       *)
LEMMA InitIInv == Init => IInv
<1> SUFFICES ASSUME Init PROVE IInv
  OBVIOUS
<1>1. RestOK
  BY DEF Init, RestOK, Idle
<1>2. BookOK
  BY SourceFacts, DirtyFacts DEF Init, BookOK, Tables, Statuses
<1>3. VouchedIsInBook /\ CacheIsView
  BY SourceFacts, DirtyFacts DEF Init, VouchedIsInBook, CacheIsView
<1> QED
  BY <1>1, <1>2, <1>3 DEF IInv, Good

(* A message only marks where its sender is.                               *)
LEMMA HeardOK ==
  ASSUME RestOK, NEW n \in Nicks, NEW d \in Dirs, Heard(n, d)
  PROVE  present' \in [Nicks -> [Dirs -> {"unknown", "in", "out"}]]
BY DEF RestOK, Heard

(* Keys and messages carry what their sets say.                            *)
LEMMA KeyFacts ==
  /\ Offers \subseteq Keys
  /\ \A k \in Keys : k[1] \in Nicks
  /\ \A m \in Messages : m.key \in Keys /\ m.text \in Texts /\ m.text \in PrivateTexts
BY TextsAssumption DEF Keys, Offers, Bonds, Messages

(* Every step keeps the invariant.                                         *)
LEMMA NextIInv ==
  ASSUME OnlyValidPrivate
  PROVE  IInv /\ [Next]_vars => IInv'
<1> SUFFICES ASSUME IInv, [Next]_vars PROVE IInv'
  OBVIOUS
<1> USE DEF IInv, linkUnchanged
<1>s. ASSUME NEW d \in Dirs PROVE Connected(d) \in Statuses
  BY DEF Connected, Statuses, Good, BookOK
<1>1. ASSUME NEW d \in Dirs, NEW k \in Keys, PublicMessage(d, k)
      PROVE  IInv'
  <2>1. RestOK'
    BY <1>1, KeyFacts, HeardOK DEF PublicMessage, RestOK, amqVars
  <2>2. ASSUME NEW t \in Texts, k \in Offers,
               on_order_seen(k, d, t \notin BadTexts, Connected(d))
        PROVE  Good'
    <3>1. entry_seen(k, d, t, Connected(d))
      BY <2>2 DEF entry_seen
    <3> QED
      BY <3>1, <1>s, SeenPreserves, DirsAssumption
  <2>3. ASSUME on_order_cancel(k, d, Connected(d))
        PROVE  Good'
    BY <2>3, <1>s, CancelPreserves
  <2>4. ASSUME status' = Connected(d), MarkIf(status[d] # "connected"),
               UNCHANGED <<book, sources>>
        PROVE  Good'
    <3>1. (status[d] # "connected") <=> (Connected(d) # status)
      BY DEF Connected, Good, BookOK, Statuses
    <3>2. MarkIf(Connected(d) # status)
      BY <2>4, <3>1 DEF MarkIf
    <3> QED
      BY <2>4, <3>2, <1>s, StatusPreserves
  <2> QED
    BY <1>1, <2>1, <2>2, <2>3, <2>4 DEF PublicMessage
<1>2. ASSUME NEW d \in Dirs, NEW k \in Keys, NEW t \in PrivateTexts,
             WatcherGetsPrivate(d, k, t)
      PROVE  IInv'
  <2>1. RestOK'
    BY <1>2, KeyFacts, HeardOK DEF WatcherGetsPrivate, RestOK, amqVars
  <2>2. entry_seen(k, d, t, status) /\ t \in Texts /\ status \in Statuses
    BY <1>2, TextsAssumption DEF WatcherGetsPrivate, Good, BookOK
  <2> QED
    BY <2>1, <2>2, SeenPreserves, DirsAssumption
<1>3. ASSUME NEW k \in Keys, NEW t \in PrivateTexts, WatcherGetsDirect(k, t)
      PROVE  IInv'
  <2>1. RestOK'
    BY <1>3 DEF WatcherGetsDirect, RestOK, linkVars, amqVars
  <2>2. /\ entry_seen(k, NoDir, t, status) /\ t \in Texts /\ t \notin BadTexts
        /\ status \in Statuses
    BY <1>3, TextsAssumption DEF WatcherGetsDirect, OnlyValidPrivate, Good, BookOK
  <2> QED
    BY <2>1, <2>2, SeenPreserves
<1>4. ASSUME NEW d \in Dirs \cup {NoDir}, NEW m \in Messages, on_privmsg(d, m)
      PROVE  IInv'
  <2>1. verifying' \in Seq(Messages)
    BY <1>4 DEF on_privmsg, RestOK
  <2>2. CASE /\ d \in linked /\ Heard(m.key[1], d)
             /\ pending' = [pending EXCEPT ![m] = d]
             /\ status' = Connected(d) /\ MarkIf(status[d] # "connected")
    <3>1. d \in Dirs
      BY <2>2 DEF RestOK
    <3>2. RestOK'
      BY <1>4, <2>1, <2>2, <3>1, KeyFacts, HeardOK DEF on_privmsg, RestOK
    <3>3. (status[d] # "connected") <=> (Connected(d) # status)
      BY <3>1 DEF Connected, Good, BookOK, Statuses
    <3>4. MarkIf(Connected(d) # status)
      BY <2>2, <3>3 DEF MarkIf
    <3>5. UNCHANGED <<book, sources>>
      BY <1>4 DEF on_privmsg
    <3> QED
      BY <2>2, <3>1, <3>2, <3>4, <3>5, <1>s, StatusPreserves
  <2>3. CASE UNCHANGED <<present, pending, status, cache>>
    <3>1. RestOK'
      BY <1>4, <2>1, <2>3 DEF on_privmsg, RestOK
    <3>2. Good'
      BY <1>4, <2>3 DEF on_privmsg, Good, BookOK, VouchedIsInBook, CacheIsView, View
    <3> QED
      BY <3>1, <3>2
  <2> QED
    BY <1>4, <2>2, <2>3 DEF on_privmsg
<1>5. ASSUME NEW k \in Offers, UnsourcedCancel(k)
      PROVE  IInv'
  <2>1. RestOK'
    BY <1>5 DEF UnsourcedCancel, RestOK, linkVars, amqVars
  <2>2. on_order_cancel(k, NoDir, status) /\ status \in Statuses
    BY <1>5 DEF UnsourcedCancel, Good, BookOK
  <2> QED
    BY <2>1, <2>2, CancelPreserves, KeyFacts
<1>6. ASSUME NEW n \in Nicks, UnsourcedLeave(n)
      PROVE  IInv'
  <2>1. RestOK'
    BY <1>6 DEF UnsourcedLeave, RestOK, linkVars, amqVars
  <2>2. Vouched(book, sources) /\ book \subseteq Keys /\ sources \in Tables
    BY DEF Good, BookOK, Vouched, VouchedIsInBook
  <2>3. forget_nick(n, book, sources)
    BY <1>6 DEF UnsourcedLeave
  <2> QED
    BY <2>1, <2>2, <2>3, LeavePreserves
<1>7. ASSUME NEW d \in Dirs, Connects(d) \/ Disconnects(d)
      PROVE  IInv'
  <2>1. present' \in [Nicks -> [Dirs -> {"unknown", "in", "out"}]]
    BY <1>7 DEF Connects, Disconnects, update_directory_map, RestOK
  <2>2. hooks' \in Seq([dir : Dirs, up : BOOLEAN])
    <3> DEFINE up == [dir |-> d, up |-> TRUE]
               down == [dir |-> d, up |-> FALSE]
               H == [dir : Dirs, up : BOOLEAN]
    <3>1. up \in H /\ down \in H
      OBVIOUS
    <3>2. hooks' = Append(hooks, up) \/ hooks' = Append(hooks, down) \/ hooks' = hooks
      BY <1>7 DEF Connects, Disconnects
    <3>3. hooks \in Seq(H)
      BY DEF RestOK
    <3> HIDE DEF H, up, down
    <3>4. hooks' \in Seq(H)
      BY <3>1, <3>2, <3>3
    <3> QED
      BY <3>4 DEF H
  <2>3. RestOK'
    BY <1>7, <2>1, <2>2 DEF Connects, Disconnects, RestOK, amqVars
  <2>4. Good'
    BY <1>7 DEF Connects, Disconnects, tableVars, Good, BookOK, VouchedIsInBook,
                CacheIsView, View
  <2> QED
    BY <2>3, <2>4
<1>8. ASSUME NEW d \in Dirs, NEW n \in Nicks, on_nick_leave_directory(d, n)
      PROVE  IInv'
  <2> DEFINE s1 == NickDeactivated(sources, n, d)
             b1 == PrunedBook(book, s1, Keys)
             s2 == PrunedSources(b1, s1, Keys)
  <2>1. RestOK'
    BY <1>8 DEF on_nick_leave_directory, RestOK, amqVars
  <2>2. Vouched(b1, s2) /\ b1 \subseteq Keys /\ s2 \in Tables
    <3>1. s1 \in Tables /\ s2 \in Tables
      BY TablesStay DEF Good, BookOK
    <3>2. Vouched(book, s1)
      BY NickDeactivationKeepsVouched DEF Good, BookOK, Vouched, VouchedIsInBook
    <3>3. Vouched(b1, s2)
      BY <3>1, <3>2, PruneKeepsVouched
    <3>4. b1 \subseteq Keys
      BY DEF PrunedBook, Good, BookOK
    <3> QED
      BY <3>1, <3>3, <3>4
  <2>3. ASSUME PruneSources(s1), cache' = Dirty, UNCHANGED status
        PROVE  Good'
    BY <2>2, <2>3, DirtyFacts DEF PruneSources, Good, BookOK, VouchedIsInBook, Vouched,
                                  CacheIsView
  <2>4. ASSUME forget_nick(n, b1, s2)
        PROVE  Good'
    BY <2>2, <2>4, LeavePreserves
  <2> QED
    BY <1>8, <2>1, <2>3, <2>4 DEF on_nick_leave_directory
<1>9. ASSUME on_verified_privmsg
      PROVE  IInv'
  <2> DEFINE m == Head(verifying)
  <2>1. m \in Messages /\ Tail(verifying) \in Seq(Messages)
    BY <1>9 DEF on_verified_privmsg, RestOK
  <2>2. /\ entry_seen(m.key, pending[m], m.text, status)
        /\ pending' = [pending EXCEPT ![m] = NoDir]
        /\ verifying' = Tail(verifying)
        /\ UNCHANGED <<role, linkVars, refresh>>
    BY <1>9 DEF on_verified_privmsg
  <2> HIDE DEF m
  <2>3. RestOK'
    BY <2>1, <2>2 DEF RestOK, linkVars
  <2>4. /\ m.key \in Keys /\ m.text \in Texts /\ m.text \notin BadTexts
        /\ pending[m] \in Dirs \cup {NoDir} /\ status \in Statuses
    BY <2>1, KeyFacts DEF OnlyValidPrivate, RestOK, Good, BookOK
  <2>5. Good'
    BY <2>2, <2>4, SeenPreserves
  <2> QED
    BY <2>3, <2>5
<1>10. ASSUME NEW d \in Dirs, NEW v \in {"connected", "disconnected"}, set_status(d, v),
              UNCHANGED <<book, sources>>
       PROVE  Good'
  <2> DEFINE st == [status EXCEPT ![d] = v]
  <2>1. st \in Statuses
    BY DEF Good, BookOK, Statuses
  <2>2. (status[d] # v) <=> (st # status)
    BY DEF Good, BookOK, Statuses
  <2>3. status' = st /\ MarkIf(st # status)
    BY <1>10, <2>2 DEF set_status, MarkIf
  <2> HIDE DEF st
  <2> QED
    BY <1>10, <2>1, <2>3, StatusPreserves
<1>11. ASSUME HookFires
       PROVE  IInv'
  <2> DEFINE h == Head(hooks)
             v == IF h.up THEN "connected" ELSE "disconnected"
  <2>1. h \in [dir : Dirs, up : BOOLEAN] /\ Tail(hooks) \in Seq([dir : Dirs, up : BOOLEAN])
    <3> DEFINE H == [dir : Dirs, up : BOOLEAN]
    <3>1. hooks \in Seq(H) /\ hooks # <<>>
      BY <1>11 DEF HookFires, RestOK
    <3> HIDE DEF H
    <3>2. Head(hooks) \in H /\ Tail(hooks) \in Seq(H)
      BY <3>1
    <3> QED
      BY <3>2 DEF H
  <2>2. RestOK'
    BY <1>11, <2>1 DEF HookFires, RestOK, amqVars
  <2>3. h.dir \in Dirs /\ v \in {"connected", "disconnected"}
    <3>1. v \in {"connected", "disconnected"}
      OBVIOUS
    <3> HIDE DEF h
    <3>2. h.dir \in Dirs
      BY <2>1
    <3> QED
      BY <3>1, <3>2
  <2>4. set_status(h.dir, v) /\ UNCHANGED <<book, sources>>
    BY <1>11 DEF HookFires
  <2> QED
    BY <1>10, <2>2, <2>3, <2>4
<1>12. ASSUME refresh_visibility_cache, UNCHANGED tableVars
       PROVE  Good'
  <2>1. View(book, sources, status) \subseteq Keys
    BY DEF View, Good, BookOK
  <2>2. CASE cache.dirty
    BY <1>12, <2>1, <2>2 DEF refresh_visibility_cache, tableVars, Good, BookOK,
                             VouchedIsInBook, CacheIsView, View
  <2>3. CASE ~cache.dirty
    BY <1>12, <2>3 DEF refresh_visibility_cache, tableVars, Good, BookOK,
                       VouchedIsInBook, CacheIsView, View
  <2> QED
    BY <2>2, <2>3
<1>13. ASSUME get_visible_rows
       PROVE  IInv'
  <2>1. RestOK'
    BY <1>13 DEF get_visible_rows, RestOK, linkVars, amqVars
  <2> QED
    BY <1>12, <1>13, <2>1 DEF get_visible_rows
<1>14. ASSUME refresh_orderbook_once
       PROVE  IInv'
  <2>1. RestOK'
    <3>1. /\ refresh' \in [pc : {"idle", "prune", "request"}, dir : Dirs \cup {NoDir}]
          /\ refresh'.pc # "request"
      BY <1>14 DEF refresh_orderbook_once, RestOK, Idle
    <3> QED
      BY <1>14, <3>1 DEF refresh_orderbook_once, RestOK, linkVars, amqVars
  <2> QED
    BY <1>12, <1>14, <2>1 DEF refresh_orderbook_once
<1>15. ASSUME prune_stale_sources
       PROVE  IInv'
  <2> DEFINE s1 == [k \in Keys |-> [d \in Dirs |->
                     IF Stale(sources, k, d) THEN Gone ELSE sources[k][d]]]
             b1 == PrunedBook(book, s1, Keys)
             s2 == PrunedSources(b1, s1, Keys)
  <2>1. RestOK'
    BY <1>15 DEF prune_stale_sources, RestOK, linkVars, amqVars, Idle
  <2>2. /\ book' = b1 /\ sources' = s2 /\ status' = status
        /\ MarkIf(s1 # sources \/ book' # book)
    BY <1>15 DEF prune_stale_sources, PruneSources
  <2>3. s1 \in Tables
    BY SourceFacts DEF Good, BookOK, Tables
  <2>4. Vouched(book, s1)
    BY SourceFacts DEF Good, VouchedIsInBook, Vouched
  <2> HIDE DEF s1
  <2>5. Vouched(b1, s2) /\ b1 \subseteq Keys /\ s2 \in Tables
    <3>2. s2 \in Tables
      BY <2>3, SourceFacts DEF PrunedSources, Tables
    <3>3. b1 \subseteq Keys
      BY DEF PrunedBook, Good, BookOK
    <3> QED
      BY <2>3, <2>4, <3>2, <3>3, PruneKeepsVouched
  <2>6. View(b1, s2, status) = View(book, s1, status)
    BY <2>3, PruneKeepsView DEF Good, BookOK
  <2> HIDE DEF b1, s2
  <2>7. CacheIsView'
    <3>1. CASE s1 # sources \/ book' # book
      BY <2>2, <3>1, DirtyFacts DEF MarkIf, CacheIsView
    <3>2. CASE s1 = sources /\ book' = book
      BY <2>2, <2>6, <3>2 DEF MarkIf, CacheIsView, Good
    <3> QED
      BY <3>1, <3>2
  <2>8. BookOK' /\ VouchedIsInBook'
    BY <2>2, <2>5, DirtyFacts DEF MarkIf, Good, BookOK, Vouched, VouchedIsInBook
  <2> QED
    BY <2>1, <2>7, <2>8 DEF Good
<1>16. ASSUME record_orderbook_request
       PROVE  IInv'
  <2>1. RestOK'
    BY <1>16 DEF record_orderbook_request, RestOK, linkVars, amqVars, Idle
  <2>2. refresh.dir \in Dirs
    BY <1>16 DEF record_orderbook_request, RestOK
  <2> QED
    BY <1>10, <1>16, <2>1, <2>2 DEF record_orderbook_request
<1>17. ASSUME Tick
       PROVE  IInv'
  <2>1. RestOK'
    BY <1>17 DEF Tick, RestOK, linkVars, amqVars
  <2>2. ASSUME NEW src \in SourceRecs
        PROVE  Older(src) \in SourceRecs /\ Older(src).active = src.active
    BY SourceFacts DEF Older, SourceRecs, NoSrc
  <2>3. /\ sources' = [k \in Keys |-> [d \in Dirs |-> Older(sources[k][d])]]
        /\ UNCHANGED <<book, status, cache>>
    BY <1>17 DEF Tick
  <2>4. sources' \in Tables
    BY <2>2, <2>3 DEF Good, BookOK, Tables
  <2>5. \A k \in Keys, d \in Dirs : sources'[k][d].active = sources[k][d].active
    BY <2>2, <2>3 DEF Good, BookOK, Tables
  <2>6. View(book, sources', status) = View(book, sources, status)
    BY <2>5 DEF View, Good, BookOK
  <2>7. Good'
    BY <2>3, <2>4, <2>5, <2>6 DEF Good, BookOK, VouchedIsInBook, CacheIsView
  <2> QED
    BY <2>1, <2>7
<1>18. CASE UNCHANGED vars
  BY <1>18 DEF vars, linkVars, amqVars, tableVars, RestOK, Good, BookOK,
               VouchedIsInBook, CacheIsView, View
<1> QED
  BY <1>1, <1>2, <1>3, <1>4, <1>5, <1>6, <1>7, <1>8, <1>9, <1>11, <1>13, <1>14, <1>15,
     <1>16, <1>17, <1>18
  DEF Next, Makers, Directories, RefreshThread

(***************************************************************************)
(* Who vouches, and is heard                                               *)
(***************************************************************************)

(* No word is added but that of the directory an entry comes from.         *)
LEMMA WordsAdded ==
  ASSUME NEW s \in Tables, NEW b, NEW K, NEW n, NEW d \in Dirs,
         NEW k \in Keys, NEW j \in Keys, NEW e \in Dirs
  PROVE  /\ Deactivated(s, k, d)[j][e].active => s[j][e].active
         /\ NickDeactivated(s, n, d)[j][e].active
              => s[j][e].active /\ ~(j[1] = n /\ e = d)
         /\ PrunedSources(b, s, K)[j][e].active => s[j][e].active
         /\ Upserted(s, k, d)[j][e].active => s[j][e].active \/ (j = k /\ e = d)
<1>1. Deactivated(s, k, d)[j][e].active => s[j][e].active
  BY SourceFacts DEF Deactivated, Tables
<1>2. NickDeactivated(s, n, d)[j][e].active
        => s[j][e].active /\ ~(j[1] = n /\ e = d)
  BY SourceFacts DEF NickDeactivated
<1>3. PrunedSources(b, s, K)[j][e].active => s[j][e].active
  BY SourceFacts DEF PrunedSources
<1>4. Upserted(s, k, d)[j][e].active => s[j][e].active \/ (j = k /\ e = d)
  BY DEF Upserted, Tables
<1> QED
  BY <1>1, <1>2, <1>3, <1>4

(* A hook that ends the status of a linked directory is followed by one    *)
(* that restores it; and a directory that vouches counts as connected or   *)
(* will, once its hook has run.                                            *)
LinkedIsHeard ==
  /\ \A d \in linked, i \in 1..Len(hooks) :
       hooks[i].dir = d /\ ~hooks[i].up
         => \E j \in 1..Len(hooks) : i < j /\ hooks[j].dir = d /\ hooks[j].up
  /\ \A k \in Keys, d \in linked :
       sources[k][d].active
         => \/ status[d] = "connected"
            \/ \E i \in 1..Len(hooks) : hooks[i].dir = d /\ hooks[i].up

(* In the watcher a directory vouches only for nicks it has spoken of, and *)
(* while it is connected, for those that are there.                        *)
WordIsOfPresent ==
  role = "watcher" =>
    /\ verifying = <<>>
    /\ \A k \in Keys, d \in Dirs :
         sources[k][d].active =>
           /\ present[k[1]][d] # "unknown"
           /\ d \in linked => present[k[1]][d] = "in"

VouchInv == LinkedIsHeard /\ WordIsOfPresent

(* A step that leaves the links alone, ends no status and forgets no nick  *)
(* needs only to see that new words come from a directory that counts.     *)
LEMMA WordsFrame ==
  ASSUME IInv, VouchInv,
         UNCHANGED <<role, linked, hooks>>,
         role = "watcher" => verifying' = verifying,
         \A d \in Dirs : status[d] = "connected" => status'[d] = "connected",
         \A n \in Nicks, d \in Dirs : present'[n][d] = present[n][d] \/ present'[n][d] = "in",
         \A k \in Keys, d \in Dirs :
           sources'[k][d].active =>
             \/ sources[k][d].active
             \/ /\ status'[d] = "connected"
                /\ role = "watcher" => present'[k[1]][d] = "in"
  PROVE  VouchInv'
<1> USE DEF VouchInv, IInv, RestOK
<1>1. LinkedIsHeard'
  BY DEF LinkedIsHeard
<1>2. WordIsOfPresent'
  BY KeyFacts DEF WordIsOfPresent
<1> QED
  BY <1>1, <1>2

(* An offer or a bond adds at most the word of the directory it came by,   *)
(* which then counts as connected.                                         *)
LEMMA SeenWords ==
  ASSUME Good, NEW k \in Keys, NEW d \in Dirs \cup {NoDir}, NEW text,
         NEW st \in Statuses, entry_seen(k, d, text, st)
  PROVE  /\ \A j \in Keys, e \in Dirs :
              sources'[j][e].active =>
                sources[j][e].active \/ (j = k /\ e = d /\ status'[e] = "connected")
         /\ \A e \in Dirs : st[e] = "connected" => status'[e] = "connected"
<1> DEFINE valid == text \notin BadTexts
<1> USE DirsAssumption DEF Good, BookOK
<1>1. CASE d \in Dirs /\ order_from_directory(k, d, valid, st)
  <2> DEFINE s1 == Deactivated(sources, k, d)
             b1 == PrunedBook(book, s1, {k})
             s2 == PrunedSources(b1, s1, Offers)
  <2>1. s1 \in Tables /\ s2 \in Tables
    BY <1>1, TablesStay
  <2>2. /\ sources' = IF valid THEN Upserted(s2, k, d) ELSE s2
        /\ status' = IF valid THEN [st EXCEPT ![d] = "connected"] ELSE st
    BY <1>1 DEF order_from_directory
  <2>3. \A j \in Keys, e \in Dirs : s1[j][e].active => sources[j][e].active
    BY <1>1, WordsAdded
  <2>4. d \in Dirs
    BY <1>1
  <2> HIDE DEF s1
  <2>5. \A j \in Keys, e \in Dirs : s2[j][e].active => s1[j][e].active
    BY <2>1, <2>4, WordsAdded
  <2> HIDE DEF s2
  <2>6. \A j \in Keys, e \in Dirs :
          Upserted(s2, k, d)[j][e].active => s2[j][e].active \/ (j = k /\ e = d)
    BY <2>1, <2>4, WordsAdded
  <2>7. CASE valid
    <3>1. sources' = Upserted(s2, k, d) /\ status' = [st EXCEPT ![d] = "connected"]
      BY <2>2, <2>7
    <3>2. \A e \in Dirs : status'[e] = IF e = d THEN "connected" ELSE st[e]
      BY <2>4, <3>1 DEF Statuses
    <3>3. \A j \in Keys, e \in Dirs :
            sources'[j][e].active => sources[j][e].active \/ (j = k /\ e = d)
      BY <2>3, <2>5, <2>6, <3>1
    <3> QED
      BY <3>2, <3>3
  <2>8. CASE ~valid
    BY <2>2, <2>3, <2>5, <2>8
  <2> QED
    BY <2>7, <2>8
<1>2. CASE d = NoDir /\ order_without_directory(k, valid, st)
  BY <1>2 DEF order_without_directory
<1>3. CASE on_fidelity_bond_seen(k, d, valid, st)
  <2>1. CASE /\ valid /\ d # NoDir
             /\ sources' = Upserted(sources, k, d)
             /\ status' = [st EXCEPT ![d] = "connected"]
    <3>1. d \in Dirs
      BY <2>1
    <3>2. \A e \in Dirs : status'[e] = IF e = d THEN "connected" ELSE st[e]
      BY <2>1, <3>1 DEF Statuses
    <3>3. \A j \in Keys, e \in Dirs :
            sources'[j][e].active => sources[j][e].active \/ (j = k /\ e = d)
      BY <2>1, <3>1 DEF Upserted, Tables
    <3> QED
      BY <3>2, <3>3
  <2>2. CASE status' = st /\ sources' = sources
    BY <2>2
  <2> QED
    BY <1>3, <2>1, <2>2 DEF on_fidelity_bond_seen
<1> QED
  BY <1>1, <1>2, <1>3 DEF entry_seen, on_order_seen

(* A cancellation adds no word.                                            *)
LEMMA CancelWords ==
  ASSUME Good, NEW k \in Keys, NEW d \in Dirs \cup {NoDir}, NEW st \in Statuses,
         on_order_cancel(k, d, st)
  PROVE  /\ \A j \in Keys, e \in Dirs : sources'[j][e].active => sources[j][e].active
         /\ status' = st
<1> USE DirsAssumption DEF Good, BookOK
<1>1. CASE d \in Dirs /\ PruneSources(Deactivated(sources, k, d))
  <2> DEFINE s1 == Deactivated(sources, k, d)
             s2 == PrunedSources(PrunedBook(book, s1, Keys), s1, Keys)
  <2>1. s1 \in Tables
    BY <1>1, TablesStay
  <2>2. \A j \in Keys, e \in Dirs : s1[j][e].active => sources[j][e].active
    BY <1>1, WordsAdded
  <2>3. sources' = s2 /\ d \in Dirs
    BY <1>1 DEF PruneSources
  <2> HIDE DEF s1
  <2>4. \A j \in Keys, e \in Dirs : s2[j][e].active => s1[j][e].active
    BY <2>1, <2>3, WordsAdded
  <2> HIDE DEF s2
  <2> QED
    BY <2>2, <2>3, <2>4 DEF on_order_cancel
<1>2. CASE sources' = [sources EXCEPT ![k] = [e \in Dirs |-> NoSrc]]
  BY <1>2, SourceFacts DEF on_order_cancel, Tables
<1> QED
  BY <1>1, <1>2 DEF on_order_cancel

(* The makers' messages.                                                   *)
LEMMA MakersWords ==
  ASSUME IInv, VouchInv, Makers
  PROVE  VouchInv'
<1> USE DEF IInv, linkUnchanged
<1>c. ASSUME NEW d \in Dirs
      PROVE  /\ Connected(d) \in Statuses
             /\ \A e \in Dirs : status[e] = "connected" => Connected(d)[e] = "connected"
  BY DEF Connected, Statuses, Good, BookOK
<1>h. ASSUME NEW n \in Nicks, NEW d \in Dirs, Heard(n, d)
      PROVE  /\ present'[n][d] = "in"
             /\ \A m \in Nicks, e \in Dirs : present'[m][e] = present[m][e] \/ present'[m][e] = "in"
  BY <1>h DEF Heard, RestOK
<1>1. ASSUME NEW d \in Dirs, NEW k \in Keys, PublicMessage(d, k)
      PROVE  VouchInv'
  <2>1. /\ UNCHANGED <<role, linked, hooks, pending, verifying>>
        /\ k[1] \in Nicks /\ Heard(k[1], d)
    BY <1>1, KeyFacts DEF PublicMessage, amqVars
  <2>2. ASSUME NEW t \in Texts, k \in Offers,
               on_order_seen(k, d, t \notin BadTexts, Connected(d))
        PROVE  VouchInv'
    <3>1. entry_seen(k, d, t, Connected(d))
      BY <2>2 DEF entry_seen
    <3> QED
      BY <2>1, <3>1, <1>c, <1>h, SeenWords, WordsFrame
  <2>3. ASSUME on_order_cancel(k, d, Connected(d))
        PROVE  VouchInv'
    BY <2>1, <2>3, <1>c, <1>h, CancelWords, WordsFrame
  <2>4. ASSUME status' = Connected(d), UNCHANGED <<book, sources>>
        PROVE  VouchInv'
    BY <2>1, <2>4, <1>c, <1>h, WordsFrame
  <2> QED
    BY <1>1, <2>2, <2>3, <2>4 DEF PublicMessage
<1>2. ASSUME NEW d \in Dirs, NEW k \in Keys, NEW t \in PrivateTexts,
             WatcherGetsPrivate(d, k, t)
      PROVE  VouchInv'
  <2>1. /\ UNCHANGED <<role, linked, hooks, pending, verifying>>
        /\ k[1] \in Nicks /\ Heard(k[1], d)
        /\ entry_seen(k, d, t, status) /\ status \in Statuses
    BY <1>2, KeyFacts DEF WatcherGetsPrivate, amqVars, Good, BookOK
  <2> QED
    BY <2>1, <1>h, SeenWords, WordsFrame
<1>3. ASSUME NEW k \in Keys, NEW t \in PrivateTexts, WatcherGetsDirect(k, t)
      PROVE  VouchInv'
  <2>1. /\ UNCHANGED <<role, linked, hooks, present, pending, verifying>>
        /\ entry_seen(k, NoDir, t, status) /\ status \in Statuses
    BY <1>3 DEF WatcherGetsDirect, linkVars, amqVars, Good, BookOK
  <2> QED
    BY <2>1, SeenWords, WordsFrame, DirsAssumption
<1>4. ASSUME NEW d \in Dirs \cup {NoDir}, NEW m \in Messages, on_privmsg(d, m)
      PROVE  VouchInv'
  <2>1. /\ UNCHANGED <<role, linked, hooks, sources>> /\ role = "daemon"
        /\ m.key[1] \in Nicks
    BY <1>4, KeyFacts DEF on_privmsg
  <2>2. CASE d \in linked /\ Heard(m.key[1], d) /\ status' = Connected(d)
    BY <2>1, <2>2, <1>c, <1>h, WordsFrame DEF RestOK
  <2>3. CASE UNCHANGED <<present, status>>
    BY <2>1, <2>3, WordsFrame
  <2> QED
    BY <1>4, <2>2, <2>3 DEF on_privmsg
<1>5. ASSUME NEW k \in Offers, UnsourcedCancel(k)
      PROVE  VouchInv'
  <2>1. /\ UNCHANGED <<role, linked, hooks, present, pending, verifying>>
        /\ on_order_cancel(k, NoDir, status) /\ status \in Statuses /\ k \in Keys
    BY <1>5, KeyFacts DEF UnsourcedCancel, linkVars, amqVars, Good, BookOK
  <2> QED
    BY <2>1, CancelWords, WordsFrame
<1>6. ASSUME NEW n \in Nicks, UnsourcedLeave(n)
      PROVE  VouchInv'
  <2>1. /\ UNCHANGED <<role, linked, hooks, present, pending, verifying, status>>
        /\ forget_nick(n, book, sources)
    BY <1>6 DEF UnsourcedLeave, linkVars, amqVars, forget_nick
  <2>2. \A j \in Keys, e \in Dirs : sources'[j][e].active => sources[j][e].active
    BY <2>1, SourceFacts DEF forget_nick
  <2> QED
    BY <2>1, <2>2, WordsFrame
<1> QED
  BY <1>1, <1>2, <1>3, <1>4, <1>5, <1>6 DEF Makers

(* Directories come, go and report departures.                             *)
LEMMA DirectoriesWords ==
  ASSUME IInv, VouchInv, Directories
  PROVE  VouchInv'
<1> USE DEF IInv, RestOK
<1>1. ASSUME NEW d \in Dirs, Connects(d)
      PROVE  VouchInv'
  <2>1. /\ linked' = linked \cup {d}
        /\ hooks' = Append(hooks, [dir |-> d, up |-> TRUE])
        /\ UNCHANGED <<role, verifying, sources, status>>
        /\ present' = [n \in Nicks |-> [e \in Dirs |->
             IF e = d /\ present[n][e] # "unknown" THEN "in" ELSE present[n][e]]]
    BY <1>1 DEF Connects, update_directory_map, amqVars, tableVars
  <2>2. /\ Len(hooks') = Len(hooks) + 1 /\ Len(hooks) \in Nat
        /\ \A i \in 1..Len(hooks) : hooks'[i] = hooks[i]
        /\ hooks'[Len(hooks')] = [dir |-> d, up |-> TRUE]
    BY <2>1
  <2>3. LinkedIsHeard'
    BY <2>1, <2>2 DEF VouchInv, LinkedIsHeard
  <2>4. WordIsOfPresent'
    BY <2>1, KeyFacts DEF VouchInv, WordIsOfPresent
  <2> QED
    BY <2>3, <2>4 DEF VouchInv
<1>2. ASSUME NEW d \in Dirs, Disconnects(d)
      PROVE  VouchInv'
  <2>1. /\ linked' = linked \ {d}
        /\ hooks' = hooks \/ hooks' = Append(hooks, [dir |-> d, up |-> FALSE])
        /\ UNCHANGED <<role, verifying, sources, status>>
        /\ present' = [n \in Nicks |-> [e \in Dirs |->
             IF e = d /\ present[n][e] # "unknown" THEN "out" ELSE present[n][e]]]
    BY <1>2 DEF Disconnects, update_directory_map, amqVars, tableVars
  <2>2. /\ Len(hooks') \in Nat /\ Len(hooks) \in Nat /\ Len(hooks) <= Len(hooks')
        /\ \A i \in 1..Len(hooks) : hooks'[i] = hooks[i]
        /\ \A i \in 1..Len(hooks') : i \in 1..Len(hooks) \/ hooks'[i].dir = d
    BY <2>1
  <2>3. LinkedIsHeard'
    <3>1. \A i \in 1..Len(hooks) : i \in 1..Len(hooks')
      BY <2>2
    <3>2. ASSUME NEW e \in linked', NEW i \in 1..Len(hooks'),
                 hooks'[i].dir = e, ~hooks'[i].up
          PROVE  \E j \in 1..Len(hooks') : i < j /\ hooks'[j].dir = e /\ hooks'[j].up
      <4>1. i \in 1..Len(hooks) /\ e \in linked /\ hooks[i] = hooks'[i]
        BY <2>1, <2>2, <3>2
      <4>2. PICK j \in 1..Len(hooks) : i < j /\ hooks[j].dir = e /\ hooks[j].up
        BY <3>2, <4>1 DEF VouchInv, LinkedIsHeard
      <4> QED
        BY <2>2, <3>1, <4>2
    <3>3. ASSUME NEW k \in Keys, NEW e \in linked', sources'[k][e].active
          PROVE  \/ status'[e] = "connected"
                 \/ \E j \in 1..Len(hooks') : hooks'[j].dir = e /\ hooks'[j].up
      <4>1. \/ status[e] = "connected"
            \/ \E j \in 1..Len(hooks) : hooks[j].dir = e /\ hooks[j].up
        BY <2>1, <3>3 DEF VouchInv, LinkedIsHeard
      <4> QED
        BY <2>1, <2>2, <3>1, <4>1
    <3> QED
      BY <3>2, <3>3 DEF LinkedIsHeard
  <2>4. WordIsOfPresent'
    BY <2>1, KeyFacts DEF VouchInv, WordIsOfPresent
  <2> QED
    BY <2>3, <2>4 DEF VouchInv
<1>3. ASSUME NEW d \in Dirs, NEW n \in Nicks, on_nick_leave_directory(d, n)
      PROVE  VouchInv'
  <2> DEFINE s1 == NickDeactivated(sources, n, d)
             b1 == PrunedBook(book, s1, Keys)
             s2 == PrunedSources(b1, s1, Keys)
  <2>1. /\ present' = [present EXCEPT ![n][d] = "out"]
        /\ UNCHANGED <<role, linked, hooks, verifying, status>>
    BY <1>3 DEF on_nick_leave_directory, linkUnchanged, amqVars, forget_nick
  <2>2. s1 \in Tables /\ sources \in Tables
    BY TablesStay DEF Good, BookOK
  <2>3. \A j \in Keys, e \in Dirs :
          s1[j][e].active => sources[j][e].active /\ ~(j[1] = n /\ e = d)
    BY SourceFacts DEF NickDeactivated
  <2>4. \/ sources' = s2
        \/ sources' = [k \in Keys |-> IF k \in OfNick(n) THEN [e \in Dirs |-> NoSrc] ELSE s2[k]]
    BY <1>3 DEF on_nick_leave_directory, PruneSources, forget_nick
  <2> HIDE DEF s1
  <2>5. \A j \in Keys, e \in Dirs : s2[j][e].active => s1[j][e].active
    BY <2>2, WordsAdded
  <2> HIDE DEF b1, s2
  <2>6. \A j \in Keys, e \in Dirs :
          sources'[j][e].active => sources[j][e].active /\ ~(j[1] = n /\ e = d)
    BY <2>3, <2>4, <2>5, SourceFacts
  <2>7. LinkedIsHeard'
    <3>1. \A j \in Keys, e \in Dirs : sources'[j][e].active => sources[j][e].active
      BY <2>6
    <3>2. LinkedIsHeard
      BY DEF VouchInv
    <3>3. linked' = linked /\ hooks' = hooks /\ status' = status
      BY <2>1
    <3> QED
      BY <3>1, <3>2, <3>3 DEF LinkedIsHeard
  <2>8. WordIsOfPresent'
    BY <2>1, <2>6, KeyFacts DEF VouchInv, WordIsOfPresent
  <2> QED
    BY <2>7, <2>8 DEF VouchInv
<1> QED
  BY <1>1, <1>2, <1>3 DEF Directories

(* A hook that runs sets the status its connection event asked for.        *)
LEMMA HookWords ==
  ASSUME IInv, VouchInv, HookFires
  PROVE  VouchInv'
<1> DEFINE H == [dir : Dirs, up : BOOLEAN]
<1>1. hooks \in Seq(H) /\ hooks # <<>> /\ hooks' = Tail(hooks)
  BY DEF HookFires, IInv, RestOK
<1>2. /\ hooks[1] = Head(hooks) /\ hooks[1] \in H
      /\ Len(hooks) \in Nat /\ Len(hooks') = Len(hooks) - 1
      /\ \A i \in 1..Len(hooks') : hooks'[i] = hooks[i + 1]
      /\ 1 \in 1..Len(hooks)
  <2> HIDE DEF H
  <2> QED
    BY <1>1
<1>3. /\ status' = [status EXCEPT ![hooks[1].dir] =
                      IF hooks[1].up THEN "connected" ELSE "disconnected"]
      /\ UNCHANGED <<role, linked, present, verifying, sources>>
  BY <1>2 DEF HookFires, set_status, amqVars
<1>4. status \in Statuses /\ linked \subseteq Dirs
  BY DEF IInv, Good, BookOK, RestOK
<1>5. \A i \in 2..Len(hooks) : i - 1 \in 1..Len(hooks') /\ hooks'[i - 1] = hooks[i]
  BY <1>2
<1>6. ASSUME NEW d \in linked, NEW i \in 1..Len(hooks'), hooks'[i].dir = d, ~hooks'[i].up
      PROVE  \E j \in 1..Len(hooks') : i < j /\ hooks'[j].dir = d /\ hooks'[j].up
  <2>1. i + 1 \in 1..Len(hooks) /\ hooks[i + 1].dir = d /\ ~hooks[i + 1].up
    BY <1>2, <1>6
  <2>2. PICK j \in 1..Len(hooks) : i + 1 < j /\ hooks[j].dir = d /\ hooks[j].up
    BY <2>1 DEF VouchInv, LinkedIsHeard
  <2>3. j - 1 \in 1..Len(hooks') /\ i < j - 1 /\ hooks'[j - 1] = hooks[j]
    BY <1>2, <1>5, <2>2
  <2> QED
    BY <2>2, <2>3
<1>7. ASSUME NEW k \in Keys, NEW d \in linked, sources[k][d].active
      PROVE  \/ status'[d] = "connected"
             \/ \E i \in 1..Len(hooks') : hooks'[i].dir = d /\ hooks'[i].up
  <2>1. CASE hooks[1].dir = d /\ hooks[1].up
    BY <1>3, <1>4, <2>1 DEF Statuses
  <2>2. CASE hooks[1].dir = d /\ ~hooks[1].up
    <3>1. PICK j \in 1..Len(hooks) : 1 < j /\ hooks[j].dir = d /\ hooks[j].up
      BY <1>2, <2>2 DEF VouchInv, LinkedIsHeard
    <3>2. j \in 2..Len(hooks)
      BY <1>2, <3>1
    <3> QED
      BY <1>5, <3>1, <3>2
  <2>3. CASE hooks[1].dir # d
    <3>1. CASE status[d] = "connected"
      BY <1>3, <1>4, <2>3, <3>1 DEF Statuses
    <3>2. CASE \E i \in 1..Len(hooks) : hooks[i].dir = d /\ hooks[i].up
      <4>1. PICK i \in 1..Len(hooks) : hooks[i].dir = d /\ hooks[i].up
        BY <3>2
      <4>2. i \in 2..Len(hooks)
        BY <1>2, <2>3, <4>1
      <4> QED
        BY <1>5, <4>1, <4>2
    <3> QED
      BY <1>7, <3>1, <3>2 DEF VouchInv, LinkedIsHeard
  <2> QED
    BY <2>1, <2>2, <2>3
<1>8. LinkedIsHeard'
  BY <1>3, <1>6, <1>7 DEF LinkedIsHeard
<1>9. WordIsOfPresent'
  BY <1>3 DEF VouchInv, WordIsOfPresent
<1> QED
  BY <1>8, <1>9 DEF VouchInv

(* A verified message counts as one of the directory it came by; nothing   *)
(* is ever being verified in the watcher.                                  *)
LEMMA VerifiedWords ==
  ASSUME IInv, VouchInv, on_verified_privmsg
  PROVE  VouchInv'
<1> DEFINE m == Head(verifying)
<1>1. m \in Messages
  BY DEF on_verified_privmsg, IInv, RestOK
<1>2. /\ entry_seen(m.key, pending[m], m.text, status)
      /\ UNCHANGED <<role, linked, hooks, present>> /\ verifying # <<>>
  BY DEF on_verified_privmsg, linkVars
<1> HIDE DEF m
<1>3. m.key \in Keys /\ pending[m] \in Dirs \cup {NoDir} /\ status \in Statuses
  BY <1>1, KeyFacts DEF IInv, RestOK, Good, BookOK
<1>4. role # "watcher"
  BY <1>2 DEF VouchInv, WordIsOfPresent
<1> QED
  BY <1>2, <1>3, <1>4, SeenWords, WordsFrame DEF IInv

(* Readers, the refresh thread and the clock add no word.                  *)
LEMMA ThreadWords ==
  ASSUME IInv, VouchInv, get_visible_rows \/ RefreshThread \/ Tick
  PROVE  VouchInv'
<1> USE DEF IInv
<1>1. CASE get_visible_rows \/ refresh_orderbook_once
  BY <1>1, WordsFrame DEF get_visible_rows, refresh_orderbook_once, linkVars, amqVars,
     tableVars
<1>2. CASE prune_stale_sources
  <2> DEFINE s1 == [k \in Keys |-> [d \in Dirs |->
                     IF Stale(sources, k, d) THEN Gone ELSE sources[k][d]]]
             s2 == PrunedSources(PrunedBook(book, s1, Keys), s1, Keys)
  <2>1. \A j \in Keys, e \in Dirs : s1[j][e].active => sources[j][e].active
    BY SourceFacts
  <2>2. \A j \in Keys, e \in Dirs : s2[j][e].active => s1[j][e].active
    BY SourceFacts DEF PrunedSources
  <2>3. sources' = s2 /\ UNCHANGED <<role, linked, hooks, present, verifying, status>>
    BY <1>2 DEF prune_stale_sources, PruneSources, linkVars, amqVars
  <2> HIDE DEF s1, s2
  <2> QED
    BY <2>1, <2>2, <2>3, WordsFrame
<1>3. CASE record_orderbook_request
  <2>1. \A e \in Dirs : status[e] = "connected" => status'[e] = "connected"
    BY <1>3 DEF record_orderbook_request, set_status, Good, BookOK, Statuses
  <2> QED
    BY <1>3, <2>1, WordsFrame DEF record_orderbook_request, linkVars, amqVars
<1>4. CASE Tick
  <2>1. ASSUME NEW src \in SourceRecs
        PROVE  Older(src).active = src.active
    BY SourceFacts DEF Older, SourceRecs, NoSrc
  <2>2. \A k \in Keys, d \in Dirs : sources'[k][d].active = sources[k][d].active
    BY <1>4, <2>1 DEF Tick, Good, BookOK, Tables
  <2> QED
    BY <1>4, <2>2, WordsFrame DEF Tick, linkVars, amqVars
<1> QED
  BY <1>1, <1>2, <1>3, <1>4 DEF RefreshThread

(* Who vouches stays in order at every step, and is at the start.          *)
LEMMA NextVouch ==
  /\ Init => VouchInv
  /\ IInv /\ VouchInv /\ [Next]_vars => VouchInv'
<1>1. Init => VouchInv
  BY SourceFacts DEF Init, VouchInv, LinkedIsHeard, WordIsOfPresent
<1>2. ASSUME IInv, VouchInv, [Next]_vars
      PROVE  VouchInv'
  <2>1. CASE UNCHANGED vars
    BY <1>2, <2>1, WordsFrame DEF vars, linkVars, amqVars, tableVars
  <2> QED
    BY <1>2, <2>1, MakersWords, DirectoriesWords, HookWords, VerifiedWords, ThreadWords
       DEF Next
<1> QED
  BY <1>1, <1>2

(* The invariant gives what the theorems state.                            *)
LEMMA IInvImplies == IInv => TypeOK /\ CacheIsView /\ VouchedIsInBook
BY DEF IInv, RestOK, Good, BookOK, TypeOK, Tables, Statuses

(* The tables, the cache, the queues and the refresh thread keep their     *)
(* types.                                                                  *)
THEOREM BookTypeCorrect ==
  ASSUME OnlyValidPrivate
  PROVE  Spec => []TypeOK
BY InitIInv, NextIInv, IInvImplies, PTL DEF Spec

(* Readers of the order book are never given rows that a query of the      *)
(* tables would not give (get_visible_orderbook_rows).                     *)
THEOREM CacheIsExact ==
  ASSUME OnlyValidPrivate
  PROVE  Spec => []CacheIsView
BY InitIInv, NextIInv, IInvImplies, PTL DEF Spec

(* No cancellation, departure or pruning takes from the book an entry for  *)
(* which a directory vouches (_prune_sources_locked).                      *)
THEOREM VouchedEntriesStay ==
  ASSUME OnlyValidPrivate
  PROVE  Spec => []VouchedIsInBook
BY InitIInv, NextIInv, IInvImplies, PTL DEF Spec

(* Once the delayed hooks have run, what a connected directory says of a   *)
(* maker that is there is visible, and in the watcher a directory's word   *)
(* is only kept for nicks that are there: record_directory_connected and   *)
(* its counterpart, on_nick_leave and the messages agree.                  *)
THEOREM VouchingFollowsLinks ==
  ASSUME OnlyValidPrivate
  PROVE  Spec => []VouchingIsCurrent
<1>1. IInv /\ VouchInv => VouchingIsCurrent
  <2> SUFFICES ASSUME IInv, VouchInv PROVE VouchingIsCurrent
    OBVIOUS
  <2>1. DepartedIsNotVouched
    BY DEF VouchInv, WordIsOfPresent, DepartedIsNotVouched, IInv, RestOK
  <2>2. VouchedIsVisible
    BY DEF VouchInv, LinkedIsHeard, VouchedIsVisible, View, IInv, RestOK, Good,
       VouchedIsInBook
  <2> QED
    BY <2>1, <2>2 DEF VouchingIsCurrent
<1> QED
  BY <1>1, InitIInv, NextIInv, NextVouch, PTL DEF Spec

(***************************************************************************)
(* The paced refresh of the watcher, which fills the book                  *)
(***************************************************************************)

(* A row has its time of the last request, whatever else it has.           *)
HasRequest(r) == "request" \in DOMAIN r

RequestKept ==
  /\ DOMAIN row' = Nodes
  /\ \A d \in Nodes : HasRequest(row'[d]) /\ row'[d].request = row[d].request

(* One thread is in a run.  What the table holds of a request is no older  *)
(* than the request, and a directory is on the way to be asked only when   *)
(* its cooldown is over, whatever was asked before the program was killed. *)
SpacedInv ==
  /\ DOMAIN row = Nodes /\ \A d \in Nodes : HasRequest(row[d])
  /\ \A d \in Nodes : row[d].request \in {Never} \cup 0..Cooled
  /\ sentAge \in [Nodes -> 0..Cooled]
  /\ DOMAIN proc = Threads
  /\ \A p, q \in Threads : p # q => proc[p].pc = "idle" \/ proc[q].pc = "idle"
  /\ \A d \in Nodes :
       IF row[d].request = Never THEN sentAge[d] = Cooled
                                         ELSE row[d].request <= sentAge[d]
  /\ \A p \in Threads, d \in Nodes :
       proc[p].pc \in {"record", "send"} /\ proc[p].dirs = {d} => sentAge[d] = Cooled
  /\ \A p \in Threads, d \in Nodes :
       proc[p].pc = "send" /\ proc[p].dirs = {d} => row[d].request = 0

(* Of the operators on a row, only record_request touches the request.     *)
LEMMA RequestStays ==
  ASSUME SpacedInv
  PROVE  /\ \A ds, b : mark_due_connected_directories(ds, b) => RequestKept
         /\ \A ds : mark_need_refresh(ds) => RequestKept
         /\ \A d \in Nodes : \A b : mark_connected(d, b) => RequestKept
         /\ \A r : HasRequest(r) =>
              \A q \in {Migrated(r), Responded(r), SendFailed(r)} :
                HasRequest(q) /\ q.request = r.request
<1> USE DEF HasRequest
<1>1. \A r : HasRequest(r) => LET q == AccountMissing(r)
                             IN  HasRequest(q) /\ q.request = r.request
  BY DEF AccountMissing
<1>2. \A r : HasRequest(r) =>
        \A q \in {Migrated(r), Responded(r), SendFailed(r)} :
          HasRequest(q) /\ q.request = r.request
  BY <1>1 DEF Migrated, Responded, SendFailed
<1>3. \A ds, b : mark_due_connected_directories(ds, b) => RequestKept
  BY DEF SpacedInv, RequestKept, mark_due_connected_directories, MarkedDue
<1>4. \A ds : mark_need_refresh(ds) => RequestKept
  BY DEF SpacedInv, RequestKept, mark_need_refresh
<1>5. \A d \in Nodes : \A b : mark_connected(d, b) => RequestKept
  BY DEF SpacedInv, RequestKept, mark_connected
<1> QED
  BY <1>2, <1>3, <1>4, <1>5

(* The threads before and after a step of thread p, which chooses nothing  *)
(* to ask: the others stay, and are not in a run if p is.                  *)
Passes(p) ==
  /\ DOMAIN proc' = Threads
  /\ \A q \in Threads \ {p} : proc'[q] = proc[q]
  /\ proc'[p].pc \in {"idle", "initialize", "select", "failed"}
  /\ proc'[p].pc = "idle" \/ \A q \in Threads \ {p} : proc[q].pc = "idle"

LEMMA RunPasses ==
  ASSUME SpacedInv, NEW p \in Threads, NEW pc \in {"idle", "initialize", "select", "failed"},
         NEW dirs, Goes(p, pc, dirs),
         pc = "idle" \/ proc[p].pc # "idle" \/ ~Locked
  PROVE  Passes(p)
BY DEF SpacedInv, Passes, Goes, At, Locked

LEMMA SpacedKept ==
  ASSUME SpacedInv, RequestKept, UNCHANGED sentAge,
         UNCHANGED proc \/ \E p \in Threads : Passes(p)
  PROVE  SpacedInv'
<1>1. CASE UNCHANGED proc
  BY <1>1 DEF SpacedInv, RequestKept
<1>2. ASSUME NEW p \in Threads, Passes(p)
      PROVE  SpacedInv'
  <2>1. \A q, r \in Threads : q # r => proc'[q].pc = "idle" \/ proc'[r].pc = "idle"
    BY <1>2 DEF SpacedInv, Passes
  <2>2. \A q \in Threads, d \in Nodes :
          proc'[q].pc \in {"record", "send"} /\ proc'[q].dirs = {d} => sentAge[d] = Cooled
    BY <1>2 DEF SpacedInv, Passes
  <2> QED
    BY <1>2, <2>1, <2>2 DEF SpacedInv, RequestKept, Passes
<1> QED
  BY <1>1, <1>2

LEMMA NextSpaced ==
  ASSUME SpacedInv, [RefreshNext]_refreshVars
  PROVE  SpacedInv'
<1> USE DEF outside
<1>0. /\ Cooled \in Nat /\ Never \in Int /\ Never < 0
      /\ UNCHANGED row => RequestKept
  BY RefreshAssumption DEF RefreshAssumption, Cooled, Never, SpacedInv, RequestKept
<1>1. CASE Start
  <2>1. RequestKept
    BY <1>1, RequestStays DEF Start, SpacedInv, RequestKept
  <2> QED
    BY <1>1, <2>1, SpacedKept DEF Start
<1>2. CASE Crash
  BY <1>2 DEF Crash, AllIdle, At, SpacedInv
<1>3. CASE Welcome
  BY <1>3, RequestStays, SpacedKept DEF Welcome
<1>4. CASE RefreshTick
  <2>1. \A p \in Threads : proc'[p].pc = "idle"
    BY <1>4 DEF RefreshTick, Locked
  <2>2. \A d \in Nodes : /\ HasRequest(row'[d])
                        /\ row'[d].request = Aged(row[d].request, Cooled)
    BY <1>4 DEF RefreshTick, RowOlder, SpacedInv, HasRequest
  <2>3. \A d \in Nodes : sentAge'[d] = Aged(sentAge[d], Cooled)
    BY <1>4 DEF RefreshTick
  <2>4. \A age \in {Never} \cup 0..Cooled :
          /\ Aged(age, Cooled) \in {Never} \cup 0..Cooled
          /\ age # Never => Aged(age, Cooled) \in 0..Cooled
          /\ age = Never <=> Aged(age, Cooled) = Never
    BY <1>0 DEF Aged
  <2>5. \A a, b \in 0..Cooled :
          a <= b => Aged(a, Cooled) <= Aged(b, Cooled)
    BY <1>0 DEF Aged
  <2>6. Aged(Cooled, Cooled) = Cooled
    BY DEF Aged
  <2>7. DOMAIN row' = Nodes /\ sentAge' \in [Nodes -> 0..Cooled] /\ UNCHANGED proc
    BY <1>0, <1>4, <2>3, <2>4 DEF RefreshTick, SpacedInv
  <2>8. \A d \in Nodes :
          IF row'[d].request = Never THEN sentAge'[d] = Cooled
                                             ELSE row'[d].request <= sentAge'[d]
    BY <1>0, <2>2, <2>3, <2>4, <2>5, <2>6 DEF SpacedInv
  <2> QED
    BY <2>1, <2>2, <2>4, <2>7, <2>8 DEF SpacedInv
<1>5. ASSUME NEW p \in Threads, InRun(p, "idle"), AcquireRunLock(p)
      PROVE  Passes(p)
  BY <1>5, RunPasses DEF AcquireRunLock, Ends, InRun
<1>6. CASE periodic_orderbook_refresh
  <2>1. Passes("periodic")
    BY <1>5, <1>6 DEF periodic_orderbook_refresh, Threads
  <2> QED
    BY <1>0, <1>6, <2>1, SpacedKept DEF periodic_orderbook_refresh, Threads
<1>7. CASE SingleRun
  <2>1. Passes("single")
    BY <1>5, <1>7 DEF SingleRun, Threads
  <2> QED
    BY <1>7, <2>1, RequestStays, SpacedKept DEF SingleRun, Threads
<1>8. CASE \E d \in Nodes : \/ DirectoryLinked(d) \/ DirectoryLost(d)
                           \/ DirectoryHook(d) \/ Response(d)
  <2>1. PICK d \in Nodes : \/ DirectoryLinked(d) \/ DirectoryLost(d)
                          \/ DirectoryHook(d) \/ Response(d)
    BY <1>8
  <2>2. CASE Response(d)
    <3>1. RequestKept
      BY <2>2, RequestStays DEF Response, RequestKept, SpacedInv
    <3> QED
      BY <2>2, <3>1, SpacedKept DEF Response, threadVars
  <2> QED
    BY <1>0, <2>1, <2>2, RequestStays, SpacedKept DEF DirectoryLinked, DirectoryLost,
       DirectoryHook, threadVars
<1>9. ASSUME NEW p \in Threads, RunStep(p)
      PROVE  SpacedInv'
  <2>1. CASE Initialize(p)
    <3>1. Passes(p)
      BY <2>1, RunPasses DEF Initialize, InRun
    <3> QED
      BY <2>1, <3>1, RequestStays, SpacedKept DEF Initialize
  <2>2. CASE Select(p)
    <3>1. RequestKept /\ UNCHANGED sentAge /\ proc[p].pc = "select"
      BY <2>2, RequestStays DEF Select, InRun
    <3>2. CASE Ends(p)
      BY <3>1, <3>2, RunPasses, SpacedKept DEF Ends
    <3>3. CASE ~Ends(p)
      <4>1. PICK d \in NextRefresh(connected, row') : Goes(p, "record", {d})
        BY <2>2, <3>3 DEF Select
      <4>2. Selectable(row'[d])
        BY <4>1 DEF NextRefresh
      <4>3. d \in Nodes => sentAge[d] = Cooled
        BY <1>0, <3>1, <4>2 DEF Selectable, SpacedInv, RequestKept
      <4>4. /\ proc'[p] = [pc |-> "record", dirs |-> {d}]
            /\ DOMAIN proc' = Threads
            /\ \A q \in Threads \ {p} : proc'[q] = proc[q] /\ proc[q].pc = "idle"
        BY <3>1, <4>1 DEF Goes, At, SpacedInv
      <4>5. \A q, r \in Threads : q # r => proc'[q].pc = "idle" \/ proc'[r].pc = "idle"
        BY <4>4
      <4>6. \A q \in Threads, e \in Nodes :
              proc'[q].pc \in {"record", "send"} /\ proc'[q].dirs = {e} => sentAge[e] = Cooled
        BY <4>3, <4>4 DEF SpacedInv
      <4> QED
        BY <3>1, <4>4, <4>5, <4>6 DEF SpacedInv, RequestKept
    <3> QED
      BY <3>2, <3>3
  <2>3. ASSUME NEW d \in Nodes, RecordRequest(p, d)
        PROVE  SpacedInv'
    <3>1. proc[p].pc = "record" /\ proc[p].dirs = {d} /\ UNCHANGED sentAge /\ sentAge[d] = Cooled
      BY <2>3 DEF RecordRequest, InRun, SpacedInv
    <3>2. /\ proc'[p] = [pc |-> "send", dirs |-> {d}]
          /\ DOMAIN proc' = Threads
          /\ \A q \in Threads \ {p} : proc'[q] = proc[q] /\ proc[q].pc = "idle"
      BY <2>3, <3>1 DEF RecordRequest, Goes, At, SpacedInv
    <3>3. \A r : HasRequest(r) => HasRequest(Requested(r)) /\ Requested(r).request = 0
      BY DEF Requested, AccountMissing, HasRequest
    <3>4. /\ DOMAIN row' = Nodes /\ row'[d].request = 0 /\ HasRequest(row'[d])
          /\ \A e \in Nodes \ {d} : row'[e] = row[e]
      BY <2>3, <3>3 DEF RecordRequest, SpacedInv
    <3>5. \A q, r \in Threads : q # r => proc'[q].pc = "idle" \/ proc'[r].pc = "idle"
      BY <3>2
    <3>6. \A q \in Threads, e \in Nodes :
            proc'[q].pc \in {"record", "send"} /\ proc'[q].dirs = {e} => sentAge[e] = Cooled
      BY <3>1, <3>2
    <3>7. \A e \in Nodes : row'[e].request \in {Never} \cup 0..Cooled
      BY <1>0, <3>4 DEF SpacedInv
    <3>8. \A e \in Nodes :
            IF row'[e].request = Never THEN sentAge[e] = Cooled
                                               ELSE row'[e].request <= sentAge[e]
      BY <1>0, <3>1, <3>4 DEF SpacedInv
    <3> QED
      BY <3>1, <3>2, <3>4, <3>5, <3>6, <3>7, <3>8 DEF SpacedInv
  <2>4. ASSUME NEW d \in Nodes, SendRequest(p, d)
        PROVE  SpacedInv'
    <3>1. proc[p].pc = "send" /\ proc[p].dirs = {d} /\ UNCHANGED row
      BY <2>4 DEF SendRequest, InRun
    <3>2. CASE Goes(p, "failed", {d}) /\ UNCHANGED sentAge
      BY <1>0, <3>1, <3>2, RunPasses, SpacedKept
    <3>3. CASE Ends(p) /\ sentAge' = [sentAge EXCEPT ![d] = 0]
      <4>1. \A q \in Threads : proc'[q].pc \notin {"record", "send"}
        BY <3>1, <3>3 DEF Ends, Goes, At, SpacedInv
      <4>2. Passes(p)
        BY <3>1, <3>3, RunPasses DEF Ends
      <4>3. \A q, r \in Threads : q # r => proc'[q].pc = "idle" \/ proc'[r].pc = "idle"
        BY <4>2 DEF SpacedInv, Passes
      <4>4. row[d].request = 0 /\ DOMAIN sentAge = Nodes
        BY <3>1 DEF SpacedInv
      <4>5. \A e \in Nodes :
              IF row'[e].request = Never THEN sentAge'[e] = Cooled
                                                 ELSE row'[e].request <= sentAge'[e]
        BY <1>0, <3>1, <3>3, <4>4 DEF SpacedInv
      <4>6. sentAge' \in [Nodes -> 0..Cooled]
        BY <1>0, <3>3 DEF SpacedInv
      <4> QED
        BY <3>1, <4>1, <4>2, <4>3, <4>5, <4>6 DEF SpacedInv, Passes
    <3> QED
      BY <2>4, <3>2, <3>3 DEF SendRequest
  <2>5. ASSUME NEW d \in Nodes, RecordSendFailure(p, d)
        PROVE  SpacedInv'
    <3>1. RequestKept
      BY <2>5, RequestStays DEF RecordSendFailure, RequestKept, SpacedInv
    <3>2. Passes(p)
      BY <2>5, RunPasses DEF RecordSendFailure, Ends
    <3> QED
      BY <2>5, <3>1, <3>2, SpacedKept DEF RecordSendFailure
  <2> QED
    BY <1>9, <2>1, <2>2, <2>3, <2>4, <2>5 DEF RunStep
<1>10. CASE UNCHANGED refreshVars
  BY <1>0, <1>10, SpacedKept DEF refreshVars, threadVars
<1> QED
  BY <1>1, <1>2, <1>3, <1>4, <1>6, <1>7, <1>8, <1>9, <1>10 DEF RefreshNext

(* AskedIsSpaced: no directory is asked twice within its cooldown, even if *)
(* the program was killed and restarted in between (record_request).       *)
THEOREM RefreshIsSpaced ==
  RefreshSpec => AskedIsSpaced
<1>1. RefreshInit => SpacedInv
  <2> SUFFICES ASSUME RefreshInit PROVE SpacedInv
    OBVIOUS
  <2>0. \A r \in {NewRow, PassiveRow} : HasRequest(r) /\ r.request = Never
    <3>1. HasRequest(NewRow) /\ NewRow.request = Never
      BY DEF NewRow, HasRequest
    <3>2. HasRequest(PassiveRow) /\ PassiveRow.request = NewRow.request
      BY <3>1 DEF PassiveRow, HasRequest
    <3> QED
      BY <3>1, <3>2
  <2>1. /\ DOMAIN row = Nodes
        /\ \A d \in Nodes : HasRequest(row[d]) /\ row[d].request = Never
    BY <2>0 DEF RefreshInit
  <2>2. Cooled \in Nat
    BY RefreshAssumption DEF RefreshAssumption, Cooled
  <2> QED
    BY <2>1, <2>2 DEF RefreshInit, AllIdle, At, SpacedInv
<1>2. SpacedInv /\ [RefreshNext]_refreshVars => SpacedInv'
  BY NextSpaced
<1>3. SpacedInv /\ [RefreshNext]_refreshVars =>
        [\A d \in Nodes : Asks(d) => sentAge[d] > Cooldown]_refreshVars
  BY RefreshAssumption DEF SpacedInv, Asks, At, Cooled, RefreshAssumption
<1> QED
  BY <1>1, <1>2, <1>3, PTL DEF RefreshSpec, AskedIsSpaced
=============================================================================
