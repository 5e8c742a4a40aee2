----------------------------- MODULE WalletFile -----------------------------
(***************************************************************************)
(* The wallet file and its lock (storage.py), with the part of a wallet    *)
(* that is saved: the next index of each branch, the frozen coins and the  *)
(* imported keys.  The saved list of coins is left out: the first sync     *)
(* replaces it.                                                            *)
(*                                                                         *)
(* One program uses the file.  It may be killed at any point; a save goes  *)
(* to a temporary file that is then moved over the wallet file, so that a  *)
(* kill leaves the last complete save behind.  Only the first write of a   *)
(* new file, which holds no wallet yet, is not protected that way.         *)
(***************************************************************************)
EXTENDS BitcoinCore

VARIABLES
  disk,         \* the content of the wallet file
  lock          \* the lock file exists

fileVars == <<disk, lock>>

Nothing == [index |-> [b \in Branches |-> 0], frozen |-> {}, imported |-> {}]

DiskRecord == [kind : {"absent", "empty", "wallet"},
               index : [Branches -> 0 .. MaxIndex + GapLimit],
               frozen : SUBSET Txs,
               imported : SUBSET Tweaks]

FileInit ==
  /\ disk = [kind |-> "absent", index |-> Nothing.index,
             frozen |-> {}, imported |-> {}]
  /\ lock = FALSE

\* _save_file through _write_file: the file holds data, all of it.
save_file(data) ==
  disk' = [kind |-> "wallet", index |-> data.index,
           frozen |-> data.frozen, imported |-> data.imported]

\* Storage(path, password, create=True): an empty dictionary is written, then
\* the lock is made; an existing file is refused.
Storage_create ==
  /\ disk.kind = "absent"
  /\ disk' = [disk EXCEPT !.kind = "empty"]
  /\ ~lock
  /\ lock' = TRUE

\* Storage(path, password): the file is loaded, then the lock is made; a lock
\* that is there already is an error.
Storage_open ==
  /\ disk.kind # "absent"
  /\ ~lock
  /\ lock' = TRUE
  /\ UNCHANGED disk

\* close, from stopService, atexit or __del__: the data that changed since the
\* last save is the key cache only, as Wallet.save alone writes the rest.
Storage_close ==
  /\ lock' = FALSE
  /\ UNCHANGED disk

\* The program is killed: the lock file stays.
Storage_killed == UNCHANGED <<disk, lock>>

\* verify_lock tells the user to remove a leftover lock by hand.
RemoveLock ==
  /\ lock
  /\ lock' = FALSE
  /\ UNCHANGED disk

FileTypeOK ==
  /\ disk \in DiskRecord
  /\ lock \in BOOLEAN
=============================================================================
