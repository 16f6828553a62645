-------------------------------- MODULE Restore -------------------------------
(***************************************************************************)
(* The `backup` and `restore` commands of clavenar-lite (src/src/main.rs)  *)
(* on the file of the ledger, with the proxy that writes it.               *)
(*                                                                         *)
(* A database file is the sequence of the rows it holds; an empty file is  *)
(* a database without rows, since Ledger::open creates the schema.  SQLite *)
(* keeps committed rows in a journal next to the main file until they are  *)
(* checkpointed; the journal stands for the rows one reads through it.     *)
(*                                                                         *)
(* A command is a sequence of file operations, each of which may fail, and *)
(* the command may be killed between any two of them.  Commands run one at *)
(* a time; as README.md:425 recommends, the proxy is stopped for a         *)
(* restore.  Damage stands for what may befall a file at rest.             *)
(***************************************************************************)
EXTENDS Chain

CONSTANTS
    MaxRows,       \* bound: rows the proxy ever appends
    Missing,       \* there is no such file
    Unreadable     \* a file that is no database

ASSUME RestoreAssumption ==
    /\ MaxRows \in Nat
    /\ Missing \notin Files /\ Unreadable \notin Files /\ Missing # Unreadable

VARIABLES
    main,          \* the main file of the ledger
    wal,           \* its journal: Missing, or the committed rows
    proxy,         \* "up" or "down"
    snapshot,      \* the file that backup writes and restore reads
    tmp,           \* the sibling file of restore
    step,          \* what the running command does next; "none" without one
    command,       \* the running or the last command
    code,          \* "exit0", "exit1", "exit2", "running" or "killed"
    written,       \* rows appended so far; the next one's body
    before,        \* history: ledger and journal when the command began
    harm           \* history: what befell the snapshot since its backup

fileVars == <<main, wal, snapshot, tmp>>
commandVars == <<step, command, code>>
historyVars == <<before, harm>>
vars == <<fileVars, proxy, commandVars, written, historyVars>>

NoHarm == [kind |-> "none", at |-> 0]

TypeOK ==
    /\ main \in Files \cup {Missing}
    /\ wal \in Files \cup {Missing}
    /\ snapshot \in Files \cup {Missing, Unreadable}
    /\ tmp \in Files \cup {Missing, Unreadable}
    /\ proxy \in {"up", "down"}
    /\ step \in {"none", "backup_copy", "backup_verify", "restore_copy",
                 "restore_journal", "restore_rename", "restore_reverify"}
    /\ command \in {"none", "backup", "restore"}
    /\ code \in {"exit0", "exit1", "exit2", "running", "killed"}
    /\ written \in Nat
    /\ before \in [ledger : Files \cup {Missing}, journal : BOOLEAN]
    /\ harm \in [kind : {"none", "unreadable", "altered", "newer", "lost"}, at : Nat]

(* What one reads who opens the ledger.                                    *)
Committed == IF wal = Missing THEN main ELSE wal

Readable(file) == file \notin {Missing, Unreadable}

Init ==
    /\ main = Missing /\ wal = Missing /\ proxy = "down"
    /\ snapshot = Missing /\ tmp = Missing
    /\ step = "none" /\ command = "none" /\ code = "running"
    /\ written = 0
    /\ before = [ledger |-> Missing, journal |-> FALSE]
    /\ harm = NoHarm

------------------------------------------------------------------------------
(* The proxy.                                                              *)

Restoring == step # "none" /\ command = "restore"

StartProxy ==
    /\ proxy = "down" /\ ~Restoring
    /\ proxy' = "up"
    /\ wal' = IF Committed = Missing THEN <<>> ELSE Committed
    /\ main' = IF main = Missing THEN <<>> ELSE main
    /\ command' = IF step = "none" THEN "none" ELSE command
    /\ UNCHANGED <<snapshot, tmp, step, code, written, historyVars>>

AppendEntry ==
    /\ proxy = "up" /\ written < MaxRows
    /\ wal' = Appended(wal, written + 1)
    /\ written' = written + 1
    /\ UNCHANGED <<main, snapshot, tmp, proxy, commandVars, historyVars>>

Checkpoint ==
    /\ proxy = "up" /\ main # wal
    /\ main' = wal
    /\ UNCHANGED <<wal, snapshot, tmp, proxy, commandVars, written, historyVars>>

(* Killed or stopped by ctrl-c: main ends in process::exit while the       *)
(* reconciler task still holds the ledger, so no connection is closed and  *)
(* the journal stays.                                                      *)
StopProxy ==
    /\ proxy = "up"
    /\ proxy' = "down"
    /\ UNCHANGED <<fileVars, commandVars, written, historyVars>>

------------------------------------------------------------------------------
(* Every command.                                                          *)

Begin(name) ==
    /\ command' = name
    /\ before' = [ledger |-> Committed, journal |-> wal \notin {Missing, main}]

Goto(next) == step' = next /\ UNCHANGED <<command, code>>

Exit(n) == step' = "none" /\ code' = n /\ UNCHANGED command

(* A copy that is cut off leaves a part of the file.                       *)
KillCommand ==
    /\ step # "none"
    /\ step' = "none" /\ code' = "killed"
    /\ tmp' \in IF step = "restore_copy" THEN {tmp, Unreadable} ELSE {tmp}
    /\ UNCHANGED <<main, wal, snapshot, proxy, command, written, historyVars>>

------------------------------------------------------------------------------
(* run_backup.                                                             *)

(* The ledger's connection closes with the command; the last one to close  *)
(* checkpoints and removes the journal.                                    *)
CloseLedger ==
    IF proxy = "down" THEN main' = Committed /\ wal' = Missing ELSE UNCHANGED <<main, wal>>

(* There is no source, or it cannot be opened.                             *)
BackupWithoutSource ==
    /\ step = "none"
    /\ Begin("backup")
    /\ step' = "none" /\ code' = "exit1"
    /\ UNCHANGED <<fileVars, proxy, written, harm>>

(* backup_to removes the old snapshot and opens a new, empty one.          *)
BackupStart ==
    /\ step = "none" /\ main # Missing
    /\ Begin("backup")
    /\ step' = "backup_copy" /\ code' = "running"
    /\ snapshot' = <<>> /\ harm' = NoHarm
    /\ UNCHANGED <<main, wal, tmp, proxy, written>>

(* Variant: the main file is copied as it lies on disk.                    *)
BackupMainFile ==
    /\ step = "backup_copy"
    /\ snapshot' = main
    /\ Goto("backup_verify")
    /\ UNCHANGED <<main, wal, tmp, proxy, written, before, harm>>

(* The online backup starts over when the proxy writes in between, and     *)
(* commits all pages at once; one that fails is removed.                   *)
BackupCopy ==
    /\ step = "backup_copy"
    /\ \/ /\ snapshot' = Committed
          /\ Goto("backup_verify")
          /\ UNCHANGED <<main, wal>>
       \/ /\ snapshot' = Missing
          /\ Exit("exit1")
          /\ CloseLedger
    /\ UNCHANGED <<tmp, proxy, written, before, harm>>

(* A snapshot that does not verify is not left on disk; one that cannot be *)
(* opened (exit2) or walked (exit1) is.                                    *)
BackupVerify ==
    /\ step = "backup_verify"
    /\ \/ Verify(snapshot).valid /\ Exit("exit0") /\ UNCHANGED snapshot
       \/ ~Verify(snapshot).valid /\ Exit("exit2") /\ snapshot' = Missing
       \/ \E failure \in {"exit1", "exit2"} : Exit(failure) /\ UNCHANGED snapshot
    /\ CloseLedger
    /\ UNCHANGED <<tmp, proxy, written, historyVars>>

------------------------------------------------------------------------------
(* run_restore.                                                            *)

(* Variant: the chain is verified after the restore only.                  *)
RestoreUnverified(force) ==
    /\ step = "none" /\ proxy = "down"
    /\ Begin("restore")
    /\ \/ ~Readable(snapshot) /\ step' = "none" /\ code' = "exit1"
       \/ /\ Readable(snapshot)
          /\ main = Missing \/ force
          /\ step' = "restore_copy" /\ code' = "running"
    /\ UNCHANGED <<fileVars, proxy, written, harm>>

(* All that is checked before anything is touched.  A snapshot that is not *)
(* there, or that cannot be opened or walked, exits 1.                     *)
RestoreCheck(force) ==
    /\ step = "none" /\ proxy = "down"
    /\ Begin("restore")
    /\ \/ step' = "none" /\ code' = "exit1"
       \/ /\ Readable(snapshot) /\ ~Verify(snapshot).valid
          /\ step' = "none" /\ code' = "exit2"
       \/ /\ Readable(snapshot) /\ Verify(snapshot).valid
          /\ main # Missing /\ ~force
          /\ step' = "none" /\ code' = "exit1"
       \/ /\ Readable(snapshot) /\ Verify(snapshot).valid
          /\ main = Missing \/ force
          /\ step' = "restore_copy" /\ code' = "running"
    /\ UNCHANGED <<fileVars, proxy, written, harm>>

(* Variant: the snapshot is copied onto the target itself.                 *)
RestoreCopyInPlace ==
    /\ step = "restore_copy"
    /\ \/ main' = snapshot /\ Goto("restore_journal")
       \/ main' = <<>> /\ Exit("exit1")
    /\ UNCHANGED <<wal, snapshot, tmp, proxy, written, historyVars>>

RestoreCopy ==
    /\ step = "restore_copy"
    /\ \/ tmp' = snapshot /\ Goto("restore_journal")
       \/ tmp' = Missing /\ Exit("exit1")
    /\ UNCHANGED <<main, wal, snapshot, proxy, written, historyVars>>

(* Variant: the journal of the old ledger stays.                           *)
RestoreJournalKept ==
    /\ step = "restore_journal"
    /\ Goto("restore_rename")
    /\ UNCHANGED <<fileVars, proxy, written, historyVars>>

(* The journal of the old ledger goes before the old ledger does.          *)
RestoreJournal ==
    /\ step = "restore_journal"
    /\ wal' = Missing
    /\ Goto("restore_rename")
    /\ UNCHANGED <<main, snapshot, tmp, proxy, written, historyVars>>

RestoreRename ==
    /\ step = "restore_rename"
    /\ \/ main' = tmp /\ Goto("restore_reverify")
       \/ UNCHANGED main /\ Exit("exit1")
    /\ tmp' = Missing
    /\ UNCHANGED <<wal, snapshot, proxy, written, historyVars>>

(* The restored file may fail to reopen (exit2) or to be walked (exit1).   *)
RestoreReverify ==
    /\ step = "restore_reverify"
    /\ \/ Verify(Committed).valid /\ Exit("exit0")
       \/ ~Verify(Committed).valid /\ Exit("exit2")
       \/ \E failure \in {"exit1", "exit2"} : Exit(failure)
    /\ UNCHANGED <<fileVars, proxy, written, historyVars>>

------------------------------------------------------------------------------
(* Damage to files at rest.                                                *)

(* What row n of a file may suffer: a changed body, a newer chain version, *)
(* or its loss.                                                            *)
Damaged(rows, kind, n) ==
    CASE kind = "altered" -> [rows EXCEPT ![n].body = 0]
      [] kind = "newer"   -> [rows EXCEPT ![n].chain_version = 2]
      [] kind = "lost"    -> RemoveAt(rows, n)

DamageSnapshot ==
    /\ step = "none" /\ Readable(snapshot)
    /\ harm = NoHarm /\ Verify(snapshot).valid
    /\ \/ /\ snapshot' = Unreadable
          /\ harm' = [kind |-> "unreadable", at |-> 0]
       \/ \E n \in DOMAIN snapshot : \E kind \in {"altered", "newer", "lost"} :
              /\ snapshot' = Damaged(snapshot, kind, n)
              /\ harm' = [kind |-> kind, at |-> n]
    /\ command' = "none"
    /\ UNCHANGED <<main, wal, tmp, proxy, step, code, written, before>>

DamageLedger ==
    /\ step = "none" /\ proxy = "down" /\ wal = Missing
    /\ Readable(main) /\ main # <<>>
    /\ main' = Damaged(main, "altered", 1)
    /\ command' = "none"
    /\ UNCHANGED <<wal, snapshot, tmp, proxy, step, code, written, historyVars>>

------------------------------------------------------------------------------
Next ==
    \/ StartProxy \/ AppendEntry \/ Checkpoint \/ StopProxy
    \/ BackupWithoutSource \/ BackupStart \/ BackupCopy \/ BackupVerify
    \/ \E force \in BOOLEAN : RestoreCheck(force)
    \/ RestoreCopy \/ RestoreJournal \/ RestoreRename \/ RestoreReverify
    \/ KillCommand \/ DamageSnapshot \/ DamageLedger

Spec == Init /\ [][Next]_vars

------------------------------------------------------------------------------
(* main.rs:1149-1171, ledger.rs:353: a backup that exits 0 holds every row *)
(* committed before it began, and no row but those of the ledger, although *)
(* the proxy writes and checkpoints meanwhile.                             *)
BackupIsConsistent ==
    command = "backup" /\ code = "exit0" =>
        /\ IsPrefix(before.ledger, snapshot)
        /\ IsPrefix(snapshot, Committed)

(* main.rs:1263-1284: a restore that exits 0 leaves exactly the snapshot,  *)
(* read through whatever journal lies next to it.                          *)
SuccessIsTheSnapshot ==
    command = "restore" /\ code = "exit0" => Committed = snapshot

(* main.rs:1196: "An invalid snapshot never lands on disk."  Whatever a    *)
(* restore puts in place of the ledger verifies.                           *)
OnlyValidSnapshotsLand ==
    [][Restoring /\ main' # main => Verify(main').valid]_vars

(* main.rs:1229: "partial writes on copy failure don't leave the target in *)
(* a broken state".  A ledger whose journal was checkpointed when the      *)
(* restore began is read as before or as the snapshot at every moment,     *)
(* whatever step fails or is cut off.                                      *)
CleanRestoreIsAtomic ==
    command = "restore" /\ ~before.journal =>
        Committed \in {before.ledger, snapshot}

(* main.rs:1229: "Atomic copy via std::fs::copy + rename onto target."     *)
(* Once the command has ended, the same of every ledger, one whose journal *)
(* the stopped proxy left behind included.                                 *)
RestoreIsAtomic ==
    command = "restore" /\ step = "none" => Committed \in {before.ledger, snapshot}

(* README.md:668, ledger.rs:738: verify distinguishes "a newer-version     *)
(* row" from "an actual tamper (point at the first bad seq)".  One harmed  *)
(* row of a sound snapshot is located; only the loss of the last rows      *)
(* leaves a sound chain.                                                   *)
VerifierLocatesHarm ==
    Readable(snapshot) /\ harm # NoHarm =>
        LET found == Verify(snapshot) IN
        CASE harm.kind = "altered" -> /\ found.first_invalid_seq = harm.at
                                      /\ found.entries_checked = harm.at - 1
          [] harm.kind = "newer"   -> /\ found.unsupported_chain_version = 2
                                      /\ found.first_invalid_seq = 0
                                      /\ found.entries_checked = harm.at - 1
          [] harm.kind = "lost"    -> IF harm.at > Len(snapshot) THEN found.valid
                                      ELSE found.first_invalid_seq = harm.at + 1

===============================================================================
