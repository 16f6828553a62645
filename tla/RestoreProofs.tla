----------------------------- MODULE RestoreProofs ----------------------------
(***************************************************************************)
(* Proofs about backup and restore, for ledgers of any length: what exit   *)
(* code 0 means, that a restore is atomic, that only a snapshot that       *)
(* verifies is put in place, and that the verifier locates a harmed row.   *)
(***************************************************************************)
EXTENDS Restore, SequenceTheorems, FiniteSetTheorems, TLAPS

(* What runs with what, and that an open ledger has its files.             *)
Backups == {"backup_copy", "backup_verify"}
Restores == {"restore_copy", "restore_journal", "restore_rename", "restore_reverify"}

OneCommand ==
    /\ step \in Backups => command = "backup" /\ main # Missing /\ harm = NoHarm
    /\ step \in Restores => command = "restore" /\ snapshot \in Files
    /\ step \in {"restore_journal", "restore_rename"} => tmp = snapshot
    /\ step # "none" => code = "running"
    /\ command = "restore" => proxy = "down"
    /\ proxy = "up" => wal # Missing /\ main # Missing
    /\ wal # Missing => main # Missing

CommandInv == TypeOK /\ OneCommand

------------------------------------------------------------------------------
(* Files.                                                                  *)

(* ledger.rs:1430-1440: what is hashed determines seq and body.            *)
LEMMA HashIsInjective ==
  ASSUME NEW p \in Hashes, NEW q \in Hashes,
         NEW m \in Nat, NEW n \in Nat, NEW b \in Nat, NEW c \in Nat,
         Append(Append(p, m), b) = Append(Append(q, n), c)
  PROVE  p = q /\ m = n /\ b = c
  <1>1. p \in Seq(Nat) /\ q \in Seq(Nat)
    BY DEF Hashes
  <1>2. PICK s \in Seq(Nat) : s = Append(p, m)
    BY <1>1, AppendProperties
  <1>3. PICK t \in Seq(Nat) : t = Append(q, n)
    BY <1>1, AppendProperties
  <1>4. Append(s, b) = Append(t, c)
    BY <1>2, <1>3
  <1>5. s = t /\ b = c
    BY <1>4, AppendInjective
  <1>6. Append(p, m) = Append(q, n)
    BY <1>2, <1>3, <1>5
  <1> QED
    BY <1>1, <1>5, <1>6, AppendInjective

LEMMA HashType ==
  ASSUME NEW p \in Hashes, NEW n \in Nat, NEW b \in Nat
  PROVE  Append(Append(p, n), b) \in Hashes /\ Append(Append(p, n), b) # GENESIS_PREV_HASH
  <1>1. Append(p, n) \in Seq(Nat)
    BY AppendProperties DEF Hashes
  <1> QED
    BY <1>1, AppendProperties DEF Hashes, GENESIS_PREV_HASH

(* ledger.rs:1151-1202: the appended row, and the file that has it.        *)
LEMMA LinkedRowType ==
  ASSUME NEW n \in Nat, NEW b \in Nat, NEW p \in Hashes
  PROVE  /\ LinkedRow(n, b, p) \in Row
         /\ LinkedRow(n, b, p).seq = n
         /\ LinkedRow(n, b, p).chain_version = CURRENT_CHAIN_VERSION
         /\ LinkedRow(n, b, p).entry_hash = Append(Append(p, n), b)
  <1>1. PICK h \in Hashes : h = Append(Append(p, n), b)
    BY HashType
  <1>2. LinkedRow(n, b, p)
          = [seq |-> n, body |-> b, prev_hash |-> p,
             chain_version |-> CURRENT_CHAIN_VERSION, entry_hash |-> h]
    BY <1>1 DEF LinkedRow, EntryHash
  <1>3. CURRENT_CHAIN_VERSION \in Nat
    BY DEF CURRENT_CHAIN_VERSION
  <1> QED
    BY <1>1, <1>2, <1>3 DEF Row

LEMMA AppendedIs ==
  ASSUME NEW rows \in Files, NEW b \in Nat
  PROVE  \E n \in Nat, p \in Hashes :
            /\ Appended(rows, b) = Append(rows, LinkedRow(n, b, p))
            /\ n = IF rows = <<>> THEN 1 ELSE rows[Len(rows)].seq + 1
  <1>1. CASE rows = <<>>
    <2>1. GENESIS_PREV_HASH \in Hashes
      BY DEF GENESIS_PREV_HASH, Hashes
    <2> QED
      BY <1>1, <2>1 DEF Appended, GENESIS_PREV_HASH
  <1>2. CASE rows # <<>>
    <2>1. Len(rows) \in 1 .. Len(rows)
      BY <1>2, EmptySeq, LenProperties DEF Files
    <2>2. rows[Len(rows)] \in Row
      BY <2>1, ElementOfSeq DEF Files
    <2>3. rows[Len(rows)].seq + 1 \in Nat /\ rows[Len(rows)].entry_hash \in Hashes
      BY <2>2 DEF Row
    <2>4. Appended(rows, b)
            = Append(rows, LinkedRow(rows[Len(rows)].seq + 1, b, rows[Len(rows)].entry_hash))
      BY <1>2 DEF Appended, Last
    <2> QED
      BY <1>2, <2>3, <2>4
  <1> QED
    BY <1>1, <1>2

LEMMA AppendedType ==
  ASSUME NEW rows \in Files, NEW b \in Nat
  PROVE  Appended(rows, b) \in Files
  <1>1. PICK n \in Nat, p \in Hashes : Appended(rows, b) = Append(rows, LinkedRow(n, b, p))
    BY AppendedIs
  <1>2. LinkedRow(n, b, p) \in Row
    BY LinkedRowType
  <1> QED
    BY <1>1, <1>2, AppendProperties DEF Files

(* A file and its prefixes.                                                *)
LEMMA PrefixReflexive == ASSUME NEW s \in Files PROVE IsPrefix(s, s)
  BY LenProperties DEF IsPrefix, Files

LEMMA PrefixOfAppended ==
  ASSUME NEW s \in Files, NEW t \in Files, NEW b \in Nat, IsPrefix(s, t)
  PROVE  IsPrefix(s, Appended(t, b))
  <1>1. PICK row \in Row : Appended(t, b) = Append(t, row)
    <2>1. PICK n \in Nat, p \in Hashes : Appended(t, b) = Append(t, LinkedRow(n, b, p))
      BY AppendedIs
    <2>2. LinkedRow(n, b, p) \in Row
      BY LinkedRowType
    <2> QED
      BY <2>1, <2>2
  <1>2. /\ Append(t, row) \in Seq(Row) /\ Len(Append(t, row)) = Len(t) + 1
        /\ \A i \in 1 .. Len(t) : Append(t, row)[i] = t[i]
    BY AppendProperties DEF Files
  <1>3. Len(s) \in Nat /\ Len(t) \in Nat /\ Len(s) <= Len(t)
    BY LenProperties DEF Files, IsPrefix
  <1>4. SubSeq(Append(t, row), 1, Len(s)) = SubSeq(t, 1, Len(s))
    BY <1>2, <1>3 DEF Files
  <1> QED
    BY <1>1, <1>2, <1>3, <1>4 DEF IsPrefix

(* A row that is altered, made newer, or lost.                             *)
LEMMA AlteredIs ==
  ASSUME NEW rows \in Files, NEW n \in 1 .. Len(rows)
  PROVE  /\ Damaged(rows, "altered", n) \in Files
         /\ Len(Damaged(rows, "altered", n)) = Len(rows)
         /\ \A k \in 1 .. Len(rows) : k # n => Damaged(rows, "altered", n)[k] = rows[k]
         /\ Damaged(rows, "altered", n)[n] = [rows[n] EXCEPT !.body = 0]
  <1>1. rows \in Seq(Row) /\ rows[n] \in Row /\ n \in DOMAIN rows
    BY ElementOfSeq, LenProperties DEF Files
  <1>2. PICK row \in Row : row = [rows[n] EXCEPT !.body = 0]
    BY <1>1 DEF Row
  <1>3. Damaged(rows, "altered", n) = [rows EXCEPT ![n] = row]
    BY <1>2 DEF Damaged
  <1>4. [rows EXCEPT ![n] = row] \in Seq(Row) /\ Len([rows EXCEPT ![n] = row]) = Len(rows)
    BY <1>1, ExceptSeq
  <1>5. \A k \in 1 .. Len(rows) :
           [rows EXCEPT ![n] = row][k] = IF k = n THEN row ELSE rows[k]
    BY <1>1, LenProperties
  <1> QED
    BY <1>2, <1>3, <1>4, <1>5 DEF Files

LEMMA NewerIs ==
  ASSUME NEW rows \in Files, NEW n \in 1 .. Len(rows)
  PROVE  /\ Damaged(rows, "newer", n) \in Files
         /\ Len(Damaged(rows, "newer", n)) = Len(rows)
         /\ \A k \in 1 .. Len(rows) : k # n => Damaged(rows, "newer", n)[k] = rows[k]
         /\ Damaged(rows, "newer", n)[n] = [rows[n] EXCEPT !.chain_version = 2]
  <1>1. rows \in Seq(Row) /\ rows[n] \in Row /\ n \in DOMAIN rows
    BY ElementOfSeq, LenProperties DEF Files
  <1>2. PICK row \in Row : row = [rows[n] EXCEPT !.chain_version = 2]
    BY <1>1 DEF Row
  <1>3. Damaged(rows, "newer", n) = [rows EXCEPT ![n] = row]
    BY <1>2 DEF Damaged
  <1>4. [rows EXCEPT ![n] = row] \in Seq(Row) /\ Len([rows EXCEPT ![n] = row]) = Len(rows)
    BY <1>1, ExceptSeq
  <1>5. \A k \in 1 .. Len(rows) :
           [rows EXCEPT ![n] = row][k] = IF k = n THEN row ELSE rows[k]
    BY <1>1, LenProperties
  <1> QED
    BY <1>2, <1>3, <1>4, <1>5 DEF Files

LEMMA LostIs ==
  ASSUME NEW rows \in Files, NEW n \in 1 .. Len(rows)
  PROVE  /\ Damaged(rows, "lost", n) \in Files
         /\ Len(Damaged(rows, "lost", n)) = Len(rows) - 1
         /\ \A k \in 1 .. Len(rows) - 1 :
               Damaged(rows, "lost", n)[k] = IF k < n THEN rows[k] ELSE rows[k + 1]
  <1>1. rows \in Seq(Row) /\ Len(rows) \in Nat /\ n \in Nat /\ 1 <= n /\ n <= Len(rows)
    BY LenProperties DEF Files
  <1>2. \A k \in 1 .. Len(rows) : rows[k] \in Row
    BY <1>1, ElementOfSeq
  <1>3. PICK s : s = SubSeq(rows, 1, n - 1)
    OBVIOUS
  <1>4. PICK t : t = SubSeq(rows, n + 1, Len(rows))
    OBVIOUS
  <1>5. /\ s \in Seq(Row) /\ Len(s) = n - 1
        /\ \A i \in 1 .. n - 1 : s[i] = rows[i]
    <2>1. \A i \in 1 .. n - 1 : rows[i] \in Row
      BY <1>1, <1>2
    <2>2. /\ SubSeq(rows, 1, n - 1) \in Seq(Row)
          /\ Len(SubSeq(rows, 1, n - 1)) = IF 1 <= n - 1 THEN (n - 1) - 1 + 1 ELSE 0
          /\ \A i \in 1 .. (n - 1) - 1 + 1 : SubSeq(rows, 1, n - 1)[i] = rows[1 + i - 1]
      BY <1>1, <2>1, SubSeqProperties
    <2> QED
      BY <1>1, <1>3, <2>2
  <1>6. /\ t \in Seq(Row) /\ Len(t) = Len(rows) - n
        /\ \A i \in 1 .. Len(rows) - n : t[i] = rows[n + i]
    <2>1. \A i \in n + 1 .. Len(rows) : rows[i] \in Row
      BY <1>1, <1>2
    <2>2. /\ SubSeq(rows, n + 1, Len(rows)) \in Seq(Row)
          /\ Len(SubSeq(rows, n + 1, Len(rows)))
               = IF n + 1 <= Len(rows) THEN Len(rows) - (n + 1) + 1 ELSE 0
          /\ \A i \in 1 .. Len(rows) - (n + 1) + 1 :
                SubSeq(rows, n + 1, Len(rows))[i] = rows[(n + 1) + i - 1]
      BY <1>1, <2>1, SubSeqProperties
    <2> QED
      BY <1>1, <1>4, <2>2
  <1>7. Damaged(rows, "lost", n) = s \o t
    BY <1>3, <1>4 DEF Damaged, RemoveAt
  <1>8. /\ s \o t \in Seq(Row) /\ Len(s \o t) = Len(s) + Len(t)
        /\ \A i \in 1 .. Len(s) + Len(t) :
              (s \o t)[i] = IF i <= Len(s) THEN s[i] ELSE t[i - Len(s)]
    BY <1>5, <1>6, ConcatProperties
  <1>9. ASSUME NEW k \in 1 .. Len(rows) - 1
        PROVE  (s \o t)[k] = IF k < n THEN rows[k] ELSE rows[k + 1]
    <2>1. (s \o t)[k] = IF k <= n - 1 THEN s[k] ELSE t[k - (n - 1)]
      BY <1>1, <1>5, <1>6, <1>8
    <2>2. CASE k < n
      BY <1>1, <1>5, <2>1, <2>2
    <2>3. CASE ~(k < n)
      <3>1. PICK i \in 1 .. Len(rows) - n : i = k - (n - 1)
        BY <1>1, <2>3
      <3>2. n + i = k + 1 /\ ~(k <= n - 1)
        BY <1>1, <2>3, <3>1
      <3>3. t[i] = rows[k + 1]
        BY <1>6, <3>1, <3>2
      <3>4. (s \o t)[k] = t[i]
        BY <2>1, <3>1, <3>2
      <3> QED
        BY <2>3, <3>3, <3>4
    <2> QED
      BY <2>2, <2>3
  <1>10. Len(s \o t) = Len(rows) - 1 /\ s \o t \in Files
    BY <1>1, <1>5, <1>6, <1>8 DEF Files
  <1> QED
    BY <1>7, <1>9, <1>10

------------------------------------------------------------------------------
(* Types, and which command runs.                                          *)

LEMMA DamagedType ==
  ASSUME NEW rows \in Files, NEW n \in DOMAIN rows, NEW kind \in {"altered", "newer", "lost"}
  PROVE  Damaged(rows, kind, n) \in Files
  <1>1. n \in 1 .. Len(rows)
    BY LenProperties DEF Files
  <1> QED
    BY <1>1, AlteredIs, NewerIs, LostIs

(* A file is neither Missing nor Unreadable, and what one reads who opens  *)
(* the ledger is a file if there is one.                                   *)
LEMMA FilesArePresent ==
  ASSUME NEW file \in Files PROVE file # Missing /\ file # Unreadable /\ Readable(file)
  BY RestoreAssumption DEF RestoreAssumption, Readable

LEMMA CommittedType ==
  ASSUME CommandInv
  PROVE  /\ Committed \in Files \cup {Missing}
         /\ main # Missing => Committed \in Files
  BY DEF CommandInv, TypeOK, OneCommand, Committed

LEMMA InitCommand == Init => CommandInv
  BY DEF Init, CommandInv, TypeOK, OneCommand, NoHarm, Backups, Restores

LEMMA ProxyStepCommand ==
  ASSUME CommandInv, StartProxy \/ AppendEntry \/ Checkpoint \/ StopProxy
  PROVE  CommandInv'
  <1>1. <<>> \in Files
    BY EmptySeq DEF Files
  <1>2. CASE StartProxy
    BY <1>1, <1>2, CommittedType, FilesArePresent
    DEF StartProxy, CommandInv, TypeOK, OneCommand, historyVars, Restoring, Backups,
        Restores, Committed
  <1>3. CASE AppendEntry
    <2>1. wal \in Files /\ written + 1 \in Nat
      BY <1>3 DEF AppendEntry, CommandInv, TypeOK, OneCommand
    <2>2. Appended(wal, written + 1) \in Files
      BY <2>1, AppendedType
    <2> QED
      BY <1>3, <2>1, <2>2, FilesArePresent
      DEF AppendEntry, CommandInv, TypeOK, OneCommand, commandVars, historyVars
  <1>4. CASE Checkpoint
    BY <1>4, FilesArePresent
    DEF Checkpoint, CommandInv, TypeOK, OneCommand, commandVars, historyVars
  <1>5. CASE StopProxy
    BY <1>5
    DEF StopProxy, CommandInv, TypeOK, OneCommand, fileVars, commandVars, historyVars
  <1> QED
    BY <1>2, <1>3, <1>4, <1>5

LEMMA BackupStepCommand ==
  ASSUME CommandInv, BackupWithoutSource \/ BackupStart \/ BackupCopy \/ BackupVerify
  PROVE  CommandInv'
  <1>1. /\ <<>> \in Files
        /\ Committed \in Files \cup {Missing}
        /\ main # Missing => Committed \in Files
    BY EmptySeq, CommittedType DEF Files
  <1>2. CASE BackupWithoutSource
    BY <1>1, <1>2
    DEF BackupWithoutSource, Begin, fileVars, CommandInv, TypeOK, OneCommand, Backups, Restores
  <1>3. CASE BackupStart
    BY <1>1, <1>3
    DEF BackupStart, Begin, NoHarm, CommandInv, TypeOK, OneCommand, Backups, Restores
  <1>4. ASSUME step \in Backups, CloseLedger
        PROVE  main' \in Files /\ wal' \in Files \cup {Missing} /\ main' # Missing
    <2>1. main # Missing /\ main \in Files /\ wal \in Files \cup {Missing}
      BY <1>4 DEF CommandInv, OneCommand, TypeOK
    <2>2. \/ main' = Committed /\ wal' = Missing
          \/ main' = main /\ wal' = wal
      BY <1>4 DEF CloseLedger
    <2> QED
      BY <1>1, <2>1, <2>2, FilesArePresent
  <1>5. CASE BackupCopy
    <2>1. step = "backup_copy" /\ step \in Backups /\ main # Missing
      BY <1>5 DEF BackupCopy, Backups, CommandInv, OneCommand
    <2>2. CASE snapshot' = Committed /\ Goto("backup_verify") /\ UNCHANGED <<main, wal>>
      BY <1>1, <1>5, <2>1, <2>2
      DEF BackupCopy, Goto, CommandInv, TypeOK, OneCommand, Backups, Restores
    <2>3. CASE snapshot' = Missing /\ Exit("exit1") /\ CloseLedger
      <3>1. main' \in Files /\ wal' \in Files \cup {Missing} /\ main' # Missing
        BY <1>4, <2>1, <2>3
      <3>2. proxy = "up" => wal' = wal
        BY <2>3 DEF CloseLedger
      <3> QED
        BY <1>5, <2>1, <2>3, <3>1, <3>2
        DEF BackupCopy, Exit, CommandInv, TypeOK, OneCommand, Backups, Restores
    <2> QED
      BY <1>5, <2>2, <2>3 DEF BackupCopy
  <1>6. CASE BackupVerify
    <2>1. step = "backup_verify" /\ step \in Backups /\ CloseLedger
      BY <1>6 DEF BackupVerify, Backups
    <2>2. main' \in Files /\ wal' \in Files \cup {Missing} /\ main' # Missing
      BY <1>4, <2>1
    <2>3. proxy = "up" => wal' = wal
      BY <2>1 DEF CloseLedger
    <2>4. /\ step' = "none" /\ command' = command /\ code' \in {"exit0", "exit1", "exit2"}
          /\ snapshot' \in {snapshot, Missing}
      BY <1>6 DEF BackupVerify, Exit
    <2> QED
      BY <1>6, <2>1, <2>2, <2>3, <2>4
      DEF BackupVerify, historyVars, CommandInv, TypeOK, OneCommand, Backups, Restores
  <1> QED
    BY <1>2, <1>3, <1>5, <1>6

LEMMA RestoreStepCommand ==
  ASSUME CommandInv,
         \/ \E force \in BOOLEAN : RestoreCheck(force)
         \/ RestoreCopy \/ RestoreJournal \/ RestoreRename \/ RestoreReverify
         \/ KillCommand
  PROVE  CommandInv'
  <1>1. Committed \in Files \cup {Missing}
    BY CommittedType
  <1>2. ASSUME NEW force \in BOOLEAN, RestoreCheck(force) PROVE CommandInv'
    <2>1. /\ proxy = "down" /\ command' = "restore"
          /\ before' = [ledger |-> Committed, journal |-> wal \notin {Missing, main}]
          /\ UNCHANGED <<fileVars, proxy, written, harm>>
          /\ \/ step' = "none" /\ code' \in {"exit1", "exit2"}
             \/ step' = "restore_copy" /\ code' = "running" /\ Readable(snapshot)
      BY <1>2 DEF RestoreCheck, Begin
    <2> QED
      BY <1>1, <2>1
      DEF fileVars, Readable, CommandInv, TypeOK, OneCommand, Backups, Restores
  <1>3. CASE RestoreCopy
    BY <1>3
    DEF RestoreCopy, Goto, Exit, historyVars, CommandInv, TypeOK, OneCommand, Backups, Restores
  <1>4. CASE RestoreJournal
    BY <1>4
    DEF RestoreJournal, Goto, historyVars, CommandInv, TypeOK, OneCommand, Backups, Restores
  <1>5. CASE RestoreReverify
    <2>1. /\ step = "restore_reverify" /\ step' = "none" /\ command' = command
          /\ code' \in {"exit0", "exit1", "exit2"}
          /\ UNCHANGED <<fileVars, proxy, written, historyVars>>
      BY <1>5 DEF RestoreReverify, Exit
    <2> QED
      BY <2>1 DEF fileVars, historyVars, CommandInv, TypeOK, OneCommand, Backups, Restores
  <1>6. CASE RestoreRename
    BY <1>6, FilesArePresent
    DEF RestoreRename, Goto, Exit, historyVars, CommandInv, TypeOK, OneCommand, Backups, Restores
  <1>7. CASE KillCommand
    BY <1>7
    DEF KillCommand, historyVars, CommandInv, TypeOK, OneCommand, Backups, Restores
  <1> QED
    BY <1>2, <1>3, <1>4, <1>5, <1>6, <1>7

LEMMA DamageStepCommand ==
  ASSUME CommandInv, DamageSnapshot \/ DamageLedger
  PROVE  CommandInv'
  <1>1. CASE DamageSnapshot
    <2>1. snapshot \in Files
      BY <1>1 DEF DamageSnapshot, Readable, CommandInv, TypeOK
    <2>2. DOMAIN snapshot \subseteq Nat
      BY <2>1, LenProperties DEF Files
    <2>3. /\ snapshot' \in Files \cup {Unreadable}
          /\ harm' \in [kind : {"none", "unreadable", "altered", "newer", "lost"}, at : Nat]
      <3>1. CASE snapshot' = Unreadable /\ harm' = [kind |-> "unreadable", at |-> 0]
        BY <3>1
      <3>2. CASE \E n \in DOMAIN snapshot : \E kind \in {"altered", "newer", "lost"} :
                    /\ snapshot' = Damaged(snapshot, kind, n)
                    /\ harm' = [kind |-> kind, at |-> n]
        BY <2>1, <2>2, <3>2, DamagedType
      <3> QED
        BY <1>1, <3>1, <3>2 DEF DamageSnapshot
    <2>4. /\ step = "none" /\ step' = "none" /\ command' = "none"
          /\ UNCHANGED <<main, wal, tmp, proxy, code, written, before>>
      BY <1>1 DEF DamageSnapshot
    <2> QED
      BY <2>3, <2>4 DEF CommandInv, TypeOK, OneCommand, Backups, Restores
  <1>2. CASE DamageLedger
    <2>1. main \in Files /\ main # <<>>
      BY <1>2 DEF DamageLedger, Readable, CommandInv, TypeOK
    <2>2. 1 \in DOMAIN main
      BY <2>1, EmptySeq, LenProperties DEF Files
    <2>3. main' \in Files
      BY <1>2, <2>1, <2>2, DamagedType DEF DamageLedger
    <2> QED
      BY <1>2, <2>3, FilesArePresent
      DEF DamageLedger, historyVars, CommandInv, TypeOK, OneCommand, Backups, Restores
  <1> QED
    BY <1>1, <1>2

LEMMA CommandStep == CommandInv /\ [Next]_vars => CommandInv'
  <1> SUFFICES ASSUME CommandInv, [Next]_vars PROVE CommandInv'
    OBVIOUS
  <1>1. CASE UNCHANGED vars
    BY <1>1 DEF vars, fileVars, commandVars, historyVars, CommandInv, TypeOK, OneCommand
  <1> QED
    BY <1>1, ProxyStepCommand, BackupStepCommand, RestoreStepCommand, DamageStepCommand
    DEF Next

------------------------------------------------------------------------------
(* Backup.                                                                 *)

(* While the snapshot is copied the ledger goes on from where the backup   *)
(* began; once it is copied, from the snapshot.                            *)
BackupInv ==
    /\ step = "backup_copy" =>
         before.ledger \in Files /\ IsPrefix(before.ledger, Committed)
    /\ step = "backup_verify" \/ (command = "backup" /\ code = "exit0") =>
         /\ before.ledger \in Files /\ snapshot \in Files /\ main # Missing
         /\ IsPrefix(before.ledger, snapshot) /\ IsPrefix(snapshot, Committed)

(* main.rs:850, ledger.rs:368: what the proxy does to the rows one reads.  *)
LEMMA ProxyKeepsRows ==
  ASSUME CommandInv, main # Missing,
         StartProxy \/ AppendEntry \/ Checkpoint \/ StopProxy
  PROVE  /\ main' # Missing
         /\ \A file \in Files : IsPrefix(file, Committed) => IsPrefix(file, Committed')
         /\ UNCHANGED <<snapshot, before, step, code>>
         /\ command' \in {command, "none"}
  <1>1. Committed \in Files /\ main \in Files /\ wal \in Files \cup {Missing}
    BY CommittedType DEF CommandInv, TypeOK
  <1>2. CASE StartProxy
    <2>1. main' = main /\ wal' = Committed /\ wal' # Missing
      BY <1>1, <1>2, FilesArePresent DEF StartProxy
    <2>2. Committed' = Committed
      BY <2>1 DEF Committed
    <2> QED
      BY <1>2, <2>1, <2>2 DEF StartProxy, historyVars
  <1>3. CASE AppendEntry
    <2>1. wal \in Files /\ wal # Missing /\ written + 1 \in Nat
      BY <1>3 DEF AppendEntry, CommandInv, TypeOK, OneCommand
    <2>2. wal' = Appended(wal, written + 1) /\ wal' \in Files /\ wal' # Missing
      BY <1>3, <2>1, AppendedType, FilesArePresent DEF AppendEntry
    <2>3. Committed = wal /\ Committed' = Appended(wal, written + 1)
      BY <2>1, <2>2 DEF Committed
    <2>4. \A file \in Files : IsPrefix(file, Committed) => IsPrefix(file, Committed')
      BY <2>1, <2>3, PrefixOfAppended
    <2> QED
      BY <1>3, <2>4 DEF AppendEntry, commandVars, historyVars
  <1>4. CASE Checkpoint
    <2>1. main' = wal /\ wal' = wal /\ wal # Missing
      BY <1>4 DEF Checkpoint, CommandInv, OneCommand
    <2>2. Committed' = Committed
      BY <2>1 DEF Committed
    <2> QED
      BY <1>4, <2>1, <2>2 DEF Checkpoint, commandVars, historyVars
  <1>5. CASE StopProxy
    <2>1. Committed' = Committed
      BY <1>5 DEF StopProxy, fileVars, Committed
    <2> QED
      BY <1>5, <2>1 DEF StopProxy, fileVars, commandVars, historyVars
  <1> QED
    BY <1>2, <1>3, <1>4, <1>5

(* The close of the last connection moves rows, and loses none.            *)
LEMMA CloseKeepsRows ==
  ASSUME CommandInv, main # Missing, CloseLedger
  PROVE  Committed' = Committed /\ main' # Missing
  <1>1. Committed \in Files
    BY CommittedType
  <1> QED
    BY <1>1, FilesArePresent DEF CloseLedger, Committed

LEMMA BackupStep ==
  ASSUME CommandInv, BackupInv, [Next]_vars
  PROVE  BackupInv'
  <1> SUFFICES
        /\ step' = "backup_copy" =>
             before'.ledger \in Files /\ IsPrefix(before'.ledger, Committed')
        /\ step' = "backup_verify" \/ (command' = "backup" /\ code' = "exit0") =>
             /\ before'.ledger \in Files /\ snapshot' \in Files /\ main' # Missing
             /\ IsPrefix(before'.ledger, snapshot') /\ IsPrefix(snapshot', Committed')
    BY DEF BackupInv, IsPrefix
  <1>1. CASE StartProxy \/ AppendEntry \/ Checkpoint \/ StopProxy
    <2>1. CASE main = Missing
      <3>1. step \notin Backups /\ ~(command = "backup" /\ code = "exit0") /\ step' = step
        BY <1>1, <2>1
        DEF StartProxy, AppendEntry, Checkpoint, StopProxy, commandVars, CommandInv,
            OneCommand, BackupInv, Backups
      <3>2. code' = code /\ command' \in {command, "none"}
        BY <1>1 DEF StartProxy, AppendEntry, Checkpoint, StopProxy, commandVars
      <3> QED
        BY <3>1, <3>2 DEF Backups
    <2>2. CASE main # Missing
      BY <1>1, <2>2, ProxyKeepsRows DEF BackupInv
    <2> QED
      BY <2>1, <2>2
  <1>2. CASE BackupWithoutSource
    BY <1>2 DEF BackupWithoutSource, Begin
  <1>3. CASE BackupStart
    <2>1. Committed \in Files /\ before'.ledger = Committed /\ Committed' = Committed
      BY <1>3, CommittedType DEF BackupStart, Begin, Committed
    <2> QED
      BY <1>3, <2>1, PrefixReflexive DEF BackupStart
  <1>4. CASE BackupCopy
    <2>1. /\ main # Missing /\ before' = before /\ before.ledger \in Files
          /\ IsPrefix(before.ledger, Committed) /\ Committed \in Files
      BY <1>4, CommittedType
      DEF BackupCopy, BackupInv, CommandInv, OneCommand, Backups
    <2>2. CASE snapshot' = Committed /\ Goto("backup_verify") /\ UNCHANGED <<main, wal>>
      <3>1. Committed' = Committed
        BY <2>2 DEF Committed
      <3> QED
        BY <2>1, <2>2, <3>1, PrefixReflexive DEF Goto
    <2>3. CASE snapshot' = Missing /\ Exit("exit1") /\ CloseLedger
      BY <2>3 DEF Exit
    <2> QED
      BY <1>4, <2>2, <2>3 DEF BackupCopy
  <1>5. CASE BackupVerify
    <2>1. /\ main # Missing /\ before' = before /\ CloseLedger
          /\ before.ledger \in Files /\ snapshot \in Files
          /\ IsPrefix(before.ledger, snapshot) /\ IsPrefix(snapshot, Committed)
      BY <1>5 DEF BackupVerify, BackupInv, historyVars
    <2>2. Committed' = Committed /\ main' # Missing
      BY <2>1, CloseKeepsRows
    <2>3. /\ step' = "none"
          /\ code' = "exit0" => snapshot' = snapshot
      BY <1>5 DEF BackupVerify, Exit
    <2> QED
      BY <2>1, <2>2, <2>3
  <1>6. ASSUME NEW force \in BOOLEAN, RestoreCheck(force)
        PROVE  command' = "restore" /\ step' \notin Backups
    BY <1>6 DEF RestoreCheck, Begin, Backups
  <1>7. CASE RestoreCopy \/ RestoreJournal \/ RestoreRename \/ RestoreReverify
    <2>1. command = "restore" /\ command' = command /\ step' \notin Backups
      BY <1>7
      DEF RestoreCopy, RestoreJournal, RestoreRename, RestoreReverify, Goto, Exit,
          CommandInv, OneCommand, Restores, Backups
    <2> QED
      BY <2>1 DEF Backups
  <1>8. CASE KillCommand
    BY <1>8 DEF KillCommand
  <1>9. CASE DamageSnapshot \/ DamageLedger
    BY <1>9 DEF DamageSnapshot, DamageLedger
  <1>10. CASE UNCHANGED vars
    <2>1. Committed' = Committed
      BY <1>10 DEF vars, fileVars, Committed
    <2> QED
      BY <1>10, <2>1 DEF vars, fileVars, commandVars, historyVars, BackupInv
  <1> QED
    BY <1>1, <1>2, <1>3, <1>4, <1>5, <1>6, <1>7, <1>8, <1>9, <1>10 DEF Next, Backups

------------------------------------------------------------------------------
(* Restore.                                                                *)

(* What the command has verified, copied and removed when it reaches a     *)
(* step, and what a ledger with a checkpointed journal is meanwhile.       *)
RestoreInv ==
    /\ step \in Restores => Verify(snapshot).valid
    /\ step = "restore_rename" => wal = Missing
    /\ step = "restore_reverify" \/ (command = "restore" /\ code = "exit0") =>
         wal = Missing /\ main = snapshot
    /\ command = "restore" /\ ~before.journal =>
         \/ main = before.ledger /\ wal \in {Missing, main}
         \/ main = snapshot /\ wal = Missing

LEMMA NotRestoring ==
  ASSUME command' # "restore", step' \notin Restores
  PROVE  RestoreInv'
  BY DEF RestoreInv, Restores

LEMMA RestoreStep ==
  ASSUME CommandInv, RestoreInv, [Next]_vars
  PROVE  RestoreInv'
  <1>1. CASE StartProxy \/ AppendEntry \/ Checkpoint \/ StopProxy
    <2>1. command' # "restore" /\ step' \notin Restores
      BY <1>1
      DEF StartProxy, AppendEntry, Checkpoint, StopProxy, commandVars, Restoring,
          CommandInv, TypeOK, OneCommand, Restores
    <2> QED
      BY <2>1, NotRestoring
  <1>2. CASE BackupWithoutSource \/ BackupStart \/ BackupCopy \/ BackupVerify
    <2>1. command' # "restore" /\ step' \notin Restores
      BY <1>2
      DEF BackupWithoutSource, BackupStart, BackupCopy, BackupVerify, Begin, Goto, Exit,
          CommandInv, OneCommand, Backups, Restores
    <2> QED
      BY <2>1, NotRestoring
  <1>3. ASSUME NEW force \in BOOLEAN, RestoreCheck(force) PROVE RestoreInv'
    <2>1. /\ command' = "restore"
          /\ before' = [ledger |-> Committed, journal |-> wal \notin {Missing, main}]
          /\ main' = main /\ wal' = wal /\ snapshot' = snapshot
          /\ \/ step' = "none" /\ code' \in {"exit1", "exit2"}
             \/ step' = "restore_copy" /\ code' = "running" /\ Verify(snapshot).valid
      BY <1>3 DEF RestoreCheck, Begin, fileVars
    <2>2. ~before'.journal => main = before'.ledger /\ wal \in {Missing, main}
      BY <2>1 DEF Committed
    <2> QED
      BY <2>1, <2>2 DEF RestoreInv, Restores
  <1>4. CASE RestoreCopy
    <2>1. /\ step = "restore_copy" /\ command = "restore" /\ command' = command
          /\ main' = main /\ wal' = wal /\ snapshot' = snapshot /\ before' = before
          /\ \/ step' = "restore_journal" /\ code' = code /\ code = "running"
             \/ step' = "none" /\ code' = "exit1"
      BY <1>4
      DEF RestoreCopy, Goto, Exit, historyVars, CommandInv, OneCommand, Restores
    <2> QED
      BY <2>1 DEF RestoreInv, Restores
  <1>5. CASE RestoreJournal
    <2>1. /\ step = "restore_journal" /\ step' = "restore_rename"
          /\ command = "restore" /\ command' = command
          /\ code' = code /\ code = "running"
          /\ main' = main /\ wal' = Missing /\ snapshot' = snapshot /\ before' = before
      BY <1>5 DEF RestoreJournal, Goto, historyVars, CommandInv, OneCommand, Restores
    <2> QED
      BY <2>1 DEF RestoreInv, Restores
  <1>6. CASE RestoreRename
    <2>1. /\ step = "restore_rename" /\ command = "restore" /\ command' = command
          /\ wal' = wal /\ wal = Missing /\ snapshot' = snapshot /\ before' = before
          /\ \/ /\ step' = "restore_reverify" /\ code' = code /\ code = "running"
                /\ main' = snapshot
             \/ step' = "none" /\ code' = "exit1" /\ main' = main
      BY <1>6
      DEF RestoreRename, Goto, Exit, historyVars, CommandInv, OneCommand, Restores, RestoreInv
    <2> QED
      BY <2>1 DEF RestoreInv, Restores
  <1>7. CASE RestoreReverify
    <2>1. /\ step = "restore_reverify" /\ step' = "none"
          /\ command = "restore" /\ command' = command
          /\ main' = main /\ wal' = wal /\ snapshot' = snapshot /\ before' = before
      BY <1>7
      DEF RestoreReverify, Exit, fileVars, historyVars, CommandInv, OneCommand, Restores
    <2> QED
      BY <2>1 DEF RestoreInv, Restores
  <1>8. CASE KillCommand
    BY <1>8 DEF KillCommand, historyVars, RestoreInv, Restores
  <1>9. CASE DamageSnapshot \/ DamageLedger
    <2>1. command' # "restore" /\ step' \notin Restores
      BY <1>9 DEF DamageSnapshot, DamageLedger, Restores
    <2> QED
      BY <2>1, NotRestoring
  <1>10. CASE UNCHANGED vars
    BY <1>10 DEF vars, fileVars, commandVars, historyVars, RestoreInv
  <1> QED
    BY <1>1, <1>2, <1>3, <1>4, <1>5, <1>6, <1>7, <1>8, <1>9, <1>10 DEF Next

LEMMA CommandsHold == Spec => [](CommandInv /\ BackupInv /\ RestoreInv)
  <1>1. Init => CommandInv /\ BackupInv /\ RestoreInv
    BY InitCommand DEF Init, BackupInv, RestoreInv, Restores
  <1>2. CommandInv /\ BackupInv /\ RestoreInv /\ [Next]_vars
          => (CommandInv /\ BackupInv /\ RestoreInv)'
    BY CommandStep, BackupStep, RestoreStep
  <1> QED
    BY <1>1, <1>2, PTL DEF Spec

(* main.rs:1149-1171: for ledgers of any length, a backup that exits 0     *)
(* holds every row committed before it began, and only rows of the ledger. *)
THEOREM BackupsAreConsistent == Spec => []BackupIsConsistent
  <1>1. BackupInv => BackupIsConsistent
    BY DEF BackupInv, BackupIsConsistent
  <1> QED
    BY <1>1, CommandsHold, PTL

(* main.rs:1263-1284: a restore that exits 0 leaves exactly the snapshot.  *)
THEOREM SuccessIsComplete == Spec => []SuccessIsTheSnapshot
  <1>1. RestoreInv => SuccessIsTheSnapshot
    BY DEF RestoreInv, SuccessIsTheSnapshot, Committed
  <1> QED
    BY <1>1, CommandsHold, PTL

(* main.rs:1229-1261: a ledger whose journal was checkpointed is read as   *)
(* before or as the snapshot at every moment of a restore.                 *)
THEOREM CleanRestoresAreAtomic == Spec => []CleanRestoreIsAtomic
  <1>1. RestoreInv => CleanRestoreIsAtomic
    BY DEF RestoreInv, CleanRestoreIsAtomic, Committed
  <1> QED
    BY <1>1, CommandsHold, PTL

(* main.rs:1196-1227: what a restore puts in place of the ledger verifies. *)
THEOREM InvalidNeverLands == Spec => OnlyValidSnapshotsLand
  <1>1. CommandInv /\ RestoreInv /\ [Next]_vars
          => [Restoring /\ main' # main => Verify(main').valid]_vars
    <2> SUFFICES ASSUME CommandInv, RestoreInv, Next, Restoring, main' # main
                 PROVE  Verify(main').valid
      OBVIOUS
    <2>1. step \in Restores /\ proxy = "down"
      BY DEF Restoring, CommandInv, TypeOK, OneCommand, Backups, Restores
    <2>2. CASE RestoreRename
      <3>1. main' = snapshot
        BY <2>2 DEF RestoreRename, CommandInv, OneCommand
      <3> QED
        BY <2>1, <3>1 DEF RestoreInv
    <2>3. ~StartProxy /\ ~AppendEntry /\ ~Checkpoint /\ ~StopProxy
      BY <2>1 DEF StartProxy, AppendEntry, Checkpoint, StopProxy
    <2>4. /\ ~BackupWithoutSource /\ ~BackupStart /\ ~BackupCopy /\ ~BackupVerify
          /\ ~DamageSnapshot /\ ~DamageLedger
      BY <2>1
      DEF BackupWithoutSource, BackupStart, BackupCopy, BackupVerify, DamageSnapshot,
          DamageLedger, Restores
    <2>5. ~RestoreCopy /\ ~RestoreJournal /\ ~RestoreReverify /\ ~KillCommand
      BY DEF RestoreCopy, RestoreJournal, RestoreReverify, KillCommand, fileVars
    <2>6. \A force \in BOOLEAN : ~RestoreCheck(force)
      BY DEF RestoreCheck, fileVars
    <2> QED
      BY <2>2, <2>3, <2>4, <2>5, <2>6 DEF Next
  <1> QED
    BY <1>1, CommandsHold, PTL DEF Spec, OnlyValidSnapshotsLand

------------------------------------------------------------------------------
(* The verifier.                                                           *)

Holds(rows, n) == ~Unsupported(rows[n]) /\ LinkHolds(rows, n)

(* ledger.rs:753-780: the walk goes through exactly if every row holds ... *)
LEMMA ValidIs ==
  ASSUME NEW rows \in Files
  PROVE  Verify(rows).valid <=> \A n \in 1 .. Len(rows) : Holds(rows, n)
  <1> DEFINE stops == {n \in DOMAIN rows : Unsupported(rows[n]) \/ ~LinkHolds(rows, n)}
  <1>1. DOMAIN rows = 1 .. Len(rows)
    BY LenProperties DEF Files
  <1>2. Verify(rows).valid <=> stops = {}
    BY DEF Verify
  <1> QED
    BY <1>1, <1>2 DEF Holds

(* ... and otherwise stops at the first that does not.                     *)
LEMMA StopIs ==
  ASSUME NEW rows \in Files, NEW n \in 1 .. Len(rows),
         ~Holds(rows, n), \A k \in 1 .. n - 1 : Holds(rows, k)
  PROVE  /\ ~Verify(rows).valid /\ Verify(rows).entries_checked = n - 1
         /\ Unsupported(rows[n]) =>
              /\ Verify(rows).first_invalid_seq = 0
              /\ Verify(rows).unsupported_chain_version = rows[n].chain_version
         /\ ~Unsupported(rows[n]) => Verify(rows).first_invalid_seq = rows[n].seq
  <1> DEFINE stops == {k \in DOMAIN rows : Unsupported(rows[k]) \/ ~LinkHolds(rows, k)}
  <1>1. DOMAIN rows = 1 .. Len(rows) /\ Len(rows) \in Nat
    BY LenProperties DEF Files
  <1>2. n \in stops /\ \A k \in stops : n <= k
    BY <1>1 DEF Holds
  <1>3. stops \subseteq Nat
    BY <1>1
  <1> HIDE DEF stops
  <1>4. \A m \in stops : (\A k \in stops : m =< k) => m = n
    BY <1>2, <1>3
  <1>5. Min(stops) = n
    BY <1>2, <1>4 DEF Min
  <1>6. PICK seq : seq = rows[n].seq
    OBVIOUS
  <1>7. PICK version : version = rows[n].chain_version
    OBVIOUS
  <1>8. PICK newer \in BOOLEAN : newer <=> Unsupported(rows[n])
    OBVIOUS
  <1>9. stops # {}
    BY <1>2
  <1>10. Verify(rows)
           = [valid |-> FALSE, entries_checked |-> n - 1,
              first_invalid_seq |-> IF ~newer THEN seq ELSE 0,
              unsupported_chain_version |-> IF newer THEN version ELSE 0]
    BY <1>5, <1>6, <1>7, <1>8, <1>9, Zenon DEF Verify, stops
  <1> QED
    BY <1>6, <1>7, <1>8, <1>10

(* Every row of a file was written by append: the n-th has seq n, and its  *)
(* hash is one of that seq and of a body that append was given.            *)
WrittenAt(row, n) ==
    /\ row.seq = n /\ row.chain_version = CURRENT_CHAIN_VERSION
    /\ \E p \in Hashes : \E b \in Nat \ {0} : row.entry_hash = Append(Append(p, n), b)

Written(rows) == \A n \in 1 .. Len(rows) : WrittenAt(rows[n], n)

LEMMA AppendedIsWritten ==
  ASSUME NEW rows \in Files, NEW b \in Nat \ {0}, Written(rows)
  PROVE  Written(Appended(rows, b))
  <1>1. PICK n \in Nat, p \in Hashes :
           /\ Appended(rows, b) = Append(rows, LinkedRow(n, b, p))
           /\ n = IF rows = <<>> THEN 1 ELSE rows[Len(rows)].seq + 1
    BY AppendedIs
  <1>2. Len(rows) \in Nat
    BY LenProperties DEF Files
  <1>3. n = Len(rows) + 1
    <2>1. CASE rows = <<>>
      BY <1>1, <2>1
    <2>2. CASE rows # <<>>
      <3>1. Len(rows) \in 1 .. Len(rows)
        BY <1>2, <2>2, EmptySeq DEF Files
      <3>2. rows[Len(rows)].seq = Len(rows)
        BY <3>1 DEF Written, WrittenAt
      <3> QED
        BY <1>1, <2>2, <3>2
    <2> QED
      BY <2>1, <2>2
  <1>4. PICK row \in Row : row = LinkedRow(n, b, p)
    BY LinkedRowType
  <1>5. WrittenAt(row, Len(rows) + 1)
    <2>1. /\ row.seq = n /\ row.chain_version = CURRENT_CHAIN_VERSION
          /\ row.entry_hash = Append(Append(p, n), b)
      BY <1>4, LinkedRowType
    <2> QED
      BY <1>3, <2>1 DEF WrittenAt
  <1>6. /\ Len(Append(rows, row)) = Len(rows) + 1
        /\ \A i \in 1 .. Len(rows) : Append(rows, row)[i] = rows[i]
        /\ Append(rows, row)[Len(rows) + 1] = row
    BY AppendProperties DEF Files
  <1>7. ASSUME NEW i \in 1 .. Len(rows) + 1 PROVE WrittenAt(Append(rows, row)[i], i)
    <2>1. CASE i \in 1 .. Len(rows)
      BY <1>6, <2>1 DEF Written
    <2>2. CASE i = Len(rows) + 1
      BY <1>5, <1>6, <2>2
    <2> QED
      BY <1>2, <2>1, <2>2
  <1> QED
    BY <1>1, <1>4, <1>6, <1>7 DEF Written

(* The hash of a written row is no other row's, and not the first link.    *)
LEMMA WrittenHash ==
  ASSUME NEW row \in Row, NEW n \in Nat, WrittenAt(row, n)
  PROVE  /\ row.entry_hash # GENESIS_PREV_HASH
         /\ \A p \in Hashes : row.entry_hash # Append(Append(p, n), 0)
         /\ \A other \in Row : \A m \in Nat :
               WrittenAt(other, m) /\ m # n => row.entry_hash # other.entry_hash
  <1>1. PICK p \in Hashes, b \in Nat \ {0} : row.entry_hash = Append(Append(p, n), b)
    BY DEF WrittenAt
  <1>2. row.entry_hash # GENESIS_PREV_HASH
    BY <1>1, HashType
  <1>3. ASSUME NEW q \in Hashes PROVE row.entry_hash # Append(Append(q, n), 0)
    BY <1>1, HashIsInjective
  <1>4. ASSUME NEW other \in Row, NEW m \in Nat, WrittenAt(other, m), m # n
        PROVE  row.entry_hash # other.entry_hash
    <2>1. PICK q \in Hashes, c \in Nat \ {0} : other.entry_hash = Append(Append(q, m), c)
      BY <1>4 DEF WrittenAt
    <2> SUFFICES ASSUME row.entry_hash = other.entry_hash PROVE FALSE
      OBVIOUS
    <2>2. Append(Append(p, n), b) = Append(Append(q, m), c)
      BY <1>1, <2>1
    <2>3. Append(p, n) \in Seq(Nat) /\ Append(q, m) \in Seq(Nat)
      BY AppendProperties DEF Hashes
    <2>4. Append(p, n) = Append(q, m)
      <3> DEFINE s == Append(p, n)
                 t == Append(q, m)
      <3> HIDE DEF s, t
      <3>1. s \in Seq(Nat) /\ t \in Seq(Nat) /\ b \in Nat /\ c \in Nat
        BY <2>3 DEF s, t
      <3>2. Append(s, b) = Append(t, c)
        BY <2>2 DEF s, t
      <3>3. s = t
        BY <3>1, <3>2, AppendInjective
      <3> QED
        BY <3>3 DEF s, t
    <2>5. n = m
      BY <2>4, AppendInjective DEF Hashes
    <2> QED
      BY <1>4, <2>5
  <1> QED
    BY <1>2, <1>3, <1>4

(* Rows before the harmed one hold as they did.                            *)
LEMMA SameRowsHold ==
  ASSUME NEW rows, NEW others, NEW n \in Nat \ {0},
         others[n] = rows[n], n > 1 => others[n - 1] = rows[n - 1], Holds(rows, n)
  PROVE  Holds(others, n)
  BY DEF Holds, LinkHolds

(* The three harms a row may suffer.                                       *)
LEMMA AlteredIsLocated ==
  ASSUME NEW rows \in Files, Written(rows), NEW n \in 1 .. Len(rows),
         Verify(rows).valid, NEW file \in Files, file = Damaged(rows, "altered", n)
  PROVE  /\ ~Verify(file).valid /\ Verify(file).first_invalid_seq = n
         /\ Verify(file).entries_checked = n - 1
  <1>1. /\ Len(file) = Len(rows) /\ Len(rows) \in Nat
        /\ \A k \in 1 .. Len(rows) : k # n => file[k] = rows[k]
        /\ file[n] = [rows[n] EXCEPT !.body = 0]
    BY AlteredIs, LenProperties DEF Files
  <1>2. rows[n] \in Row /\ WrittenAt(rows[n], n)
    BY ElementOfSeq DEF Files, Written
  <1>3. /\ file[n].seq = n /\ file[n].body = 0
        /\ file[n].chain_version = CURRENT_CHAIN_VERSION
        /\ file[n].entry_hash = rows[n].entry_hash /\ file[n].prev_hash \in Hashes
    BY <1>1, <1>2 DEF Row, WrittenAt
  <1>4. ~Unsupported(file[n])
    BY <1>3 DEF Unsupported
  <1>5. ~Holds(file, n)
    <2>1. EntryHash(file[n]) = Append(Append(file[n].prev_hash, n), 0)
      BY <1>3 DEF EntryHash
    <2>2. PICK p \in Hashes : p = file[n].prev_hash
      BY <1>3
    <2>3. n \in Nat
      BY <1>1
    <2>4. rows[n].entry_hash # Append(Append(p, n), 0)
      BY <1>2, <2>3, WrittenHash
    <2>5. file[n].entry_hash # EntryHash(file[n])
      BY <1>3, <2>1, <2>2, <2>4
    <2> QED
      BY <2>5 DEF Holds, LinkHolds
  <1>6. ASSUME NEW k \in 1 .. n - 1 PROVE Holds(file, k)
    <2>1. Holds(rows, k)
      BY <1>1, ValidIs
    <2>2. file[k] = rows[k] /\ (k > 1 => file[k - 1] = rows[k - 1])
      BY <1>1
    <2> QED
      BY <2>1, <2>2, SameRowsHold
  <1> QED
    BY <1>1, <1>3, <1>4, <1>5, <1>6, StopIs

LEMMA NewerIsLocated ==
  ASSUME NEW rows \in Files, Written(rows), NEW n \in 1 .. Len(rows),
         Verify(rows).valid, NEW file \in Files, file = Damaged(rows, "newer", n)
  PROVE  /\ ~Verify(file).valid /\ Verify(file).first_invalid_seq = 0
         /\ Verify(file).unsupported_chain_version = 2
         /\ Verify(file).entries_checked = n - 1
  <1>1. /\ Len(file) = Len(rows) /\ Len(rows) \in Nat
        /\ \A k \in 1 .. Len(rows) : k # n => file[k] = rows[k]
        /\ file[n] = [rows[n] EXCEPT !.chain_version = 2]
    BY NewerIs, LenProperties DEF Files
  <1>2. rows[n] \in Row
    BY ElementOfSeq DEF Files
  <1>3. file[n].chain_version = 2
    BY <1>1, <1>2 DEF Row
  <1>4. Unsupported(file[n])
    BY <1>3 DEF Unsupported, CURRENT_CHAIN_VERSION
  <1>5. ~Holds(file, n)
    BY <1>4 DEF Holds
  <1>6. ASSUME NEW k \in 1 .. n - 1 PROVE Holds(file, k)
    <2>1. Holds(rows, k)
      BY <1>1, ValidIs
    <2>2. file[k] = rows[k] /\ (k > 1 => file[k - 1] = rows[k - 1])
      BY <1>1
    <2> QED
      BY <2>1, <2>2, SameRowsHold
  <1> QED
    BY <1>1, <1>3, <1>4, <1>5, <1>6, StopIs

(* A row that is lost leaves its successor with a link to nowhere; the     *)
(* last row has none.                                                      *)
LEMMA LostIsLocated ==
  ASSUME NEW rows \in Files, Written(rows), NEW n \in 1 .. Len(rows),
         Verify(rows).valid, NEW file \in Files, file = Damaged(rows, "lost", n)
  PROVE  /\ n <= Len(file) => /\ ~Verify(file).valid
                              /\ Verify(file).first_invalid_seq = n + 1
         /\ n > Len(file) => Verify(file).valid /\ Written(file)
  <1>1. /\ Len(file) = Len(rows) - 1 /\ Len(rows) \in Nat /\ n \in Nat \ {0}
        /\ \A k \in 1 .. Len(rows) - 1 :
              file[k] = IF k < n THEN rows[k] ELSE rows[k + 1]
    <2>1. Len(rows) \in Nat /\ n \in Nat \ {0}
      BY LenProperties DEF Files
    <2>2. /\ Len(Damaged(rows, "lost", n)) = Len(rows) - 1
          /\ \A k \in 1 .. Len(rows) - 1 :
                Damaged(rows, "lost", n)[k] = IF k < n THEN rows[k] ELSE rows[k + 1]
      BY LostIs
    <2> QED
      BY <2>1, <2>2, Zenon
  <1>2. \A k \in 1 .. Len(rows) : /\ rows[k] \in Row /\ WrittenAt(rows[k], k)
                                  /\ Holds(rows, k)
    BY ElementOfSeq, ValidIs DEF Files, Written
  <1>3. ASSUME NEW k \in 1 .. n - 1, k <= Len(file)
        PROVE  Holds(file, k) /\ file[k] = rows[k]
    <2>1. file[k] = rows[k] /\ (k > 1 => file[k - 1] = rows[k - 1])
      BY <1>1, <1>3
    <2>2. Holds(rows, k) /\ k \in Nat \ {0}
      BY <1>1, <1>2
    <2> QED
      BY <2>1, <2>2, SameRowsHold
  <1>4. CASE n <= Len(file)
    <2>1. n + 1 \in 1 .. Len(rows) /\ file[n] = rows[n + 1]
      BY <1>1, <1>4
    <2>2. /\ rows[n + 1].seq = n + 1
          /\ rows[n + 1].chain_version = CURRENT_CHAIN_VERSION
      BY <1>2, <2>1 DEF WrittenAt
    <2>3. rows[n + 1].prev_hash = rows[n].entry_hash
      <3>1. Holds(rows, n + 1) /\ n + 1 # 1 /\ (n + 1) - 1 = n
        BY <1>1, <1>2, <2>1
      <3> QED
        BY <3>1 DEF Holds, LinkHolds
    <2>4. ~Holds(file, n)
      <3>1. CASE n = 1
        <4>1. rows[n].entry_hash # GENESIS_PREV_HASH
          BY <1>1, <1>2, WrittenHash
        <4> QED
          BY <2>1, <2>3, <3>1, <4>1 DEF Holds, LinkHolds
      <3>2. CASE n # 1
        <4>1. n - 1 \in 1 .. Len(rows) /\ n - 1 \in Nat /\ n - 1 # n
          BY <1>1, <3>2
        <4>2. rows[n].entry_hash # rows[n - 1].entry_hash
          BY <1>1, <1>2, <4>1, WrittenHash
        <4>3. file[n - 1] = rows[n - 1]
          BY <1>1, <1>4, <3>2
        <4> QED
          BY <2>1, <2>3, <3>2, <4>2, <4>3 DEF Holds, LinkHolds
      <3> QED
        BY <3>1, <3>2
    <2>5. n \in 1 .. Len(file) /\ \A k \in 1 .. n - 1 : Holds(file, k)
      BY <1>1, <1>3, <1>4
    <2>6. ~Unsupported(file[n]) /\ file[n].seq = n + 1
      BY <2>1, <2>2 DEF Unsupported
    <2> QED
      BY <1>1, <1>4, <2>4, <2>5, <2>6, StopIs
  <1>5. CASE n > Len(file)
    <2>1. n = Len(file) + 1
      BY <1>1, <1>5
    <2>2. \A k \in 1 .. Len(file) : k \in 1 .. n - 1 /\ k <= Len(file) /\ k \in 1 .. Len(rows)
      BY <1>1, <2>1
    <2>3. \A k \in 1 .. Len(file) : Holds(file, k) /\ WrittenAt(file[k], k)
      BY <1>2, <1>3, <2>2
    <2> QED
      BY <1>1, <1>5, <2>3, ValidIs DEF Written
  <1> QED
    BY <1>1, <1>4, <1>5

------------------------------------------------------------------------------
(* Every file holds rows that append wrote, a harmed snapshot apart; and   *)
(* one that verifies in spite of its harm does too, so that no restore     *)
(* brings others into the ledger.                                          *)
FilesInv ==
    /\ main \in Files => Written(main)
    /\ wal \in Files => Written(wal)
    /\ tmp \in Files => Written(tmp)
    /\ snapshot \in Files /\ (harm = NoHarm \/ Verify(snapshot).valid) => Written(snapshot)

HarmInv == FilesInv /\ VerifierLocatesHarm

LEMMA CommittedIsWritten ==
  ASSUME FilesInv, Committed \in Files
  PROVE  Written(Committed)
  BY DEF FilesInv, Committed

LEMMA EmptyIsWritten == <<>> \in Files /\ Written(<<>>)
  <1>1. <<>> \in Files /\ Len(<<>>) = 0
    BY EmptySeq DEF Files
  <1> QED
    BY <1>1 DEF Written

LEMMA SameHarm ==
  ASSUME VerifierLocatesHarm, UNCHANGED <<snapshot, harm>>
  PROVE  VerifierLocatesHarm'
  BY DEF VerifierLocatesHarm, Readable

LEMMA NoHarmNoClaim ==
  ASSUME harm' = NoHarm \/ snapshot' \in {Missing, Unreadable}
  PROVE  VerifierLocatesHarm'
  BY DEF VerifierLocatesHarm, Readable, NoHarm

(* A step that leaves the snapshot and its harm alone.                     *)
LEMMA LedgerFilesKept ==
  ASSUME HarmInv, UNCHANGED <<snapshot, harm>>,
         main' \in Files => Written(main'),
         wal' \in Files => Written(wal'),
         tmp' \in Files => Written(tmp')
  PROVE  HarmInv'
  <1>1. VerifierLocatesHarm'
    BY SameHarm DEF HarmInv
  <1>2. Verify(snapshot') = Verify(snapshot)
    OBVIOUS
  <1>3. FilesInv'
    BY <1>2 DEF HarmInv, FilesInv, Written, NoHarm
  <1> QED
    BY <1>1, <1>3 DEF HarmInv

LEMMA ProxyStepHarm ==
  ASSUME CommandInv, HarmInv, StartProxy \/ AppendEntry \/ Checkpoint \/ StopProxy
  PROVE  HarmInv'
  <1>1. FilesInv
    BY DEF HarmInv
  <1>2. CASE StartProxy
    <2>1. /\ main' \in {<<>>, main} /\ tmp' = tmp /\ UNCHANGED <<snapshot, harm>>
          /\ \/ wal' = <<>>
             \/ wal' = Committed /\ Committed # Missing
      BY <1>2 DEF StartProxy, historyVars
    <2>2. wal' \in Files => Written(wal')
      BY <1>1, <2>1, CommittedIsWritten, EmptyIsWritten
    <2>3. main' \in Files => Written(main')
      BY <1>1, <2>1, EmptyIsWritten DEF FilesInv
    <2>4. tmp' \in Files => Written(tmp')
      BY <1>1, <2>1 DEF FilesInv
    <2> QED
      BY <2>1, <2>2, <2>3, <2>4, LedgerFilesKept
  <1>3. CASE AppendEntry
    <2>1. wal \in Files /\ written + 1 \in Nat \ {0} /\ Written(wal)
      BY <1>1, <1>3 DEF AppendEntry, CommandInv, TypeOK, OneCommand, FilesInv
    <2>2. /\ wal' = Appended(wal, written + 1) /\ main' = main /\ tmp' = tmp
          /\ UNCHANGED <<snapshot, harm>>
      BY <1>3 DEF AppendEntry, historyVars
    <2>3. Written(wal')
      BY <2>1, <2>2, AppendedIsWritten
    <2>4. /\ main' \in Files => Written(main')
          /\ tmp' \in Files => Written(tmp')
      BY <1>1, <2>2 DEF FilesInv
    <2> QED
      BY <2>2, <2>3, <2>4, LedgerFilesKept
  <1>4. CASE Checkpoint \/ StopProxy
    <2>1. /\ main' \in {main, wal} /\ wal' = wal /\ tmp' = tmp
          /\ UNCHANGED <<snapshot, harm>>
      BY <1>4 DEF Checkpoint, StopProxy, fileVars, historyVars
    <2>2. /\ main' \in Files => Written(main')
          /\ wal' \in Files => Written(wal')
          /\ tmp' \in Files => Written(tmp')
      BY <1>1, <2>1 DEF FilesInv
    <2> QED
      BY <2>1, <2>2, LedgerFilesKept
  <1> QED
    BY <1>2, <1>3, <1>4

LEMMA BackupStepHarm ==
  ASSUME CommandInv, HarmInv,
         BackupWithoutSource \/ BackupStart \/ BackupCopy \/ BackupVerify
  PROVE  HarmInv'
  <1>1. FilesInv
    BY DEF HarmInv
  <1>2. CASE BackupWithoutSource
    <2>1. UNCHANGED <<main, wal, tmp, snapshot, harm>>
      BY <1>2 DEF BackupWithoutSource, fileVars
    <2> QED
      BY <1>1, <2>1, LedgerFilesKept DEF FilesInv
  <1>3. CASE BackupStart
    <2>1. /\ snapshot' = <<>> /\ harm' = NoHarm /\ UNCHANGED <<main, wal, tmp>>
      BY <1>3 DEF BackupStart
    <2>2. FilesInv'
      BY <1>1, <2>1, EmptyIsWritten DEF FilesInv, Written
    <2> QED
      BY <2>1, <2>2, NoHarmNoClaim DEF HarmInv
  <1>4. ASSUME CloseLedger
        PROVE  /\ main' \in Files => Written(main')
               /\ wal' \in Files => Written(wal')
    <2>1. wal' \in {wal, Missing} /\ main' \in {main, Committed}
      BY <1>4 DEF CloseLedger
    <2> QED
      BY <1>1, <2>1, CommittedIsWritten, FilesArePresent DEF FilesInv
  <1>5. CASE BackupCopy
    <2>1. harm = NoHarm /\ harm' = NoHarm /\ tmp' = tmp
      BY <1>5 DEF BackupCopy, CommandInv, OneCommand, Backups
    <2>2. /\ snapshot' \in {Committed, Missing}
          /\ CloseLedger \/ UNCHANGED <<main, wal>>
      BY <1>5 DEF BackupCopy
    <2>3. /\ main' \in Files => Written(main')
          /\ wal' \in Files => Written(wal')
      BY <1>1, <1>4, <2>2 DEF FilesInv
    <2>4. snapshot' \in Files => Written(snapshot')
      BY <1>1, <2>2, CommittedIsWritten, FilesArePresent
    <2>5. FilesInv'
      BY <1>1, <2>1, <2>3, <2>4 DEF FilesInv, Written
    <2> QED
      BY <2>1, <2>5, NoHarmNoClaim DEF HarmInv
  <1>6. CASE BackupVerify
    <2>1. /\ harm = NoHarm /\ harm' = NoHarm /\ tmp' = tmp /\ CloseLedger
          /\ snapshot' \in {snapshot, Missing}
      BY <1>6 DEF BackupVerify, historyVars, CommandInv, OneCommand, Backups
    <2>2. /\ main' \in Files => Written(main')
          /\ wal' \in Files => Written(wal')
      BY <1>4, <2>1
    <2>3. snapshot' \in Files => Written(snapshot')
      BY <1>1, <2>1, FilesArePresent DEF FilesInv
    <2>4. FilesInv'
      BY <1>1, <2>1, <2>2, <2>3 DEF FilesInv, Written
    <2> QED
      BY <2>1, <2>4, NoHarmNoClaim DEF HarmInv
  <1> QED
    BY <1>2, <1>3, <1>5, <1>6

LEMMA RestoreStepHarm ==
  ASSUME CommandInv, RestoreInv, HarmInv,
         \/ \E force \in BOOLEAN : RestoreCheck(force)
         \/ RestoreCopy \/ RestoreJournal \/ RestoreRename \/ RestoreReverify
         \/ KillCommand
  PROVE  HarmInv'
  <1>1. /\ UNCHANGED <<snapshot, harm>>
        /\ wal' \in {wal, Missing}
        /\ main' = main \/ main' = tmp
        /\ \/ tmp' \in {tmp, Missing, Unreadable}
           \/ tmp' = snapshot /\ step = "restore_copy"
    BY DEF RestoreCheck, RestoreCopy, RestoreJournal, RestoreRename, RestoreReverify,
           KillCommand, fileVars, historyVars
  <1>2. FilesInv
    BY DEF HarmInv
  <1>3. step = "restore_copy" => snapshot \in Files /\ Written(snapshot)
    BY <1>2 DEF CommandInv, OneCommand, RestoreInv, Restores, FilesInv
  <1>4. /\ main' \in Files => Written(main')
        /\ wal' \in Files => Written(wal')
        /\ tmp' \in Files => Written(tmp')
    BY <1>1, <1>2, <1>3, FilesArePresent DEF FilesInv
  <1> QED
    BY <1>1, <1>4, LedgerFilesKept

(* ledger.rs:734-783: what befalls a sound snapshot is told by the walk.   *)
LEMMA DamageStepHarm ==
  ASSUME CommandInv, HarmInv, DamageSnapshot \/ DamageLedger
  PROVE  HarmInv'
  <1>1. FilesInv
    BY DEF HarmInv
  <1>2. CASE DamageLedger
    <2>1. /\ main \in Files /\ main # <<>> /\ main' = Damaged(main, "altered", 1)
          /\ UNCHANGED <<wal, snapshot, tmp, harm>>
      BY <1>2 DEF DamageLedger, Readable, historyVars, CommandInv, TypeOK
    <2>2. 1 \in 1 .. Len(main)
      BY <2>1, EmptySeq, LenProperties DEF Files
    <2>3. /\ Len(main') = Len(main)
          /\ \A k \in 1 .. Len(main) : k # 1 => main'[k] = main[k]
          /\ main'[1] = [main[1] EXCEPT !.body = 0]
      BY <2>1, <2>2, AlteredIs
    <2>4. main[1] \in Row
      BY <2>1, <2>2, ElementOfSeq DEF Files
    <2>5. /\ main'[1].seq = main[1].seq /\ main'[1].chain_version = main[1].chain_version
          /\ main'[1].entry_hash = main[1].entry_hash
      BY <2>3, <2>4 DEF Row
    <2>6. Written(main)
      BY <1>1, <2>1 DEF FilesInv
    <2>7. ASSUME NEW k \in 1 .. Len(main) PROVE WrittenAt(main'[k], k)
      <3>1. WrittenAt(main[k], k)
        BY <2>6 DEF Written
      <3>2. CASE k = 1
        BY <2>5, <3>1, <3>2 DEF WrittenAt
      <3>3. CASE k # 1
        BY <2>3, <3>1, <3>3
      <3> QED
        BY <3>2, <3>3
    <2>8. Written(main')
      BY <2>3, <2>7 DEF Written
    <2>9. /\ wal' \in Files => Written(wal')
          /\ tmp' \in Files => Written(tmp')
      BY <1>1, <2>1 DEF FilesInv
    <2> QED
      BY <2>1, <2>8, <2>9, LedgerFilesKept
  <1>3. CASE DamageSnapshot
    <2>1. /\ snapshot \in Files /\ Verify(snapshot).valid /\ Written(snapshot)
          /\ UNCHANGED <<main, wal, tmp>>
      BY <1>1, <1>3 DEF DamageSnapshot, Readable, CommandInv, TypeOK, FilesInv
    <2>2. ASSUME snapshot' \in Files => (Verify(snapshot').valid => Written(snapshot')),
                 harm' # NoHarm
          PROVE  FilesInv'
      <3>1. Written(main)' /\ Written(wal)' /\ Written(tmp)'
              <=> Written(main) /\ Written(wal) /\ Written(tmp)
        BY <2>1 DEF Written
      <3> QED
        BY <1>1, <2>1, <2>2 DEF FilesInv, Written, NoHarm
    <2>3. CASE snapshot' = Unreadable /\ harm' = [kind |-> "unreadable", at |-> 0]
      <3>1. harm' # NoHarm /\ snapshot' \notin Files
        BY <2>3, FilesArePresent DEF NoHarm
      <3> QED
        BY <2>2, <2>3, <3>1, NoHarmNoClaim DEF HarmInv
    <2>4. ASSUME NEW n \in DOMAIN snapshot, NEW kind \in {"altered", "newer", "lost"},
                 snapshot' = Damaged(snapshot, kind, n),
                 harm' = [kind |-> kind, at |-> n]
          PROVE  HarmInv'
      <3>1. n \in 1 .. Len(snapshot)
        BY <2>1, LenProperties DEF Files
      <3>2. snapshot' \in Files
        BY <2>1, <2>4, DamagedType
      <3>3. harm'.kind = kind /\ harm'.at = n /\ harm' # NoHarm
        BY <2>4 DEF NoHarm
      <3>4. PICK file \in Files : file = snapshot'
        BY <3>2
      <3>5. PICK found : found = Verify(file)
        OBVIOUS
      <3>6. /\ kind = "altered" => /\ ~found.valid /\ found.first_invalid_seq = n
                                   /\ found.entries_checked = n - 1
            /\ kind = "newer" => /\ ~found.valid /\ found.first_invalid_seq = 0
                                 /\ found.unsupported_chain_version = 2
                                 /\ found.entries_checked = n - 1
            /\ kind = "lost" =>
                 /\ n <= Len(file) => ~found.valid /\ found.first_invalid_seq = n + 1
                 /\ n > Len(file) => found.valid /\ Written(file)
        BY <2>1, <2>4, <3>1, <3>4, <3>5, AlteredIsLocated, NewerIsLocated, LostIsLocated
      <3>7. Len(file) \in Nat /\ n \in Nat
        BY <3>1, <3>4, LenProperties DEF Files
      <3>8. found.valid => Written(file)
        BY <3>6, <3>7
      <3>9. FilesInv'
        BY <2>2, <3>3, <3>4, <3>5, <3>8
      <3>10. VerifierLocatesHarm'
        <4>1. CASE kind = "altered"
          BY <3>3, <3>4, <3>5, <3>6, <4>1 DEF VerifierLocatesHarm
        <4>2. CASE kind = "newer"
          BY <3>3, <3>4, <3>5, <3>6, <4>2 DEF VerifierLocatesHarm
        <4>3. CASE kind = "lost"
          BY <3>3, <3>4, <3>5, <3>6, <3>7, <4>3 DEF VerifierLocatesHarm
        <4> QED
          BY <4>1, <4>2, <4>3
      <3> QED
        BY <3>9, <3>10 DEF HarmInv
    <2> QED
      BY <1>3, <2>3, <2>4 DEF DamageSnapshot
  <1> QED
    BY <1>2, <1>3

(* ledger.rs:734-783, README.md:668: of a sound snapshot of any length in  *)
(* which one row was altered, made newer or lost, the verifier points at   *)
(* that row, unless the last ones are gone.                                *)
THEOREM HarmIsLocated == Spec => []VerifierLocatesHarm
  <1>1. Init => HarmInv
    <2> SUFFICES ASSUME Init PROVE HarmInv
      OBVIOUS
    <2>1. VerifierLocatesHarm
      BY DEF Init, VerifierLocatesHarm
    <2>2. FilesInv
      BY FilesArePresent DEF Init, FilesInv
    <2> QED
      BY <2>1, <2>2 DEF HarmInv
  <1>2. CommandInv /\ RestoreInv /\ HarmInv /\ [Next]_vars => HarmInv'
    <2> SUFFICES ASSUME CommandInv, RestoreInv, HarmInv, [Next]_vars PROVE HarmInv'
      OBVIOUS
    <2>1. CASE UNCHANGED vars
      <3>1. UNCHANGED <<main, wal, tmp, snapshot, harm>>
        BY <2>1 DEF vars, fileVars, historyVars
      <3> QED
        BY <3>1, LedgerFilesKept DEF HarmInv, FilesInv
    <2> QED
      BY <2>1, ProxyStepHarm, BackupStepHarm, RestoreStepHarm, DamageStepHarm DEF Next
  <1>3. HarmInv => VerifierLocatesHarm
    BY DEF HarmInv
  <1> QED
    BY <1>1, <1>2, <1>3, CommandsHold, PTL DEF Spec

===============================================================================
