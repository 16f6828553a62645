--------------------------------- MODULE Chain --------------------------------
(***************************************************************************)
(* The hash chain of src/src/ledger.rs: how a row is linked when it is     *)
(* appended, and the walk by which `verify` judges the rows of a file.     *)
(*                                                                         *)
(* SHA-256 is taken as injective, so a hash is what is hashed: the         *)
(* previous hash, followed by the seq and by the `body`, the other fields  *)
(* that the hash covers.                                                   *)
(***************************************************************************)
EXTENDS Naturals, Sequences, FiniteSets, SequencesExt

GENESIS_PREV_HASH == <<>>
CURRENT_CHAIN_VERSION == 1

Hashes == Seq(Nat)

(* A row of `entries`, and all the rows of a file in the order of seq.     *)
Row == [seq : Nat, body : Nat, prev_hash : Hashes,
        chain_version : Nat, entry_hash : Hashes]
Files == Seq(Row)

(* recompute_for_version, for the one version this binary knows.           *)
EntryHash(row) == Append(Append(row.prev_hash, row.seq), row.body)

LinkedRow(seq, body, prev_hash) ==
    LET row == [seq |-> seq, body |-> body, prev_hash |-> prev_hash] IN
    [seq |-> seq, body |-> body, prev_hash |-> prev_hash,
     chain_version |-> CURRENT_CHAIN_VERSION, entry_hash |-> EntryHash(row)]

(* append_on_connection: one more than the last seq, after the last hash.  *)
Appended(rows, body) ==
    Append(rows,
           IF rows = <<>> THEN LinkedRow(1, body, GENESIS_PREV_HASH)
           ELSE LinkedRow(Last(rows).seq + 1, body, Last(rows).entry_hash))

Unsupported(row) == row.chain_version # CURRENT_CHAIN_VERSION

(* Variant: a row's own hash is checked and its link is not.               *)
HashHolds(rows, n) == rows[n].entry_hash = EntryHash(rows[n])

(* Does row n hold, all rows before it holding?                            *)
LinkHolds(rows, n) ==
    /\ rows[n].prev_hash = IF n = 1 THEN GENESIS_PREV_HASH ELSE rows[n - 1].entry_hash
    /\ rows[n].entry_hash = EntryHash(rows[n])

(* verify: the walk ends at the first row that is of an unknown version or *)
(* does not hold, and reports it as the one or the other (0 is None).      *)
Verify(rows) ==
    LET stops == {n \in DOMAIN rows : Unsupported(rows[n]) \/ ~LinkHolds(rows, n)}
        stop == Min(stops)
        newer == stops # {} /\ Unsupported(rows[stop]) IN
    [valid |-> stops = {},
     entries_checked |-> IF stops = {} THEN Len(rows) ELSE stop - 1,
     first_invalid_seq |-> IF stops # {} /\ ~newer THEN rows[stop].seq ELSE 0,
     unsupported_chain_version |-> IF newer THEN rows[stop].chain_version ELSE 0]

===============================================================================
