------------------------------- MODULE WalLog -------------------------------
(***************************************************************************)
(* The write-ahead log file of wal.rs, as operators.  The file is a        *)
(* sequence of frames; a frame is a record (an LSN and an operation) or    *)
(* Torn, the part of a frame that a failed or interrupted append left.  A  *)
(* Torn frame does not parse, whatever follows it in the file: its length  *)
(* or its checksum is wrong.                                               *)
(***************************************************************************)
EXTENDS Naturals, Sequences, FiniteSetsExt

CONSTANT Torn

Record(lsn, op) == [lsn |-> lsn, op |-> op]

(* Wal::open, the loop over parse_frame: the records before the first      *)
(* frame that does not parse.  The file is truncated to them.              *)
Intact(file) ==
    SubSeq(file, 1, Max({k \in 0..Len(file) : \A i \in 1..k : file[i] # Torn}))

LastLsn(records) == Max({0} \cup {records[i].lsn : i \in DOMAIN records})

(* Mutation: the last LSN of the log is handed out again. *)
NextLsnAtOpenOffByOne(records, floor) == Max({floor, LastLsn(records)})

(* Wal::open, line 130: the first LSN the opened log hands out. *)
NextLsnAtOpen(records, floor) == Max({floor, LastLsn(records) + 1})

(* Mutation: one record too many is skipped. *)
SkipsOneMore(record, floor) == record.lsn <= floor + 1

(* replay_wal skips what the manifest says is in the segments. *)
Skips(record, floor) == record.lsn <= floor

(* kept[n]: what is left of the first n records. *)
ToReplay(records, floor) ==
    LET kept[n \in 0..Len(records)] ==
            IF n = 0 THEN <<>>
            ELSE IF Skips(records[n], floor) THEN kept[n - 1]
            ELSE Append(kept[n - 1], records[n])
    IN  kept[Len(records)]
=============================================================================
