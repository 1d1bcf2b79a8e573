----------------------------- MODULE DurableMap -----------------------------
(***************************************************************************)
(* What pkg/db/db.go promises its users, with no file, entries, pending    *)
(* writes or compaction: a map that is changed in memory, and what the     *)
(* next Open would find, which is brought up to date by Flush and may be   *)
(* left on the way there by a crash or a failed write.                     *)
(*                                                                         *)
(* The promise is weaker than "mirrored on disk" (db.go:5) in one way:     *)
(* once a write was cut inside a record, what Open finds may stay as it is *)
(* through later flushes that report success.                              *)
(***************************************************************************)
EXTENDS Integers, Sequences

CONSTANTS
    Keys, Vals,
    Gone            \* the value of a key with no record

VARIABLES
    alive,          \* a process has the map open
    records,        \* the map in its memory
    disk,           \* the map that the next Open finds
    stuck,          \* disk ends in a record that was cut
    since           \* the map after the last success of Flush and ever since

vars == <<alive, records, disk, stuck, since>>

Empty == [k \in Keys |-> Gone]

Init ==
    /\ alive = FALSE
    /\ records = Empty /\ disk = Empty /\ stuck = FALSE
    /\ since = <<Empty>>

\* A map that is stuck may be rewritten when it is opened.
Open ==
    /\ ~alive
    /\ alive' = TRUE
    /\ records' = disk
    /\ since' = <<disk>>
    /\ stuck' \in {stuck, FALSE}
    /\ UNCHANGED disk

Change(k, v) ==
    /\ alive
    /\ records[k] # v
    /\ records' = [records EXCEPT ![k] = v]
    /\ since' = Append(since, records')
    /\ UNCHANGED <<alive, disk, stuck>>

Renewed == disk' = records /\ stuck' = FALSE
Kept == UNCHANGED <<disk, stuck>>

Flush ==
    /\ alive
    /\ Renewed \/ (stuck /\ Kept)
    /\ since' = <<records>>
    /\ UNCHANGED <<alive, records>>

\* disk with the first n of the changes made since the last success of Flush.
Brought(n) ==
    [k \in Keys |-> IF \E i \in 1 .. n : since[i + 1][k] # since[i][k]
                    THEN since[n + 1][k] ELSE disk[k]]

\* A write that does not get to its end has brought over some first changes.
Partly ==
    /\ ~stuck
    /\ \E n \in 0 .. Len(since) - 1 :
          /\ disk' = Brought(n)
          /\ stuck' \in BOOLEAN
          /\ stuck' => n < Len(since) - 1

WriteFails == alive /\ Partly /\ UNCHANGED <<alive, records, since>>

Crash ==
    /\ alive
    /\ alive' = FALSE
    /\ Partly \/ Renewed \/ Kept
    /\ records' = Empty
    /\ UNCHANGED since

Next ==
    \/ Open \/ Flush \/ WriteFails \/ Crash
    \/ \E k \in Keys, v \in Vals \cup {Gone} : Change(k, v)

Spec == Init /\ [][Next]_vars
=============================================================================
