------------------------------ MODULE CorpusDB ------------------------------
(***************************************************************************)
(* pkg/db/db.go: the key-value file behind corpus.db.  Records are kept in *)
(* memory, changes are collected in `pending` and appended to the file by  *)
(* Flush; when much of the file is stale it is rewritten to a temporary    *)
(* file that replaces it by a rename.                                      *)
(*                                                                         *)
(* The process may end at any moment, also inside a write, and a write may *)
(* fail half way (a full disk): the file then ends with some of the        *)
(* pending records and possibly with a torn one.  deserializeDB stops at a *)
(* record it cannot parse, and it cannot parse what follows a torn record, *)
(* as it takes the bytes of the next one for the missing ones.  The loss   *)
(* of data already handed to the operating system is not modelled.         *)
(***************************************************************************)
EXTENDS Integers, FiniteSets, Sequences, SequencesExt

CONSTANTS
    Keys, Vals,     \* a value stands for a record's val and seq
    Gone,           \* the value of a key with no record
    Num, Div,       \* the file is compacted when uncompacted/Div*Num > len(Records)
    MaxOps,         \* bound: changes of Records
    MaxFaults       \* bound: crashes and failed writes

ASSUME DBAssumption ==
    /\ IsFiniteSet(Keys)
    /\ Gone \notin Vals
    /\ Num \in Nat \ {0} /\ Div \in Nat \ {0}
    /\ MaxOps \in Nat /\ MaxFaults \in Nat

Maps == [Keys -> Vals \cup {Gone}]
Entry == [key : Keys, val : Vals \cup {Gone}, whole : {TRUE}]
Torn == [whole |-> FALSE]

VARIABLES
    file,           \* what is in the file, behind its header
    alive,          \* the process that has the database open runs
    records,        \* db.Records
    pending,        \* db.pending
    uncompacted,    \* db.uncompacted
    since,          \* history: Records after the last success of Flush and ever since
    failed,         \* history: a write has failed since the file was opened or compacted
    ops, faults

vars == <<file, alive, records, pending, uncompacted, since, failed, ops, faults>>

TypeOK ==
    /\ file \in Seq(Entry \cup {Torn})
    /\ alive \in BOOLEAN
    /\ records \in Maps
    /\ pending \in Seq(Entry)
    /\ uncompacted \in Nat
    /\ since \in Seq(Maps)
    /\ failed \in BOOLEAN
    /\ ops \in 0 .. MaxOps /\ faults \in 0 .. MaxFaults

Empty == [k \in Keys |-> Gone]

Init ==
    /\ file = <<>> /\ alive = FALSE
    /\ records = Empty /\ pending = <<>> /\ uncompacted = 0
    /\ since = <<Empty>> /\ failed = FALSE
    /\ ops = 0 /\ faults = 0

-----------------------------------------------------------------------------
\* deserializeDB: the entries up to one that does not parse.
FirstTorn(f) == SelectInSeq(f, LAMBDA e : ~e.whole)

\* Mutant: a file with a torn record is taken for an empty one.
ParsedStrictly(f) == IF FirstTorn(f) = 0 THEN f ELSE <<>>

Parsed(f) == IF FirstTorn(f) = 0 THEN f ELSE SubSeq(f, 1, FirstTorn(f) - 1)

\* The records that entries make of those there were: the last entry of a key counts.
Applied(m, s) ==
    [k \in Keys |-> LET at == {i \in DOMAIN s : s[i].key = k}
                    IN  IF at = {} THEN m[k] ELSE s[Max(at)].val]

Read(f) == Applied(Empty, Parsed(f))

Present(m) == {k \in Keys : m[k] # Gone}
Wasteful(n, m) == (n \div Div) * Num > Cardinality(Present(m))

\* compact: the records in the order of the map iteration, and nothing else.
Compacted(m) ==
    {[i \in DOMAIN o |-> [key |-> o[i], val |-> m[o[i]], whole |-> TRUE]] :
     o \in {s \in [1 .. Cardinality(Present(m)) -> Present(m)] :
               \A k \in Present(m) : \E i \in DOMAIN s : s[i] = k}}

Compact(m) ==
    /\ file' \in Compacted(m)
    /\ uncompacted' = Cardinality(Present(m))
    /\ pending' = <<>>

\* Open of the file, which must not fail: the manager exits if it does.
Open ==
    /\ ~alive
    /\ alive' = TRUE
    /\ records' = Read(file)
    /\ since' = <<Read(file)>> /\ failed' = FALSE
    /\ IF Present(Read(file)) = {} \/ Wasteful(Len(Parsed(file)), Read(file))
       THEN Compact(Read(file))
       ELSE /\ uncompacted' = Len(Parsed(file))
            /\ pending' = <<>>
            /\ UNCHANGED file
    /\ UNCHANGED <<ops, faults>>

\* Mutant: the counter goes the wrong way.
ChangeCountsDown(k, v) ==
    /\ alive /\ ops < MaxOps
    /\ records[k] # v
    /\ records' = [records EXCEPT ![k] = v]
    /\ pending' = Append(pending, [key |-> k, val |-> v, whole |-> TRUE])
    /\ uncompacted' = uncompacted - 1
    /\ since' = Append(since, records')
    /\ ops' = ops + 1
    /\ UNCHANGED <<file, alive, failed, faults>>

Change(k, v) ==
    /\ alive /\ ops < MaxOps
    /\ records[k] # v
    /\ records' = [records EXCEPT ![k] = v]
    /\ pending' = Append(pending, [key |-> k, val |-> v, whole |-> TRUE])
    /\ uncompacted' = uncompacted + 1
    /\ since' = Append(since, records')
    /\ ops' = ops + 1
    /\ UNCHANGED <<file, alive, failed, faults>>

Save(k, v) == v # Gone /\ Change(k, v)
Delete(k) == Change(k, Gone)

\* Flush: compact, or append what is pending.
Flush ==
    /\ alive
    /\ \/ Wasteful(uncompacted, records) /\ Compact(records) /\ failed' = FALSE
       \/ /\ ~Wasteful(uncompacted, records) /\ pending # <<>>
          /\ file' = file \o pending
          /\ pending' = <<>>
          /\ UNCHANGED <<uncompacted, failed>>
    /\ since' = <<records>>
    /\ UNCHANGED <<alive, records, ops, faults>>

\* What an append leaves in the file when it does not get to its end.
Cut(f, p) ==
    {f \o SubSeq(p, 1, n) : n \in 0 .. Len(p)} \cup
    {Append(f \o SubSeq(p, 1, n), Torn) : n \in 0 .. Len(p) - 1}

\* Mutant: what was pending is dropped although it was not written.
FlushFailsForgets ==
    /\ alive /\ faults < MaxFaults
    /\ pending # <<>> /\ ~Wasteful(uncompacted, records)
    /\ file' \in Cut(file, pending)
    /\ faults' = faults + 1
    /\ failed' = TRUE
    /\ pending' = <<>>
    /\ UNCHANGED <<alive, records, uncompacted, since, ops>>

\* The append fails with an error; the caller logs it and goes on, and all that
\* was pending still is.  A compaction that fails changes nothing.
FlushFails ==
    /\ alive /\ faults < MaxFaults
    /\ pending # <<>> /\ ~Wasteful(uncompacted, records)
    /\ file' \in Cut(file, pending)
    /\ faults' = faults + 1
    /\ failed' = TRUE
    /\ UNCHANGED <<alive, records, pending, uncompacted, since, ops>>

\* Mutant: the file is rewritten in place.
CompactionCutInPlace(m) == UNION {{SubSeq(f, 1, n) : n \in 0 .. Len(f)} : f \in Compacted(m)}

\* What a compaction leaves when it does not get to its end: the rename has
\* happened or not.
CompactionCut(m) == Compacted(m) \cup {file}

\* The process ends, in Flush or anywhere else.
Crash ==
    /\ alive /\ faults < MaxFaults
    /\ alive' = FALSE
    /\ faults' = faults + 1
    /\ \/ /\ ~Wasteful(uncompacted, records) /\ file' \in Cut(file, pending)
       \/ /\ Wasteful(uncompacted, records) /\ file' \in CompactionCut(records)
    /\ records' = Empty /\ pending' = <<>> /\ uncompacted' = 0
    /\ UNCHANGED <<since, failed, ops>>

Next ==
    \/ Open \/ Flush \/ FlushFails \/ Crash
    \/ \E k \in Keys, v \in Vals : Save(k, v)
    \/ \E k \in Keys : Delete(k)

Spec == Init /\ [][Next]_vars

-----------------------------------------------------------------------------
TornInside == \E i \in DOMAIN file : i < Len(file) /\ ~file[i].whole

\* Whatever a crash left in the file, an Open would now find all that was flushed
\* before it and of the later changes a first part, in their order: no mixture of
\* old and new records.  (As long as no append has failed and been repeated, and
\* nothing has been appended to a torn record: see MirroredOnDisk.)
OpenFindsAPrefix ==
    ~TornInside /\ ~failed => \E i \in DOMAIN since : Read(file) = since[i]

\* With a repeated append the records may be a mixture, yet each has a value it
\* had since the last flush: nothing flushed is lost, nothing deleted comes back.
OpenFindsOwnValues ==
    ~TornInside => \A k \in Keys : \E i \in DOMAIN since : Read(file)[k] = since[i][k]

\* "The database is cached in memory and mirrored on disk" (db.go:5): once Flush has
\* succeeded and nothing has changed since, an Open would find the records, also after
\* failed and repeated appends.  Not behind a torn record: what is appended there with
\* success is not found until the next compaction.
MirroredOnDisk == alive /\ Len(since) = 1 /\ FirstTorn(file) = 0 => Read(file) = records

\* The file, its torn records and its compactions implement a durable map: Open finds
\* what the last flush left and a first part of what came later, in its order, over any
\* sequence of crashes, failed and repeated appends (db.go:41-128).
Map == INSTANCE DurableMap WITH disk <- Read(file), stuck <- FirstTorn(file) # 0
ImplementsDurableMap == Map!Spec
=============================================================================
