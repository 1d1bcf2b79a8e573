--------------------------- MODULE CorpusDBProofs ---------------------------
(***************************************************************************)
(* Theorems about CorpusDB, for any finite set of keys, any values, any    *)
(* ratio at which the file is compacted, and any number of changes,        *)
(* crashes and failed writes.                                              *)
(***************************************************************************)
EXTENDS CorpusDB, Extrema, FiniteSetTheorems, SequenceTheorems, TLAPS

USE DBAssumption DEF DBAssumption

-----------------------------------------------------------------------------
(* What is parsed of a file.                                               *)

Files == Seq(Entry \cup {Torn})
Whole(f) == \A i \in 1 .. Len(f) : f[i].whole
TornWithin(f) == \E i \in 1 .. Len(f) : i < Len(f) /\ ~f[i].whole

LEMMA EntryFacts ==
    /\ \A e \in Entry : e.whole /\ e.key \in Keys /\ e.val \in Vals \cup {Gone}
    /\ \A e \in Entry \cup {Torn} : e.whole => e \in Entry
    /\ ~Torn.whole
<1>1. \A e \in Entry : e.whole /\ e.key \in Keys /\ e.val \in Vals \cup {Gone}
  BY DEF Entry
<1>2. Torn.whole = FALSE
  BY DEF Torn
<1> QED BY <1>1, <1>2

LEMMA FirstTornFacts ==
    ASSUME NEW f \in Files
    PROVE  /\ FirstTorn(f) = 0 <=> Whole(f)
           /\ FirstTorn(f) # 0 => /\ FirstTorn(f) \in 1 .. Len(f)
                                  /\ ~f[FirstTorn(f)].whole
                                  /\ \A i \in 1 .. FirstTorn(f) - 1 : f[i].whole
<1> DEFINE I == {i \in 1 .. Len(f) : ~f[i].whole}
<1>1. FirstTorn(f) = IF I # {} THEN Min(I) ELSE 0
  BY DEF FirstTorn, SelectInSeq
<1>2. Len(f) \in Nat
  BY DEF Files
<1>3. CASE I = {}
  BY <1>1, <1>3 DEF Whole
<1>4. CASE I # {}
  <2>1. I \in SUBSET Nat
    BY <1>2
  <2>2. Min(I) \in I /\ \A k \in I : Min(I) <= k
    <3> HIDE DEF I
    <3> QED BY <1>4, <2>1, MinIsLeast
  <2>3. Min(I) \in 1 .. Len(f) /\ ~f[Min(I)].whole /\ Min(I) # 0
    BY <2>2
  <2>4. \A i \in 1 .. Min(I) - 1 : f[i].whole
    <3> SUFFICES ASSUME NEW i \in 1 .. Min(I) - 1, ~f[i].whole PROVE FALSE
      OBVIOUS
    <3>1. i \in I
      BY <1>2, <2>3
    <3> QED BY <1>2, <2>2, <2>3, <3>1
  <2> QED BY <1>1, <1>4, <2>3, <2>4 DEF Whole
<1> QED BY <1>3, <1>4

LEMMA ParsedFacts ==
    ASSUME NEW f \in Files
    PROVE  /\ Parsed(f) \in Seq(Entry)
           /\ Whole(f) => f \in Seq(Entry) /\ Parsed(f) = f
<1>1. \A i \in 1 .. Len(f) : f[i] \in Entry \cup {Torn}
  BY ElementOfSeq DEF Files
<1>2. Len(f) \in Nat
  BY DEF Files
<1>3. CASE Whole(f)
  <2>1. \A i \in 1 .. Len(f) : f[i] \in Entry
    BY <1>1, <1>3, EntryFacts DEF Whole
  <2>2. f \in [1 .. Len(f) -> Entry]
    BY <2>1, LenProperties DEF Files
  <2>3. f \in Seq(Entry)
    BY <1>2, <2>2, SeqDef
  <2> QED BY <1>3, <2>3, FirstTornFacts DEF Parsed
<1>4. CASE ~Whole(f)
  <2> DEFINE t == FirstTorn(f)
  <2>1. t # 0 /\ t \in 1 .. Len(f) /\ \A i \in 1 .. t - 1 : f[i].whole
    BY <1>4, FirstTornFacts
  <2> HIDE DEF t
  <2>2. \A i \in 1 .. t - 1 : f[i] \in Entry
    BY <1>1, <1>2, <2>1, EntryFacts
  <2>3. t - 1 \in Int /\ 1 \in Int
    BY <1>2, <2>1
  <2>4. SubSeq(f, 1, t - 1) \in Seq(Entry)
    BY <2>2, <2>3, SubSeqProperties
  <2> QED BY <1>4, <2>1, <2>4 DEF Parsed, t
<1> QED BY <1>3, <1>4

\* A torn record at the end of a file does no harm.
LEMMA ParsedTornEnd ==
    ASSUME NEW f \in Seq(Entry)
    PROVE  /\ Append(f, Torn) \in Files
           /\ Parsed(Append(f, Torn)) = f
<1> DEFINE g == Append(f, Torn)
<1>1. f \in Files /\ Torn \in Entry \cup {Torn}
  BY SeqMonotonic DEF Files
<1>2. /\ g \in Files /\ Len(g) = Len(f) + 1 /\ Len(f) \in Nat
      /\ \A i \in 1 .. Len(f) : g[i] = f[i]
      /\ g[Len(f) + 1] = Torn
  BY <1>1, AppendProperties DEF Files
<1>3. \A i \in 1 .. Len(f) : g[i].whole
  <2>1. \A i \in 1 .. Len(f) : f[i] \in Entry
    BY ElementOfSeq
  <2> QED BY <1>2, <2>1, EntryFacts
<1> HIDE DEF g
<1>4. ~Whole(g)
  <2>1. Len(f) + 1 \in 1 .. Len(g) /\ ~g[Len(f) + 1].whole
    BY <1>2, EntryFacts
  <2> QED BY <2>1 DEF Whole
<1>5. FirstTorn(g) \in 1 .. Len(g) /\ ~g[FirstTorn(g)].whole /\ FirstTorn(g) # 0
  BY <1>2, <1>4, FirstTornFacts
<1>6. FirstTorn(g) = Len(f) + 1
  <2>1. FirstTorn(g) \notin 1 .. Len(f)
    BY <1>3, <1>5
  <2> QED BY <1>2, <1>5, <2>1
<1>7. SubSeq(g, 1, Len(f)) = f
  <2>1. \A i \in 1 .. Len(f) : g[i] \in Entry
    BY <1>2, ElementOfSeq
  <2>2. /\ SubSeq(g, 1, Len(f)) \in Seq(Entry)
        /\ Len(SubSeq(g, 1, Len(f))) = IF 1 <= Len(f) THEN Len(f) - 1 + 1 ELSE 0
        /\ \A i \in 1 .. Len(f) - 1 + 1 : SubSeq(g, 1, Len(f))[i] = g[1 + i - 1]
    BY <1>2, <2>1, SubSeqProperties
  <2>3. Len(SubSeq(g, 1, Len(f))) = Len(f)
    BY <1>2, <2>2
  <2>4. \A i \in 1 .. Len(f) : SubSeq(g, 1, Len(f))[i] = f[i]
    <3>1. \A i \in 1 .. Len(f) : i \in 1 .. Len(f) - 1 + 1 /\ 1 + i - 1 = i
      BY <1>2
    <3> QED BY <1>2, <2>2, <3>1
  <2> QED BY <2>2, <2>3, <2>4, SeqEqual
<1>8. FirstTorn(g) - 1 = Len(f)
  BY <1>2, <1>6
<1> QED BY <1>2, <1>5, <1>7, <1>8 DEF Parsed, g

-----------------------------------------------------------------------------
(* What entries make of the records there were.                            *)

Mentions(s, k) == \E i \in 1 .. Len(s) : s[i].key = k
LastAt(s, k, j) == j \in 1 .. Len(s) /\ s[j].key = k /\ \A i \in 1 .. Len(s) : s[i].key = k => i <= j

LEMMA LastExists ==
    ASSUME NEW s \in Seq(Entry), NEW k, Mentions(s, k)
    PROVE  \E j \in 1 .. Len(s) : LastAt(s, k, j)
<1> DEFINE at == {i \in 1 .. Len(s) : s[i].key = k}
<1>1. Len(s) \in Nat /\ at \in SUBSET (0 .. Len(s)) /\ at # {}
  BY DEF Mentions
<1>2. Max(at) \in at /\ \A i \in at : i <= Max(at)
  <2> HIDE DEF at
  <2> QED BY <1>1, MaxIsGreatest
<1> QED BY <1>2 DEF LastAt

LEMMA AppliedAt ==
    ASSUME NEW m, NEW s \in Seq(Entry), NEW k \in Keys
    PROVE  /\ ~Mentions(s, k) => Applied(m, s)[k] = m[k]
           /\ \A j : LastAt(s, k, j) => Applied(m, s)[k] = s[j].val
<1> DEFINE at == {i \in DOMAIN s : s[i].key = k}
<1>1. Len(s) \in Nat /\ DOMAIN s = 1 .. Len(s)
  BY LenProperties
<1>2. Applied(m, s)[k] = IF at = {} THEN m[k] ELSE s[Max(at)].val
  BY DEF Applied
<1>3. at = {} <=> ~Mentions(s, k)
  BY <1>1 DEF Mentions
<1>4. ASSUME NEW j, LastAt(s, k, j) PROVE at # {} /\ Max(at) = j
  <2>1. j \in at /\ \A i \in at : i <= j
    BY <1>1, <1>4 DEF LastAt
  <2>2. at \in SUBSET (0 .. Len(s))
    BY <1>1
  <2>3. Max(at) \in at /\ \A i \in at : i <= Max(at)
    <3> HIDE DEF at
    <3> QED BY <1>1, <2>1, <2>2, MaxIsGreatest
  <2>4. Max(at) <= j /\ j <= Max(at)
    BY <2>1, <2>3
  <2>5. Max(at) \in Nat /\ j \in Nat
    BY <1>1, <2>1, <2>3
  <2> QED BY <2>1, <2>4, <2>5
<1> HIDE DEF at
<1>5. ~Mentions(s, k) => Applied(m, s)[k] = m[k]
  BY <1>2, <1>3
<1>6. ASSUME NEW j, LastAt(s, k, j) PROVE Applied(m, s)[k] = s[j].val
  BY <1>2, <1>4, <1>6
<1> QED BY <1>5, <1>6

LEMMA AppliedType ==
    ASSUME NEW m \in Maps, NEW s \in Seq(Entry)
    PROVE  Applied(m, s) \in Maps
<1>1. ASSUME NEW k \in Keys PROVE Applied(m, s)[k] \in Vals \cup {Gone}
  <2>1. CASE ~Mentions(s, k)
    BY <2>1, AppliedAt DEF Maps
  <2>2. CASE Mentions(s, k)
    <3>1. PICK j \in 1 .. Len(s) : LastAt(s, k, j)
      BY <2>2, LastExists
    <3>2. Applied(m, s)[k] = s[j].val
      BY <3>1, AppliedAt
    <3>3. s[j] \in Entry
      BY ElementOfSeq
    <3> QED BY <3>2, <3>3, EntryFacts
  <2> QED BY <2>1, <2>2
<1>2. Applied(m, s) = [k \in Keys |-> Applied(m, s)[k]]
  BY DEF Applied
<1> QED BY <1>1, <1>2 DEF Maps

\* Two maps are equal when they have the same values.
LEMMA MapsEqual ==
    ASSUME NEW m \in Maps, NEW n \in Maps, \A k \in Keys : m[k] = n[k]
    PROVE  m = n
BY DEF Maps

\* Entries that follow others apply to what those have made.
LEMMA AppliedConcat ==
    ASSUME NEW m \in Maps, NEW s \in Seq(Entry), NEW t \in Seq(Entry)
    PROVE  Applied(m, s \o t) = Applied(Applied(m, s), t)
<1>1. /\ s \o t \in Seq(Entry) /\ Len(s) \in Nat /\ Len(t) \in Nat
      /\ Len(s \o t) = Len(s) + Len(t)
      /\ \A i \in 1 .. Len(s) + Len(t) : (s \o t)[i] = IF i <= Len(s) THEN s[i] ELSE t[i - Len(s)]
  BY ConcatProperties
<1> DEFINE u == s \o t
<1>2. /\ \A i \in 1 .. Len(s) : i \in 1 .. Len(u) /\ u[i] = s[i]
      /\ \A i \in 1 .. Len(t) : Len(s) + i \in 1 .. Len(u) /\ u[Len(s) + i] = t[i]
      /\ \A i \in 1 .. Len(u) : \/ i \in 1 .. Len(s)
                                \/ i - Len(s) \in 1 .. Len(t) /\ i = Len(s) + (i - Len(s))
  <2>1. \A i \in 1 .. Len(s) : i \in 1 .. Len(s) + Len(t) /\ i <= Len(s)
    BY <1>1
  <2>2. \A i \in 1 .. Len(t) : /\ Len(s) + i \in 1 .. Len(s) + Len(t)
                               /\ ~(Len(s) + i <= Len(s)) /\ Len(s) + i - Len(s) = i
    BY <1>1
  <2>3. \A i \in 1 .. Len(s) + Len(t) : \/ i \in 1 .. Len(s)
                                        \/ i - Len(s) \in 1 .. Len(t) /\ i = Len(s) + (i - Len(s))
    BY <1>1
  <2> QED BY <1>1, <2>1, <2>2, <2>3
<1>3. u \in Seq(Entry)
  BY <1>1
<1> HIDE DEF u
<1>4. ASSUME NEW k \in Keys PROVE Applied(m, u)[k] = Applied(Applied(m, s), t)[k]
  <2>1. CASE Mentions(t, k)
    <3>1. PICK j \in 1 .. Len(t) : LastAt(t, k, j)
      BY <2>1, LastExists
    <3>2. LastAt(u, k, Len(s) + j)
      <4>1. Len(s) + j \in 1 .. Len(u) /\ u[Len(s) + j].key = k
        BY <1>2, <3>1 DEF LastAt
      <4>2. ASSUME NEW i \in 1 .. Len(u), u[i].key = k PROVE i <= Len(s) + j
        <5>1. CASE i \in 1 .. Len(s)
          BY <1>1, <5>1
        <5>2. CASE i - Len(s) \in 1 .. Len(t) /\ i = Len(s) + (i - Len(s))
          <6>1. t[i - Len(s)].key = k
            BY <1>2, <4>2, <5>2
          <6>2. i - Len(s) <= j
            BY <3>1, <5>2, <6>1 DEF LastAt
          <6> QED BY <1>1, <5>2, <6>2
        <5> QED BY <1>2, <5>1, <5>2
      <4> QED BY <4>1, <4>2 DEF LastAt
    <3>3. Applied(m, u)[k] = u[Len(s) + j].val
      BY <1>3, <3>2, AppliedAt
    <3>4. Applied(Applied(m, s), t)[k] = t[j].val
      BY <3>1, AppliedAt
    <3> QED BY <1>2, <3>3, <3>4
  <2>2. CASE ~Mentions(t, k)
    <3>1. Applied(Applied(m, s), t)[k] = Applied(m, s)[k]
      BY <2>2, AppliedAt
    <3>2. \A i \in 1 .. Len(u) : u[i].key = k => i \in 1 .. Len(s) /\ s[i].key = k
      BY <1>2, <2>2 DEF Mentions
    <3>3. CASE Mentions(s, k)
      <4>1. PICK j \in 1 .. Len(s) : LastAt(s, k, j)
        BY <3>3, LastExists
      <4>2. LastAt(u, k, j)
        BY <1>2, <3>2, <4>1 DEF LastAt
      <4>3. Applied(m, u)[k] = u[j].val /\ Applied(m, s)[k] = s[j].val
        BY <1>3, <4>1, <4>2, AppliedAt
      <4> QED BY <1>2, <3>1, <4>3
    <3>4. CASE ~Mentions(s, k)
      <4>1. ~Mentions(u, k)
        BY <3>2, <3>4 DEF Mentions
      <4> QED BY <1>3, <3>1, <3>4, <4>1, AppliedAt
    <3> QED BY <3>3, <3>4
  <2> QED BY <2>1, <2>2
<1>5. Applied(m, u) \in Maps /\ Applied(Applied(m, s), t) \in Maps
  BY <1>3, AppliedType
<1> QED BY <1>4, <1>5, MapsEqual DEF u

LEMMA AppliedNothing ==
    ASSUME NEW m \in Maps
    PROVE  Applied(m, <<>>) = m
<1>1. <<>> \in Seq(Entry) /\ Len(<<>>) = 0
  BY EmptySeq
<1>2. \A k \in Keys : ~Mentions(<<>>, k)
  BY <1>1 DEF Mentions
<1>3. \A k \in Keys : Applied(m, <<>>)[k] = m[k]
  BY <1>1, <1>2, AppliedAt
<1> QED BY <1>1, <1>3, AppliedType, MapsEqual

\* A change is the application of its entry.
LEMMA AppliedAppend ==
    ASSUME NEW m \in Maps, NEW s \in Seq(Entry), NEW e \in Entry
    PROVE  Applied(m, Append(s, e)) = [Applied(m, s) EXCEPT ![e.key] = e.val]
<1> DEFINE u == Append(s, e)
           n == [Applied(m, s) EXCEPT ![e.key] = e.val]
<1>1. /\ u \in Seq(Entry) /\ Len(u) = Len(s) + 1 /\ Len(s) \in Nat
      /\ \A i \in 1 .. Len(s) : u[i] = s[i]
      /\ u[Len(s) + 1] = e
  BY AppendProperties
<1>2. Applied(m, s) \in Maps /\ e.key \in Keys /\ e.val \in Vals \cup {Gone}
  BY AppliedType, EntryFacts
<1> HIDE DEF u
<1>3. n \in Maps /\ \A k \in Keys : n[k] = IF k = e.key THEN e.val ELSE Applied(m, s)[k]
  BY <1>2 DEF Maps
<1> HIDE DEF n
<1>4. ASSUME NEW k \in Keys PROVE Applied(m, u)[k] = n[k]
  <2>1. CASE k = e.key
    <3>1. LastAt(u, k, Len(s) + 1)
      BY <1>1, <2>1 DEF LastAt
    <3> QED BY <1>1, <1>3, <2>1, <3>1, AppliedAt
  <2>2. CASE k # e.key
    <3>1. \A i \in 1 .. Len(u) : u[i].key = k => i \in 1 .. Len(s) /\ s[i].key = k
      BY <1>1, <2>2
    <3>2. CASE Mentions(s, k)
      <4>1. PICK j \in 1 .. Len(s) : LastAt(s, k, j)
        BY <3>2, LastExists
      <4>2. j \in 1 .. Len(u) /\ u[j] = s[j]
        BY <1>1
      <4>3. LastAt(u, k, j)
        BY <3>1, <4>1, <4>2 DEF LastAt
      <4>4. Applied(m, u)[k] = u[j].val /\ Applied(m, s)[k] = s[j].val
        BY <1>1, <4>1, <4>3, AppliedAt
      <4> QED BY <1>3, <2>2, <4>2, <4>4
    <3>3. CASE ~Mentions(s, k)
      <4>1. ~Mentions(u, k)
        BY <3>1, <3>3 DEF Mentions
      <4> QED BY <1>1, <1>3, <2>2, <3>3, <4>1, AppliedAt
    <3> QED BY <3>2, <3>3
  <2> QED BY <2>1, <2>2
<1>5. Applied(m, u) \in Maps
  BY <1>1, AppliedType
<1>6. Applied(m, u) = n
  BY <1>3, <1>4, <1>5, MapsEqual
<1> QED BY <1>6 DEF u, n

\* What the entries do not mention decides whether two maps come out the same.
LEMMA AppliedAgree ==
    ASSUME NEW m \in Maps, NEW n \in Maps, NEW s \in Seq(Entry),
           \A k \in Keys : ~Mentions(s, k) => m[k] = n[k]
    PROVE  Applied(m, s) = Applied(n, s)
<1>1. ASSUME NEW k \in Keys PROVE Applied(m, s)[k] = Applied(n, s)[k]
  <2>1. CASE ~Mentions(s, k)
    BY <2>1, AppliedAt
  <2>2. CASE Mentions(s, k)
    <3>1. PICK j \in 1 .. Len(s) : LastAt(s, k, j)
      BY <2>2, LastExists
    <3> QED BY <3>1, AppliedAt
  <2> QED BY <2>1, <2>2
<1> QED BY <1>1, AppliedType, MapsEqual

-----------------------------------------------------------------------------
(* What an Open finds in the files that Flush, a failed Flush, a crash and *)
(* a compaction leave.                                                     *)

LEMMA EmptyIsMap == Empty \in Maps
BY DEF Empty, Maps

LEMMA ReadType == ASSUME NEW f \in Files PROVE Read(f) \in Maps
BY ParsedFacts, AppliedType, EmptyIsMap DEF Read

\* Entries are appended to a file with no torn record, and are found there.
LEMMA ReadAppended ==
    ASSUME NEW f \in Files, NEW s \in Seq(Entry), ~TornWithin(f \o s), s # <<>>
    PROVE  /\ Whole(f) /\ f \in Seq(Entry) /\ f \o s \in Seq(Entry)
           /\ Read(f \o s) = Applied(Read(f), s)
<1>1. s \in Files /\ Len(s) \in Nat \ {0} /\ Len(f) \in Nat
  BY SeqMonotonic, EmptySeq DEF Files
<1>2. /\ f \o s \in Files /\ Len(f \o s) = Len(f) + Len(s)
      /\ \A i \in 1 .. Len(f) + Len(s) : (f \o s)[i] = IF i <= Len(f) THEN f[i] ELSE s[i - Len(f)]
  BY <1>1, ConcatProperties DEF Files
<1>3. \A i \in 1 .. Len(f) : i \in 1 .. Len(f \o s) /\ i < Len(f \o s) /\ (f \o s)[i] = f[i]
  <2>1. \A i \in 1 .. Len(f) : i \in 1 .. Len(f) + Len(s) /\ i <= Len(f) /\ i < Len(f) + Len(s)
    BY <1>1
  <2> QED BY <1>2, <2>1
<1>4. Whole(f)
  BY <1>3 DEF Whole, TornWithin
<1>5. f \in Seq(Entry) /\ Parsed(f) = f
  BY <1>4, ParsedFacts
<1>6. f \o s \in Seq(Entry)
  BY <1>5, ConcatProperties
<1>7. Parsed(f \o s) = f \o s
  <2>1. \A i \in 1 .. Len(f \o s) : (f \o s)[i] \in Entry
    BY <1>6, ElementOfSeq
  <2>2. Whole(f \o s)
    BY <2>1, EntryFacts DEF Whole
  <2> QED BY <1>2, <2>2, ParsedFacts
<1> QED BY <1>4, <1>5, <1>6, <1>7, AppliedConcat, EmptyIsMap DEF Read

\* The first entries of those that are pending.
LEMMA PrefixFacts ==
    ASSUME NEW p \in Seq(Entry), NEW n \in 0 .. Len(p)
    PROVE  /\ SubSeq(p, 1, n) \in Seq(Entry) /\ Len(SubSeq(p, 1, n)) = n
           /\ \A i \in 1 .. n : SubSeq(p, 1, n)[i] = p[i]
<1>1. Len(p) \in Nat /\ n \in Nat /\ n <= Len(p)
  OBVIOUS
<1>2. \A i \in 1 .. n : i \in 1 .. Len(p)
  BY <1>1
<1>3. \A i \in 1 .. n : p[i] \in Entry
  BY <1>2, ElementOfSeq
<1>4. /\ SubSeq(p, 1, n) \in Seq(Entry)
      /\ Len(SubSeq(p, 1, n)) = IF 1 <= n THEN n - 1 + 1 ELSE 0
      /\ \A i \in 1 .. n - 1 + 1 : SubSeq(p, 1, n)[i] = p[1 + i - 1]
  BY <1>1, <1>3, SubSeqProperties
<1>5. Len(SubSeq(p, 1, n)) = n
  BY <1>1, <1>4
<1>6. \A i \in 1 .. n : i \in 1 .. n - 1 + 1 /\ 1 + i - 1 = i
  BY <1>1
<1> QED BY <1>4, <1>5, <1>6

\* Whatever is left of an append, an Open finds a first part of the entries, unless
\* a torn record is in front of them.
LEMMA ReadCut ==
    ASSUME NEW f \in Files, NEW p \in Seq(Entry), NEW g \in Cut(f, p)
    PROVE  /\ g \in Files
           /\ ~TornWithin(g) => /\ ~TornWithin(f)
                                /\ \E n \in 0 .. Len(p) : Read(g) = Applied(Read(f), SubSeq(p, 1, n))
<1>1. Len(p) \in Nat /\ Read(f) \in Maps
  BY ReadType
<1>2. ASSUME NEW n \in 0 .. Len(p), g = f \o SubSeq(p, 1, n)
      PROVE  /\ g \in Files
             /\ ~TornWithin(g) => ~TornWithin(f) /\ Read(g) = Applied(Read(f), SubSeq(p, 1, n))
  <2>1. SubSeq(p, 1, n) \in Seq(Entry) /\ SubSeq(p, 1, n) \in Files
    BY PrefixFacts, SeqMonotonic DEF Files
  <2>2. g \in Files
    BY <1>2, <2>1, ConcatProperties DEF Files
  <2>3. CASE SubSeq(p, 1, n) = <<>>
    <3>1. g = f
      BY <1>2, <2>3, ConcatEmptySeq DEF Files
    <3> QED BY <1>1, <2>2, <2>3, <3>1, AppliedNothing
  <2>4. CASE SubSeq(p, 1, n) # <<>>
    <3>1. ASSUME ~TornWithin(g)
          PROVE  ~TornWithin(f) /\ Read(g) = Applied(Read(f), SubSeq(p, 1, n))
      <4>1. Whole(f) /\ Read(g) = Applied(Read(f), SubSeq(p, 1, n))
        BY <1>2, <2>1, <2>4, <3>1, ReadAppended
      <4> QED BY <4>1 DEF Whole, TornWithin
    <3> QED BY <2>2, <3>1
  <2> QED BY <2>3, <2>4
<1>3. ASSUME NEW n \in 0 .. Len(p), g = Append(f \o SubSeq(p, 1, n), Torn)
      PROVE  /\ g \in Files
             /\ ~TornWithin(g) => ~TornWithin(f) /\ Read(g) = Applied(Read(f), SubSeq(p, 1, n))
  <2> DEFINE h == f \o SubSeq(p, 1, n)
  <2>1. SubSeq(p, 1, n) \in Seq(Entry) /\ SubSeq(p, 1, n) \in Files
    BY PrefixFacts, SeqMonotonic DEF Files
  <2>2. h \in Files /\ Torn \in Entry \cup {Torn}
    BY <2>1, ConcatProperties DEF Files
  <2>3. /\ g \in Files /\ Len(g) = Len(h) + 1 /\ Len(h) \in Nat
        /\ \A i \in 1 .. Len(h) : g[i] = h[i]
    <3> HIDE DEF h
    <3> QED BY <1>3, <2>2, AppendProperties DEF Files, h
  <2>4. ASSUME ~TornWithin(g)
        PROVE  ~TornWithin(f) /\ Read(g) = Applied(Read(f), SubSeq(p, 1, n))
    <3>1. h \in Cut(f, p)
      BY DEF Cut
    <3>2. Whole(h)
      <4> HIDE DEF h
      <4>1. \A i \in 1 .. Len(h) : i \in 1 .. Len(g) /\ i < Len(g)
        BY <2>3
      <4> QED BY <2>3, <2>4, <4>1 DEF Whole, TornWithin
    <3>3. h \in Seq(Entry) /\ Parsed(h) = h
      <4> HIDE DEF h
      <4> QED BY <2>2, <3>2, ParsedFacts
    <3>4. Read(g) = Read(h)
      <4> HIDE DEF h
      <4> QED BY <1>3, <3>3, ParsedTornEnd DEF Read, h
    <3>5. ~TornWithin(h)
      <4> HIDE DEF h
      <4> QED BY <3>2 DEF Whole, TornWithin
    <3>6. CASE SubSeq(p, 1, n) = <<>>
      <4>1. h = f
        BY <3>6, ConcatEmptySeq DEF Files
      <4> QED BY <1>1, <3>4, <3>5, <3>6, <4>1, AppliedNothing
    <3>7. CASE SubSeq(p, 1, n) # <<>>
      <4>1. Whole(f) /\ Read(h) = Applied(Read(f), SubSeq(p, 1, n))
        BY <2>1, <3>5, <3>7, ReadAppended
      <4>2. ~TornWithin(f)
        BY <4>1 DEF Whole, TornWithin
      <4> QED BY <3>4, <4>1, <4>2
    <3> QED BY <3>6, <3>7
  <2> QED BY <2>3, <2>4
<1>4. \E n \in 0 .. Len(p) : g = f \o SubSeq(p, 1, n) \/ g = Append(f \o SubSeq(p, 1, n), Torn)
  <2>1. \A n \in 0 .. Len(p) - 1 : n \in 0 .. Len(p)
    BY <1>1
  <2> QED BY <2>1 DEF Cut
<1>5. PICK n \in 0 .. Len(p) : g = f \o SubSeq(p, 1, n) \/ g = Append(f \o SubSeq(p, 1, n), Torn)
  BY <1>4
<1> QED BY <1>2, <1>3, <1>5

\* A compacted file has the records, whatever the order they were written in.
LEMMA ReadCompacted ==
    ASSUME NEW m \in Maps, NEW g \in Compacted(m)
    PROVE  /\ g \in Seq(Entry) /\ g \in Files /\ Whole(g) /\ ~TornWithin(g)
           /\ Read(g) = m
<1> DEFINE N == Cardinality(Present(m))
<1>1. N \in Nat
  <2>1. IsFiniteSet(Present(m))
    BY FS_Subset DEF Present
  <2> QED BY <2>1, FS_CardinalityType
<1>2. PICK o \in [1 .. N -> Present(m)] :
         /\ \A k \in Present(m) : \E i \in DOMAIN o : o[i] = k
         /\ g = [i \in DOMAIN o |-> [key |-> o[i], val |-> m[o[i]], whole |-> TRUE]]
  BY DEF Compacted
<1> HIDE DEF N
<1>3. /\ DOMAIN o = 1 .. N /\ \A i \in 1 .. N : o[i] \in Keys
      /\ \A k \in Present(m) : \E i \in 1 .. N : o[i] = k
  BY <1>2 DEF Present
<1>4. \A i \in 1 .. N : /\ g[i] = [key |-> o[i], val |-> m[o[i]], whole |-> TRUE]
                        /\ m[o[i]] \in Vals \cup {Gone}
  BY <1>2, <1>3 DEF Maps
<1>5. \A i \in 1 .. N : g[i] \in Entry /\ g[i].key = o[i] /\ g[i].val = m[o[i]]
  <2>1. \A k \in Keys, v \in Vals \cup {Gone} :
           /\ [key |-> k, val |-> v, whole |-> TRUE] \in Entry
           /\ [key |-> k, val |-> v, whole |-> TRUE].key = k
           /\ [key |-> k, val |-> v, whole |-> TRUE].val = v
    BY DEF Entry
  <2>2. ASSUME NEW i \in 1 .. N PROVE g[i] \in Entry /\ g[i].key = o[i] /\ g[i].val = m[o[i]]
    <3>1. o[i] \in Keys /\ m[o[i]] \in Vals \cup {Gone}
      BY <1>3, <1>4
    <3>2. /\ [key |-> o[i], val |-> m[o[i]], whole |-> TRUE] \in Entry
          /\ [key |-> o[i], val |-> m[o[i]], whole |-> TRUE].key = o[i]
          /\ [key |-> o[i], val |-> m[o[i]], whole |-> TRUE].val = m[o[i]]
      BY <2>1, <3>1
    <3> QED BY <1>4, <3>2
  <2> QED BY <2>2
<1>6. g \in [1 .. N -> Entry]
  BY <1>2, <1>3, <1>5
<1>7. g \in Seq(Entry) /\ Len(g) = N
  <2>1. g \in Seq(Entry)
    BY <1>1, <1>6, SeqDef
  <2>2. DOMAIN g = 1 .. Len(g) /\ DOMAIN g = 1 .. N /\ Len(g) \in Nat
    BY <1>6, <2>1, LenProperties
  <2>3. \A n, l \in Nat : 1 .. n = 1 .. l => n = l
    <3> SUFFICES ASSUME NEW n \in Nat, NEW l \in Nat, 1 .. n = 1 .. l PROVE n = l
      OBVIOUS
    <3>1. n = 0 \/ n \in 1 .. l
      <4>1. n = 0 \/ n \in 1 .. n
        OBVIOUS
      <4> QED BY <4>1
    <3>2. l = 0 \/ l \in 1 .. n
      <4>1. l = 0 \/ l \in 1 .. l
        OBVIOUS
      <4> QED BY <4>1
    <3>3. n <= l /\ l <= n
      BY <3>1, <3>2
    <3> QED BY <3>3
  <2> QED BY <1>1, <2>1, <2>2, <2>3
<1>8. g \in Files /\ Whole(g) /\ ~TornWithin(g)
  <2>1. g \in Files
    BY <1>7, SeqMonotonic DEF Files
  <2>2. Whole(g)
    BY <1>5, <1>7, EntryFacts DEF Whole
  <2> QED BY <2>1, <2>2 DEF Whole, TornWithin
<1>9. Parsed(g) = g
  BY <1>8, ParsedFacts
<1>10. ASSUME NEW k \in Keys PROVE Applied(Empty, g)[k] = m[k]
  <2>1. CASE k \in Present(m)
    <3>1. Mentions(g, k)
      BY <1>3, <1>5, <1>7, <2>1 DEF Mentions
    <3>2. PICK j \in 1 .. Len(g) : LastAt(g, k, j)
      BY <1>7, <3>1, LastExists
    <3>3. Applied(Empty, g)[k] = g[j].val /\ g[j].key = k
      BY <1>7, <3>2, AppliedAt DEF LastAt
    <3> QED BY <1>5, <1>7, <3>3
  <2>2. CASE k \notin Present(m)
    <3>1. ~Mentions(g, k)
      BY <1>2, <1>3, <1>5, <1>7, <2>2 DEF Mentions
    <3>2. m[k] = Gone /\ Empty[k] = Gone
      BY <2>2 DEF Present, Empty
    <3> QED BY <1>7, <3>1, <3>2, AppliedAt
  <2> QED BY <2>1, <2>2
<1>11. Applied(Empty, g) = m
  BY <1>7, <1>10, AppliedType, EmptyIsMap, MapsEqual
<1> QED BY <1>7, <1>8, <1>9, <1>11 DEF Read

-----------------------------------------------------------------------------
(* The invariant.                                                          *)

\* What has happened since the last flush is what is pending, change by change.
PendingIsHistory ==
    alive => /\ Len(since) = Len(pending) + 1
             /\ \A n \in 0 .. Len(pending) : since[n + 1] = Applied(since[1], SubSeq(pending, 1, n))
             /\ records = since[Len(since)]

\* The file has the records of the last flush, but for the keys that are pending: a
\* flush that failed may have written some of those.
FileFits ==
    alive /\ ~TornInside =>
        /\ \A k \in Keys : ~Mentions(pending, k) => Read(file)[k] = since[1][k]
        /\ ~failed => Read(file) = since[1]

DBInv ==
    TypeOK /\ since # <<>> /\ PendingIsHistory /\ FileFits /\ OpenFindsAPrefix /\ OpenFindsOwnValues

LEMMA TypeFacts ==
    ASSUME TypeOK
    PROVE  /\ file \in Files /\ Len(file) \in Nat /\ (TornInside <=> TornWithin(file))
           /\ Read(file) \in Maps
           /\ DOMAIN since = 1 .. Len(since) /\ Len(since) \in Nat
           /\ Len(pending) \in Nat
           /\ (since # <<>> => 1 \in DOMAIN since /\ since[1] \in Maps)
<1>1. file \in Files /\ since \in Seq(Maps) /\ pending \in Seq(Entry)
  BY DEF TypeOK, Files
<1>2. Len(file) \in Nat /\ (TornInside <=> TornWithin(file))
  BY <1>1, LenProperties DEF Files, TornInside, TornWithin
<1>3. DOMAIN since = 1 .. Len(since) /\ Len(since) \in Nat /\ Len(pending) \in Nat
  BY <1>1, LenProperties
<1>4. ASSUME since # <<>> PROVE 1 \in DOMAIN since /\ since[1] \in Maps
  <2>1. 1 \in 1 .. Len(since)
    BY <1>1, <1>4, EmptySeq
  <2> QED BY <1>1, <1>3, <2>1, ElementOfSeq
<1> QED BY <1>1, <1>2, <1>3, <1>4, ReadType

LEMMA PresentFinite == \A m : Cardinality(Present(m)) \in Nat
<1>1. \A m : IsFiniteSet(Present(m))
  BY FS_Subset DEF Present
<1> QED BY <1>1, FS_CardinalityType

LEMMA DBInvInit == Init => DBInv
<1> SUFFICES ASSUME Init PROVE DBInv
  OBVIOUS
<1>1. file = <<>> /\ alive = FALSE /\ records = Empty /\ pending = <<>> /\ since = <<Empty>>
  BY DEF Init
<1>2. /\ <<>> \in Seq(Entry \cup {Torn}) /\ <<>> \in Seq(Entry) /\ <<Empty>> \in Seq(Maps)
  BY EmptySeq, EmptyIsMap
<1>3. TypeOK
  <2>1. file \in Seq(Entry \cup {Torn}) /\ pending \in Seq(Entry) /\ since \in Seq(Maps)
    BY <1>1, <1>2
  <2>2. alive \in BOOLEAN /\ records \in Maps /\ failed \in BOOLEAN
    BY <1>1, EmptyIsMap DEF Init
  <2>3. uncompacted \in Nat /\ ops \in 0 .. MaxOps /\ faults \in 0 .. MaxFaults
    BY DEF Init
  <2> QED BY <2>1, <2>2, <2>3 DEF TypeOK
<1>4. DOMAIN since = {1} /\ since[1] = Empty /\ since # <<>>
  BY <1>1
<1>5. Read(file) = Empty
  <2>1. Whole(<<>>) /\ <<>> \in Files
    BY <1>2, EmptySeq DEF Whole, Files
  <2>2. Parsed(<<>>) = <<>>
    BY <2>1, ParsedFacts
  <2> QED BY <1>1, <2>2, AppliedNothing, EmptyIsMap DEF Read
<1> QED
  BY <1>1, <1>3, <1>4, <1>5 DEF DBInv, PendingIsHistory, FileFits, OpenFindsAPrefix, OpenFindsOwnValues

\* A file that is read as the only map of the history, with nothing pending.
LEMMA FlushedInv ==
    ASSUME TypeOK', alive' = TRUE, pending' = <<>>, NEW m \in Maps, since' = <<m>>,
           records' = m, ~TornInside' => Read(file') = m
    PROVE  DBInv'
<1>1. since'[1] = m /\ since' # <<>> /\ DOMAIN since' = {1} /\ Len(since') = 1 /\ Len(pending') = 0
  OBVIOUS
<1>2. SubSeq(pending', 1, 0) = <<>>
  BY SubSeqEmpty
<1>3. PendingIsHistory'
  <2>1. \A n \in 0 .. 0 : n = 0
    OBVIOUS
  <2>2. Applied(since'[1], SubSeq(pending', 1, 0)) = m
    BY <1>1, <1>2, AppliedNothing
  <2> QED BY <1>1, <2>1, <2>2 DEF PendingIsHistory
<1>4. FileFits'
  BY <1>1 DEF FileFits
<1>5. OpenFindsAPrefix'
  BY <1>1 DEF OpenFindsAPrefix
<1>6. OpenFindsOwnValues'
  BY <1>1 DEF OpenFindsOwnValues
<1> QED BY <1>1, <1>3, <1>4, <1>5, <1>6 DEF DBInv

\* What is found after a cut append is made of what there was in the history.
LEMMA CutFits ==
    ASSUME DBInv, alive, NEW g \in Cut(file, pending), ~TornWithin(g)
    PROVE  /\ ~TornInside
           /\ \A k \in Keys : ~Mentions(pending, k) => Read(g)[k] = since[1][k]
           /\ \A k \in Keys : \E i \in DOMAIN since : Read(g)[k] = since[i][k]
           /\ ~failed => \E i \in DOMAIN since : Read(g) = since[i]
<1>1. /\ TypeOK /\ file \in Files /\ pending \in Seq(Entry) /\ Len(pending) \in Nat
      /\ (TornInside <=> TornWithin(file)) /\ Read(file) \in Maps
      /\ DOMAIN since = 1 .. Len(since) /\ since[1] \in Maps /\ Len(since) = Len(pending) + 1
  BY TypeFacts DEF DBInv, TypeOK, PendingIsHistory
<1>2. ~TornInside /\ \E n \in 0 .. Len(pending) : Read(g) = Applied(Read(file), SubSeq(pending, 1, n))
  BY <1>1, ReadCut
<1>3. PICK n \in 0 .. Len(pending) : Read(g) = Applied(Read(file), SubSeq(pending, 1, n))
  BY <1>2
<1> DEFINE s == SubSeq(pending, 1, n)
<1>4. /\ s \in Seq(Entry) /\ Len(s) = n
      /\ \A i \in 1 .. n : s[i] = pending[i]
  BY <1>1, PrefixFacts
<1>5. n + 1 \in DOMAIN since /\ since[n + 1] = Applied(since[1], s)
  <2>1. n + 1 \in DOMAIN since
    BY <1>1
  <2> QED BY <2>1 DEF DBInv, PendingIsHistory
<1>6. Read(g) = Applied(Read(file), s)
  BY <1>3
<1> HIDE DEF s
<1>7. \A k \in Keys : Mentions(s, k) => Mentions(pending, k)
  <2>1. \A i \in 1 .. n : i \in 1 .. Len(pending)
    BY <1>1
  <2> QED BY <1>4, <2>1 DEF Mentions
<1>8. ASSUME NEW k \in Keys, ~Mentions(pending, k) PROVE Read(g)[k] = since[1][k]
  <2>1. Read(g)[k] = Read(file)[k]
    BY <1>4, <1>6, <1>7, <1>8, AppliedAt
  <2> QED BY <1>2, <1>8, <2>1 DEF DBInv, FileFits
<1>9. ASSUME NEW k \in Keys PROVE \E i \in DOMAIN since : Read(g)[k] = since[i][k]
  <2>1. CASE Mentions(s, k)
    <3>1. PICK j \in 1 .. Len(s) : LastAt(s, k, j)
      BY <1>4, <2>1, LastExists
    <3>2. Applied(Read(file), s)[k] = s[j].val /\ Applied(since[1], s)[k] = s[j].val
      BY <1>4, <3>1, AppliedAt
    <3> QED BY <1>5, <1>6, <3>2
  <2>2. CASE ~Mentions(s, k)
    <3>1. Read(g)[k] = Read(file)[k]
      BY <1>4, <1>6, <2>2, AppliedAt
    <3> QED BY <1>2, <3>1 DEF DBInv, OpenFindsOwnValues
  <2> QED BY <2>1, <2>2
<1>10. ~failed => \E i \in DOMAIN since : Read(g) = since[i]
  <2>1. ~failed => Read(file) = since[1]
    BY <1>2 DEF DBInv, FileFits
  <2> QED BY <1>5, <1>6, <2>1
<1> QED BY <1>2, <1>8, <1>9, <1>10

LEMMA SameDB == DBInv /\ UNCHANGED vars => DBInv'
BY DEF DBInv, vars, TypeOK, PendingIsHistory, FileFits, OpenFindsAPrefix, OpenFindsOwnValues,
       TornInside

LEMMA OneMapSeq == \A m \in Maps : <<m>> \in Seq(Maps)
BY EmptySeq, AppendProperties

LEMMA OpenInv ==
    ASSUME DBInv, Open
    PROVE  DBInv'
<1> DEFINE m == Read(file)
<1>1. TypeOK /\ file \in Files /\ (TornInside <=> TornWithin(file)) /\ m \in Maps
  BY TypeFacts DEF DBInv
<1>2. /\ alive' = TRUE /\ records' = m /\ since' = <<m>> /\ failed' = FALSE /\ pending' = <<>>
      /\ UNCHANGED <<ops, faults>>
      /\ \/ file' \in Compacted(m) /\ uncompacted' = Cardinality(Present(m))
         \/ UNCHANGED file /\ uncompacted' = Len(Parsed(file))
  BY DEF Open, Compact
<1> HIDE DEF m
<1>3. file' \in Files /\ (~TornInside' => Read(file') = m) /\ uncompacted' \in Nat
  <2>1. CASE file' \in Compacted(m) /\ uncompacted' = Cardinality(Present(m))
    BY <1>1, <2>1, ReadCompacted, PresentFinite
  <2>2. CASE UNCHANGED file /\ uncompacted' = Len(Parsed(file))
    <3>1. Len(Parsed(file)) \in Nat
      BY <1>1, ParsedFacts, LenProperties
    <3> QED BY <1>1, <2>2, <3>1 DEF m
  <2> QED BY <1>2, <2>1, <2>2
<1>4. TypeOK'
  <2>1. since' \in Seq(Maps) /\ pending' \in Seq(Entry)
    BY <1>1, <1>2, OneMapSeq, EmptySeq
  <2>2. alive' \in BOOLEAN /\ failed' \in BOOLEAN /\ records' \in Maps
    BY <1>1, <1>2
  <2>3. ops' \in 0 .. MaxOps /\ faults' \in 0 .. MaxFaults
    BY <1>1, <1>2 DEF TypeOK
  <2> QED BY <1>3, <2>1, <2>2, <2>3 DEF TypeOK, Files
<1> QED BY <1>1, <1>2, <1>3, <1>4, FlushedInv

LEMMA ChangeInv ==
    ASSUME DBInv, NEW k \in Keys, NEW v \in Vals \cup {Gone}, Change(k, v)
    PROVE  DBInv'
<1> DEFINE e == [key |-> k, val |-> v, whole |-> TRUE]
<1>1. /\ TypeOK /\ file \in Files /\ pending \in Seq(Entry) /\ since \in Seq(Maps) /\ records \in Maps
      /\ Len(pending) \in Nat /\ Len(since) \in Nat /\ DOMAIN since = 1 .. Len(since)
      /\ (TornInside <=> TornWithin(file)) /\ Read(file) \in Maps /\ since[1] \in Maps
  BY TypeFacts DEF DBInv, TypeOK
<1>2. /\ alive = TRUE /\ alive' = TRUE /\ ops < MaxOps /\ ops' = ops + 1
      /\ records' = [records EXCEPT ![k] = v]
      /\ pending' = Append(pending, e)
      /\ uncompacted' = uncompacted + 1
      /\ since' = Append(since, records')
      /\ UNCHANGED <<file, failed, faults>>
  BY <1>1 DEF Change, TypeOK
<1>3. e \in Entry /\ e.key = k /\ e.val = v
  BY DEF Entry
<1> HIDE DEF e
<1>4. /\ Len(since) = Len(pending) + 1
      /\ \A n \in 0 .. Len(pending) : since[n + 1] = Applied(since[1], SubSeq(pending, 1, n))
      /\ records = since[Len(since)]
  BY <1>2 DEF DBInv, PendingIsHistory
<1>5. records' \in Maps
  BY <1>1, <1>2 DEF Maps
<1>6. /\ pending' \in Seq(Entry) /\ Len(pending') = Len(pending) + 1
      /\ \A i \in 1 .. Len(pending) : pending'[i] = pending[i]
  BY <1>1, <1>2, <1>3, AppendProperties
<1>7. /\ since' \in Seq(Maps) /\ Len(since') = Len(since) + 1
      /\ \A i \in 1 .. Len(since) : since'[i] = since[i]
      /\ since'[Len(since) + 1] = records'
  BY <1>1, <1>2, <1>5, AppendProperties
<1>8. DOMAIN since' = 1 .. Len(since) + 1 /\ 1 \in 1 .. Len(since) /\ since'[1] = since[1] /\ since' # <<>>
  <2>1. DOMAIN since' = 1 .. Len(since) + 1
    BY <1>7, LenProperties
  <2>2. 1 \in 1 .. Len(since)
    BY <1>1, <1>4
  <2>3. since' # <<>>
    BY <1>1, <1>7, EmptySeq
  <2> QED BY <1>7, <2>1, <2>2, <2>3
<1>9. TypeOK'
  <2>1. uncompacted' \in Nat /\ ops' \in 0 .. MaxOps
    BY <1>1, <1>2 DEF TypeOK
  <2>2. file' \in Seq(Entry \cup {Torn}) /\ failed' \in BOOLEAN /\ faults' \in 0 .. MaxFaults
    BY <1>1, <1>2 DEF TypeOK
  <2>3. alive' \in BOOLEAN
    BY <1>2
  <2> QED BY <1>5, <1>6, <1>7, <2>1, <2>2, <2>3 DEF TypeOK
<1>10. PendingIsHistory'
  <2>1. Len(since') = Len(pending') + 1 /\ Len(since') = Len(since) + 1
    BY <1>1, <1>4, <1>6, <1>7
  <2>2. ASSUME NEW n \in 0 .. Len(pending)
        PROVE  since'[n + 1] = Applied(since'[1], SubSeq(pending', 1, n))
    <3>1. n + 1 \in 1 .. Len(since)
      BY <1>1, <1>4
    <3>2. SubSeq(pending', 1, n) = SubSeq(pending, 1, n)
      <4>1. n \in 0 .. Len(pending')
        BY <1>1, <1>6
      <4>2. /\ SubSeq(pending', 1, n) \in Seq(Entry) /\ Len(SubSeq(pending', 1, n)) = n
            /\ \A i \in 1 .. n : SubSeq(pending', 1, n)[i] = pending'[i]
        BY <1>6, <4>1, PrefixFacts
      <4>3. /\ SubSeq(pending, 1, n) \in Seq(Entry) /\ Len(SubSeq(pending, 1, n)) = n
            /\ \A i \in 1 .. n : SubSeq(pending, 1, n)[i] = pending[i]
        BY <1>1, PrefixFacts
      <4>4. \A i \in 1 .. n : i \in 1 .. Len(pending)
        BY <1>1
      <4>5. \A i \in 1 .. n : SubSeq(pending', 1, n)[i] = SubSeq(pending, 1, n)[i]
        BY <1>6, <4>2, <4>3, <4>4
      <4> QED BY <4>2, <4>3, <4>5, SeqEqual
    <3> QED BY <1>4, <1>7, <1>8, <3>1, <3>2
  <2>3. since'[Len(pending') + 1] = Applied(since'[1], SubSeq(pending', 1, Len(pending')))
    <3>1. SubSeq(pending', 1, Len(pending')) = Append(pending, e)
      BY <1>2, <1>6, SubSeqFull
    <3>2. Applied(since[1], Append(pending, e)) = [Applied(since[1], pending) EXCEPT ![k] = v]
      BY <1>1, <1>3, AppliedAppend
    <3>3. Applied(since[1], pending) = records
      <4>1. SubSeq(pending, 1, Len(pending)) = pending
        BY <1>1, SubSeqFull
      <4>2. Len(pending) \in 0 .. Len(pending)
        BY <1>1
      <4>3. since[Len(pending) + 1] = Applied(since[1], SubSeq(pending, 1, Len(pending)))
        BY <1>4, <4>2
      <4> QED BY <1>4, <4>1, <4>3
    <3>4. since'[Len(pending') + 1] = records'
      BY <1>4, <1>6, <1>7
    <3> QED BY <1>2, <1>8, <3>1, <3>2, <3>3, <3>4
  <2>4. \A n \in 0 .. Len(pending') : n \in 0 .. Len(pending) \/ n = Len(pending')
    BY <1>1, <1>6
  <2>5. records' = since'[Len(since')]
    BY <1>7
  <2> QED BY <2>1, <2>2, <2>3, <2>4, <2>5 DEF PendingIsHistory
<1>11. TornInside' <=> TornInside
  BY <1>2 DEF TornInside
<1>12. FileFits'
  <2>1. \A x \in Keys : Mentions(pending, x) => Mentions(pending', x)
    <3>1. \A i \in 1 .. Len(pending) : i \in 1 .. Len(pending')
      BY <1>1, <1>6
    <3> QED BY <1>6, <3>1 DEF Mentions
  <2> QED BY <1>2, <1>8, <1>11, <2>1 DEF DBInv, FileFits
<1>13. \A i \in DOMAIN since : i \in DOMAIN since' /\ since'[i] = since[i]
  BY <1>1, <1>7, <1>8
<1>14. OpenFindsAPrefix'
  BY <1>2, <1>11, <1>13 DEF DBInv, OpenFindsAPrefix
<1>15. OpenFindsOwnValues'
  BY <1>2, <1>11, <1>13 DEF DBInv, OpenFindsOwnValues
<1> QED BY <1>8, <1>9, <1>10, <1>12, <1>14, <1>15 DEF DBInv

LEMMA FlushInv ==
    ASSUME DBInv, Flush
    PROVE  DBInv'
<1>1. /\ TypeOK /\ file \in Files /\ pending \in Seq(Entry) /\ records \in Maps /\ Len(pending) \in Nat
      /\ (TornInside <=> TornWithin(file)) /\ Read(file) \in Maps /\ since[1] \in Maps
  BY TypeFacts DEF DBInv, TypeOK
<1>2. alive = TRUE /\ alive' = TRUE /\ since' = <<records>> /\ pending' = <<>> /\ UNCHANGED <<records, ops, faults>>
  BY <1>1 DEF Flush, Compact, TypeOK
<1>4. /\ file' \in Files /\ (~TornInside' => Read(file') = records) /\ uncompacted' \in Nat /\ failed' \in BOOLEAN
  <2>1. CASE file' \in Compacted(records) /\ uncompacted' = Cardinality(Present(records)) /\ failed' = FALSE
    <3>1. file' \in Files /\ Read(file') = records
      BY <1>1, <2>1, ReadCompacted
    <3> QED BY <2>1, <3>1, PresentFinite
  <2>2. CASE pending # <<>> /\ file' = file \o pending /\ UNCHANGED <<uncompacted, failed>>
    <3>1. file' \in Files
      BY <1>1, <2>2, SeqMonotonic, ConcatProperties DEF Files
    <3>2. TornInside' <=> TornWithin(file')
      BY <3>1, LenProperties DEF Files, TornInside, TornWithin
    <3>3. ASSUME ~TornWithin(file') PROVE Read(file') = records
      <4>1. Whole(file) /\ Read(file') = Applied(Read(file), pending)
        BY <1>1, <2>2, <3>3, ReadAppended
      <4>2. ~TornInside
        BY <1>1, <4>1 DEF Whole, TornWithin
      <4>3. Applied(Read(file), pending) = Applied(since[1], pending)
        BY <1>1, <1>2, <4>2, AppliedAgree DEF DBInv, FileFits
      <4>4. Applied(since[1], pending) = records
        <5>1. SubSeq(pending, 1, Len(pending)) = pending
          BY <1>1, SubSeqFull
        <5>2. Len(pending) \in 0 .. Len(pending)
          BY <1>1
        <5> QED BY <1>2, <5>1, <5>2 DEF DBInv, PendingIsHistory
      <4> QED BY <4>1, <4>3, <4>4
    <3> QED BY <1>1, <2>2, <3>1, <3>2, <3>3 DEF TypeOK
  <2> QED BY <2>1, <2>2 DEF Flush, Compact
<1>5. TypeOK'
  <2>1. since' \in Seq(Maps) /\ pending' \in Seq(Entry)
    BY <1>1, <1>2, OneMapSeq, EmptySeq
  <2>2. alive' \in BOOLEAN /\ records' \in Maps
    BY <1>1, <1>2
  <2>3. ops' \in 0 .. MaxOps /\ faults' \in 0 .. MaxFaults
    BY <1>1, <1>2 DEF TypeOK
  <2> QED BY <1>4, <2>1, <2>2, <2>3 DEF TypeOK, Files
<1> QED BY <1>1, <1>2, <1>4, <1>5, FlushedInv

\* A cut append leaves a file of the right type.
LEMMA CutFile ==
    ASSUME TypeOK, file' \in Cut(file, pending)
    PROVE  file' \in Files /\ (TornInside' <=> TornWithin(file'))
<1>1. file \in Files /\ pending \in Seq(Entry)
  BY DEF TypeOK, Files
<1>2. file' \in Files
  BY <1>1, ReadCut
<1> QED BY <1>2, LenProperties DEF Files, TornInside, TornWithin

LEMMA FlushFailsInv ==
    ASSUME DBInv, FlushFails
    PROVE  DBInv'
<1>1. TypeOK /\ alive /\ file' \in Cut(file, pending) /\ failed' = TRUE /\ faults < MaxFaults
      /\ faults' = faults + 1 /\ UNCHANGED <<alive, records, pending, uncompacted, since, ops>>
  BY DEF FlushFails, DBInv
<1>2. file' \in Files /\ (TornInside' <=> TornWithin(file'))
  BY <1>1, CutFile
<1>3. TypeOK'
  <2>1. faults' \in 0 .. MaxFaults
    BY <1>1 DEF TypeOK
  <2>2. failed' \in BOOLEAN /\ file' \in Seq(Entry \cup {Torn})
    BY <1>1, <1>2 DEF Files
  <2> QED BY <1>1, <2>1, <2>2 DEF TypeOK
<1>4. ASSUME ~TornInside'
      PROVE  /\ \A k \in Keys : ~Mentions(pending, k) => Read(file')[k] = since[1][k]
             /\ \A k \in Keys : \E i \in DOMAIN since : Read(file')[k] = since[i][k]
  BY <1>1, <1>2, <1>4, CutFits
<1>5. PendingIsHistory'
  BY <1>1 DEF DBInv, PendingIsHistory
<1>6. FileFits'
  BY <1>1, <1>4 DEF FileFits
<1>7. OpenFindsAPrefix' /\ OpenFindsOwnValues'
  BY <1>1, <1>4 DEF OpenFindsAPrefix, OpenFindsOwnValues
<1> QED BY <1>1, <1>3, <1>5, <1>6, <1>7 DEF DBInv

LEMMA CrashInv ==
    ASSUME DBInv, Crash
    PROVE  DBInv'
<1>1. /\ TypeOK /\ alive /\ alive' = FALSE /\ faults < MaxFaults /\ faults' = faults + 1
      /\ records' = Empty /\ pending' = <<>> /\ uncompacted' = 0 /\ UNCHANGED <<since, failed, ops>>
      /\ file' \in Cut(file, pending) \/ file' \in Compacted(records) \/ UNCHANGED file
  BY DEF Crash, CompactionCut, DBInv
<1>2. /\ file \in Files /\ records \in Maps /\ (TornInside <=> TornWithin(file))
      /\ DOMAIN since = 1 .. Len(since) /\ Len(since) \in Nat
  BY <1>1, TypeFacts DEF TypeOK
<1>3. /\ file' \in Files
      /\ ~TornInside' => /\ \A k \in Keys : \E i \in DOMAIN since : Read(file')[k] = since[i][k]
                         /\ ~failed => \E i \in DOMAIN since : Read(file') = since[i]
  <2>1. CASE file' \in Cut(file, pending)
    BY <1>1, <2>1, CutFile, CutFits
  <2>2. CASE file' \in Compacted(records)
    <3>1. file' \in Files /\ Read(file') = records
      BY <1>2, <2>2, ReadCompacted
    <3>2. Len(since) \in DOMAIN since /\ records = since[Len(since)]
      <4>1. Len(since) # 0
        BY EmptySeq, <1>1 DEF DBInv, TypeOK
      <4> QED BY <1>1, <1>2, <4>1 DEF DBInv, PendingIsHistory
    <3> QED BY <3>1, <3>2
  <2>3. CASE UNCHANGED file
    <3>1. TornInside' <=> TornInside
      BY <2>3 DEF TornInside
    <3> QED BY <1>2, <2>3, <3>1 DEF DBInv, OpenFindsAPrefix, OpenFindsOwnValues
  <2> QED BY <1>1, <2>1, <2>2, <2>3
<1>4. TypeOK'
  <2>1. faults' \in 0 .. MaxFaults
    BY <1>1 DEF TypeOK
  <2>2. pending' \in Seq(Entry) /\ records' \in Maps /\ uncompacted' \in Nat /\ alive' \in BOOLEAN
    BY <1>1, EmptySeq, EmptyIsMap
  <2> QED BY <1>1, <1>3, <2>1, <2>2 DEF TypeOK, Files
<1>5. PendingIsHistory' /\ FileFits'
  BY <1>1 DEF PendingIsHistory, FileFits
<1>6. OpenFindsAPrefix' /\ OpenFindsOwnValues'
  BY <1>1, <1>3 DEF OpenFindsAPrefix, OpenFindsOwnValues
<1> QED BY <1>1, <1>4, <1>5, <1>6 DEF DBInv

LEMMA DBInvNext == DBInv /\ [Next]_vars => DBInv'
<1> SUFFICES ASSUME DBInv, [Next]_vars PROVE DBInv'
  OBVIOUS
<1>1. CASE UNCHANGED vars
  BY <1>1, SameDB
<1>2. CASE Open
  BY <1>2, OpenInv
<1>3. CASE Flush
  BY <1>3, FlushInv
<1>4. CASE FlushFails
  BY <1>4, FlushFailsInv
<1>5. CASE Crash
  BY <1>5, CrashInv
<1>6. ASSUME NEW k \in Keys, NEW v \in Vals, Save(k, v) PROVE DBInv'
  BY <1>6, ChangeInv DEF Save
<1>7. ASSUME NEW k \in Keys, Delete(k) PROVE DBInv'
  BY <1>7, ChangeInv DEF Delete
<1> QED BY <1>1, <1>2, <1>3, <1>4, <1>5, <1>6, <1>7 DEF Next

\* The invariant from which the theorems below follow: what is pending is what has
\* happened since the last flush, and the file differs from it only there.
THEOREM DBInvHolds == Spec => []DBInv
BY DBInvInit, DBInvNext, PTL DEF Spec

-----------------------------------------------------------------------------
(* The theorems.                                                           *)

\* Type correctness of the database and its file (db.go:25-34).
THEOREM TypeCorrect == Spec => []TypeOK
<1>1. DBInv => TypeOK
  BY DEF DBInv
<1> QED BY <1>1, DBInvHolds, PTL

\* Wherever the process ends, deserializeDB finds what was flushed and a first part of
\* what was not, in its order (Flush, db.go:80-97, compact, 107-128), unless a write has
\* failed since the last Open or compaction, or something was appended to a torn record.
THEOREM APrefixIsFound == Spec => []OpenFindsAPrefix
<1>1. DBInv => OpenFindsAPrefix
  BY DEF DBInv
<1> QED BY <1>1, DBInvHolds, PTL

\* With failed and repeated appends a key still has a value it had since the last
\* success of Flush.
THEOREM OwnValuesAreFound == Spec => []OpenFindsOwnValues
<1>1. DBInv => OpenFindsOwnValues
  BY DEF DBInv
<1> QED BY <1>1, DBInvHolds, PTL

\* A flush that succeeds behind no torn record has written the records.
LEMMA DBInvMirrors == DBInv => MirroredOnDisk
<1> SUFFICES ASSUME DBInv, alive, Len(since) = 1, FirstTorn(file) = 0
             PROVE  Read(file) = records
  BY DEF MirroredOnDisk
<1>1. /\ file \in Files /\ (TornInside <=> TornWithin(file)) /\ Read(file) \in Maps
      /\ since[1] \in Maps /\ Len(pending) \in Nat
  BY TypeFacts DEF DBInv
<1>2. ~TornInside
  BY <1>1, FirstTornFacts DEF Whole, TornWithin
<1>3. Len(pending) = 0 /\ records = since[1]
  BY <1>1 DEF DBInv, PendingIsHistory
<1>4. \A k \in Keys : ~Mentions(pending, k)
  BY <1>3 DEF Mentions
<1>5. \A k \in Keys : Read(file)[k] = since[1][k]
  BY <1>2, <1>4 DEF DBInv, FileFits
<1> QED BY <1>1, <1>3, <1>5, MapsEqual

\* "Mirrored on disk" (db.go:5): after a success of Flush a file with no torn record is
\* read as the records in memory, however many appends have failed before.
THEOREM RecordsAreMirrored == Spec => []MirroredOnDisk
BY DBInvMirrors, DBInvHolds, PTL

-----------------------------------------------------------------------------
(* The database implements a durable map.                                  *)

\* Each change that is pending has changed its key (Save and Delete return early if
\* there is nothing to do, db.go:60-78).
ChangesAreReal ==
    alive => \A i \in 1 .. Len(pending) :
        since[i + 1][pending[i].key] # since[i][pending[i].key]

RInv == DBInv /\ ChangesAreReal

LEMMA RInvInit == Init => RInv
BY DBInvInit DEF Init, RInv, ChangesAreReal

LEMMA ChangesAreRealNext ==
    ASSUME RInv, [Next]_vars
    PROVE  ChangesAreReal'
<1> USE DEF RInv
<1>1. ASSUME pending' = <<>> PROVE ChangesAreReal'
  <2>1. Len(pending') = 0
    BY <1>1
  <2> QED BY <2>1 DEF ChangesAreReal
<1>2. CASE Open \/ Flush
  <2>1. pending' = <<>>
    BY <1>2 DEF Open, Flush, Compact
  <2> QED BY <1>1, <2>1
<1>3. CASE FlushFails \/ UNCHANGED vars
  BY <1>3 DEF FlushFails, vars, ChangesAreReal
<1>4. CASE Crash
  BY <1>1, <1>4 DEF Crash
<1>5. ASSUME NEW k \in Keys, NEW v \in Vals \cup {Gone}, Change(k, v) PROVE ChangesAreReal'
  <2> DEFINE e == [key |-> k, val |-> v, whole |-> TRUE]
  <2>1. /\ pending \in Seq(Entry) /\ since \in Seq(Maps) /\ records \in Maps
        /\ Len(pending) \in Nat /\ Len(since) = Len(pending) + 1 /\ records = since[Len(since)]
    BY <1>5, TypeFacts DEF DBInv, TypeOK, PendingIsHistory, Change
  <2>2. /\ records[k] # v /\ records' = [records EXCEPT ![k] = v]
        /\ pending' = Append(pending, e) /\ since' = Append(since, records')
    BY <1>5 DEF Change
  <2>3. e \in Entry /\ e.key = k
    BY DEF Entry
  <2> HIDE DEF e
  <2>4. records' \in Maps /\ records'[k] = v
    BY <2>1, <2>2 DEF Maps
  <2>5. /\ Len(pending') = Len(pending) + 1
        /\ \A i \in 1 .. Len(pending) : pending'[i] = pending[i]
        /\ pending'[Len(pending) + 1] = e
    BY <2>1, <2>2, <2>3, AppendProperties
  <2>6. /\ \A i \in 1 .. Len(since) : since'[i] = since[i]
        /\ since'[Len(since) + 1] = records'
    BY <2>1, <2>2, <2>4, AppendProperties
  <2>7. ASSUME NEW i \in 1 .. Len(pending)
        PROVE  since'[i + 1][pending'[i].key] # since'[i][pending'[i].key]
    <3>1. i \in 1 .. Len(since) /\ i + 1 \in 1 .. Len(since)
      BY <2>1
    <3>2. since'[i] = since[i] /\ since'[i + 1] = since[i + 1] /\ pending'[i] = pending[i]
      BY <2>5, <2>6, <3>1
    <3> QED BY <1>5, <3>2 DEF ChangesAreReal, Change
  <2>8. since'[Len(pending) + 1] = records /\ since'[Len(pending) + 1 + 1] = records'
    <3>1. Len(since) \in 1 .. Len(since)
      BY <2>1
    <3> QED BY <2>1, <2>6, <3>1
  <2>9. since'[Len(pending) + 1 + 1][pending'[Len(pending) + 1].key]
          # since'[Len(pending) + 1][pending'[Len(pending) + 1].key]
    BY <2>2, <2>3, <2>4, <2>5, <2>8
  <2>10. \A i \in 1 .. Len(pending') : i \in 1 .. Len(pending) \/ i = Len(pending) + 1
    BY <2>1, <2>5
  <2> QED BY <2>7, <2>9, <2>10 DEF ChangesAreReal
<1> QED BY <1>2, <1>3, <1>4, <1>5 DEF Next, Save, Delete

LEMMA RInvHolds == Spec => []RInv
<1>1. RInv /\ [Next]_vars => RInv'
  BY DBInvNext, ChangesAreRealNext DEF RInv
<1> QED BY <1>1, RInvInit, PTL DEF Spec

\* What stands behind a torn record is not found.
LEMMA ReadBehindTorn ==
    ASSUME NEW f \in Files, ~Whole(f), NEW h \in Files
    PROVE  f \o h \in Files /\ ~Whole(f \o h) /\ Read(f \o h) = Read(f)
<1> DEFINE g == f \o h
           t == FirstTorn(f)
           u == FirstTorn(g)
<1>1. /\ g \in Files /\ Len(g) = Len(f) + Len(h) /\ Len(f) \in Nat /\ Len(h) \in Nat
      /\ \A i \in 1 .. Len(f) + Len(h) : g[i] = IF i <= Len(f) THEN f[i] ELSE h[i - Len(f)]
  BY ConcatProperties DEF Files
<1>2. \A i \in 1 .. Len(f) : i \in 1 .. Len(g) /\ g[i] = f[i]
  <2>1. \A i \in 1 .. Len(f) : i \in 1 .. Len(f) + Len(h) /\ i <= Len(f)
    BY <1>1
  <2> QED BY <1>1, <2>1
<1>3. t # 0 /\ t \in 1 .. Len(f) /\ ~f[t].whole /\ \A i \in 1 .. t - 1 : f[i].whole
  BY FirstTornFacts
<1> HIDE DEF g, t
<1>4. ~Whole(g)
  BY <1>2, <1>3 DEF Whole
<1>5. u # 0 /\ u \in 1 .. Len(g) /\ ~g[u].whole /\ \A i \in 1 .. u - 1 : g[i].whole
  BY <1>1, <1>4, FirstTornFacts
<1> HIDE DEF u
<1>6. ~(t < u)
  <2>1. t < u => t \in 1 .. u - 1
    BY <1>1, <1>3, <1>5
  <2> QED BY <1>2, <1>3, <1>5, <2>1
<1>7. ~(u < t)
  <2>1. u < t => u \in 1 .. t - 1 /\ u \in 1 .. Len(f)
    BY <1>1, <1>3, <1>5
  <2> QED BY <1>2, <1>3, <1>5, <2>1
<1>8. u = t
  BY <1>1, <1>3, <1>5, <1>6, <1>7
<1>9. SubSeq(g, 1, t - 1) = SubSeq(f, 1, t - 1)
  <2>1. t - 1 \in Nat /\ t - 1 \in Int /\ 1 \in Int
    BY <1>1, <1>3
  <2>2. \A i \in 1 .. t - 1 : i \in 1 .. Len(f)
    BY <1>1, <1>3
  <2>3. \A i \in 1 .. t - 1 : f[i] \in Entry \cup {Torn} /\ g[i] = f[i]
    BY <1>2, <2>2, ElementOfSeq DEF Files
  <2>4. /\ SubSeq(f, 1, t - 1) \in Seq(Entry \cup {Torn})
        /\ Len(SubSeq(f, 1, t - 1)) = IF 1 <= t - 1 THEN t - 1 - 1 + 1 ELSE 0
        /\ \A i \in 1 .. t - 1 - 1 + 1 : SubSeq(f, 1, t - 1)[i] = f[1 + i - 1]
    BY <2>1, <2>3, SubSeqProperties
  <2>5. \A i \in 1 .. t - 1 : g[i] \in Entry \cup {Torn}
    BY <2>3
  <2>6. /\ SubSeq(g, 1, t - 1) \in Seq(Entry \cup {Torn})
        /\ Len(SubSeq(g, 1, t - 1)) = IF 1 <= t - 1 THEN t - 1 - 1 + 1 ELSE 0
        /\ \A i \in 1 .. t - 1 - 1 + 1 : SubSeq(g, 1, t - 1)[i] = g[1 + i - 1]
    BY <2>1, <2>5, SubSeqProperties
  <2>7. Len(SubSeq(f, 1, t - 1)) = t - 1 /\ Len(SubSeq(g, 1, t - 1)) = t - 1
    BY <2>1, <2>4, <2>6
  <2>8. \A i \in 1 .. t - 1 : i \in 1 .. t - 1 - 1 + 1 /\ 1 + i - 1 = i
    BY <2>1
  <2>9. \A i \in 1 .. t - 1 : SubSeq(g, 1, t - 1)[i] = SubSeq(f, 1, t - 1)[i]
    BY <2>3, <2>4, <2>6, <2>8
  <2> QED BY <2>4, <2>6, <2>7, <2>9, SeqEqual
<1>10. Parsed(g) = Parsed(f)
  BY <1>3, <1>5, <1>8, <1>9 DEF Parsed, t, u
<1> QED BY <1>1, <1>4, <1>10 DEF Read, g

\* Behind a torn record a cut append changes nothing that is found.
LEMMA CutBehindTorn ==
    ASSUME NEW f \in Files, ~Whole(f), NEW p \in Seq(Entry), NEW g \in Cut(f, p)
    PROVE  ~Whole(g) /\ Read(g) = Read(f)
<1>1. ASSUME NEW n \in 0 .. Len(p)
      PROVE  f \o SubSeq(p, 1, n) \in Files /\ ~Whole(f \o SubSeq(p, 1, n)) /\ Read(f \o SubSeq(p, 1, n)) = Read(f)
  BY PrefixFacts, SeqMonotonic, ReadBehindTorn DEF Files
<1>2. ASSUME NEW n \in 0 .. Len(p)
      PROVE  /\ ~Whole(Append(f \o SubSeq(p, 1, n), Torn))
             /\ Read(Append(f \o SubSeq(p, 1, n), Torn)) = Read(f)
  <2> DEFINE h == f \o SubSeq(p, 1, n)
  <2>1. h \in Files /\ ~Whole(h) /\ Read(h) = Read(f)
    BY <1>1
  <2> HIDE DEF h
  <2>2. <<Torn>> \in Files /\ Append(h, Torn) = h \o <<Torn>>
    BY <2>1, AppendIsConcat, EmptySeq, AppendProperties DEF Files
  <2>3. ~Whole(Append(h, Torn)) /\ Read(Append(h, Torn)) = Read(f)
    BY <2>1, <2>2, ReadBehindTorn
  <2> QED BY <2>3 DEF h
<1>3. \E n \in 0 .. Len(p) : g = f \o SubSeq(p, 1, n) \/ g = Append(f \o SubSeq(p, 1, n), Torn)
  <2>1. \A n \in 0 .. Len(p) - 1 : n \in 0 .. Len(p)
    OBVIOUS
  <2> QED BY <2>1 DEF Cut
<1>4. PICK n \in 0 .. Len(p) : g = f \o SubSeq(p, 1, n) \/ g = Append(f \o SubSeq(p, 1, n), Torn)
  BY <1>3
<1>5. CASE g = f \o SubSeq(p, 1, n)
  BY <1>1, <1>5
<1>6. CASE g = Append(f \o SubSeq(p, 1, n), Torn)
  BY <1>2, <1>6
<1> QED BY <1>4, <1>5, <1>6

\* In front of no torn record, all of an append is found but for what is cut off, and
\* a record that is torn was one of the pending ones.
LEMMA CutWhole ==
    ASSUME NEW f \in Files, Whole(f), NEW p \in Seq(Entry), NEW g \in Cut(f, p)
    PROVE  \E n \in 0 .. Len(p) : /\ Read(g) = Applied(Read(f), SubSeq(p, 1, n))
                                  /\ ~Whole(g) => n < Len(p)
<1>1. f \in Seq(Entry) /\ Parsed(f) = f
  BY ParsedFacts
<1>2. ASSUME NEW n \in 0 .. Len(p)
      PROVE  /\ f \o SubSeq(p, 1, n) \in Seq(Entry) /\ Whole(f \o SubSeq(p, 1, n))
             /\ Applied(Empty, f \o SubSeq(p, 1, n)) = Applied(Read(f), SubSeq(p, 1, n))
  <2>1. SubSeq(p, 1, n) \in Seq(Entry)
    BY PrefixFacts
  <2>2. f \o SubSeq(p, 1, n) \in Seq(Entry)
    BY <1>1, <2>1, ConcatProperties
  <2>3. Whole(f \o SubSeq(p, 1, n))
    BY <2>2, ElementOfSeq, EntryFacts DEF Whole
  <2>4. Applied(Empty, f \o SubSeq(p, 1, n)) = Applied(Applied(Empty, f), SubSeq(p, 1, n))
    BY <1>1, <2>1, AppliedConcat, EmptyIsMap
  <2>5. Applied(Empty, f) = Read(f)
    BY <1>1 DEF Read
  <2> QED BY <2>2, <2>3, <2>4, <2>5
<1>3. CASE \E n \in 0 .. Len(p) : g = f \o SubSeq(p, 1, n)
  <2>1. PICK n \in 0 .. Len(p) : g = f \o SubSeq(p, 1, n)
    BY <1>3
  <2>2. g \in Seq(Entry) /\ Whole(g) /\ Applied(Empty, g) = Applied(Read(f), SubSeq(p, 1, n))
    BY <1>2, <2>1
  <2>3. Parsed(g) = g
    BY <2>2, ParsedFacts, SeqMonotonic DEF Files
  <2> QED BY <2>2, <2>3 DEF Read
<1>4. CASE \E n \in 0 .. Len(p) - 1 : g = Append(f \o SubSeq(p, 1, n), Torn)
  <2>1. PICK n \in 0 .. Len(p) - 1 : g = Append(f \o SubSeq(p, 1, n), Torn)
    BY <1>4
  <2>2. n \in 0 .. Len(p) /\ n < Len(p)
    OBVIOUS
  <2>3. Parsed(g) = f \o SubSeq(p, 1, n)
    BY <1>2, <2>1, <2>2, ParsedTornEnd
  <2>4. Read(g) = Applied(Read(f), SubSeq(p, 1, n))
    BY <1>2, <2>2, <2>3 DEF Read
  <2> QED BY <2>2, <2>4
<1> QED BY <1>3, <1>4 DEF Cut

\* A first part of the entries that are pending makes of the file what the map has
\* brought over of its changes.
LEMMA AppliedIsBrought ==
    ASSUME RInv, alive, Whole(file), NEW n \in 0 .. Len(pending)
    PROVE  Applied(Read(file), SubSeq(pending, 1, n)) = Map!Brought(n)
<1> USE DEF RInv
<1>1. /\ file \in Files /\ Read(file) \in Maps /\ since[1] \in Maps
      /\ pending \in Seq(Entry) /\ Len(pending) \in Nat
  BY TypeFacts DEF DBInv, TypeOK
<1> DEFINE s == SubSeq(pending, 1, n)
           a == Applied(Read(file), s)
<1>2. /\ s \in Seq(Entry) /\ Len(s) = n
      /\ \A i \in 1 .. n : s[i] = pending[i]
  BY <1>1, PrefixFacts
<1>3. since[n + 1] = Applied(since[1], s)
  BY DEF DBInv, PendingIsHistory
<1>4. a \in Maps
  BY <1>1, <1>2, AppliedType
<1>5. ASSUME NEW k \in Keys, NEW i \in 1 .. n, pending[i].key = k
      PROVE  since[i + 1][k] # since[i][k] /\ Mentions(s, k)
  <2>1. i \in 1 .. Len(pending)
    BY <1>1
  <2>2. since[i + 1][k] # since[i][k]
    BY <1>5, <2>1 DEF ChangesAreReal
  <2>3. s[i].key = k /\ i \in 1 .. Len(s)
    BY <1>2, <1>5
  <2> HIDE DEF s
  <2> QED BY <2>2, <2>3 DEF Mentions
<1>6. ASSUME NEW k \in Keys, NEW j \in 0 .. n, \A i \in 1 .. n : pending[i].key # k
      PROVE  since[j + 1][k] = since[1][k]
  <2>1. j \in 0 .. Len(pending)
    BY <1>1
  <2>2. /\ SubSeq(pending, 1, j) \in Seq(Entry) /\ Len(SubSeq(pending, 1, j)) = j
        /\ \A i \in 1 .. j : SubSeq(pending, 1, j)[i] = pending[i]
    BY <1>1, <2>1, PrefixFacts
  <2>3. since[j + 1] = Applied(since[1], SubSeq(pending, 1, j))
    BY <2>1 DEF DBInv, PendingIsHistory
  <2>4. \A i \in 1 .. j : i \in 1 .. n
    OBVIOUS
  <2>5. ~Mentions(SubSeq(pending, 1, j), k)
    BY <1>6, <2>2, <2>4 DEF Mentions
  <2>6. Applied(since[1], SubSeq(pending, 1, j))[k] = since[1][k]
    BY <2>2, <2>5, AppliedAt
  <2> QED BY <2>3, <2>6
<1>7. ASSUME NEW k \in Keys
      PROVE  a[k] = IF \E i \in 1 .. n : since[i + 1][k] # since[i][k] THEN since[n + 1][k] ELSE Read(file)[k]
  <2>1. CASE \E i \in 1 .. n : pending[i].key = k
    <3>1. \E i \in 1 .. n : since[i + 1][k] # since[i][k]
      BY <1>5, <2>1
    <3>2. Mentions(s, k)
      BY <1>5, <2>1
    <3>3. PICK j \in 1 .. Len(s) : LastAt(s, k, j)
      BY <1>2, <3>2, LastExists
    <3>4. a[k] = s[j].val
      <4> HIDE DEF s
      <4> QED BY <1>2, <3>3, AppliedAt
    <3>5. Applied(since[1], s)[k] = s[j].val
      <4> HIDE DEF s
      <4> QED BY <1>2, <3>3, AppliedAt
    <3> QED BY <1>3, <3>1, <3>4, <3>5
  <2>2. CASE \A i \in 1 .. n : pending[i].key # k
    <3>1. ASSUME NEW i \in 1 .. n PROVE since[i + 1][k] = since[i][k]
      <4>1. i \in 0 .. n /\ i - 1 \in 0 .. n /\ i - 1 + 1 = i
        OBVIOUS
      <4>2. since[i + 1][k] = since[1][k]
        BY <1>6, <2>2, <4>1
      <4>3. since[i - 1 + 1][k] = since[1][k]
        BY <1>6, <2>2, <4>1
      <4> QED BY <4>1, <4>2, <4>3
    <3>2. ~Mentions(s, k)
      BY <1>2, <2>2 DEF Mentions
    <3>3. a[k] = Read(file)[k]
      BY <1>2, <3>2, AppliedAt
    <3> QED BY <3>1, <3>3
  <2> QED BY <2>1, <2>2
<1>8. a = [k \in Keys |-> a[k]]
  BY <1>4 DEF Maps
<1> HIDE DEF a, s
<1>9. a = Map!Brought(n)
  BY <1>7, <1>8 DEF Map!Brought
<1> QED BY <1>9 DEF a, s

\* What is left of an append is what the map may be left with.
LEMMA CutIsPartly ==
    ASSUME RInv, alive, file' \in Cut(file, pending), since' = since
    PROVE  Map!Partly \/ Map!Kept
<1> USE DEF RInv
<1>1. /\ file \in Files /\ pending \in Seq(Entry) /\ Len(pending) \in Nat
      /\ Len(since) = Len(pending) + 1
  BY TypeFacts DEF DBInv, TypeOK, PendingIsHistory
<1>2. file' \in Files
  BY <1>1, ReadCut
<1>3. CASE ~Whole(file)
  <2>1. ~Whole(file') /\ Read(file') = Read(file)
    BY <1>1, <1>3, CutBehindTorn
  <2>2. FirstTorn(file') # 0 /\ FirstTorn(file) # 0
    BY <1>1, <1>2, <1>3, <2>1, FirstTornFacts
  <2> QED BY <2>1, <2>2 DEF Map!Kept
<1>4. CASE Whole(file)
  <2>1. PICK n \in 0 .. Len(pending) : /\ Read(file') = Applied(Read(file), SubSeq(pending, 1, n))
                                       /\ ~Whole(file') => n < Len(pending)
    BY <1>1, <1>4, CutWhole
  <2>2. Read(file') = Map!Brought(n)
    BY <1>4, <2>1, AppliedIsBrought
  <2>3. n \in 0 .. Len(since) - 1 /\ (n < Len(pending) => n < Len(since) - 1)
    BY <1>1
  <2>4. (FirstTorn(file') # 0) => n < Len(since) - 1
    BY <1>2, <2>1, <2>3, FirstTornFacts
  <2>5. ~(FirstTorn(file) # 0)
    BY <1>1, <1>4, FirstTornFacts
  <2> QED BY <2>2, <2>3, <2>4, <2>5 DEF Map!Partly
<1> QED BY <1>3, <1>4

\* Each action of the database is one of the map, or a step the map does not see.
LEMMA StepIsMapStep ==
    ASSUME RInv, MirroredOnDisk', [Next]_vars
    PROVE  [Map!Next]_(Map!vars)
<1> USE DEF RInv
<1>1. TypeOK /\ file \in Files /\ Read(file) \in Maps /\ records \in Maps
  BY TypeFacts DEF DBInv, TypeOK
<1>2. ASSUME NEW m \in Maps, file' \in Compacted(m)
      PROVE  Read(file') = m /\ FirstTorn(file') = 0
  BY <1>2, ReadCompacted, FirstTornFacts
<1>3. CASE UNCHANGED vars
  BY <1>3 DEF vars, Map!vars
<1>4. CASE Open
  <2>1. ~alive /\ alive' = TRUE /\ records' = Read(file) /\ since' = <<Read(file)>>
    BY <1>4 DEF Open
  <2>2. \/ file' \in Compacted(Read(file))
        \/ UNCHANGED file
    BY <1>4 DEF Open, Compact
  <2>3. Read(file') = Read(file) /\ (FirstTorn(file') # 0) \in {FirstTorn(file) # 0, FALSE}
    BY <1>1, <1>2, <2>2
  <2>4. Map!Open
    BY <2>1, <2>3 DEF Map!Open
  <2> QED BY <2>4 DEF Map!Next
<1>5. CASE Flush
  <2>1. alive /\ alive' = alive /\ records' = records /\ since' = <<records>>
    BY <1>5 DEF Flush
  <2>2. CASE file' \in Compacted(records)
    <3>1. Map!Renewed
      BY <1>1, <1>2, <2>2 DEF Map!Renewed
    <3> QED BY <2>1, <3>1 DEF Map!Flush, Map!Next
  <2>3. CASE file' = file \o pending
    <3>1. pending \in Seq(Entry) /\ pending \in Files
      BY <1>1, SeqMonotonic DEF TypeOK, Files
    <3>2. CASE Whole(file)
      <4>1. file \in Seq(Entry)
        BY <1>1, <3>2, ParsedFacts
      <4>2. file' \in Seq(Entry) /\ file' \in Files
        BY <2>3, <3>1, <4>1, ConcatProperties, SeqMonotonic DEF Files
      <4>3. Whole(file')
        BY <4>2, ElementOfSeq, EntryFacts DEF Whole
      <4>4. FirstTorn(file') = 0
        BY <4>2, <4>3, FirstTornFacts
      <4>5. Read(file') = records
        <5>1. alive' /\ Len(since') = 1
          BY <2>1
        <5> QED BY <2>1, <4>4, <5>1 DEF MirroredOnDisk
      <4> QED BY <2>1, <4>4, <4>5 DEF Map!Renewed, Map!Flush, Map!Next
    <3>3. CASE ~Whole(file)
      <4>1. file' \in Files /\ ~Whole(file') /\ Read(file') = Read(file)
        BY <1>1, <2>3, <3>1, <3>3, ReadBehindTorn
      <4>2. FirstTorn(file') # 0 /\ FirstTorn(file) # 0
        BY <1>1, <3>3, <4>1, FirstTornFacts
      <4> QED BY <2>1, <4>1, <4>2 DEF Map!Kept, Map!Flush, Map!Next
    <3> QED BY <3>2, <3>3
  <2> QED BY <1>5, <2>2, <2>3 DEF Flush, Compact
<1>6. CASE FlushFails
  <2>1. alive /\ file' \in Cut(file, pending) /\ UNCHANGED <<alive, records, since>>
    BY <1>6 DEF FlushFails
  <2>2. Map!Partly \/ Map!Kept
    BY <2>1, CutIsPartly
  <2>3. CASE Map!Partly
    BY <2>1, <2>3 DEF Map!WriteFails, Map!Next
  <2>4. CASE Map!Kept
    BY <2>1, <2>4 DEF Map!Kept, Map!vars
  <2> QED BY <2>2, <2>3, <2>4
<1>7. CASE Crash
  <2>1. alive /\ alive' = FALSE /\ records' = Empty /\ since' = since
    BY <1>7 DEF Crash
  <2>2. \/ file' \in Cut(file, pending)
        \/ file' \in Compacted(records)
        \/ UNCHANGED file
    BY <1>7 DEF Crash, CompactionCut
  <2>3. Map!Partly \/ Map!Renewed \/ Map!Kept
    <3>1. CASE file' \in Cut(file, pending)
      BY <2>1, <3>1, CutIsPartly
    <3>2. CASE file' \in Compacted(records)
      BY <1>1, <1>2, <3>2 DEF Map!Renewed
    <3>3. CASE UNCHANGED file
      BY <3>3 DEF Map!Kept
    <3> QED BY <2>2, <3>1, <3>2, <3>3
  <2>4. Map!Crash
    BY <2>1, <2>3 DEF Map!Crash, Map!Empty, Empty
  <2> QED BY <2>4 DEF Map!Next
<1>8. ASSUME NEW k \in Keys, NEW v \in Vals \cup {Gone}, Change(k, v)
      PROVE  Map!Next
  <2>1. Map!Change(k, v)
    BY <1>8 DEF Change, Map!Change
  <2> QED BY <2>1 DEF Map!Next
<1> QED BY <1>3, <1>4, <1>5, <1>6, <1>7, <1>8 DEF Next, Save, Delete

\* The database implements a durable map: whatever the process writes, leaves half
\* written, repeats or compacts, Open finds what the last flush left and a first part of
\* what came later (db.go:41-128).
THEOREM DBIsDurableMap == Spec => ImplementsDurableMap
<1>1. Init => Map!Init
  <2> SUFFICES ASSUME Init PROVE Map!Init
    OBVIOUS
  <2>1. file = <<>> /\ <<>> \in Files
    BY EmptySeq DEF Init, Files
  <2>2. Whole(<<>>)
    BY EmptySeq DEF Whole
  <2>3. FirstTorn(file) = 0 /\ Parsed(file) = <<>>
    BY <2>1, <2>2, FirstTornFacts, ParsedFacts
  <2>4. Read(file) = Empty
    BY <2>3, AppliedNothing, EmptyIsMap DEF Read
  <2> QED BY <2>3, <2>4 DEF Init, Map!Init, Map!Empty, Empty
<1>2. RInv /\ MirroredOnDisk' /\ [Next]_vars => [Map!Next]_(Map!vars)
  BY StepIsMapStep
<1> QED BY <1>1, <1>2, RInvHolds, RecordsAreMirrored, PTL DEF Spec, ImplementsDurableMap, Map!Spec
=============================================================================
