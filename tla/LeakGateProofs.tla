--------------------------- MODULE LeakGateProofs ---------------------------
(***************************************************************************)
(* Proofs about pkg/ipc/gate.go and its leak-checking callback, for every  *)
(* set of processes and every window C > 0.                                *)
(***************************************************************************)
EXTENDS LeakGate, FiniteSetTheorems, TLAPS

LEMMA StageZero == [p \in Procs |-> 0] \in [Procs -> 0 .. 2]
OBVIOUS

USE GateAssumption DEF GateAssumption

\* Filling a free slot adds one to the number of busy slots, which C bounds.
LEMMA FillSlot ==
    ASSUME NEW b \in [Slots -> BOOLEAN], NEW i \in Slots, ~b[i]
    PROVE  LET S == {s \in Slots : b[s]}
               T == {s \in Slots : [b EXCEPT ![i] = TRUE][s]}
           IN  Cardinality(T) = Cardinality(S) + 1 /\ Cardinality(T) <= C
<1> DEFINE S == {s \in Slots : b[s]}
           T == {s \in Slots : [b EXCEPT ![i] = TRUE][s]}
<1>1. IsFiniteSet(Slots) /\ Cardinality(Slots) = C
  BY FS_Interval DEF Slots
<1>2. IsFiniteSet(S)
  BY <1>1, FS_Subset, S \subseteq Slots
<1>3. T = S \cup {i} /\ i \notin S
  OBVIOUS
<1>4. Cardinality(T) = Cardinality(S) + 1
  BY <1>2, <1>3, FS_AddElement
<1>5. Cardinality(T) <= C
  BY <1>1, FS_Subset, T \subseteq Slots
<1> QED BY <1>4, <1>5

\* Freeing a busy slot takes one off the number of busy slots.
LEMMA FreeSlot ==
    ASSUME NEW b \in [Slots -> BOOLEAN], NEW i \in Slots, b[i]
    PROVE  LET S == {s \in Slots : b[s]}
               T == {s \in Slots : [b EXCEPT ![i] = FALSE][s]}
           IN  Cardinality(T) = Cardinality(S) - 1 /\ Cardinality(T) \in Nat
<1> DEFINE S == {s \in Slots : b[s]}
           T == {s \in Slots : [b EXCEPT ![i] = FALSE][s]}
<1>1. IsFiniteSet(Slots)
  BY FS_Interval DEF Slots
<1>2. IsFiniteSet(S) /\ IsFiniteSet(T)
  BY <1>1, FS_Subset, S \subseteq Slots, T \subseteq Slots
<1>3. T = S \ {i} /\ i \in S
  OBVIOUS
<1>4. Cardinality(T) = Cardinality(S) - 1
  BY <1>2, <1>3, FS_RemoveElement
<1> QED BY <1>2, <1>4, FS_CardinalityType

\* No busy slot, no running execution: what running = 0 stands for.
LEMMA QuietGate == GateInv /\ running = 0 => \A p \in Procs : pc[p] # "in"
<1> SUFFICES ASSUME GateInv, running = 0 PROVE \A p \in Procs : pc[p] # "in"
  OBVIOUS
<1>1. BusySlots \subseteq Slots /\ IsFiniteSet(Slots)
  BY FS_Interval DEF Slots, BusySlots
<1>2. IsFiniteSet(BusySlots)
  BY <1>1, FS_Subset
<1>3. BusySlots = {}
  BY <1>2, FS_EmptySet DEF GateInv, SlotsMatch
<1> QED BY <1>3 DEF GateInv, SlotsMatch, BusySlots, TypeOK

LEMMA QuietGateNext == (GateInv /\ running = 0 => \A p \in Procs : pc[p] # "in")'
BY QuietGate, PTL

LEMMA GateInitInv == GateInit => GateInv
<1> SUFFICES ASSUME GateInit PROVE GateInv
  OBVIOUS
<1>1. BusySlots = {}
  BY DEF GateInit, BusySlots
<1>2. Cardinality(BusySlots) = 0
  BY <1>1, FS_EmptySet
<1>3. TypeOK
  <2>1. 0 \in Slots
    BY DEF Slots
  <2>2. busy \in [Slots -> BOOLEAN] /\ pc \in [Procs -> PCs]
    BY DEF GateInit, PCs
  <2>3. ticket \in [Procs -> Slots] /\ lag \in [Procs -> Nat]
    BY <2>1 DEF GateInit
  <2>4. asleep \in SUBSET Procs /\ broken \in BOOLEAN /\ stop \in BOOLEAN
    BY DEF GateInit
  <2> QED BY <2>1, <2>2, <2>3, <2>4 DEF GateInit, TypeOK
<1>4. SlotsMatch /\ OneLeader /\ LagIsDist /\ SleepersWait /\ NoLostWakeup /\ NeverBroken
  BY <1>2 DEF GateInit, SlotsMatch, OneLeader, LagIsDist, SleepersWait, NoLostWakeup,
              NeverBroken, Slots
<1>5. BatchInv /\ BatchBound
  BY DEF GateInit, BatchInv, BatchBound, Slots
<1> QED BY <1>3, <1>4, <1>5 DEF GateInv

LEMMA EnterWaitInv ==
    ASSUME GateInv, NEW p \in Procs, EnterWait(p) PROVE GateInv'
<1> USE DEF EnterWait, AtEnter
<1>1. TypeOK'
  BY DEF GateInv, TypeOK
<1>2. SlotsMatch' /\ OneLeader' /\ LagIsDist' /\ BatchInv'
  BY DEF GateInv, SlotsMatch, OneLeader, LagIsDist, BatchInv, BusySlots, Dist, LockFree
<1>3. SleepersWait' /\ NoLostWakeup'
  BY DEF GateInv, SleepersWait, NoLostWakeup, Blocked, LockFree
<1> QED BY <1>1, <1>2, <1>3 DEF GateInv, NeverBroken, BatchBound

LEMMA CallEnterInv ==
    ASSUME GateInv, NEW p \in Procs, CallEnter(p) PROVE GateInv'
<1> USE DEF CallEnter
<1>1. TypeOK'
  BY DEF GateInv, TypeOK, PCs
<1>2. \A q \in Procs : pc'[q] # pc[q] => q = p /\ pc[q] = "idle" /\ pc'[q] = "enter"
  BY DEF GateInv, TypeOK
<1>3. SlotsMatch'
  BY <1>2 DEF GateInv, SlotsMatch, BusySlots
<1>4. OneLeader'
  BY <1>2 DEF GateInv, OneLeader
<1>5. LagIsDist' /\ BatchInv'
  BY <1>2 DEF GateInv, LagIsDist, BatchInv, Dist, LockFree
<1>6. SleepersWait' /\ NoLostWakeup'
  BY <1>2 DEF GateInv, SleepersWait, NoLostWakeup, Blocked, LockFree
<1> QED BY <1>1, <1>3, <1>4, <1>5, <1>6 DEF GateInv, NeverBroken, BatchBound

LEMMA EnterTakeInv ==
    ASSUME GateInv, NEW p \in Procs, EnterTake(p) PROVE GateInv'
<1> USE DEF EnterTake, AtEnter, NextPos
<1>0. /\ TypeOK /\ ~busy[pos] /\ ~stop /\ pc[p] = "enter" /\ LockFree
      /\ \A q \in Procs : pc[q] # "drain"
  BY DEF GateInv, Blocked, OneLeader
<1>1. TypeOK'
  BY <1>0 DEF TypeOK, PCs, Slots
<1>2. running' = Cardinality(BusySlots)' /\ running' <= C
  BY <1>0, FillSlot DEF GateInv, SlotsMatch, BusySlots, TypeOK
<1>3. SlotsMatch'
  <2>1. \A q \in Procs : pc'[q] = "in" => busy'[ticket'[q]]
    BY <1>0 DEF GateInv, SlotsMatch, TypeOK
  <2>2. \A q, r \in Procs :
          pc'[q] = "in" /\ pc'[r] = "in" /\ ticket'[q] = ticket'[r] => q = r
    BY <1>0 DEF GateInv, SlotsMatch, TypeOK
  <2>3. \A i \in Slots : busy'[i] => \E q \in Procs : pc'[q] = "in" /\ ticket'[q] = i
    BY <1>0 DEF GateInv, SlotsMatch, TypeOK
  <2> QED BY <1>2, <2>1, <2>2, <2>3 DEF SlotsMatch
<1>4. OneLeader'
  BY <1>0 DEF GateInv, OneLeader, TypeOK, LockFree
<1>5. LagIsDist'
  <2>1. ASSUME NEW q \in Procs, pc'[q] = "in", q # p PROVE lag'[q] = Dist(ticket[q]) + 1
    BY <1>0, <2>1 DEF GateInv, LagIsDist, TypeOK
  <2>2. ASSUME NEW q \in Procs, pc'[q] = "in", q # p
        PROVE  ticket'[q] = ticket[q] /\ ticket[q] \in Slots /\ ticket[q] # pos
    BY <1>0, <2>2 DEF GateInv, SlotsMatch, TypeOK
  <2>3. ASSUME NEW t \in Slots, t # pos
        PROVE  Dist(t) + 1 = (IF t < pos' THEN pos' - t - 1 ELSE pos' - t - 1 + C)
    BY <1>0, <2>3 DEF Dist, TypeOK, Slots
  <2>4. pc'[p] = "in" => lag'[p] = 0 /\ ticket'[p] = pos
    BY <1>0 DEF TypeOK
  <2>5. (IF pos < pos' THEN pos' - pos - 1 ELSE pos' - pos - 1 + C) = 0
    BY <1>0 DEF TypeOK, Slots
  <2> QED BY <2>1, <2>2, <2>3, <2>4, <2>5 DEF LagIsDist, Dist
<1>6. BatchInv' /\ BatchBound'
  <2>1. /\ C \in Nat \ {0} /\ pos \in 0 .. C - 1 /\ sinceF \in Nat /\ hasF \in BOOLEAN
        /\ pos' = (IF pos + 1 >= C THEN 0 ELSE pos + 1)
        /\ sinceF' = IF hasF THEN sinceF + 1 ELSE 0
    BY <1>0 DEF TypeOK, Slots
  <2>2. (busy'[0] <=> pos = 0 \/ busy[0]) /\ (busy[0] => pos # 0)
    BY <1>0 DEF TypeOK, Slots
  <2>3. /\ busy[0] => sinceF <= C + Dist(0)
        /\ ~busy[0] => sinceF <= (IF pos = 0 THEN C ELSE pos) - 1
    BY <1>0 DEF GateInv, BatchInv
  <2>4. busy'[0] => sinceF' <= C + (IF 0 < pos' THEN pos' - 0 - 1 ELSE pos' - 0 - 1 + C)
    BY ONLY <2>1, <2>2, <2>3 DEF Dist
  <2>5. ~busy'[0] => sinceF' <= (IF pos' = 0 THEN C ELSE pos') - 1
    BY ONLY <2>1, <2>2, <2>3 DEF Dist
  <2>6. sinceF' < 2 * C
    BY ONLY <2>1, <2>4, <2>5
  <2>7. hasF' = hasF /\ (hasF => sinceF' > 0) /\ (~hasF => sinceF' = 0)
    BY <2>1
  <2> QED BY <2>4, <2>5, <2>6, <2>7 DEF BatchInv, BatchBound, Dist
<1>7. SleepersWait' /\ NoLostWakeup'
  <2>1. asleep = {}
    BY <1>0 DEF GateInv, NoLostWakeup, Blocked, TypeOK
  <2> QED BY <2>1 DEF SleepersWait, NoLostWakeup
<1>8. NeverBroken'
  BY <1>2 DEF GateInv, NeverBroken, TypeOK
<1> QED BY <1>1, <1>3, <1>4, <1>5, <1>6, <1>7, <1>8 DEF GateInv

\* What every Leave establishes, whether or not it goes on to the callback.
LEMMA ReleaseFacts ==
    ASSUME GateInv, NEW p \in Procs, pc[p] = "in", Release(p), pos' = pos, ticket' = ticket,
           pc' \in [Procs -> PCs], pc'[p] # "in",
           \A q \in Procs : q # p => pc'[q] = pc[q]
    PROVE  /\ SlotsMatch' /\ LagIsDist'
           /\ busy[ticket[p]] /\ running' \in Nat /\ running \in Nat
           /\ \A i \in Slots : busy'[i] = (busy[i] /\ i # ticket[p])
<1>1. busy[ticket[p]] /\ ticket[p] \in Slots
  BY DEF GateInv, SlotsMatch, TypeOK
<1>2. running' = Cardinality(BusySlots)' /\ running' \in Nat
  BY <1>1, FreeSlot DEF GateInv, SlotsMatch, BusySlots, TypeOK, Release
<1>3. \A i \in Slots : busy'[i] = (busy[i] /\ i # ticket[p])
  BY <1>1 DEF GateInv, TypeOK, Release
<1>4. SlotsMatch'
  <2>1. \A q \in Procs : pc'[q] = "in" => busy'[ticket'[q]]
    BY <1>1, <1>3 DEF GateInv, SlotsMatch, TypeOK
  <2>2. \A q, r \in Procs :
          pc'[q] = "in" /\ pc'[r] = "in" /\ ticket'[q] = ticket'[r] => q = r
    BY DEF GateInv, SlotsMatch
  <2>3. \A i \in Slots : busy'[i] => \E q \in Procs : pc'[q] = "in" /\ ticket'[q] = i
    <3>1. ASSUME NEW i \in Slots, busy'[i] PROVE \E q \in Procs : pc'[q] = "in" /\ ticket'[q] = i
      <4>1. busy[i] /\ i # ticket[p]
        BY <1>3, <3>1
      <4>2. PICK q \in Procs : pc[q] = "in" /\ ticket[q] = i
        BY <4>1 DEF GateInv, SlotsMatch
      <4> QED BY <4>1, <4>2
    <3> QED BY <3>1
  <2> QED BY <1>2, <2>1, <2>2, <2>3 DEF SlotsMatch
<1>5. LagIsDist'
  BY DEF GateInv, LagIsDist, Dist, Release, TypeOK
<1>6. running \in Nat
  BY <1>2 DEF Release, GateInv, TypeOK
<1> QED BY <1>1, <1>2, <1>3, <1>4, <1>5, <1>6

LEMMA LeavePlainInv ==
    ASSUME GateInv, NEW p \in Procs, LeavePlain(p) PROVE GateInv'
<1> USE DEF LeavePlain, Wakes
<1>1. TypeOK'
  BY DEF GateInv, TypeOK, Release, PCs
<1>2. /\ SlotsMatch' /\ LagIsDist'
      /\ busy[ticket[p]] /\ running' \in Nat /\ running \in Nat
      /\ \A i \in Slots : busy'[i] = (busy[i] /\ i # ticket[p])
  BY <1>1, ReleaseFacts DEF GateInv, TypeOK
<1>3. \A q \in Procs : pc'[q] # pc[q] => q = p /\ pc[q] = "in" /\ pc'[q] = "idle"
  BY DEF GateInv, TypeOK
<1>4. 0 \in Slots /\ pos \in Slots
  BY DEF Slots, GateInv, TypeOK
<1>5. OneLeader'
  BY <1>2, <1>3, <1>4 DEF GateInv, OneLeader, LockFree
<1>6. BatchInv' /\ BatchBound'
  <2>1. busy'[0] => busy[0]
    BY <1>2, <1>4
  <2>2. hasF => busy'[0] = busy[0]
    BY <1>2, <1>4 DEF CallsF, GateInv, TypeOK
  <2>3. LockFree
    OBVIOUS
  <2> QED BY <2>1, <2>2, <2>3 DEF GateInv, BatchInv, BatchBound, Dist, TypeOK, Slots
<1>7. SleepersWait' /\ NoLostWakeup'
  <2>1. SleepersWait'
    BY <1>3 DEF GateInv, SleepersWait
  <2>2. LockFree => \A q \in asleep' :
          (pc'[q] = "enter" /\ Blocked') \/ (pc'[q] = "drain" /\ running' # 0)
    BY <1>2, <1>3, <1>4 DEF GateInv, NoLostWakeup, SleepersWait, OneLeader, Blocked, Release, TypeOK
  <2> QED BY <2>1, <2>2 DEF NoLostWakeup
<1>8. NeverBroken'
  <2>1. busy[ticket[p]] /\ ~(running - 1 < 0)
    BY <1>2 DEF Release
  <2> QED BY <2>1, Zenon DEF GateInv, NeverBroken
<1> QED BY <1>1, <1>2, <1>5, <1>6, <1>7, <1>8 DEF GateInv

LEMMA LeaveAndCallInv ==
    ASSUME GateInv, NEW p \in Procs, LeaveAndCall(p) PROVE GateInv'
<1> USE DEF LeaveAndCall
<1>1. TypeOK'
  <2>1. stop' \in BOOLEAN /\ pc' \in [Procs -> PCs] /\ asleep' \in SUBSET Procs
    BY DEF GateInv, TypeOK, PCs
  <2>2. broken' \in BOOLEAN
    OBVIOUS
  <2> QED BY <2>1, <2>2 DEF GateInv, TypeOK, Release
<1>2. /\ SlotsMatch' /\ LagIsDist'
      /\ busy[ticket[p]] /\ running' \in Nat /\ running \in Nat
      /\ \A i \in Slots : busy'[i] = (busy[i] /\ i # ticket[p])
  BY <1>1, ReleaseFacts DEF GateInv, TypeOK
<1>3. \A q \in Procs : pc'[q] # pc[q] => q = p /\ pc[q] = "in" /\ pc'[q] \in {"drain", "callback"}
  BY DEF GateInv, TypeOK
<1>4. 0 \in Slots /\ pos \in Slots /\ ticket[p] = 0 /\ hasF
  BY DEF Slots, GateInv, TypeOK, CallsF
<1>5. ~stop /\ LockFree /\ \A q \in Procs : pc[q] \notin {"drain", "callback"}
  BY <1>2, <1>4 DEF GateInv, OneLeader, LockFree
<1>6. OneLeader'
  <2>1. CASE running - 1 # 0 /\ stop' = TRUE /\ pc' = [pc EXCEPT ![p] = "drain"]
    BY <1>2, <1>3, <1>4, <1>5, <2>1 DEF OneLeader, GateInv, TypeOK
  <2>2. CASE running - 1 = 0 /\ stop' = FALSE /\ pc' = [pc EXCEPT ![p] = "callback"]
    BY <1>2, <1>3, <1>4, <1>5, <2>2 DEF OneLeader, GateInv, TypeOK, Release
  <2> QED BY <2>1, <2>2
<1>7. BatchInv' /\ BatchBound'
  <2>1. ~busy'[0] /\ (stop' \/ ~LockFree')
    BY <1>2, <1>4 DEF LockFree, GateInv, TypeOK
  <2> QED BY <1>4, <2>1 DEF GateInv, BatchInv, BatchBound
<1>8. SleepersWait' /\ NoLostWakeup'
  <2>1. SleepersWait'
    BY <1>3 DEF GateInv, SleepersWait, TypeOK
  <2>2. CASE running - 1 # 0 /\ stop' = TRUE /\ asleep' = asleep \cup {p}
             /\ pc' = [pc EXCEPT ![p] = "drain"]
    <3>1. \A q \in asleep : q # p /\ q \in Procs /\ pc[q] = "enter"
      BY <1>5 DEF GateInv, SleepersWait, NoLostWakeup, TypeOK
    <3>2. running' # 0 /\ pc'[p] = "drain" /\ Blocked'
      BY <1>2, <2>2 DEF GateInv, TypeOK, Release, Blocked
    <3>3. \A q \in Procs : q # p => pc'[q] = pc[q]
      BY <2>2 DEF GateInv, TypeOK
    <3>4. \A q \in asleep' : \/ pc'[q] = "enter" /\ Blocked'
                             \/ pc'[q] = "drain" /\ running' # 0
      BY <2>2, <3>1, <3>2, <3>3
    <3> QED BY <2>1, <3>4 DEF NoLostWakeup
  <2>3. CASE pc' = [pc EXCEPT ![p] = "callback"]
    <3>1. ~LockFree'
      BY <2>3 DEF LockFree, GateInv, TypeOK
    <3> QED BY <2>1, <3>1 DEF NoLostWakeup
  <2> QED BY <2>1, <2>2, <2>3
<1>9. NeverBroken'
  <2>1. busy[ticket[p]] /\ ~(running - 1 < 0)
    BY <1>2 DEF Release
  <2> QED BY <1>5, <2>1, Zenon DEF GateInv, NeverBroken
<1> QED BY <1>1, <1>2, <1>6, <1>7, <1>8, <1>9 DEF GateInv

LEMMA DrainWakeInv ==
    ASSUME GateInv, NEW p \in Procs, DrainWake(p) PROVE GateInv'
<1> USE DEF DrainWake
<1>1. TypeOK'
  BY DEF GateInv, TypeOK, PCs
<1>2. \A q \in Procs : pc'[q] # pc[q] => q = p /\ pc[q] = "drain" /\ pc'[q] = "callback"
  BY DEF GateInv, TypeOK
<1>3. SlotsMatch' /\ LagIsDist'
  BY <1>2 DEF GateInv, SlotsMatch, BusySlots, LagIsDist, Dist
<1>4. 0 \in Slots /\ stop /\ ~busy[0]
  BY DEF Slots, GateInv, OneLeader
<1>5. CASE running # 0 /\ asleep' = asleep \cup {p} /\ UNCHANGED <<stop, pc>>
  <2>1. OneLeader' /\ BatchInv'
    BY <1>5 DEF GateInv, OneLeader, BatchInv, Dist, LockFree
  <2>2. SleepersWait' /\ NoLostWakeup'
    BY <1>5 DEF GateInv, SleepersWait, NoLostWakeup, Blocked, LockFree
  <2> QED BY <1>1, <1>3, <2>1, <2>2 DEF GateInv, NeverBroken, BatchBound
<1>6. CASE running = 0 /\ stop' = FALSE /\ pc' = [pc EXCEPT ![p] = "callback"]
           /\ UNCHANGED asleep
  <2>1. OneLeader'
    BY <1>2, <1>4, <1>6 DEF GateInv, OneLeader, TypeOK
  <2>2. BatchInv' /\ ~LockFree'
    BY <1>4, <1>6 DEF GateInv, BatchInv, LockFree, TypeOK
  <2>3. SleepersWait' /\ NoLostWakeup'
    <3>1. p \notin asleep
      OBVIOUS
    <3> QED BY <1>6, <2>2, <3>1 DEF GateInv, SleepersWait, NoLostWakeup, TypeOK
  <2> QED BY <1>1, <1>3, <2>1, <2>2, <2>3 DEF GateInv, NeverBroken, BatchBound
<1> QED BY <1>5, <1>6

LEMMA EndCallbackInv ==
    ASSUME GateInv, NEW p \in Procs, EndCallback(p) PROVE GateInv'
<1> USE DEF EndCallback
<1>1. TypeOK'
  BY DEF GateInv, TypeOK, PCs
<1>2. \A q \in Procs : pc'[q] # pc[q] => q = p /\ pc[q] = "callback" /\ pc'[q] = "idle"
  BY DEF GateInv, TypeOK
<1>3. SlotsMatch' /\ LagIsDist'
  BY <1>2 DEF GateInv, SlotsMatch, BusySlots, LagIsDist, Dist
<1>4. OneLeader'
  BY <1>2 DEF GateInv, OneLeader
<1>5. BatchInv' /\ BatchBound'
  <2>1. running = 0 /\ \A q \in Procs : pc[q] \in {"drain", "callback"} => q = p
    BY DEF GateInv, OneLeader
  <2>2. \A q \in Procs : pc'[q] \notin {"in", "drain", "callback"}
    <3>1. \A q \in Procs : pc[q] # "in"
      BY <2>1, QuietGate
    <3>2. pc'[p] = "idle"
      BY DEF GateInv, TypeOK
    <3> QED BY <1>2, <2>1, <3>1, <3>2
  <2> QED BY <2>2 DEF GateInv, BatchInv, BatchBound, Dist, TypeOK, Slots
<1>6. SleepersWait' /\ NoLostWakeup'
  BY DEF SleepersWait, NoLostWakeup
<1> QED BY <1>1, <1>3, <1>4, <1>5, <1>6 DEF GateInv, NeverBroken

LEMMA GateUnchangedInv == GateInv /\ UNCHANGED gateVars => GateInv'
BY DEF gateVars, GateInv, TypeOK, SlotsMatch, OneLeader, LagIsDist, BatchInv, SleepersWait,
       NoLostWakeup, NeverBroken, BatchBound, BusySlots, Dist, LockFree, Blocked

LEMMA GateStepInv == GateInv /\ [GateNext]_gateVars => GateInv'
<1> SUFFICES ASSUME GateInv, [GateNext]_gateVars PROVE GateInv'
  OBVIOUS
<1>1. CASE UNCHANGED gateVars
  BY <1>1, GateUnchangedInv
<1>2. ASSUME NEW p \in Procs, CallEnter(p) \/ GateStep(p) PROVE GateInv'
  BY <1>2, CallEnterInv, EnterWaitInv, EnterTakeInv, LeavePlainInv, LeaveAndCallInv,
     DrainWakeInv, EndCallbackInv DEF GateStep
<1> QED BY <1>1, <1>2 DEF GateNext

\* The inductive invariant of the gate by itself: for every number of processes
\* and every window, no panic, no lost wake-up and at most two laps per call of f.
THEOREM GateCorrect == GateSpec => []GateInv
<1>1. GateInit => GateInv
  BY GateInitInv
<1>2. GateInv /\ [GateNext]_gateVars => GateInv'
  BY GateStepInv
<1> QED BY <1>1, <1>2, PTL DEF GateSpec
-----------------------------------------------------------------------------
(* The gate inside a fuzzer, through exits and restarts of its VM.         *)

LEMMA LeakStepGate == hasF \in BOOLEAN /\ Next => [GateNext]_gateVars \/ GateInit'
<1> SUFFICES ASSUME hasF \in BOOLEAN, Next PROVE [GateNext]_gateVars \/ GateInit'
  OBVIOUS
<1>1. ASSUME NEW p \in Procs, PlainStep(p) \/ FlushLeaks(p) PROVE GateNext
  BY <1>1 DEF PlainStep, FlushLeaks, GateNext, GateStep
<1>2. ASSUME NEW p \in Procs, ReportLeaks(p) \/ Leak(p) \/ CandidatesTriaged
      PROVE  UNCHANGED gateVars
  BY <1>2 DEF ReportLeaks, Leak, CandidatesTriaged
<1>3. CASE Restart
  BY <1>3 DEF Restart, GateInit
<1>4. CASE CandidatesTriaged
  BY <1>4 DEF CandidatesTriaged
<1> QED BY <1>1, <1>2, <1>3, <1>4 DEF Next, ProcStep

THEOREM GateInvariant == Spec => []GateInv
<1>1. Init => GateInv
  BY GateInitInv DEF Init
<1>2. (GateInit => GateInv)'
  BY GateInitInv, PTL
<1>3. GateInv /\ [Next]_vars => GateInv'
  <2>1. GateInv => hasF \in BOOLEAN
    BY DEF GateInv, TypeOK
  <2> QED BY <1>2, <2>1, LeakStepGate, GateStepInv, GateUnchangedInv DEF vars
<1> QED BY <1>1, <1>3, PTL DEF Spec

\* No panic("broken gate") is reachable.
THEOREM GateNeverBroken == Spec => []NeverBroken
<1>1. GateInv => NeverBroken
  BY DEF GateInv
<1> QED BY <1>1, GateInvariant, PTL

\* The conditional broadcasts of Leave lose no wake-up.
THEOREM GateNoLostWakeup == Spec => []NoLostWakeup
<1>1. GateInv => NoLostWakeup
  BY DEF GateInv
<1> QED BY <1>1, GateInvariant, PTL

\* Every step of the gate is a step of the sliding window or stutters there.
LEMMA GateStepWindow ==
    ASSUME GateInv, GateInv', GateNext
    PROVE  [Window!Next]_(Window!vars)
<1> DEFINE inside == {q \in Procs : pc[q] = "in"}
           calling == \E q \in Procs : pc[q] = "callback"
<1> USE DEF Window!vars
<1>1. ASSUME NEW p \in Procs, CallEnter(p) PROVE UNCHANGED Window!vars
  <2>1. \A q \in Procs : /\ pc'[q] = "in" <=> pc[q] = "in"
                         /\ pc'[q] = "callback" <=> pc[q] = "callback"
    BY <1>1 DEF CallEnter, GateInv, TypeOK
  <2>2. inside' = inside /\ calling' = calling
    BY <2>1
  <2> QED BY <1>1, <2>2 DEF CallEnter
<1>2. ASSUME NEW p \in Procs, EnterWait(p) PROVE UNCHANGED Window!vars
  BY <1>2 DEF EnterWait
<1>3. ASSUME NEW p \in Procs, EnterTake(p) PROVE Window!Admit(p)
  <2>1. ~calling /\ p \notin inside
    BY <1>3 DEF EnterTake, AtEnter, LockFree
  <2>2. \A q \in inside : lag[q] + 1 < C
    <3>1. ASSUME NEW q \in inside PROVE lag[q] + 1 < C
      <4>1. lag[q] = Dist(ticket[q]) /\ ticket[q] # pos
        BY <1>3 DEF EnterTake, AtEnter, Blocked, GateInv, LagIsDist, SlotsMatch
      <4>2. ticket[q] \in 0 .. C - 1 /\ pos \in 0 .. C - 1 /\ C \in Nat
        BY DEF GateInv, TypeOK, Slots
      <4>3. Dist(ticket[q]) + 1 < C
        BY ONLY <4>1, <4>2 DEF Dist
      <4> QED BY <4>1, <4>3
    <3> QED BY <3>1
  <2>3. hasF => sinceF + 1 < 2 * C
    BY <1>3 DEF EnterTake, NextPos, GateInv, BatchBound
  <2>4. inside' = inside \cup {p} /\ calling' = calling
    BY <1>3, <2>1 DEF EnterTake, NextPos, GateInv, TypeOK
  <2>5. lag' = [q \in Procs |-> IF q \in inside THEN lag[q] + 1 ELSE 0]
    BY <1>3, <2>1 DEF EnterTake, NextPos
  <2> QED BY <1>3, <2>1, <2>2, <2>3, <2>4, <2>5 DEF EnterTake, NextPos, Window!Admit
<1>4. ASSUME NEW p \in Procs, pc[p] = "in", LockFree, Release(p), UNCHANGED <<hasF, sinceF>>,
             \E s \in {"idle", "drain"} : pc' = [pc EXCEPT ![p] = s]
      PROVE  Window!Depart(p)
  <2>1. ~calling /\ p \in inside
    BY <1>4 DEF LockFree
  <2>2. inside' = inside \ {p} /\ calling' = calling
    BY <1>4, <2>1 DEF GateInv, TypeOK
  <2> QED BY <1>4, <2>1, <2>2 DEF Window!Depart, Release
<1>5. ASSUME NEW p \in Procs, LeaveAndCall(p), pc' = [pc EXCEPT ![p] = "callback"],
             running' = 0
      PROVE  Window!BeginCall
  <2>1. ~calling /\ p \in inside /\ calling' /\ hasF /\ sinceF > 0
    BY <1>5 DEF LeaveAndCall, LockFree, CallsF, GateInv, BatchInv, TypeOK
  <2>2. inside' = {}
    BY <1>5, QuietGateNext
  <2>3. inside = {p}
    BY <1>5, <2>1, <2>2 DEF GateInv, TypeOK
  <2> QED BY <1>5, <2>1, <2>2, <2>3 DEF LeaveAndCall, Release, Window!BeginCall
<1>6. ASSUME NEW p \in Procs, LeaveAndCall(p) PROVE Window!Depart(p) \/ Window!BeginCall
  <2>1. CASE pc' = [pc EXCEPT ![p] = "drain"]
    BY <1>4, <1>6, <2>1 DEF LeaveAndCall
  <2>2. CASE running - 1 = 0 /\ pc' = [pc EXCEPT ![p] = "callback"]
    BY <1>5, <1>6, <2>2 DEF LeaveAndCall, Release
  <2> QED BY <1>6, <2>1, <2>2 DEF LeaveAndCall
<1>7. ASSUME NEW p \in Procs, LeavePlain(p) PROVE Window!Depart(p)
  BY <1>4, <1>7 DEF LeavePlain
<1>8. ASSUME NEW p \in Procs, DrainWake(p) PROVE [Window!Next]_(Window!vars)
  <2>1. CASE UNCHANGED pc
    BY <1>8, <2>1 DEF DrainWake
  <2>2. CASE running = 0 /\ pc' = [pc EXCEPT ![p] = "callback"]
    <3>1. ~calling /\ calling' /\ hasF /\ sinceF > 0
      BY <1>8, <2>2 DEF DrainWake, LockFree, GateInv, BatchInv, OneLeader, TypeOK
    <3>2. inside = {}
      BY <2>2, QuietGate
    <3>3. inside' = {}
      BY <2>2, <3>2 DEF GateInv, TypeOK
    <3> QED BY <1>8, <3>1, <3>2, <3>3 DEF DrainWake, Window!BeginCall, Window!Next
  <2> QED BY <1>8, <2>1, <2>2 DEF DrainWake
<1>9. ASSUME NEW p \in Procs, EndCallback(p) PROVE Window!EndCall
  <2>1. calling /\ ~calling'
    BY <1>9 DEF EndCallback, GateInv, OneLeader, TypeOK
  <2>2. inside' = inside
    BY <1>9 DEF EndCallback, GateInv, TypeOK
  <2> QED BY <1>9, <2>1, <2>2 DEF EndCallback, Window!EndCall
<1> QED BY <1>1, <1>2, <1>3, <1>6, <1>7, <1>8, <1>9
        DEF GateNext, GateStep, Window!Next

THEOREM GateIsWindow == Spec => ImplementsWindow
<1>1. Init => Window!Init
  BY DEF Init, GateInit, Window!Init
<1>2. GateInv /\ GateInv' /\ [Next]_vars => [Window!Next \/ Restart]_(Window!vars)
  <2> SUFFICES ASSUME GateInv, GateInv', [Next]_vars
               PROVE  [Window!Next \/ Restart]_(Window!vars)
    OBVIOUS
  <2>1. CASE UNCHANGED gateVars
    BY <2>1 DEF gateVars, Window!vars
  <2>2. CASE GateNext
    BY <2>2, GateStepWindow
  <2>3. Next => GateNext \/ UNCHANGED gateVars \/ Restart
    BY DEF Next, ProcStep, PlainStep, FlushLeaks, ReportLeaks, Leak, CandidatesTriaged,
           GateNext, GateStep
  <2> QED BY <2>1, <2>2, <2>3 DEF vars
<1> QED BY <1>1, <1>2, GateInvariant, PTL DEF Spec, ImplementsWindow

\* From stage 2 on every running execution and every unscanned leak belongs to
\* stage 2, because the flush at stage 1 runs in a drained gate.
LEMMA StageStep == GateInv /\ GateInv' /\ StageInv /\ [Next]_vars => StageInv'
<1> SUFFICES ASSUME GateInv, GateInv', StageInv, [Next]_vars PROVE StageInv'
  OBVIOUS
<1> USE DEF StageInv
<1>0. TypeOK'
  BY DEF GateInv
<1>1. CASE UNCHANGED vars
  BY <1>1 DEF vars, gateVars, leakVars, LeakTypeOK, TypeOK, OnlyFreshLeaksReported
<1>2. ASSUME NEW p \in Procs, PlainStep(p) PROVE StageInv'
  <2>1. stage' \in [Procs -> 0 .. 2] /\ loaded' \in 0 .. 2
    BY <1>2 DEF PlainStep, LeakTypeOK, Load
  <2>2. LeakTypeOK'
    BY <1>0, <1>2, <2>1 DEF PlainStep, LeakTypeOK
  <2>3. ASSUME triagedCandidates' = 2
        PROVE  leaks' \subseteq {2} /\ \A q \in Procs : pc'[q] = "in" => stage'[q] = 2
    <3>1. CASE EnterTake(p) /\ stage' = [stage EXCEPT ![p] = triagedCandidates]
      BY <1>2, <2>3, <3>1 DEF PlainStep, EnterTake, LeakTypeOK, TypeOK
    <3>2. CASE UNCHANGED stage /\ \A q \in Procs : pc'[q] = "in" => pc[q] = "in"
      BY <1>2, <2>3, <3>2 DEF PlainStep
    <3>3. EnterTake(p) \/ \A q \in Procs : pc'[q] = "in" => pc[q] = "in"
      BY <1>2 DEF PlainStep, CallEnter, EnterWait, LeavePlain, LeaveAndCall, DrainWake,
                  LeakTypeOK, TypeOK
    <3>4. EnterTake(p) \/ ~EnterTake(p)
      OBVIOUS
    <3>5. ~EnterTake(p) => UNCHANGED stage
      BY <1>2 DEF PlainStep
    <3>6. EnterTake(p) => \/ stage' = [stage EXCEPT ![p] = triagedCandidates]
                          \/ \A q \in Procs : pc'[q] = "in" => pc[q] = "in"
      BY <1>2 DEF PlainStep, CallEnter, EnterWait, EnterTake, LeavePlain, LeaveAndCall, DrainWake,
                  LeakTypeOK, TypeOK
    <3>7. stage' = [stage EXCEPT ![p] = triagedCandidates] \/ UNCHANGED stage
      BY <1>2 DEF PlainStep
    <3> QED BY <1>2, <3>1, <3>2, <3>3, <3>5, <3>6, <3>7
  <2>4. ASSUME NEW q \in Procs, pc'[q] = "callback"
        PROVE  loaded' = triagedCandidates' \/ (loaded' = 0 /\ triagedCandidates' = 1)
    <3>1. CASE \E r \in Procs : pc'[r] = "callback" /\ pc[r] # "callback"
      BY <1>2, <3>1 DEF PlainStep, Load
    <3>2. CASE pc[q] = "callback" /\ loaded' = loaded
      BY <1>2, <3>2 DEF PlainStep
    <3> QED BY <1>2, <2>4, <3>1, <3>2 DEF PlainStep, Load
  <2>5. OnlyFreshLeaksReported'
    BY <1>2 DEF PlainStep, OnlyFreshLeaksReported
  <2> QED BY <2>2, <2>3, <2>4, <2>5
<1>3. ASSUME NEW p \in Procs, FlushLeaks(p) PROVE StageInv'
  <2>1. \A q \in Procs : pc'[q] # "in" /\ pc'[q] # "callback"
    <3>1. running = 0 /\ \A q \in Procs : pc[q] = "callback" => q = p
      BY <1>3 DEF FlushLeaks, EndCallback, GateInv, OneLeader
    <3>2. \A q \in Procs : pc[q] # "in"
      BY <3>1, QuietGate
    <3> QED BY <1>3, <3>1, <3>2 DEF FlushLeaks, EndCallback, GateInv, TypeOK
  <2>2. LeakTypeOK'
    <3>1. leaks' \subseteq 0 .. 2
      <4>1. leaks' = {} \/ leaks' = leaks
        BY <1>3 DEF FlushLeaks
      <4> QED BY <4>1 DEF LeakTypeOK
    <3>2. triagedCandidates' \in 0 .. 2
      <4>1. triagedCandidates' \in {triagedCandidates, 2}
        BY <1>3 DEF FlushLeaks
      <4> QED BY <4>1 DEF LeakTypeOK
    <3> QED BY <1>0, <1>3, <3>1, <3>2 DEF FlushLeaks, LeakTypeOK
  <2>3. triagedCandidates' = 2 => leaks' \subseteq {2}
    BY <1>3 DEF FlushLeaks, LeakTypeOK
  <2> QED BY <1>3, <2>1, <2>2, <2>3 DEF FlushLeaks, OnlyFreshLeaksReported
<1>4. ASSUME NEW p \in Procs, ReportLeaks(p) PROVE StageInv'
  <2>1. reported' \subseteq {2}
    BY <1>4 DEF ReportLeaks, LeakTypeOK
  <2> QED BY <1>0, <1>4, <2>1 DEF ReportLeaks, LeakTypeOK, OnlyFreshLeaksReported, gateVars
<1>5. ASSUME NEW p \in Procs, Leak(p) PROVE StageInv'
  BY <1>0, <1>5 DEF Leak, LeakTypeOK, OnlyFreshLeaksReported, gateVars
<1>6. CASE CandidatesTriaged
  <2>1. \A q \in Procs : pc[q] = "callback" => loaded = 0
    BY <1>6 DEF CandidatesTriaged
  <2>2. pc' = pc /\ reported' = reported /\ triagedCandidates' = 1 /\ loaded' = loaded
    BY <1>6 DEF CandidatesTriaged, gateVars
  <2>3. LeakTypeOK'
    BY <1>0, <1>6 DEF CandidatesTriaged, LeakTypeOK
  <2> QED BY <2>1, <2>2, <2>3 DEF OnlyFreshLeaksReported
<1>7. CASE Restart
  <2>1. LeakTypeOK'
    <3>1. leaks' \subseteq 0 .. 2 /\ reported' \subseteq 0 .. 2
      <4>1. leaks' = {} /\ reported' = reported
        BY <1>7 DEF Restart
      <4> QED BY <4>1 DEF LeakTypeOK
    <3>2. exited' \in BOOLEAN /\ stage' \in [Procs -> 0 .. 2]
      <4>1. exited' = FALSE /\ stage' = [p \in Procs |-> 0]
        BY <1>7 DEF Restart
      <4> QED BY <4>1, StageZero
    <3>3. triagedCandidates' \in 0 .. 2 /\ loaded' \in 0 .. 2
      BY <1>7 DEF Restart
    <3> QED BY <1>0, <3>1, <3>2, <3>3 DEF LeakTypeOK
  <2>2. \A p \in Procs : pc'[p] = "idle"
    BY <1>7 DEF Restart
  <2>3. triagedCandidates' = 0 /\ reported' = reported
    BY <1>7 DEF Restart
  <2> QED BY <2>1, <2>2, <2>3 DEF OnlyFreshLeaksReported
<1> QED BY <1>1, <1>2, <1>3, <1>4, <1>5, <1>6, <1>7 DEF Next, ProcStep

LEMMA StageInvariant == Spec => []StageInv
<1>1. Init /\ GateInv => StageInv
  <2> SUFFICES ASSUME Init, GateInv PROVE StageInv
    OBVIOUS
  <2>1. LeakTypeOK
    <3>1. leaks \subseteq 0 .. 2 /\ reported \subseteq 0 .. 2
      <4>1. leaks = {} /\ reported = {}
        BY DEF Init
      <4> QED BY <4>1
    <3>2. exited \in BOOLEAN /\ stage \in [Procs -> 0 .. 2]
      <4>1. exited = FALSE /\ stage = [p \in Procs |-> 0]
        BY DEF Init
      <4> QED BY <4>1, StageZero
    <3>3. triagedCandidates \in 0 .. 2 /\ loaded \in 0 .. 2
      BY DEF Init
    <3> QED BY <3>1, <3>2, <3>3 DEF LeakTypeOK, GateInv
  <2>2. triagedCandidates = 0 /\ loaded = 0 /\ OnlyFreshLeaksReported
    BY DEF Init, OnlyFreshLeaksReported
  <2> QED BY <2>1, <2>2 DEF StageInv
<1> QED BY <1>1, GateInvariant, StageStep, PTL DEF Spec

\* The type invariant, of the gate and of what it is used for.
THEOREM LeakTypes == Spec => []LeakTypeOK
<1>1. StageInv => LeakTypeOK
  BY DEF StageInv
<1> QED BY <1>1, StageInvariant, PTL

\* No leak of the time before the second scan is ever reported (fuzzer_linux.go:25-50).
THEOREM FreshLeaks == Spec => []OnlyFreshLeaksReported
<1>1. StageInv => OnlyFreshLeaksReported
  BY DEF StageInv
<1> QED BY <1>1, StageInvariant, PTL
=============================================================================
