---------------------------- MODULE VMLoopProofs ----------------------------
(***************************************************************************)
(* Proofs about the VM loop, for any VMs, titles, bounds and ways in which *)
(* the manager may be started.                                             *)
(***************************************************************************)
EXTENDS VMLoop, FiniteSetTheorems, SequenceTheorems, TLAPS

USE VMAssumption DEF VMAssumption

-----------------------------------------------------------------------------
(* The inductive invariant.                                                *)

\* Every reproduction has its full number of VMs: reproInstances is counted by it.
ReproSizes ==
    \A k \in Crashes : repros[k] # {} => Cardinality(repros[k]) = instancesPerRepro

VMInv ==
    /\ TypeOK
    /\ InstancesAccounted
    /\ ReproSizes
    /\ OneReproPerTitle
    /\ FailuresNoted
    /\ StopIsAnswered

Reproducers(r) == UNION {r[k] : k \in Crashes}

-----------------------------------------------------------------------------
(* Lemmas about the operators.                                             *)

LEMMA CountVMs ==
    /\ Cardinality(VMs) \in Nat \ {0}
    /\ \A S \in SUBSET VMs : IsFiniteSet(S) /\ Cardinality(S) \in Nat
BY FS_EmptySet, FS_Subset, FS_CardinalityType

LEMMA PerRepro == instancesPerRepro \in Nat \ {0}
BY CountVMs DEF instancesPerRepro

\* One set more among those of the reproductions, which has nothing in common with them.
LEMMA ReproducersAdd ==
    ASSUME NEW r \in [Crashes -> SUBSET VMs], NEW k \in Crashes, NEW S \in SUBSET VMs,
           r[k] = {}, \A l \in Crashes : r[l] \cap S = {}
    PROVE  Cardinality(Reproducers([r EXCEPT ![k] = S]))
               = Cardinality(Reproducers(r)) + Cardinality(S)
<1> DEFINE q == [r EXCEPT ![k] = S]
<1>1. Reproducers(q) = Reproducers(r) \cup S
  <2>1. q[k] = S /\ \A l \in Crashes \ {k} : q[l] = r[l]
    OBVIOUS
  <2>2. ASSUME NEW v \in Reproducers(q) PROVE v \in Reproducers(r) \cup S
    BY <2>1 DEF Reproducers
  <2>3. ASSUME NEW v \in Reproducers(r) PROVE v \in Reproducers(q)
    BY <2>1 DEF Reproducers
  <2>4. ASSUME NEW v \in S PROVE v \in Reproducers(q)
    BY <2>1 DEF Reproducers
  <2> HIDE DEF q
  <2> QED BY <2>2, <2>3, <2>4
<1>2. Cardinality(Reproducers(r) \cap S) = 0
  <2>1. Reproducers(r) \cap S = {}
    BY DEF Reproducers
  <2> QED BY <2>1, FS_EmptySet
<1>3. Reproducers(r) \in SUBSET VMs
  BY DEF Reproducers
<1>4. /\ IsFiniteSet(Reproducers(r)) /\ IsFiniteSet(S)
      /\ Cardinality(Reproducers(r)) \in Nat /\ Cardinality(S) \in Nat
  BY <1>3, CountVMs
<1>5. Cardinality(Reproducers(r) \cup S) = Cardinality(Reproducers(r)) + Cardinality(S)
             - Cardinality(Reproducers(r) \cap S)
  BY <1>4, FS_Union
<1>6. Cardinality(Reproducers(q)) = Cardinality(Reproducers(r)) + Cardinality(S)
  <2> HIDE DEF q
  <2> QED BY <1>1, <1>2, <1>4, <1>5
<1> QED BY <1>6

\* One set less.
LEMMA ReproducersDrop ==
    ASSUME NEW r \in [Crashes -> SUBSET VMs], NEW k \in Crashes,
           \A l \in Crashes \ {k} : r[l] \cap r[k] = {}
    PROVE  /\ Cardinality(Reproducers([r EXCEPT ![k] = {}]))
                  = Cardinality(Reproducers(r)) - Cardinality(r[k])
           /\ Cardinality(r[k]) <= Cardinality(Reproducers(r))
<1> DEFINE q == [r EXCEPT ![k] = {}]
<1>1. q \in [Crashes -> SUBSET VMs] /\ q[k] = {} /\ \A l \in Crashes : q[l] \cap r[k] = {}
  OBVIOUS
<1>2. [q EXCEPT ![k] = r[k]] = r
  OBVIOUS
<1>3. Cardinality(Reproducers([q EXCEPT ![k] = r[k]]))
          = Cardinality(Reproducers(q)) + Cardinality(r[k])
  BY <1>1, ReproducersAdd
<1> HIDE DEF q
<1>4. Reproducers(q) \in SUBSET VMs /\ r[k] \in SUBSET VMs
  BY <1>1 DEF Reproducers
<1>5. Cardinality(Reproducers(q)) \in Nat /\ Cardinality(r[k]) \in Nat
  BY <1>4, CountVMs
<1>6. Cardinality(Reproducers(r)) = Cardinality(Reproducers(q)) + Cardinality(r[k])
  BY <1>2, <1>3
<1>7. Cardinality(Reproducers(q)) = Cardinality(Reproducers(r)) - Cardinality(r[k])
  BY <1>5, <1>6
<1>8. Cardinality(r[k]) <= Cardinality(Reproducers(r))
  BY <1>5, <1>6
<1> QED BY <1>7, <1>8 DEF q

-----------------------------------------------------------------------------
(* Types.                                                                  *)

LEMMA InitTypes == ASSUME Init PROVE TypeOK
<1>1. config \in AllConfigs
  BY DEF Init
<1>2. reproQueue \in Seq(Crashes)
  BY EmptySeq DEF Init
<1>3. pendingRepro \in [Crashes -> Nat] /\ reproInstances \in Nat
  BY DEF Init
<1>4. attempts \in [Titles -> 0..MaxReproAttempts] /\ hubReproQueue \in 0..HubQueueCap
  BY DEF Init
<1>5. seenPhase \in phaseInit..phaseTriagedHub /\ phase \in phaseInit..phaseTriagedHub
  BY DEF Init, phaseInit, phaseTriagedHub
<1>6. /\ running \in [VMs -> {"none", "booting", "fuzzing", "ended"}]
      /\ repros \in [Crashes -> SUBSET VMs]
  BY DEF Init
<1> QED BY <1>1, <1>2, <1>3, <1>4, <1>5, <1>6 DEF Init, TypeOK

LEMMA NeedReproType == ASSUME NEW k \in Crashes PROVE NeedRepro(k) \subseteq BOOLEAN
BY DEF NeedRepro, NeedLocalRepro

\* The counter cannot become negative.
LEMMA ReproInstancesCount ==
    ASSUME VMInv, NEW k \in Crashes, repros[k] # {}
    PROVE  reproInstances - instancesPerRepro \in Nat
<1>1. repros \in [Crashes -> SUBSET VMs] /\ reproInstances \in Nat
  BY DEF VMInv, TypeOK
<1>2. Cardinality(repros[k]) = instancesPerRepro
  BY DEF VMInv, ReproSizes
<1>3. \A l \in Crashes \ {k} : repros[l] \cap repros[k] = {}
  BY <1>1 DEF VMInv, InstancesAccounted, OneUser
<1>4. reproInstances = Cardinality(Reproducers(repros))
  BY DEF VMInv, InstancesAccounted, Reproducers
<1>5. Cardinality(repros[k]) <= Cardinality(Reproducers(repros))
  BY <1>1, <1>3, ReproducersDrop
<1> QED BY <1>1, <1>2, <1>4, <1>5, PerRepro

\* The last crash of the queue, and what is left of the queue without it.
LEMMA QueueLast ==
    ASSUME NEW q \in Seq(Crashes), q # <<>>
    PROVE  /\ Len(q) \in Nat \ {0}
           /\ q[Len(q)] \in Crashes
           /\ SubSeq(q, 1, Len(q) - 1) \in Seq(Crashes)
           /\ Len(SubSeq(q, 1, Len(q) - 1)) = Len(q) - 1
           /\ \A i \in 1..Len(q) - 1 : SubSeq(q, 1, Len(q) - 1)[i] = q[i]
<1>1. Len(q) \in Nat \ {0}
  BY EmptySeq
<1>2. \A i \in 1..Len(q) : q[i] \in Crashes
  BY ElementOfSeq
<1>3. \A i \in 1..Len(q) - 1 : q[i] \in Crashes
  BY <1>1, <1>2
<1>4. /\ SubSeq(q, 1, Len(q) - 1) \in Seq(Crashes)
      /\ Len(SubSeq(q, 1, Len(q) - 1)) = IF 1 <= Len(q) - 1 THEN Len(q) - 1 - 1 + 1 ELSE 0
      /\ \A i \in 1..Len(q) - 1 - 1 + 1 : SubSeq(q, 1, Len(q) - 1)[i] = q[1 + i - 1]
  BY <1>1, <1>3, SubSeqProperties
<1>5. Len(SubSeq(q, 1, Len(q) - 1)) = Len(q) - 1
  <2>1. \A n \in Nat \ {0} : (IF 1 <= n - 1 THEN n - 1 - 1 + 1 ELSE 0) = n - 1
    OBVIOUS
  <2> QED BY <1>1, <1>4, <2>1
<1>6. ASSUME NEW i \in 1..Len(q) - 1 PROVE SubSeq(q, 1, Len(q) - 1)[i] = q[i]
  <2>1. i \in 1..Len(q) - 1 - 1 + 1 /\ 1 + i - 1 = i
    BY <1>1
  <2> QED BY <1>4, <2>1
<1> QED BY <1>1, <1>2, <1>4, <1>5, <1>6

LEMMA CanReproQueue ==
    ASSUME TypeOK, canRepro
    PROVE  reproQueue # <<>> /\ reproQueue[Len(reproQueue)] \in Crashes
BY QueueLast DEF TypeOK, canRepro

LEMMA LoopTypes ==
    ASSUME VMInv, Loop PROVE TypeOK'
<1> USE DEF VMInv
<1>1. CASE LoopHead
  BY <1>1 DEF LoopHead, TypeOK
<1>2. ASSUME NEW k \in Crashes, Collect(k) PROVE TypeOK'
  <2>1. pendingRepro[k] - 1 \in Nat
    BY <1>2 DEF TypeOK, Collect, CanCollect
  <2>2. pendingRepro' \in [Crashes -> Nat]
    BY <2>1, <1>2 DEF TypeOK, Collect
  <2>3. reproducing' \subseteq Crashes /\ reproQueue' \in Seq(Crashes)
    <3>1. \/ reproducing' = reproducing \cup {k} /\ reproQueue' = Append(reproQueue, k)
          \/ UNCHANGED <<reproducing, reproQueue>>
      BY <1>2 DEF Collect
    <3>2. reproQueue \in Seq(Crashes) /\ Append(reproQueue, k) \in Seq(Crashes)
      BY AppendProperties DEF TypeOK
    <3> QED BY <3>1, <3>2 DEF TypeOK
  <2> QED BY <1>2, <2>2, <2>3 DEF TypeOK, Collect
<1>3. ASSUME NEW vms \in SUBSET VMs, StartRepro(vms) PROVE TypeOK'
  <2>1. reproQueue \in Seq(Crashes) /\ reproQueue # <<>>
    BY <1>3, CanReproQueue DEF TypeOK, StartRepro, CanStartRepro
  <2>2. reproQueue' \in Seq(Crashes) /\ reproQueue[Len(reproQueue)] \in Crashes
    BY <1>3, <2>1, QueueLast DEF StartRepro
  <2>3. repros' \in [Crashes -> SUBSET VMs]
    BY <1>3, <2>2 DEF TypeOK, StartRepro
  <2>4. reproInstances' \in Nat /\ instances' \subseteq VMs
    BY <1>3, PerRepro DEF TypeOK, StartRepro
  <2> QED BY <1>3, <2>2, <2>3, <2>4 DEF TypeOK, StartRepro
<1>4. ASSUME NEW v \in VMs, StartRun(v) PROVE TypeOK'
  BY <1>4 DEF TypeOK, StartRun
<1> QED BY <1>1, <1>2, <1>3, <1>4 DEF Loop

LEMMA RunTypes ==
    ASSUME VMInv, NEW v \in VMs,
           StopRequest(v) \/ RunReturns(v) \/ Booted(v) \/ Ends(v) \/ Fuzzes(v)
    PROVE  TypeOK'
<1> USE DEF VMInv, loopVars
<1>1. CASE StopRequest(v)
  BY <1>1 DEF StopRequest, TypeOK
<1>2. CASE RunFinished(v)
  BY <1>2 DEF RunFinished, RunReturned, TypeOK
<1>3. ASSUME NEW t \in Titles, RunCrashed(v, t) PROVE TypeOK'
  <2>1. pc' \in {"head", "panicked"}
    BY <1>3 DEF RunCrashed
  <2>2. \/ UNCHANGED pendingRepro
        \/ pendingRepro' = [pendingRepro EXCEPT ![t] = @ + 1]
    BY <1>3 DEF RunCrashed
  <2>3. pendingRepro' \in [Crashes -> Nat]
    BY <2>2 DEF TypeOK, Crashes
  <2> QED BY <1>3, <2>1, <2>3 DEF RunCrashed, RunReturned, TypeOK
<1>4. CASE Booted(v)
  BY <1>4 DEF Booted, TypeOK
<1>5. CASE Ends(v)
  BY <1>5 DEF Ends, TypeOK
<1>6. CASE Fuzzes(v)
  <2>1. phase' \in phaseInit..phaseTriagedHub
    BY <1>6 DEF Fuzzes, phaseInit, phaseLoadedCorpus, phaseTriagedCorpus, phaseQueriedHub,
       phaseTriagedHub
  <2> QED BY <1>6, <2>1 DEF Fuzzes, TypeOK
<1> QED BY <1>1, <1>2, <1>3, <1>4, <1>5, <1>6 DEF RunReturns

LEMMA ReproTypes ==
    ASSUME VMInv, NEW k \in Crashes, ReproReturns(k) PROVE TypeOK'
<1> USE DEF VMInv
<1>1. ReproReturned(k)
  BY DEF ReproReturns, ReproFailed, ReproSucceeded
<1>2. reproInstances' \in Nat
  BY <1>1, ReproInstancesCount DEF ReproReturned
<1>3. attempts' \in [Titles -> 0..MaxReproAttempts] /\ reproduced' \subseteq Titles
  <2>1. CASE ReproFailed(k)
    <3>1. CASE UNCHANGED attempts
      BY <2>1, <3>1 DEF ReproFailed, TypeOK
    <3>2. CASE /\ k # External
               /\ attempts' = [attempts EXCEPT ![k] = IF @ < MaxReproAttempts THEN @ + 1 ELSE @]
      <4>1. k \in Titles /\ attempts[k] \in 0..MaxReproAttempts
        BY <3>2 DEF TypeOK, Crashes
      <4>2. (IF attempts[k] < MaxReproAttempts THEN attempts[k] + 1 ELSE attempts[k])
               \in 0..MaxReproAttempts
        BY <4>1
      <4> QED BY <2>1, <3>2, <4>1, <4>2 DEF ReproFailed, TypeOK
    <3> QED BY <2>1, <3>1, <3>2 DEF ReproFailed
  <2>2. ASSUME NEW t \in Titles, ReproSucceeded(k, t)
        PROVE  attempts' \in [Titles -> 0..MaxReproAttempts] /\ reproduced' \subseteq Titles
    BY <2>2 DEF ReproSucceeded, TypeOK
  <2> QED BY <2>1, <2>2 DEF ReproReturns
<1> QED BY <1>1, <1>2, <1>3 DEF ReproReturned, TypeOK

LEMMA OtherTypes ==
    ASSUME VMInv,
           \/ SeeShutdown \/ TakeHubRepro \/ AnswerHub
           \/ SyncsUnasked \/ HubReplied \/ HubFailed \/ SendRepro
           \/ Interrupt \/ Ended \/ UNCHANGED vars
    PROVE  TypeOK'
<1> USE DEF VMInv, loopVars, TypeOK
<1>1. CASE SeeShutdown
  BY <1>1 DEF SeeShutdown
<1>2. CASE TakeHubRepro
  <2>1. hubReproQueue' \in 0..HubQueueCap
    BY <1>2 DEF TakeHubRepro
  <2>2. pendingRepro' \in [Crashes -> Nat]
    BY <1>2 DEF TakeHubRepro, Crashes
  <2> QED BY <1>2, <2>1, <2>2 DEF TakeHubRepro
<1>3. CASE AnswerHub
  BY <1>3 DEF AnswerHub
<1>4. CASE SyncsUnasked
  BY <1>4 DEF SyncsUnasked
<1>5. CASE HubReplied
  BY <1>5 DEF HubReplied, phaseInit, phaseTriagedCorpus, phaseQueriedHub, phaseTriagedHub
<1>6. CASE HubFailed
  BY <1>6 DEF HubFailed
<1>7. CASE SendRepro
  <2>1. hubReproQueue' \in 0..HubQueueCap
    BY <1>7 DEF SendRepro
  <2> QED BY <1>7, <2>1 DEF SendRepro
<1>8. CASE Interrupt
  BY <1>8 DEF Interrupt
<1>9. CASE Ended \/ UNCHANGED vars
  BY <1>9 DEF Ended, vars
<1> QED BY <1>1, <1>2, <1>3, <1>4, <1>5, <1>6, <1>7, <1>8, <1>9

LEMMA NextTypes ==
    ASSUME VMInv, [Next]_vars PROVE TypeOK'
BY LoopTypes, RunTypes, ReproTypes, OtherTypes DEF Next

-----------------------------------------------------------------------------
(* Each VM has one user.                                                   *)

\* What does not give a VM to another user: a fuzzer may boot, crash or be asked to stop.
LEMMA SameUsers ==
    ASSUME VMInv, UNCHANGED <<instances, repros, reproInstances>>,
           \A v \in VMs : running'[v] = "none" <=> running[v] = "none"
    PROVE  InstancesAccounted' /\ ReproSizes'
<1>1. instances \subseteq VMs /\ repros \in [Crashes -> SUBSET VMs]
  BY DEF VMInv, TypeOK
<1>2. OneUser'
  BY <1>1 DEF VMInv, InstancesAccounted, OneUser
<1>3. NoneLost'
  BY <1>1 DEF VMInv, InstancesAccounted, NoneLost
<1> QED BY <1>2, <1>3 DEF VMInv, InstancesAccounted, ReproSizes, instancesPerRepro

LEMMA StartReproUsers ==
    ASSUME VMInv, NEW vms \in SUBSET VMs, StartRepro(vms)
    PROVE  InstancesAccounted' /\ ReproSizes'
<1> DEFINE k == reproQueue[Len(reproQueue)]
<1>1. /\ instances \subseteq VMs /\ repros \in [Crashes -> SUBSET VMs]
      /\ reproQueue \in Seq(Crashes) /\ reproInstances \in Nat
  BY DEF VMInv, TypeOK
<1>2. k \in Crashes /\ InQueue(k)
  <2>1. reproQueue # <<>>
    BY DEF StartRepro, CanStartRepro, canRepro
  <2>2. Len(reproQueue) \in 1..Len(reproQueue)
    BY <1>1, <2>1, QueueLast
  <2> QED BY <1>1, <2>1, <2>2, QueueLast DEF InQueue
<1>3. repros[k] = {}
  BY <1>2 DEF VMInv, OneReproPerTitle
<1>4. /\ vms \subseteq instances /\ Cardinality(vms) = instancesPerRepro
      /\ instances' = instances \ vms
      /\ reproInstances' = reproInstances + instancesPerRepro
      /\ repros' = [repros EXCEPT ![k] = vms]
      /\ UNCHANGED running
  BY DEF StartRepro
<1> HIDE DEF k
<1>5. /\ repros'[k] = vms /\ \A l \in Crashes \ {k} : repros'[l] = repros[l]
  BY <1>1, <1>2, <1>4
<1>6. \A v \in vms : v \in instances /\ running[v] = "none" /\ \A l \in Crashes : v \notin repros[l]
  BY <1>4 DEF VMInv, InstancesAccounted, OneUser
<1>7. OneUser'
  <2>1. ASSUME NEW v \in instances'
        PROVE  running'[v] = "none" /\ \A l \in Crashes : v \notin repros'[l]
    <3>1. v \in instances /\ v \notin vms
      BY <1>4
    <3>2. running[v] = "none" /\ \A l \in Crashes : v \notin repros[l]
      BY <3>1 DEF VMInv, InstancesAccounted, OneUser
    <3> QED BY <1>4, <1>5, <3>1, <3>2
  <2>2. ASSUME NEW l \in Crashes, NEW v \in repros'[l]
        PROVE  running'[v] = "none" /\ \A m \in Crashes \ {l} : v \notin repros'[m]
    <3>1. CASE l = k
      BY <1>4, <1>5, <1>6, <3>1
    <3>2. CASE l # k
      <4>1. v \in repros[l] /\ v \notin vms
        BY <1>5, <1>6, <3>2
      <4>2. running[v] = "none" /\ \A m \in Crashes \ {l} : v \notin repros[m]
        BY <4>1 DEF VMInv, InstancesAccounted, OneUser
      <4> QED BY <1>4, <1>5, <4>1, <4>2
    <3> QED BY <3>1, <3>2
  <2> QED BY <2>1, <2>2 DEF OneUser
<1>8. NoneLost'
  <2> SUFFICES ASSUME NEW v \in VMs
               PROVE  (v \in instances \/ running[v] # "none" \/ \E l \in Crashes : v \in repros[l])'
    BY DEF NoneLost
  <2>1. CASE v \in vms
    BY <1>2, <1>5, <2>1
  <2>2. CASE v \notin vms
    <3>1. v \in instances \/ running[v] # "none" \/ \E l \in Crashes : v \in repros[l]
      BY DEF VMInv, InstancesAccounted, NoneLost
    <3>2. ASSUME NEW l \in Crashes, v \in repros[l] PROVE v \in repros'[l]
      BY <1>3, <1>5, <3>2
    <3> QED BY <1>4, <2>2, <3>1, <3>2
  <2> QED BY <2>1, <2>2
<1>9. reproInstances' = Cardinality(Reproducers(repros'))
  <2>1. \A l \in Crashes : repros[l] \cap vms = {}
    BY <1>6
  <2>2. Cardinality(Reproducers(repros')) = Cardinality(Reproducers(repros)) + Cardinality(vms)
    BY <1>1, <1>2, <1>3, <1>4, <2>1, ReproducersAdd
  <2>3. reproInstances = Cardinality(Reproducers(repros))
    BY DEF VMInv, InstancesAccounted, Reproducers
  <2> QED BY <1>4, <2>2, <2>3
<1>10. ReproSizes'
  <2> SUFFICES ASSUME NEW l \in Crashes, repros'[l] # {}
               PROVE  Cardinality(repros'[l]) = instancesPerRepro
    BY DEF ReproSizes, instancesPerRepro
  <2> QED BY <1>4, <1>5 DEF VMInv, ReproSizes
<1> QED BY <1>7, <1>8, <1>9, <1>10 DEF InstancesAccounted, Reproducers

LEMMA StartRunUsers ==
    ASSUME VMInv, NEW v \in VMs, StartRun(v)
    PROVE  InstancesAccounted' /\ ReproSizes'
<1>1. /\ instances \subseteq VMs /\ repros \in [Crashes -> SUBSET VMs]
      /\ running \in [VMs -> {"none", "booting", "fuzzing", "ended"}]
  BY DEF VMInv, TypeOK
<1>2. /\ v \in instances /\ instances' = instances \ {v}
      /\ running' = [running EXCEPT ![v] = "booting"]
      /\ UNCHANGED <<repros, reproInstances>>
  BY DEF StartRun
<1>3. running'[v] # "none" /\ \A w \in VMs \ {v} : running'[w] = running[w]
  BY <1>1, <1>2
<1>4. \A k \in Crashes : v \notin repros[k]
  BY <1>2 DEF VMInv, InstancesAccounted, OneUser
<1>5. OneUser'
  BY <1>1, <1>2, <1>3, <1>4 DEF VMInv, InstancesAccounted, OneUser
<1>6. NoneLost'
  BY <1>1, <1>2, <1>3, <1>4 DEF VMInv, InstancesAccounted, NoneLost
<1> QED BY <1>2, <1>5, <1>6 DEF VMInv, InstancesAccounted, ReproSizes, instancesPerRepro

\* A VM that runs a fuzzer is not free and reproduces nothing, so it can be returned.
LEMMA RunReturnedUsers ==
    ASSUME VMInv, NEW v \in VMs, RunReturned(v), running[v] # "none"
    PROVE  InstancesAccounted' /\ ReproSizes'
<1>1. /\ instances \subseteq VMs /\ repros \in [Crashes -> SUBSET VMs]
      /\ running \in [VMs -> {"none", "booting", "fuzzing", "ended"}]
  BY DEF VMInv, TypeOK
<1>2. /\ instances' = instances \cup {v}
      /\ running' = [running EXCEPT ![v] = "none"]
      /\ UNCHANGED <<repros, reproInstances>>
  BY DEF RunReturned
<1>3. running'[v] = "none" /\ \A w \in VMs \ {v} : running'[w] = running[w]
  BY <1>1, <1>2
<1>4. \A k \in Crashes : v \notin repros[k]
  BY DEF VMInv, InstancesAccounted, OneUser
<1>5. OneUser'
  BY <1>1, <1>2, <1>3, <1>4 DEF VMInv, InstancesAccounted, OneUser
<1>6. NoneLost'
  BY <1>1, <1>2, <1>3, <1>4 DEF VMInv, InstancesAccounted, NoneLost
<1> QED BY <1>2, <1>5, <1>6 DEF VMInv, InstancesAccounted, ReproSizes, instancesPerRepro

LEMMA ReproReturnedUsers ==
    ASSUME VMInv, NEW k \in Crashes, ReproReturned(k)
    PROVE  InstancesAccounted' /\ ReproSizes'
<1>1. /\ instances \subseteq VMs /\ repros \in [Crashes -> SUBSET VMs]
      /\ reproInstances \in Nat
  BY DEF VMInv, TypeOK
<1>2. /\ repros[k] # {} /\ instances' = instances \cup repros[k]
      /\ reproInstances' = reproInstances - instancesPerRepro
      /\ repros' = [repros EXCEPT ![k] = {}]
      /\ UNCHANGED running
  BY DEF ReproReturned
<1>3. repros'[k] = {} /\ \A l \in Crashes \ {k} : repros'[l] = repros[l]
  BY <1>1, <1>2
<1>4. \A v \in repros[k] : running[v] = "none" /\ \A l \in Crashes \ {k} : v \notin repros[l]
  BY DEF VMInv, InstancesAccounted, OneUser
<1>5. OneUser'
  <2>1. ASSUME NEW v \in instances'
        PROVE  running'[v] = "none" /\ \A l \in Crashes : v \notin repros'[l]
    <3>1. CASE v \in instances
      <4>1. running[v] = "none" /\ \A l \in Crashes : v \notin repros[l]
        BY <3>1 DEF VMInv, InstancesAccounted, OneUser
      <4> QED BY <1>2, <1>3, <4>1
    <3>2. CASE v \in repros[k]
      BY <1>2, <1>3, <1>4, <3>2
    <3> QED BY <1>2, <3>1, <3>2
  <2>2. ASSUME NEW l \in Crashes, NEW v \in repros'[l]
        PROVE  running'[v] = "none" /\ \A m \in Crashes \ {l} : v \notin repros'[m]
    <3>1. l # k /\ v \in repros[l]
      BY <1>3
    <3>2. running[v] = "none" /\ \A m \in Crashes \ {l} : v \notin repros[m]
      BY <3>1 DEF VMInv, InstancesAccounted, OneUser
    <3> QED BY <1>2, <1>3, <3>2
  <2> QED BY <2>1, <2>2 DEF OneUser
<1>6. NoneLost'
  <2> SUFFICES ASSUME NEW v \in VMs
               PROVE  (v \in instances \/ running[v] # "none" \/ \E l \in Crashes : v \in repros[l])'
    BY DEF NoneLost
  <2>1. v \in instances \/ running[v] # "none" \/ \E l \in Crashes : v \in repros[l]
    BY DEF VMInv, InstancesAccounted, NoneLost
  <2>2. ASSUME NEW l \in Crashes, v \in repros[l] PROVE v \in instances' \/ v \in repros'[l]
    BY <1>2, <1>3, <2>2
  <2> QED BY <1>2, <2>1, <2>2
<1>7. reproInstances' = Cardinality(Reproducers(repros'))
  <2>1. \A l \in Crashes \ {k} : repros[l] \cap repros[k] = {}
    BY <1>4
  <2>2. Cardinality(Reproducers(repros')) = Cardinality(Reproducers(repros)) - Cardinality(repros[k])
    BY <1>1, <1>2, <2>1, ReproducersDrop
  <2>3. reproInstances = Cardinality(Reproducers(repros))
    BY DEF VMInv, InstancesAccounted, Reproducers
  <2>4. Cardinality(repros[k]) = instancesPerRepro
    BY <1>2 DEF VMInv, ReproSizes
  <2> QED BY <1>2, <2>2, <2>3, <2>4
<1>8. ReproSizes'
  <2> SUFFICES ASSUME NEW l \in Crashes, repros'[l] # {}
               PROVE  Cardinality(repros'[l]) = instancesPerRepro
    BY DEF ReproSizes, instancesPerRepro
  <2> QED BY <1>3 DEF VMInv, ReproSizes
<1> QED BY <1>5, <1>6, <1>7, <1>8 DEF InstancesAccounted, Reproducers

LEMMA NextUsers ==
    ASSUME VMInv, [Next]_vars PROVE InstancesAccounted' /\ ReproSizes'
<1> USE DEF loopVars
<1>1. running \in [VMs -> {"none", "booting", "fuzzing", "ended"}]
  BY DEF VMInv, TypeOK
<1>2. CASE Loop
  <2>1. CASE LoopHead
    BY <2>1, SameUsers DEF LoopHead
  <2>2. ASSUME NEW k \in Crashes, Collect(k) PROVE InstancesAccounted' /\ ReproSizes'
    BY <2>2, SameUsers DEF Collect
  <2> QED BY <1>2, <2>1, <2>2, StartReproUsers, StartRunUsers DEF Loop
<1>3. ASSUME NEW v \in VMs, StopRequest(v) \/ RunReturns(v) \/ Booted(v) \/ Ends(v) \/ Fuzzes(v)
      PROVE  InstancesAccounted' /\ ReproSizes'
  <2>1. CASE StopRequest(v)
    BY <1>1, <2>1, SameUsers DEF StopRequest
  <2>2. CASE RunReturns(v)
    BY <2>2, RunReturnedUsers DEF RunReturns, RunFinished, RunCrashed
  <2>3. CASE Booted(v)
    BY <1>1, <2>3, SameUsers DEF Booted
  <2>4. CASE Ends(v)
    BY <1>1, <2>4, SameUsers DEF Ends
  <2>5. CASE Fuzzes(v)
    BY <2>5, SameUsers DEF Fuzzes
  <2> QED BY <1>3, <2>1, <2>2, <2>3, <2>4, <2>5
<1>4. ASSUME NEW k \in Crashes, ReproReturns(k) PROVE InstancesAccounted' /\ ReproSizes'
  BY <1>4, ReproReturnedUsers DEF ReproReturns, ReproFailed, ReproSucceeded
<1>5. CASE SeeShutdown \/ TakeHubRepro \/ AnswerHub
  BY <1>5, SameUsers DEF SeeShutdown, TakeHubRepro, AnswerHub
<1>6. CASE SyncsUnasked \/ HubReplied \/ HubFailed \/ SendRepro
  BY <1>6, SameUsers DEF SyncsUnasked, HubReplied, HubFailed, SendRepro
<1>7. CASE Interrupt \/ Ended \/ UNCHANGED vars
  BY <1>7, SameUsers DEF Interrupt, Ended, vars
<1> QED BY <1>2, <1>3, <1>4, <1>5, <1>6, <1>7 DEF Next

-----------------------------------------------------------------------------
(* One reproduction of a title, and room to note that it failed.           *)

\* What neither queues nor starts nor ends a reproduction.
LEMMA SameRepros ==
    ASSUME VMInv, UNCHANGED <<reproducing, reproQueue, repros, attempts, config>>
    PROVE  OneReproPerTitle' /\ FailuresNoted'
BY DEF VMInv, OneReproPerTitle, InQueue, FailuresNoted

\* A crash that is queued has a title that nothing in the queue has.
LEMMA CollectRepros ==
    ASSUME VMInv, NEW k \in Crashes, Collect(k)
    PROVE  OneReproPerTitle' /\ FailuresNoted'
<1>1. /\ reproQueue \in Seq(Crashes) /\ repros \in [Crashes -> SUBSET VMs]
      /\ reproducing \subseteq Crashes
  BY DEF VMInv, TypeOK
<1>2. k \notin reproducing /\ UNCHANGED <<repros, attempts, config>>
  BY DEF Collect, CanCollect
<1>3. CASE UNCHANGED <<reproducing, reproQueue>>
  BY <1>2, <1>3, SameRepros
<1>4. CASE /\ TRUE \in NeedRepro(k)
           /\ reproducing' = reproducing \cup {k}
           /\ reproQueue' = Append(reproQueue, k)
  <2>1. /\ Len(reproQueue) \in Nat /\ Len(reproQueue') = Len(reproQueue) + 1
        /\ \A i \in 1..Len(reproQueue) : reproQueue'[i] = reproQueue[i]
        /\ reproQueue'[Len(reproQueue) + 1] = k
    BY <1>1, <1>4, AppendProperties
  <2>2. ~InQueue(k) /\ repros[k] = {}
    BY <1>2 DEF VMInv, OneReproPerTitle
  <2>3. \A i \in 1..Len(reproQueue') : i \in 1..Len(reproQueue) \/ i = Len(reproQueue) + 1
    BY <2>1
  <2>4. \A i \in 1..Len(reproQueue) : i \in 1..Len(reproQueue')
    BY <2>1
  <2>5. Len(reproQueue) + 1 \in 1..Len(reproQueue')
    BY <2>1
  <2>6. ASSUME NEW l \in Crashes PROVE InQueue(l)' <=> InQueue(l) \/ l = k
    BY <2>1, <2>3, <2>4, <2>5 DEF InQueue
  <2>7. reproducing' = {l \in Crashes : InQueue(l)' \/ repros'[l] # {}}
    <3>1. reproducing = {l \in Crashes : InQueue(l) \/ repros[l] # {}}
      BY DEF VMInv, OneReproPerTitle
    <3> QED BY <1>2, <1>4, <2>6, <3>1
  <2>8. ASSUME NEW i \in 1..Len(reproQueue'), NEW j \in 1..Len(reproQueue'),
               reproQueue'[i] = reproQueue'[j]
        PROVE  i = j
    <3>1. \A m \in 1..Len(reproQueue) : reproQueue'[m] # k
      BY <2>1, <2>2 DEF InQueue
    <3>2. \A m, n \in 1..Len(reproQueue) : reproQueue[m] = reproQueue[n] => m = n
      BY DEF VMInv, OneReproPerTitle
    <3> QED BY <2>1, <2>3, <2>8, <3>1, <3>2
  <2>9. ASSUME NEW l \in Crashes, InQueue(l)' PROVE repros'[l] = {}
    BY <1>2, <2>2, <2>6, <2>9 DEF VMInv, OneReproPerTitle
  <2>10. OneReproPerTitle'
    BY <2>7, <2>8, <2>9 DEF OneReproPerTitle
  <2>11. ASSUME NEW t \in reproducing' \cap Titles, ~config'.dash
         PROVE  attempts'[t] < MaxReproAttempts
    <3>1. CASE t = k
      <4>1. k # External /\ ~config.dash
        BY <1>2, <2>11, <3>1
      <4>2. NeedLocalRepro(k)
        BY <1>4, <4>1 DEF NeedRepro
      <4> QED BY <1>2, <3>1, <4>2 DEF NeedLocalRepro
    <3>2. CASE t # k
      <4>1. t \in reproducing \cap Titles /\ ~config.dash
        BY <1>2, <1>4, <2>11, <3>2
      <4> QED BY <1>2, <4>1 DEF VMInv, FailuresNoted
    <3> QED BY <3>1, <3>2
  <2> QED BY <2>10, <2>11 DEF FailuresNoted
<1> QED BY <1>3, <1>4 DEF Collect

\* The crash that is taken from the queue is not in what is left of it.
LEMMA StartReproRepros ==
    ASSUME VMInv, NEW vms \in SUBSET VMs, StartRepro(vms)
    PROVE  OneReproPerTitle' /\ FailuresNoted'
<1> DEFINE n == Len(reproQueue)
           k == reproQueue[n]
<1>1. /\ reproQueue \in Seq(Crashes) /\ repros \in [Crashes -> SUBSET VMs]
      /\ reproQueue # <<>>
  BY DEF VMInv, TypeOK, StartRepro, CanStartRepro, canRepro
<1>2. /\ n \in Nat \ {0} /\ k \in Crashes
      /\ Len(reproQueue') = n - 1
      /\ \A i \in 1..n - 1 : reproQueue'[i] = reproQueue[i]
  BY <1>1, QueueLast DEF StartRepro
<1>3. /\ repros' = [repros EXCEPT ![k] = vms] /\ vms # {}
      /\ UNCHANGED <<reproducing, attempts, config>>
  <2>1. vms # {}
    BY PerRepro, FS_EmptySet DEF StartRepro
  <2> QED BY <2>1 DEF StartRepro
<1>4. \A i, j \in 1..n : reproQueue[i] = reproQueue[j] => i = j
  BY DEF VMInv, OneReproPerTitle
<1>5. \A l \in Crashes : InQueue(l) <=> \E i \in 1..n : reproQueue[i] = l
  BY DEF InQueue
<1>6. \A l \in Crashes : InQueue(l)' <=> \E i \in 1..n - 1 : reproQueue[i] = l
  BY <1>2 DEF InQueue
<1> HIDE DEF k
<1>7. repros'[k] = vms /\ \A l \in Crashes \ {k} : repros'[l] = repros[l]
  BY <1>1, <1>2, <1>3
<1>8. n \in 1..n /\ \A i \in 1..n : i = n \/ i \in 1..n - 1
  BY <1>2
<1>9. \A i \in 1..n - 1 : i \in 1..n /\ i # n
  BY <1>2
<1> HIDE DEF n
<1>10. reproQueue[n] = k
  BY DEF k
<1>11. ASSUME NEW l \in Crashes PROVE InQueue(l)' <=> InQueue(l) /\ l # k
  <2>1. ASSUME NEW i \in 1..n - 1, reproQueue[i] = l PROVE InQueue(l) /\ l # k
    BY <1>4, <1>5, <1>8, <1>9, <1>10, <2>1
  <2>2. ASSUME NEW i \in 1..n, reproQueue[i] = l, l # k PROVE i \in 1..n - 1
    BY <1>8, <1>10, <2>2
  <2> QED BY <1>5, <1>6, <2>1, <2>2
<1>12. InQueue(k)
  BY <1>2, <1>5, <1>8, <1>10
<1>13. reproducing' = {l \in Crashes : InQueue(l)' \/ repros'[l] # {}}
  <2>1. reproducing = {l \in Crashes : InQueue(l) \/ repros[l] # {}}
    BY DEF VMInv, OneReproPerTitle
  <2>2. ASSUME NEW l \in Crashes
        PROVE  InQueue(l)' \/ repros'[l] # {} <=> InQueue(l) \/ repros[l] # {}
    BY <1>3, <1>7, <1>11, <1>12
  <2> QED BY <1>3, <2>1, <2>2
<1>14. ASSUME NEW i \in 1..Len(reproQueue'), NEW j \in 1..Len(reproQueue'),
              reproQueue'[i] = reproQueue'[j]
       PROVE  i = j
  BY <1>2, <1>4, <1>9, <1>14
<1>15. ASSUME NEW l \in Crashes, InQueue(l)' PROVE repros'[l] = {}
  BY <1>7, <1>11, <1>15 DEF VMInv, OneReproPerTitle
<1>16. OneReproPerTitle'
  BY <1>13, <1>14, <1>15 DEF OneReproPerTitle
<1> QED BY <1>3, <1>16 DEF VMInv, FailuresNoted

LEMMA ReproReturnedRepros ==
    ASSUME VMInv, NEW k \in Crashes, ReproReturned(k), UNCHANGED config,
           \A t \in Titles \ {k} : attempts'[t] = attempts[t]
    PROVE  OneReproPerTitle' /\ FailuresNoted'
<1>1. repros \in [Crashes -> SUBSET VMs] /\ repros[k] # {}
  BY DEF VMInv, TypeOK, ReproReturned
<1>2. repros'[k] = {} /\ \A l \in Crashes \ {k} : repros'[l] = repros[l]
  BY <1>1 DEF ReproReturned
<1>3. UNCHANGED reproQueue /\ reproducing' = reproducing \ {k}
  BY DEF ReproReturned
<1>4. ~InQueue(k) /\ \A l \in Crashes : InQueue(l)' <=> InQueue(l)
  BY <1>1, <1>3 DEF VMInv, OneReproPerTitle, InQueue
<1>5. reproducing' = {l \in Crashes : InQueue(l)' \/ repros'[l] # {}}
  <2>1. reproducing = {l \in Crashes : InQueue(l) \/ repros[l] # {}}
    BY DEF VMInv, OneReproPerTitle
  <2> QED BY <1>2, <1>3, <1>4, <2>1
<1>6. \A l \in Crashes : InQueue(l)' => repros'[l] = {}
  BY <1>2, <1>4 DEF VMInv, OneReproPerTitle
<1>7. OneReproPerTitle'
  BY <1>3, <1>5, <1>6 DEF VMInv, OneReproPerTitle
<1>8. FailuresNoted'
  BY <1>3 DEF VMInv, FailuresNoted
<1> QED BY <1>7, <1>8

LEMMA NextRepros ==
    ASSUME VMInv, [Next]_vars PROVE OneReproPerTitle' /\ FailuresNoted'
<1> USE DEF loopVars
<1>1. CASE Loop
  <2>1. CASE LoopHead
    BY <2>1, SameRepros DEF LoopHead
  <2>2. ASSUME NEW v \in VMs, StartRun(v) PROVE OneReproPerTitle' /\ FailuresNoted'
    BY <2>2, SameRepros DEF StartRun
  <2> QED BY <1>1, <2>1, <2>2, CollectRepros, StartReproRepros DEF Loop
<1>2. ASSUME NEW v \in VMs, StopRequest(v) \/ RunReturns(v) \/ Booted(v) \/ Ends(v) \/ Fuzzes(v)
      PROVE  OneReproPerTitle' /\ FailuresNoted'
  <2>1. CASE RunReturns(v)
    BY <2>1, SameRepros DEF RunReturns, RunFinished, RunCrashed, RunReturned
  <2> QED BY <1>2, <2>1, SameRepros DEF StopRequest, Booted, Ends, Fuzzes
<1>3. ASSUME NEW k \in Crashes, ReproReturns(k) PROVE OneReproPerTitle' /\ FailuresNoted'
  <2>1. ReproReturned(k) /\ UNCHANGED config
    BY <1>3 DEF ReproReturns, ReproFailed, ReproSucceeded, ReproReturned
  <2>2. \A t \in Titles \ {k} : attempts'[t] = attempts[t]
    BY <1>3 DEF ReproReturns, ReproFailed, ReproSucceeded, VMInv, TypeOK
  <2> QED BY <2>1, <2>2, ReproReturnedRepros
<1>4. CASE SeeShutdown \/ TakeHubRepro \/ AnswerHub
  BY <1>4, SameRepros DEF SeeShutdown, TakeHubRepro, AnswerHub
<1>5. CASE SyncsUnasked \/ HubReplied \/ HubFailed \/ SendRepro
  BY <1>5, SameRepros DEF SyncsUnasked, HubReplied, HubFailed, SendRepro
<1>6. CASE Interrupt \/ Ended \/ UNCHANGED vars
  BY <1>6, SameRepros DEF Interrupt, Ended, vars
<1> QED BY <1>1, <1>2, <1>3, <1>4, <1>5, <1>6 DEF Next

-----------------------------------------------------------------------------
(* A stop request that is pending has been received.                       *)

LEMMA SameStops ==
    ASSUME VMInv, UNCHANGED stopPending,
           \A v \in VMs : running[v] = "ended" => running'[v] = "ended"
    PROVE  StopIsAnswered'
BY DEF VMInv, StopIsAnswered

LEMMA NextStops ==
    ASSUME VMInv, [Next]_vars PROVE StopIsAnswered'
<1> USE DEF loopVars
<1>1. running \in [VMs -> {"none", "booting", "fuzzing", "ended"}]
  BY DEF VMInv, TypeOK
<1>2. CASE Loop
  <2>1. CASE LoopHead
    BY <2>1, SameStops DEF LoopHead
  <2>2. ASSUME NEW k \in Crashes, Collect(k) PROVE StopIsAnswered'
    BY <2>2, SameStops DEF Collect
  <2>3. ASSUME NEW vms \in SUBSET VMs, StartRepro(vms) PROVE StopIsAnswered'
    BY <2>3, SameStops DEF StartRepro
  <2>4. ASSUME NEW v \in VMs, StartRun(v) PROVE StopIsAnswered'
    <3>1. running[v] = "none"
      BY <2>4 DEF StartRun, VMInv, InstancesAccounted, OneUser
    <3> QED BY <1>1, <2>4, <3>1, SameStops DEF StartRun
  <2> QED BY <1>2, <2>1, <2>2, <2>3, <2>4 DEF Loop
<1>3. ASSUME NEW v \in VMs, StopRequest(v) \/ RunReturns(v) \/ Booted(v) \/ Ends(v) \/ Fuzzes(v)
      PROVE  StopIsAnswered'
  <2>1. CASE StopRequest(v)
    BY <1>1, <2>1 DEF StopRequest, StopIsAnswered
  <2>2. CASE RunReturns(v)
    BY <2>2 DEF RunReturns, RunFinished, RunCrashed, RunReturned, StopIsAnswered
  <2>3. CASE Booted(v)
    BY <1>1, <2>3, SameStops DEF Booted
  <2>4. CASE Ends(v)
    BY <1>1, <2>4, SameStops DEF Ends
  <2>5. CASE Fuzzes(v)
    BY <2>5, SameStops DEF Fuzzes
  <2> QED BY <1>3, <2>1, <2>2, <2>3, <2>4, <2>5
<1>4. ASSUME NEW k \in Crashes, ReproReturns(k) PROVE StopIsAnswered'
  BY <1>4, SameStops DEF ReproReturns, ReproFailed, ReproSucceeded, ReproReturned
<1>5. CASE SeeShutdown \/ TakeHubRepro \/ AnswerHub
  BY <1>5, SameStops DEF SeeShutdown, TakeHubRepro, AnswerHub
<1>6. CASE SyncsUnasked \/ HubReplied \/ HubFailed \/ SendRepro
  BY <1>6, SameStops DEF SyncsUnasked, HubReplied, HubFailed, SendRepro
<1>7. CASE Interrupt \/ Ended \/ UNCHANGED vars
  BY <1>7, SameStops DEF Interrupt, Ended, vars
<1> QED BY <1>2, <1>3, <1>4, <1>5, <1>6, <1>7 DEF Next

-----------------------------------------------------------------------------
(* The theorems.                                                           *)

LEMMA VMInvInit == ASSUME Init PROVE VMInv
<1>1. Reproducers(repros) = {}
  BY DEF Init, Reproducers
<1>2. InstancesAccounted
  <2>1. OneUser /\ NoneLost
    BY DEF Init, OneUser, NoneLost
  <2> QED BY <1>1, <2>1, FS_EmptySet DEF Init, InstancesAccounted, Reproducers
<1>3. ReproSizes /\ FailuresNoted /\ StopIsAnswered
  BY DEF Init, ReproSizes, FailuresNoted, StopIsAnswered
<1>4. OneReproPerTitle
  <2>1. Len(reproQueue) = 0
    BY EmptySeq DEF Init
  <2>2. \A k \in Crashes : ~InQueue(k)
    BY <2>1 DEF InQueue
  <2>3. reproducing = {k \in Crashes : InQueue(k) \/ repros[k] # {}}
    BY <2>2 DEF Init
  <2> QED BY <2>1, <2>2, <2>3 DEF OneReproPerTitle
<1> QED BY <1>2, <1>3, <1>4, InitTypes DEF VMInv

LEMMA VMInvNext == ASSUME VMInv, [Next]_vars PROVE VMInv'
BY NextTypes, NextUsers, NextRepros, NextStops DEF VMInv

LEMMA VMInvHolds == Spec => []VMInv
BY VMInvInit, VMInvNext, PTL DEF Spec

\* The type invariant.  With it the number of VMs that reproduce never becomes negative
\* (manager.go:413), and the channel of repros from the hub never holds too many.
THEOREM VMTypes == Spec => []TypeOK
<1>1. VMInv => TypeOK
  BY DEF VMInv
<1> QED BY <1>1, VMInvHolds, PTL

\* However runs, crashes, reproductions, stop requests and a shutdown interleave, each VM
\* has one user, none is lost, and those that reproduce are counted (manager.go:332-414).
THEOREM VMInstances == Spec => []InstancesAccounted
<1>1. VMInv => InstancesAccounted
  BY DEF VMInv
<1> QED BY <1>1, VMInvHolds, PTL

\* A title is reproduced once at a time, and is free again when that has ended
\* (manager.go:316-326, 412).
THEOREM VMOneRepro == Spec => []OneReproPerTitle
<1>1. VMInv => OneReproPerTitle
  BY DEF VMInv
<1> QED BY <1>1, VMInvHolds, PTL

\* The number of attempts is below the limit from needRepro until the reproduction ends,
\* though others end meanwhile (manager.go:784-811, 829-849).
THEOREM VMFailures == Spec => []FailuresNoted
<1>1. VMInv => FailuresNoted
  BY DEF VMInv
<1> QED BY <1>1, VMInvHolds, PTL

\* A pending stop request has been received by a VM that has yet to return
\* (manager.go:373-387).
THEOREM VMStops == Spec => []StopIsAnswered
<1>1. VMInv => StopIsAnswered
  BY DEF VMInv
<1> QED BY <1>1, VMInvHolds, PTL
=============================================================================
