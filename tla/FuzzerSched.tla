----------------------------- MODULE FuzzerSched -----------------------------
(***************************************************************************)
(* How the procs of a fuzzer choose their work (loop, MABLoop and          *)
(* DoCandidate of syz-fuzzer/proc.go, workqueue.go), and how the poll      *)
(* thread (pollLoop and poll of syz-fuzzer/fuzzer.go) feeds them and       *)
(* shares the state of the multi-armed bandit with the manager             *)
(* (SyncMABStatus of syz-manager/rpc.go).  The bandit's weights decide     *)
(* which arm is pulled: any arm may be.  What it has learnt is a flag:     *)
(* whether anything was learnt since the status was last read for the      *)
(* manager.  Items of one kind of work are alike, and an item is taken     *)
(* and its results queued in one step.                                     *)
(*                                                                         *)
(* MABMu protects the status.  Whoever uses it for a short while takes and *)
(* releases it in one step; the poll thread keeps it over a call to the    *)
(* manager.  MABRound is read and written without it.                      *)
(*                                                                         *)
(* Left out: syncTriage and syncSmash (see TriageSync; ResetConfig turns   *)
(* syncSmash off before MABAlgorithm, so that it never decides whether     *)
(* the mutex is taken), MABNoMutations (no effect on the rounds while an   *)
(* algorithm is set), Exp3.1 restarts, and triagedCandidates (LeakGate).   *)
(***************************************************************************)
EXTENDS Integers, FiniteSets

CONSTANTS
    Procs,
    Configs,            \* how the fuzzer may be started
    Supply,             \* candidates that the manager has
    BatchSize,          \* of candidates in a reply
    MaxQueue,           \* bound: items of a kind that executions leave in the queue
    MaxRound            \* bound: the rounds saturate here

\* algorithm, seedSelection: MABAlgorithm, MABSeedSelection # "N/A".
AllConfigs == [algorithm : BOOLEAN, seedSelection : BOOLEAN, triageFirst : BOOLEAN,
               duration : 0..MaxRound, generateFirst : 0..MaxRound - 1]

ASSUME SchedAssumption ==
    /\ IsFiniteSet(Procs)
    /\ Supply \in Nat /\ BatchSize \in Nat \ {0}
    /\ MaxQueue \in Nat \ {0} /\ MaxRound \in Nat \ {0}
    /\ Configs \subseteq AllConfigs

VARIABLES
    \* shared by all threads
    config,             \* fuzzer.fuzzerConfig
    queue,              \* WorkQueue: how many items of each kind
    needPoll,           \* whether the channel holds a signal
    MABRound,
    MABMu,              \* "free" or "poll"
    learnt,             \* whether anything was, since getMABStatus and before writeMABStatus
    \* of each proc
    pc,
    held,               \* MABRound as read by the proc that is about to increment it
    \* the poll thread
    polling,            \* "idle", "poll", "call" or "reply"
    needCandidates,
    sentRound,          \* Round of the request, 0 if it has no status
    replyRound,         \* Round of the reply, 0 if it has no status
    \* the manager
    supply,
    serverRound,
    \* as config was at the start; never changes
    started

procVars == <<pc, held>>
pollVars == <<polling, needCandidates, sentRound, replyRound>>
serverVars == <<supply, serverRound>>
vars == <<config, queue, needPoll, MABRound, MABMu, learnt, procVars, pollVars,
          serverVars, started>>

Kinds == {"triageCandidate", "candidate", "triage", "smash"}

Init ==
    /\ config \in Configs /\ started = config
    /\ queue = [k \in Kinds |-> 0]
    /\ needPoll = FALSE
    /\ MABRound = 0
    /\ MABMu = "free"
    /\ learnt = FALSE
    /\ pc = [p \in Procs |-> "top"]
    /\ held = [p \in Procs |-> 0]
    /\ polling = "idle" /\ needCandidates = FALSE
    /\ sentRound = 0 /\ replyRound = 0
    /\ supply = Supply
    /\ serverRound \in {0, 1}
-----------------------------------------------------------------------------
Goto(p, l) == pc' = [pc EXCEPT ![p] = l]
AtMost(n, max) == IF n < max THEN n ELSE max
wantCandidates == queue["candidate"] < Cardinality(Procs)

\* One item more; executions of one program may queue several, which adds nothing here.
Queued(q, k) == [q EXCEPT ![k] = AtMost(@ + 1, MaxQueue)]
Taken(q, k) == [q EXCEPT ![k] = @ - 1]

\* What the execution of a candidate leaves: work to triage it, if its signal is new.
AfterCandidate(q) == {q, Queued(q, "triageCandidate")}
\* ... and that of any other program.
AfterExecution(q) == {q, Queued(q, "triage")}
\* A triage executes programs; if it succeeds, it adds an input, to be smashed unless
\* it was smashed before.
AfterTriage(q) == AfterExecution(q) \cup AfterExecution(Queued(q, "smash"))

\* The kind that dequeueType(2) takes.
TriageKinds ==
    IF queue["triageCandidate"] > 0 THEN {"triageCandidate"}
    ELSE {k \in {"triage"} : queue[k] > 0}

\* The kind that dequeue takes.
NextKinds ==
    IF TriageKinds = {"triageCandidate"} THEN TriageKinds
    ELSE IF queue["candidate"] > 0 THEN {"candidate"}
    ELSE IF TriageKinds # {} THEN TriageKinds
    ELSE {k \in {"smash"} : queue[k] > 0}

\* triageInput on an item of kind k.
Triage(k) == queue' \in AfterTriage(Taken(queue, k))

\* The statement MABRound += 1, a read and a write.
ReadRound(p) ==
    /\ pc[p] = "top"
    /\ held' = [held EXCEPT ![p] = MABRound]
    /\ Goto(p, "count")
    /\ UNCHANGED <<config, queue, needPoll, MABRound, MABMu, learnt, pollVars,
                   serverVars, started>>

WriteRound(p) ==
    /\ pc[p] = "count"
    /\ MABRound' = AtMost(held[p] + 1, MaxRound)
    /\ held' = [held EXCEPT ![p] = 0]
    /\ Goto(p, "choose")
    /\ UNCHANGED <<config, queue, needPoll, MABMu, learnt, pollVars, serverVars,
                   started>>

\* Mutant: the bandit does not look for candidates.
ChooseBandit(p) ==
    /\ pc[p] = "choose"
    /\ IF MABRound <= config.generateFirst
       THEN queue' \in AfterExecution(queue) /\ Goto(p, "top")
       ELSE UNCHANGED queue /\ Goto(p, IF config.algorithm THEN "mab" ELSE "dequeue")
    /\ UNCHANGED <<config, needPoll, MABRound, MABMu, learnt, held, pollVars,
                   serverVars, started>>

\* What the settings ask for.
Choose(p) ==
    /\ pc[p] = "choose"
    /\ IF MABRound <= config.generateFirst
       THEN queue' \in AfterExecution(queue) /\ Goto(p, "top")
       ELSE UNCHANGED queue /\ Goto(p, IF config.algorithm THEN "candidates" ELSE "dequeue")
    /\ UNCHANGED <<config, needPoll, MABRound, MABMu, learnt, held, pollVars,
                   serverVars, started>>

\* Mutant: the loop does not take the next candidate but the first again.
DoCandidateAgain(p) ==
    /\ pc[p] = "candidates" /\ queue["candidate"] > 0
    /\ queue' \in AfterCandidate(queue)
    /\ UNCHANGED <<config, needPoll, MABRound, MABMu, learnt, procVars, pollVars,
                   serverVars, started>>

\* DoCandidate, and the test that follows it.  The signal for more candidates is not given.
DoCandidate(p) ==
    /\ pc[p] = "candidates" /\ queue["candidate"] > 0
    /\ queue' \in AfterCandidate(Taken(queue, "candidate"))
    /\ UNCHANGED <<config, needPoll, MABRound, MABMu, learnt, procVars, pollVars,
                   serverVars, started>>

CandidatesDone(p) ==
    /\ pc[p] = "candidates" /\ queue["candidate"] = 0
    /\ Goto(p, IF config.duration = 0 \/ MABRound < config.duration THEN "mab" ELSE "expire")
    /\ UNCHANGED <<config, queue, needPoll, MABRound, MABMu, learnt, held, pollVars,
                   serverVars, started>>

\* The second test of the rounds, which other threads may have changed meanwhile.
Expire(p) ==
    /\ pc[p] = "expire"
    /\ Goto(p, IF config.duration > 0 /\ MABRound >= config.duration THEN "reset" ELSE "dequeue")
    /\ UNCHANGED <<config, queue, needPoll, MABRound, MABMu, learnt, held, pollVars,
                   serverVars, started>>

\* ResetConfig: MABAlgorithm is one of the first settings that it changes.
ResetAlgorithm(p) ==
    /\ pc[p] = "reset"
    /\ config' = [config EXCEPT !.algorithm = FALSE]
    /\ Goto(p, "reset others")
    /\ UNCHANGED <<queue, needPoll, MABRound, MABMu, learnt, held, pollVars,
                   serverVars, started>>

ResetOthers(p) ==
    /\ pc[p] = "reset others"
    /\ config' = [algorithm |-> FALSE, seedSelection |-> FALSE, triageFirst |-> FALSE,
                  duration |-> 0, generateFirst |-> 0]
    /\ Goto(p, "dequeue")
    /\ UNCHANGED <<queue, needPoll, MABRound, MABMu, learnt, held, pollVars,
                   serverVars, started>>
-----------------------------------------------------------------------------
\* MABLoop: triage first if told so; otherwise the weights, under the mutex.
TriageFirst(p) ==
    /\ pc[p] = "mab" /\ config.triageFirst
    /\ \E k \in TriageKinds : Triage(k)
    /\ Goto(p, "top")
    /\ UNCHANGED <<config, needPoll, MABRound, MABMu, learnt, held, pollVars, serverVars,
                   started>>

MABGetWeight(p) ==
    /\ pc[p] = "mab" /\ (config.triageFirst => TriageKinds = {})
    /\ MABMu = "free"
    /\ Goto(p, "arm")
    /\ UNCHANGED <<config, queue, needPoll, MABRound, MABMu, learnt, held, pollVars,
                   serverVars, started>>

\* One of the arms: a program is generated, an input smashed if that is due or else
\* mutated, or triaged.  A mutation needs an input, and does then what a generation does.
DoGenerate == queue' \in AfterExecution(queue)
DoMutate ==
    queue' \in AfterExecution(IF queue["smash"] > 0 THEN Taken(queue, "smash") ELSE queue)
DoTriage == \E k \in TriageKinds : Triage(k)

PullArm(p) ==
    /\ pc[p] = "arm"
    /\ DoGenerate \/ DoMutate \/ DoTriage
    /\ Goto(p, "update")
    /\ UNCHANGED <<config, needPoll, MABRound, MABMu, learnt, held, pollVars, serverVars,
                   started>>

MABUpdateWeight(p) ==
    /\ pc[p] = "update"
    /\ MABMu = "free"
    /\ learnt' = (polling \in {"call", "reply"})
    /\ Goto(p, "top")
    /\ UNCHANGED <<config, queue, needPoll, MABRound, MABMu, held, pollVars,
                   serverVars, started>>

\* The loop without the bandit: an item of the queue, or a program generated or mutated.
\* What mutations bring is still learnt by the selection of seeds.
Dequeue(p, k) ==
    /\ pc[p] = "dequeue" /\ k \in NextKinds
    /\ \/ k \in {"triageCandidate", "triage"} /\ Triage(k)
       \/ k = "candidate" /\ queue' \in AfterCandidate(Taken(queue, k))
       \/ k = "smash" /\ queue' \in AfterExecution(Taken(queue, k))
    /\ needPoll' = (needPoll \/ (k = "candidate" /\ queue[k] - 1 < Cardinality(Procs)))
    /\ Goto(p, IF k = "smash" /\ config.seedSelection THEN "update" ELSE "top")
    /\ UNCHANGED <<config, MABRound, MABMu, learnt, held, pollVars, serverVars, started>>

Fuzz(p) ==
    /\ pc[p] = "dequeue" /\ NextKinds = {}
    /\ queue' \in AfterExecution(queue)
    /\ \E mutates \in BOOLEAN :
          Goto(p, IF mutates /\ config.seedSelection THEN "update" ELSE "top")
    /\ UNCHANGED <<config, needPoll, MABRound, MABMu, learnt, held, pollVars,
                   serverVars, started>>
-----------------------------------------------------------------------------
\* pollLoop: the ticker, when the last poll is long ago, or a signal of a proc.
Tick ==
    /\ polling = "idle"
    /\ polling' = "poll"
    /\ needCandidates' = wantCandidates
    /\ UNCHANGED <<config, queue, needPoll, MABRound, MABMu, learnt, procVars,
                   sentRound, replyRound, serverVars, started>>

Signalled ==
    /\ polling = "idle" /\ needPoll
    /\ needPoll' = FALSE
    /\ IF wantCandidates
       THEN polling' = "poll" /\ needCandidates' = TRUE
       ELSE UNCHANGED <<polling, needCandidates>>
    /\ UNCHANGED <<config, queue, MABRound, MABMu, learnt, procVars, sentRound,
                   replyRound, serverVars, started>>

\* poll reads the settings twice: to lock the mutex and to unlock it.
SyncsMAB == config.algorithm \/ config.seedSelection

\* Mutant: the mutex is held only while the status is read.
SendStatusUnlocked ==
    /\ polling = "poll" /\ SyncsMAB
    /\ MABMu = "free"
    /\ sentRound' = MABRound
    /\ polling' = "call"
    /\ UNCHANGED <<config, queue, needPoll, MABRound, MABMu, learnt, procVars, needCandidates,
                   replyRound, serverVars, started>>

SendStatus ==
    /\ polling = "poll" /\ SyncsMAB
    /\ MABMu = "free"
    /\ MABMu' = "poll"
    /\ sentRound' = MABRound
    /\ polling' = "call"
    /\ UNCHANGED <<config, queue, needPoll, MABRound, learnt, procVars, needCandidates,
                   replyRound, serverVars, started>>

SendNoStatus ==
    /\ polling = "poll" /\ ~SyncsMAB
    /\ sentRound' = 0
    /\ polling' = "call"
    /\ UNCHANGED <<config, queue, needPoll, MABRound, MABMu, learnt, procVars,
                   needCandidates, replyRound, serverVars, started>>

\* Mutant: a batch is handed out whatever is left.
ServerPollFull ==
    /\ polling = "call"
    /\ serverRound' = IF sentRound > serverRound THEN sentRound ELSE serverRound
    /\ replyRound' = IF sentRound < serverRound THEN serverRound ELSE 0
    /\ LET n == IF needCandidates THEN BatchSize ELSE 0
       IN  /\ queue' = [queue EXCEPT !["candidate"] = @ + n]
           /\ supply' = supply - n
    /\ polling' = "reply" /\ sentRound' = 0
    /\ UNCHANGED <<config, needPoll, MABRound, MABMu, learnt, procVars, needCandidates,
                   started>>

\* Manager.Poll with SyncMABStatus, and the first use of the reply: inputs of other
\* fuzzers and candidates.
ServerPoll ==
    /\ polling = "call"
    /\ serverRound' = IF sentRound > serverRound THEN sentRound ELSE serverRound
    /\ replyRound' = IF sentRound < serverRound THEN serverRound ELSE 0
    /\ LET n == IF needCandidates THEN AtMost(supply, BatchSize) ELSE 0
       IN  /\ queue' = [queue EXCEPT !["candidate"] = @ + n]
           /\ supply' = supply - n
    /\ polling' = "reply" /\ sentRound' = 0
    /\ UNCHANGED <<config, needPoll, MABRound, MABMu, learnt, procVars, needCandidates,
                   started>>

\* Mutant: the reply is taken over whatever round it is of.
ReplacesAlways == TRUE

\* writeMABStatus: the status of a manager that is ahead replaces ours.
Replaces == MABRound < replyRound

PollEnds ==
    /\ polling' = "idle" /\ needCandidates' = FALSE /\ replyRound' = 0
    /\ learnt' = FALSE
    /\ UNCHANGED sentRound

ReceiveStatus ==
    /\ polling = "reply" /\ SyncsMAB
    /\ MABRound' = IF Replaces THEN replyRound ELSE MABRound
    /\ MABMu' = "free"
    /\ PollEnds
    /\ UNCHANGED <<config, queue, needPoll, procVars, serverVars, started>>

ReceiveNoStatus ==
    /\ polling = "reply" /\ ~SyncsMAB
    /\ PollEnds
    /\ UNCHANGED <<config, queue, needPoll, MABRound, MABMu, procVars, serverVars, started>>

\* Another fuzzer brings the manager a later status.
OtherFuzzer ==
    /\ serverRound < MaxRound
    /\ serverRound' = serverRound + 1
    /\ UNCHANGED <<config, queue, needPoll, MABRound, MABMu, learnt, procVars,
                   pollVars, supply, started>>
-----------------------------------------------------------------------------
Proc(p) ==
    \/ ReadRound(p) \/ WriteRound(p) \/ Choose(p)
    \/ DoCandidate(p) \/ CandidatesDone(p)
    \/ Expire(p) \/ ResetAlgorithm(p) \/ ResetOthers(p)
    \/ TriageFirst(p) \/ MABGetWeight(p) \/ PullArm(p) \/ MABUpdateWeight(p)
    \/ (\E k \in Kinds : Dequeue(p, k)) \/ Fuzz(p)

Poll ==
    \/ Tick \/ Signalled
    \/ SendStatus \/ SendNoStatus \/ ServerPoll \/ ReceiveStatus \/ ReceiveNoStatus

Next == (\E p \in Procs : Proc(p)) \/ Poll \/ OtherFuzzer

Spec == Init /\ [][Next]_vars

\* Threads run; the ticker ticks and the manager answers.  Go's mutex is handed to a
\* goroutine that has waited for a millisecond, so a proc that finds it free again and
\* again gets it: strong fairness.
FairSpec == Spec /\ (\A p \in Procs : SF_vars(Proc(p))) /\ WF_vars(Poll)
-----------------------------------------------------------------------------
TypeOK ==
    /\ config \in AllConfigs /\ started \in Configs
    /\ needPoll \in BOOLEAN /\ learnt \in BOOLEAN
    /\ queue \in [Kinds -> Nat]
    /\ MABRound \in 0..MaxRound /\ serverRound \in 0..MaxRound
    /\ MABMu \in {"free", "poll"}
    /\ pc \in [Procs -> {"top", "count", "choose", "candidates", "mab", "arm", "update",
                         "expire", "reset", "reset others", "dequeue"}]
    /\ held \in [Procs -> 0..MaxRound]
    /\ polling \in {"idle", "poll", "call", "reply"}
    /\ needCandidates \in BOOLEAN
    /\ sentRound \in 0..MaxRound /\ replyRound \in 0..MaxRound
    /\ supply \in 0..Supply

\* What the manager's status replaces has been sent to it: nothing is learnt between the
\* two, and the mutex is never unlocked by a poll that did not lock it.
ReplacedWasSent ==
    polling = "reply" /\ SyncsMAB => MABMu = "poll" /\ ~learnt

\* The rounds that are lost between procs that increment MABRound at a time do not keep
\* the bandit from its end.
BanditEnds == started.duration > 0 ~> ~config.algorithm

\* The candidates of the manager are executed, with and without the bandit.
CandidatesExecuted == <>[](supply = 0 /\ queue["candidate"] = 0)

\* No proc is stuck, if the bandit does not end.
ProcsGoOn == started.duration = 0 => \A p \in Procs : []<>(pc[p] = "top")

\* "# Rounds of MAB. <=0 to disable" (fuzzer.go:231): after that many rounds, no proc
\* is in the bandit's loop.
InMABLoop(p) == pc[p] \in {"mab", "arm", "update"}
NoMABAfterwards ==
    started.duration > 0 => \A p \in Procs : <>[]~InMABLoop(p)
=============================================================================
