----------------------------- MODULE TriageSync -----------------------------
(***************************************************************************)
(* Sharing pending triages between fuzzers (fuzzerconfig_syncTriage): each *)
(* fuzzer reports the triages it has queued with its polls, the manager    *)
(* keeps them in serv.triageWorks and hands them to fuzzers with nothing   *)
(* to triage, and a fuzzer that starts on a program reports that too.      *)
(*                                                                         *)
(* A poll's arguments are encoded and handled by the manager in one step   *)
(* (what the fuzzer's procs do in between they could do after it as well); *)
(* its reply is worked off in a second one.  The maps of the fuzzer have   *)
(* no lock: the Go runtime may detect that and end the process, which is   *)
(* one more way to crash; otherwise each access takes effect as a whole.   *)
(***************************************************************************)
EXTENDS Integers, FiniteSets, Sequences, FiniteSetsExt

CONSTANTS
    Fuzzers,
    Sigs,           \* programs, by the hash of their text
    Calls,          \* indices of a program's calls
    BatchCount,     \* the 5 of `count := 5`
    HandOut,        \* serv.batchSize
    NumProcs,       \* wq.procs
    Garbled,        \* programs whose text may not parse at another fuzzer
    Findable,       \* the triages that executions may give rise to
    MaxFinds,       \* bound: triages found by executions over the whole run
    MaxCrashes      \* bound: crashes

ASSUME TriageAssumption ==
    /\ Findable \subseteq [sig : Sigs, call : Calls] /\ Garbled \subseteq Sigs
    /\ BatchCount \in Nat \ {0} /\ HandOut \in Nat \ {0} /\ NumProcs \in Nat \ {0}
    /\ MaxFinds \in Nat /\ MaxCrashes \in Nat

\* One call of one program to triage (rpctype.RPCTriage).
Work == [sig : Sigs, call : Calls]

VARIABLES
    works,      \* serv.triageWorks
    up,         \* the fuzzers whose VM runs
    queue,      \* wq.triage: how often each work is queued
    arriving,   \* works in enqueueCallTriage, queued and not recorded yet
    triages,    \* fuzzer.triages: "none" stands for no entry, "open" 0, "done" 1
    unsent,     \* fuzzer.triagesUnfinished
    reply,      \* the works in the poll reply on its way
    polling,    \* "no", or whether the poll in flight asked for triages
    begun,      \* history: programs each running fuzzer has begun to triage
    lost,       \* history: programs begun by fuzzers that crashed
    finds, crashes

fuzzerVars == <<up, queue, arriving, triages, unsent, reply, polling>>
vars == <<works, fuzzerVars, begun, lost, finds, crashes>>

TypeOK ==
    /\ works \subseteq Work
    /\ up \subseteq Fuzzers
    /\ queue \in [Fuzzers -> [Work -> Nat]]
    /\ arriving \in [Fuzzers -> SUBSET Work]
    /\ triages \in [Fuzzers -> [Sigs -> {"none", "open", "done"}]]
    /\ unsent \in [Fuzzers -> [Sigs -> Seq(Calls)]]
    /\ reply \in [Fuzzers -> SUBSET Work]
    /\ polling \in [Fuzzers -> {"no", "need", "plain"}]
    /\ begun \in [Fuzzers -> SUBSET Sigs]
    /\ lost \subseteq Sigs
    /\ finds \in 0 .. MaxFinds
    /\ crashes \in 0 .. MaxCrashes

Init ==
    /\ works = {}
    /\ up = Fuzzers
    /\ queue = [f \in Fuzzers |-> [w \in Work |-> 0]]
    /\ arriving = [f \in Fuzzers |-> {}]
    /\ triages = [f \in Fuzzers |-> [s \in Sigs |-> "none"]]
    /\ unsent = [f \in Fuzzers |-> [s \in Sigs |-> <<>>]]
    /\ reply = [f \in Fuzzers |-> {}]
    /\ polling = [f \in Fuzzers |-> "no"]
    /\ begun = [f \in Fuzzers |-> {}] /\ lost = {}
    /\ finds = 0 /\ crashes = 0

-----------------------------------------------------------------------------
\* enqueueCallTriage, first half: an execution showed new signal and its triage
\* is queued, where any proc may take it.
Find(f, w) ==
    /\ f \in up /\ w \notin arriving[f]
    /\ finds < MaxFinds
    /\ finds' = finds + 1
    /\ queue' = [queue EXCEPT ![f][w] = @ + 1]
    /\ arriving' = [arriving EXCEPT ![f] = @ \cup {w}]
    /\ UNCHANGED <<works, up, triages, unsent, reply, polling, begun, lost, crashes>>

\* enqueueCallTriage, second half: newTriage.
NewTriage(f, w) ==
    /\ w \in arriving[f]
    /\ arriving' = [arriving EXCEPT ![f] = @ \ {w}]
    /\ triages' = [triages EXCEPT ![f][w.sig] = "open"]
    /\ unsent' = [unsent EXCEPT ![f][w.sig] = Append(@, w.call)]
    /\ UNCHANGED <<works, up, queue, reply, polling, begun, lost, finds, crashes>>

\* triageInput is entered for a work from the queue; its first act is
\* completeTriage, for the whole program and before anything is executed.
Marked(t) == IF t = "none" THEN t ELSE "done"

\* Mutant: a work is taken off the queue without a look whether it is there.
CompleteTriageBlindly(f, w) ==
    /\ f \in up
    /\ queue' = [queue EXCEPT ![f][w] = @ - 1]
    /\ triages' = [triages EXCEPT ![f][w.sig] = Marked(@)]
    /\ unsent' = [unsent EXCEPT ![f][w.sig] = <<>>]
    /\ begun' = [begun EXCEPT ![f] = @ \cup {w.sig}]
    /\ UNCHANGED <<works, up, arriving, reply, polling, lost, finds, crashes>>

CompleteTriage(f, w) ==
    /\ queue[f][w] > 0
    /\ queue' = [queue EXCEPT ![f][w] = @ - 1]
    /\ triages' = [triages EXCEPT ![f][w.sig] = Marked(@)]
    /\ unsent' = [unsent EXCEPT ![f][w.sig] = <<>>]
    /\ begun' = [begun EXCEPT ![f] = @ \cup {w.sig}]
    /\ UNCHANGED <<works, up, arriving, reply, polling, lost, finds, crashes>>

-----------------------------------------------------------------------------
Queued(f) == MapThenSumSet(LAMBDA w : queue[f][w], Work)
Buffered(f, S) == MapThenSumSet(LAMBDA s : Len(unsent[f][s]), S)

\* fuzzer.poll, 575-595: the map is iterated in some order; the programs of
\* `whole` fit into the batch and leave the buffer.  `part` is {} or the next
\* program, of which only as many works are sent as still fit; its works all stay
\* in the buffer, as count is reset before the slice is cut off by it.
Batches(f) ==
    LET pending == {s \in Sigs : unsent[f][s] # <<>>}
    IN  {b \in [whole : SUBSET pending, part : SUBSET pending] :
            LET room == BatchCount - Buffered(f, b.whole)
            IN  /\ room >= 0 /\ b.whole \cap b.part = {}
                /\ \/ b.part = {} /\ (room = 0 \/ b.whole = pending)
                   \/ \E s \in b.part : b.part = {s} /\ room > 0 /\ Len(unsent[f][s]) > room}

\* The places in the buffer of program s of the works that a batch sends.
Sent(f, b, s) ==
    {i \in DOMAIN unsent[f][s] : s \in b.part => i <= BatchCount - Buffered(f, b.whole)}

\* A work that serv.triageWorks or the poll itself already has; the copies in a
\* poll are all in the buffer of their program.
Duplicate(f, s, i) ==
    \/ [sig |-> s, call |-> unsent[f][s][i]] \in works
    \/ \E j \in 1 .. i - 1 : unsent[f][s][j] = unsent[f][s][i]

Clean(f, b) == {s \in b.whole \cup b.part : \A i \in Sent(f, b, s) : ~Duplicate(f, s, i)}

\* What is stored of program s: all that comes before its first duplicate.
Stored(f, b, s) ==
    {[sig |-> s, call |-> unsent[f][s][i]] :
        i \in {k \in Sent(f, b, s) : \A j \in 1 .. k : ~Duplicate(f, s, j)}}

\* Mutant: a program that the poll has no record of counts as started.
DroppedUnlessOpen(f, ws) == {w \in ws : triages[f][w.sig] # "open"}

\* The works the manager drops on a poll: of programs reported as started.
Dropped(f, ws) == {w \in ws : triages[f][w.sig] = "done"}

Parts(S, n) == {T \in SUBSET S : Cardinality(T) = (IF Cardinality(S) < n THEN Cardinality(S) ELSE n)}

\* Mutant: works are handed out to the fuzzers that have a record of them.
HandOutsKnown(f, ws) == Parts({w \in ws : triages[f][w.sig] # "none"}, HandOut + 1)

\* What is handed out: works of programs the poll has no record of, up to and
\* including the batchSize-th plus one.
HandOuts(f, ws) == Parts({w \in ws : triages[f][w.sig] = "none"}, HandOut + 1)

\* The handler returns at the first duplicate, with what came before it stored:
\* its program's works up to there and those of the programs sent before it, of
\* which `part` is never one and all others are if it is in `part` itself.
Returns(f, b) ==
    /\ \E s \in (b.whole \cup b.part) \ Clean(f, b) : \E before \in SUBSET (b.whole \cap Clean(f, b)) :
          /\ s \in b.part => before = b.whole
          /\ works' = works \cup UNION {Stored(f, b, t) : t \in before \cup {s}}
    /\ UNCHANGED reply

\* With no duplicate in the poll it drops the works of programs begun and hands
\* others out.
Answers(f, b, need) ==
    /\ Clean(f, b) = b.whole \cup b.part
    /\ LET stored == works \cup UNION {Stored(f, b, s) : s \in Clean(f, b)}
       IN  works' = stored \ Dropped(f, stored)
    /\ \E r \in IF need THEN HandOuts(f, works') ELSE {{}} :
          reply' = [reply EXCEPT ![f] = r]

Poll(f) ==
    /\ f \in up /\ polling[f] = "no"
    /\ \E b \in Batches(f), need \in BOOLEAN :
          /\ need <=> Queued(f) < NumProcs
          /\ unsent' = [unsent EXCEPT ![f] =
                [s \in Sigs |-> IF s \in b.whole THEN <<>> ELSE @[s]]]
          /\ polling' = [polling EXCEPT ![f] = IF need THEN "need" ELSE "plain"]
          /\ Returns(f, b) \/ Answers(f, b, need)
    /\ UNCHANGED <<up, queue, arriving, triages, begun, lost, finds, crashes>>

\* The works of a reply that can be taken over: all but those whose program does
\* not parse, which are skipped.
Readable(ws) == {ws \ skipped : skipped \in SUBSET {w \in ws : w.sig \in Garbled}}

\* The reply has arrived: finished records go, also those finished since the
\* poll was sent, and the works handed out are recorded and queued.
PollReply(f) ==
    /\ f \in up /\ polling[f] # "no"
    /\ \E got \in IF polling[f] = "need" THEN Readable(reply[f]) ELSE {{}} :
          /\ triages' = [triages EXCEPT ![f] = [s \in Sigs |->
                IF \E w \in got : w.sig = s THEN "open"
                ELSE IF @[s] = "done" THEN "none" ELSE @[s]]]
          /\ queue' = [queue EXCEPT ![f] = [w \in Work |-> @[w] + (IF w \in got THEN 1 ELSE 0)]]
    /\ reply' = [reply EXCEPT ![f] = {}]
    /\ polling' = [polling EXCEPT ![f] = "no"]
    /\ UNCHANGED <<works, up, arriving, unsent, begun, lost, finds, crashes>>

-----------------------------------------------------------------------------
\* The VM crashes, with all its fuzzer had; the manager keeps triageWorks.
Crash(f) ==
    /\ f \in up /\ crashes < MaxCrashes
    /\ crashes' = crashes + 1
    /\ up' = up \ {f}
    /\ queue' = [queue EXCEPT ![f] = [w \in Work |-> 0]]
    /\ arriving' = [arriving EXCEPT ![f] = {}]
    /\ triages' = [triages EXCEPT ![f] = [s \in Sigs |-> "none"]]
    /\ unsent' = [unsent EXCEPT ![f] = [s \in Sigs |-> <<>>]]
    /\ reply' = [reply EXCEPT ![f] = {}]
    /\ polling' = [polling EXCEPT ![f] = "no"]
    /\ begun' = [begun EXCEPT ![f] = {}]
    /\ lost' = lost \cup begun[f]
    /\ UNCHANGED <<works, finds>>

\* The VM runs again, with a fresh fuzzer.
Reconnect(f) ==
    /\ f \notin up
    /\ up' = up \cup {f}
    /\ UNCHANGED <<works, queue, arriving, triages, unsent, reply, polling, begun,
                   lost, finds, crashes>>

FuzzerStep(f) ==
    \/ \E w \in Work : NewTriage(f, w) \/ CompleteTriage(f, w)
    \/ Poll(f) \/ PollReply(f)
    \/ Reconnect(f)

Next ==
    \/ \E f \in Fuzzers : FuzzerStep(f) \/ Crash(f)
    \/ \E f \in Fuzzers, w \in Findable : Find(f, w)

\* The procs take triages before they fuzz, the poll loop has a ticker, replies
\* arrive, and the manager restarts a crashed VM (manager.go, vmLoop).
Fairness ==
    \A f \in Fuzzers :
        /\ \A w \in Work : WF_vars(NewTriage(f, w)) /\ WF_vars(CompleteTriage(f, w))
        /\ WF_vars(Poll(f)) /\ WF_vars(PollReply(f))
        /\ WF_vars(Reconnect(f))

Spec == Init /\ [][Next]_vars
FairSpec == Spec /\ Fairness

-----------------------------------------------------------------------------
\* The manager forgets a pending triage only while a fuzzer runs that has begun its
\* program.  (Not this very triage: one call begun drops those of all the program's
\* calls, rpc.go:411-416, so that a call which only its finder had queued besides is
\* lost if the finder crashes.)  A poll with no record of a program drops nothing.
DroppedOnlyBegun ==
    [][\A w \in works \ works' : \E f \in up : w.sig \in begun[f]]_vars

Begun(s) == s \in lost \/ \E f \in Fuzzers : s \in begun[f]

\* Of each program with pending triages that the manager knows of, one is begun by
\* somebody, even if the fuzzer that found them crashes and though polls with
\* duplicates hand out nothing (rpc.go:388-430, fuzzer.go:650-681).  Not so if the
\* others skip the program because it does not parse.
ReportedIsBegun ==
    \A s \in Sigs \ Garbled : (\E w \in works : w.sig = s) ~> Begun(s)

\* "Send unfinished triages in batches" (fuzzer.go:576): what a poll sends has
\* been taken from the buffer, so that the next poll sends the next batch.
BatchesAdvance ==
    [][\A f \in Fuzzers :
          polling[f] = "no" /\ polling'[f] # "no" /\ Buffered(f, Sigs) > 0 =>
              Buffered(f, Sigs)' < Buffered(f, Sigs)]_vars
=============================================================================
