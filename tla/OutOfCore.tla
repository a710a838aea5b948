------------------------------ MODULE OutOfCore ------------------------------
(***************************************************************************)
(* The out-of-core merge (StorageMergeCoordinator, NodeLifecycle, with the *)
(* stage order of BinarySplitter): after each merge level the main thread  *)
(* spills nodes to the storage manager through the asynchronous writer     *)
(* until the rest fits the memory budget, and before the next one brings   *)
(* them back through the asynchronous reader.  A run that fails or is      *)
(* killed may be started again on the same directory.                      *)
(*                                                                         *)
(* Only presence is modelled: a chunk identity determines its value, and a *)
(* node is as many bytes as it has terms.  The writer and the reader never *)
(* have requests at the same time, so one queue and one set of I/O threads *)
(* stand for both.                                                         *)
(***************************************************************************)
EXTENDS StorageManager, Sequences

CONSTANTS
    Terms,          \* the calculation covers the terms 0 .. Terms - 1
    Budget,         \* memory_budget_bytes
    QueueCapacity,  \* of the writer and of the reader
    Workers,        \* I/O threads
    Main,           \* the thread of the merge
    MaxRuns         \* how often the program is started after a failure

ASSUME OutOfCoreAssumption ==
    /\ Terms \in Nat \ {0} /\ Budget \in Nat \ {0}
    /\ QueueCapacity \in Nat \ {0} /\ MaxRuns \in Nat \ {0}
    /\ Callers = Workers \cup {Main} /\ Main \notin Workers
    /\ \A l, s \in 0 .. Terms - 1, e \in 1 .. Terms :
          s < e => [level |-> l, start |-> s, end |-> e] \in Chunks

VARIABLES
    stage,          \* where the main thread is
    level,          \* mergeLevel
    nodes,          \* the ranges of the nodes of this level, in order
    values,         \* hasValues() of each
    life,           \* the state of its NodeLifecycle
    retiring,       \* chunk identities of the previous level, still to be retired
    plan,           \* nodes still to be handed to the writer or the reader
    queue,          \* queue_ of the writer or the reader
    pending,        \* nodes whose handle the main thread has yet to wait for
    job,            \* the node each I/O thread works for, 0 for none
    outcome,        \* what the handle of each node reports
    runs            \* runs of the program that ended in failure, and this one

mergeVars == <<stage, level, nodes, values, life, retiring, plan>>
ioVars    == <<queue, pending, job, outcome>>
vars      == <<storageVars, mergeVars, ioVars, runs>>

Nodes == DOMAIN nodes

\* The identity of a node as a chunk of this level.
Id(i) == [level |-> level, start |-> nodes[i].start, end |-> nodes[i].end]

Ids == [i \in Nodes |-> Id(i)]

Stages == {"retire", "plan", "submit", "drain", "unwind", "request", "restore", "merge", "done", "failed"}

Lives == {"resident", "spilling", "stored", "loading", "corrupted", "removed"}

\* The layout of a run: any division of the terms into ranges.
Cuts(n) ==
    {cut \in [0 .. n -> 0 .. Terms] :
        cut[0] = 0 /\ cut[n] = Terms /\ \A i, j \in 0 .. n : i < j => cut[i] < cut[j]}

Layouts ==
    UNION {{[i \in 1 .. n |-> [start |-> cut[i - 1], end |-> cut[i]]] : cut \in Cuts(n)} : n \in 1 .. Terms}

\* The elements of a set in order, for an order of all of them.
Sorted(S, Op(_, _)) ==
    {s \in [1 .. Cardinality(S) -> S] :
        \A i, j \in 1 .. Cardinality(S) : i < j => s[i] # s[j] /\ Op(s[i], s[j])}

All(value) == [i \in Nodes |-> value]

OutOfCoreTypeOK ==
    /\ StorageTypeOK
    /\ stage \in Stages
    /\ level \in 0 .. Terms
    /\ Nodes = 1 .. Len(nodes) /\ Nodes # {}
    /\ \A i \in Nodes : Id(i) \in Chunks
    /\ values \in [Nodes -> BOOLEAN]
    /\ life \in [Nodes -> Lives]
    /\ retiring \in Seq(Chunks)
    /\ \A s \in {plan, queue, pending} : s \in Seq(Nodes)
    /\ Len(queue) <= QueueCapacity
    /\ job \in [Workers -> Nodes \cup {0}]
    /\ outcome \in [Nodes -> {"none", "ok", "error"}]
    /\ runs \in 1 .. MaxRuns

\* A new process: the layout of the nodes and nothing else.
Starts(layout) ==
    /\ stage' = "retire" /\ level' = 0
    /\ nodes' = layout
    /\ values' = [i \in DOMAIN layout |-> TRUE]
    /\ life' = [i \in DOMAIN layout |-> "resident"]
    /\ retiring' = <<>> /\ plan' = <<>>
    /\ queue' = <<>> /\ pending' = <<>>
    /\ job' = [w \in Workers |-> 0]
    /\ outcome' = [i \in DOMAIN layout |-> "none"]

Init ==
    /\ StorageInit
    /\ stage = "retire" /\ level = 0
    /\ nodes \in Layouts
    /\ values = All(TRUE) /\ life = All("resident")
    /\ retiring = <<>> /\ plan = <<>>
    /\ queue = <<>> /\ pending = <<>>
    /\ job = [w \in Workers |-> 0]
    /\ outcome = All("none")
    /\ runs = 1

Goto(place) == stage' = place

\* An exception leaves splitParallel and the program ends with an error.
RunFails == Goto("failed")
-----------------------------------------------------------------------------
(* observeResidentNodes: the chunks of the consumed level are removed.     *)

RetireBegins ==
    /\ stage = "retire" /\ retiring # <<>> /\ ContainsChunk(Head(retiring))
    /\ RemoveBegins(Main, Head(retiring)) \/ RemoveFails(Main, Head(retiring))
    /\ UNCHANGED <<mergeVars, ioVars, runs>>

Skips(c) == ~ContainsChunk(c)

RetireSkips ==
    /\ stage = "retire" /\ retiring # <<>> /\ At(Main, "idle") /\ Skips(Head(retiring))
    /\ retiring' = Tail(retiring)
    /\ UNCHANGED <<storageVars, stage, level, nodes, values, life, plan, ioVars, runs>>

RetireEnds ==
    /\ stage = "retire" /\ Returns(Main)
    /\ IF call[Main].step = "removed"
       THEN retiring' = Tail(retiring) /\ UNCHANGED stage
       ELSE RunFails /\ UNCHANGED retiring
    /\ UNCHANGED <<level, nodes, values, life, plan, ioVars, runs>>

\* The last node is the result.
Observed ==
    /\ stage = "retire" /\ retiring = <<>>
    /\ Goto(IF Len(nodes) = 1 THEN "done" ELSE "plan")
    /\ UNCHANGED <<storageVars, level, nodes, values, life, retiring, plan, ioVars, runs>>
-----------------------------------------------------------------------------
(* spillAfterMergeLevel                                                    *)

Bytes(i) == nodes[i].end - nodes[i].start

\* A node has one byte for each of its terms, and no two nodes share one.
BytesOf(S) == Cardinality(UNION {nodes[i].start .. nodes[i].end - 1 : i \in S})

\* snapshot().residentBytes: what the lifecycle says is in memory.
Resident == {i \in Nodes : life[i] \in {"resident", "spilling"}}

\* planEvictions: the largest nodes first, by chunk id where they are equal,
\* until enough bytes are freed.
Before(i, j) == Bytes(i) > Bytes(j) \/ (Bytes(i) = Bytes(j) /\ i <= j)

Evicted(needed) ==
    {i \in Nodes : BytesOf({j \in Nodes \ {i} : Before(j, i)}) < needed}

Plan ==
    /\ stage = "plan"
    /\ IF BytesOf(Resident) <= Budget
       THEN plan' = <<>>
       ELSE plan' \in Sorted(Evicted(BytesOf(Resident) - Budget), Before)
    /\ Goto("submit")
    /\ UNCHANGED <<storageVars, level, nodes, values, life, retiring, ioVars, runs>>

\* waitForCapacity()
Room == Len(queue) < QueueCapacity

\* Hands the next node of the plan to the I/O threads, once there is room.
Enqueues(state) ==
    /\ plan # <<>> /\ Room
    /\ life' = [life EXCEPT ![Head(plan)] = state]
    /\ queue' = Append(queue, Head(plan))
    /\ pending' = Append(pending, Head(plan))
    /\ outcome' = [outcome EXCEPT ![Head(plan)] = "none"]
    /\ plan' = Tail(plan)
    /\ UNCHANGED <<storageVars, stage, level, nodes, values, retiring, job, runs>>

Submit == stage = "submit" /\ Enqueues("spilling")

Submitted ==
    /\ stage = "submit" /\ plan = <<>>
    /\ Goto("drain")
    /\ UNCHANGED <<storageVars, level, nodes, values, life, retiring, plan, ioVars, runs>>

\* The node is stored and its value released, or it keeps its value; the
\* mutants release it in both cases, or never.
ReleaseAnyway(i) ==
    /\ values' = [values EXCEPT ![i] = FALSE]
    /\ life' = [life EXCEPT ![i] = IF outcome[i] = "ok" THEN "stored" ELSE "resident"]

KeepValue(i) ==
    /\ values' = values
    /\ life' = [life EXCEPT ![i] = IF outcome[i] = "ok" THEN "stored" ELSE "resident"]

FinishSpill(i) ==
    /\ values' = [values EXCEPT ![i] = outcome[i] # "ok"]
    /\ life' = [life EXCEPT ![i] = IF outcome[i] = "ok" THEN "stored" ELSE "resident"]

\* The handles are waited for in the order of their requests.  After the first
\* failure the handler does the same for the rest, and the run fails.
SpillWaits ==
    /\ stage \in {"drain", "unwind"} /\ pending # <<>> /\ outcome[Head(pending)] # "none"
    /\ FinishSpill(Head(pending))
    /\ Goto(IF outcome[Head(pending)] = "ok" THEN stage ELSE "unwind")
    /\ pending' = Tail(pending)
    /\ UNCHANGED <<storageVars, level, nodes, retiring, plan, queue, job, outcome, runs>>

SpillFails ==
    /\ stage = "unwind" /\ pending = <<>>
    /\ RunFails
    /\ UNCHANGED <<storageVars, level, nodes, values, life, retiring, plan, ioVars, runs>>

\* prepareMergeNodes asks for every node that is stored, also
\* for the odd one that is carried over.
ToLoad == {i \in Nodes : life[i] = "stored"}

Spilled ==
    /\ stage = "drain" /\ pending = <<>>
    /\ plan' \in Sorted(ToLoad, <=)
    /\ Goto("request")
    /\ UNCHANGED <<storageVars, level, nodes, values, life, retiring, ioVars, runs>>
-----------------------------------------------------------------------------
(* prepareMergeNodes                                                       *)

Request == stage = "request" /\ Enqueues("loading")

Requested ==
    /\ stage = "request" /\ plan = <<>>
    /\ Goto("restore")
    /\ UNCHANGED <<storageVars, level, nodes, values, life, retiring, plan, ioVars, runs>>

Restore ==
    /\ stage = "restore" /\ pending # <<>> /\ outcome[Head(pending)] = "ok"
    /\ values' = [values EXCEPT ![Head(pending)] = TRUE]
    /\ life' = [life EXCEPT ![Head(pending)] = "resident"]
    /\ pending' = Tail(pending)
    /\ UNCHANGED <<storageVars, stage, level, nodes, retiring, plan, queue, job, outcome, runs>>

\* failLoad() for the node that could not be read, then for all the others
\* that are still loading.
RestoreFails ==
    /\ stage = "restore" /\ pending # <<>> /\ outcome[Head(pending)] = "error"
    /\ life' = [i \in Nodes |->
                  IF life[i] # "loading" THEN life[i]
                  ELSE IF i = Head(pending) /\ ~ContainsChunk(Id(i)) THEN "removed"
                  ELSE "corrupted"]
    /\ RunFails
    /\ UNCHANGED <<storageVars, level, nodes, values, retiring, plan, ioVars, runs>>

Restored ==
    /\ stage = "restore" /\ pending = <<>>
    /\ Goto("merge")
    /\ UNCHANGED <<storageVars, level, nodes, values, life, retiring, plan, ioVars, runs>>
-----------------------------------------------------------------------------
(* The merge of one level: pairs of neighbours, and the odd node as it is. *)

Merged ==
    [i \in 1 .. (Len(nodes) + 1) \div 2 |->
        [start |-> nodes[2 * i - 1].start,
         end   |-> nodes[IF 2 * i <= Len(nodes) THEN 2 * i ELSE 2 * i - 1].end]]

Merge ==
    /\ stage = "merge"
    /\ retiring' = Ids
    /\ nodes' = Merged
    /\ level' = level + 1
    /\ values' = [i \in DOMAIN Merged |-> TRUE]
    /\ life' = [i \in DOMAIN Merged |-> "resident"]
    /\ outcome' = [i \in DOMAIN Merged |-> "none"]
    /\ Goto("retire")
    /\ UNCHANGED <<storageVars, plan, queue, pending, job, runs>>
-----------------------------------------------------------------------------
(* The I/O threads.                                                        *)

WorkerBegins(w) ==
    /\ queue # <<>> /\ job[w] = 0
    /\ LET i == Head(queue)
       IN /\ job' = [job EXCEPT ![w] = i]
          /\ IF life[i] = "spilling" THEN StoreBegins(w, Id(i)) ELSE LoadBegins(w, Id(i))
    /\ queue' = Tail(queue)
    /\ UNCHANGED <<mergeVars, pending, outcome, runs>>

\* What the handle reports; the mutant settles only requests that succeed.
SettlesSuccess(step) == IF step \in {"stored", "loaded"} THEN "ok" ELSE "none"

Settles(step) == IF step \in {"stored", "loaded"} THEN "ok" ELSE "error"

WorkerEnds(w) ==
    /\ job[w] # 0 /\ Returns(w)
    /\ outcome' = [outcome EXCEPT ![job[w]] = Settles(call[w].step)]
    /\ job' = [job EXCEPT ![w] = 0]
    /\ UNCHANGED <<mergeVars, queue, pending, runs>>

ManagerStep(k) ==
    /\ stage # "failed" /\ StorageStep(k)
    /\ UNCHANGED <<mergeVars, ioVars, runs>>

Worker(w) == stage # "failed" /\ (WorkerBegins(w) \/ WorkerEnds(w))
-----------------------------------------------------------------------------
(* Runs of the program.                                                    *)

Running == stage \notin {"done", "failed"}

Interrupted ==
    /\ Running /\ Fails("kill") /\ Reopen
    /\ \E layout \in Layouts : Starts(layout)
    /\ UNCHANGED runs

Rerun ==
    /\ stage = "failed" /\ runs < MaxRuns
    /\ Reopen /\ UNCHANGED faults
    /\ \E layout \in Layouts : Starts(layout)
    /\ runs' = runs + 1

ChunkDamaged ==
    /\ Running /\ \E c \in Chunks : Corrupt(c)
    /\ UNCHANGED <<mergeVars, ioVars, runs>>

Ended ==
    /\ stage = "done" \/ (stage = "failed" /\ runs = MaxRuns)
    /\ UNCHANGED vars

MainStep ==
    \/ RetireBegins \/ RetireSkips \/ RetireEnds \/ Observed
    \/ Plan \/ Submit \/ Submitted \/ SpillWaits \/ SpillFails \/ Spilled
    \/ Request \/ Requested \/ Restore \/ RestoreFails \/ Restored
    \/ Merge

Next ==
    \/ MainStep
    \/ \E k \in Callers : ManagerStep(k)
    \/ \E w \in Workers : Worker(w)
    \/ Interrupted \/ Rerun \/ ChunkDamaged \/ Ended

Spec == Init /\ [][Next]_vars

\* Every thread that can take a step does so in the end.
FairSpec ==
    /\ Spec
    /\ WF_vars(MainStep)
    /\ \A k \in Callers : WF_vars(ManagerStep(k))
    /\ \A w \in Workers : WF_vars(Worker(w))
-----------------------------------------------------------------------------
(* Properties.                                                             *)

\* While a run goes on every node of the level is in memory, or its chunk is
\* in the index and on the disk: no order of completions, errors and handlers
\* releases a value that was not stored.  A merge level starts with the values
\* of all its nodes in memory.
ValuesAreKept ==
    /\ stage # "failed" => \A i \in Nodes : values[i] \/ ContainsChunk(Id(i))
    /\ stage = "merge" => \A i \in Nodes : values[i]

\* The resident bytes the coordinator reports and plans with are those of the
\* nodes that hold values, also after a failure, and a spill that has returned
\* leaves no more of them than the budget.
AccountingIsExact ==
    /\ OutOfCoreTypeOK /\ Resident = {i \in Nodes : values[i]}
    /\ stage = "request" => BytesOf({i \in Nodes : values[i]}) <= Budget

\* A first run without any fault does not fail, and when it is done no chunk,
\* no file and no index entry is left: each spilled node was retired with
\* its level.
FaultFreeRunSucceeds ==
    runs = 1 /\ faults = 0 =>
        /\ stage # "failed"
        /\ stage = "done" => published = {} /\ \A c \in Chunks : files[c] = "absent"

\* A run that was interrupted can be started again and succeeds, if nothing
\* but the interruption went wrong.
InterruptedRunResumes == stage # "failed"

\* Every run ends: the threads do not wait for each other for ever.
RunEnds == []<>(stage \in {"done", "failed"})
=============================================================================
