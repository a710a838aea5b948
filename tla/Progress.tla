------------------------------ MODULE Progress ------------------------------
(***************************************************************************)
(* One run of pi-engine as its user sees it: main() takes the calculation  *)
(* through its phases, worker threads count the terms they complete, the   *)
(* checkpoint writer publishes its telemetry, and the thread of            *)
(* ProgressReportingRunner samples the ProgressTracker and reports what it *)
(* saw, until the run ends in exit status 0 or 1.                          *)
(*                                                                         *)
(* A step is one critical section of metadataMutex_ or one access of an    *)
(* atomic counter.  Gauges that nothing depends on (memory, tasks, storage *)
(* I/O, merge level, the last committed range) are left out.               *)
(***************************************************************************)
EXTENDS Naturals, FiniteSets, FiniteSetsExt

CONSTANTS
    TermCount,          \* terms of the computation
    Cutoff,             \* sequentialCutoff
    TasksPerWorker,     \* tasksPerWorker
    Workers,            \* threads of the scheduler
    Coordinator,        \* main(): computes a block itself if submit refuses it
    Faults,             \* the kinds of fault that may happen
    MaxFaults           \* and how many of them, in all

FaultKinds == {"start", "task", "commit", "calculation", "output", "report"}

ASSUME ProgressAssumption ==
    /\ TermCount \in Nat \ {0} /\ Cutoff \in Nat \ {0} /\ TasksPerWorker \in Nat \ {0}
    /\ IsFiniteSet(Workers) /\ Workers # {} /\ Coordinator \notin Workers
    /\ Faults \subseteq FaultKinds /\ MaxFaults \in Nat

VARIABLES
    config,         \* the options that matter: resume, writer, verify, progress
    accepted,       \* blocks the resume planner has accepted, as ranges of terms
    \* ProgressTracker
    phase, terms, blocks, durable,
    \* main(), ChudnovskyCalculator, BinarySplitter, CheckpointFrontierWriter
    pc,
    pending,        \* level-0 blocks nobody computes yet
    task,           \* what each thread does with its block
    taskFailed,     \* a task of this stage has thrown
    nodes,          \* size of the frontier
    fresh,          \* nodes of the frontier the last manifest does not have
    counted,        \* initialFrontierWorkPublished_
    manifest,       \* entries of the manifest on the disk
    \* ProgressReportingRunner
    runner, closing, stopRequested, sample, reportFailed,
    last,           \* history: the record the reporter wrote last
    faults

tracker == <<phase, terms, blocks, durable>>
work    == <<pending, task, taskFailed, nodes, fresh>>
writer  == <<counted, manifest>>
reports == <<runner, closing, stopRequested, sample, reportFailed, last>>
fixed   == <<config, accepted>>
vars    == <<fixed, tracker, pc, work, writer, reports, faults>>

Threads == Workers \cup {Coordinator}

Phases == {"initializing", "validatingCheckpoints", "splitting", "merging", "finalizing",
           "writingOutput", "verifyingOutput", "completed", "failed"}

Terminal == {"completed", "failed"}

-----------------------------------------------------------------------------
(* The blocks of a run.                                                    *)

Ranges == {r \in [start : 0 .. TermCount, end : 0 .. TermCount] : r.start < r.end}

Length(r) == r.end - r.start

TermsOf(r) == r.start .. r.end - 1

Disjoint(s) == \A a, b \in s : a # b => TermsOf(a) \cap TermsOf(b) = {}

Covered == UNION {TermsOf(r) : r \in accepted}

\* complement(): the longest ranges without an accepted term.
Gaps == {r \in Ranges :
            /\ TermsOf(r) \cap Covered = {}
            /\ r.start = 0 \/ r.start - 1 \in Covered
            /\ r.end = TermCount \/ r.end \in Covered}

BoundedBlockCount(n) ==
    Min({1 + (n - 1) \div Cutoff, Cardinality(Workers) * TasksPerWorker})

\* appendGap(): a gap in blocks of nearly equal size, the larger ones first.
Cut(gap) ==
    LET count == BoundedBlockCount(Length(gap))
        base == Length(gap) \div count
        larger == Length(gap) % count
        Begin(i) == gap.start + i * base + Min({i, larger})
    IN {[start |-> Begin(i), end |-> Begin(i + 1)] : i \in 0 .. count - 1}

Blocks == UNION {Cut(gap) : gap \in Gaps}

\* planCheckpointBlocks() adds boundedBlockCount() over the gaps: a planned
\* block is a gap and a number in it.  Without a writer none is planned.
Planned == {p \in Gaps \X (1 .. TermCount) : p[2] <= BoundedBlockCount(Length(p[1]))}

TotalBlocks == Cardinality(accepted) + IF config.writer THEN Cardinality(Planned) ELSE 0
-----------------------------------------------------------------------------
NoBlock == [start |-> 0, end |-> 0]

Idle == [step |-> "idle", block |-> NoBlock, seen |-> 0]

NoRecord == [phase |-> "initializing", terms |-> 0, blocks |-> 0, durable |-> 0]

Records == [phase : Phases, terms : 0 .. TermCount, blocks : 0 .. TermCount, durable : 0 .. TermCount]

Places == {"create", "runner", "scheduler", "unwind", "begin", "leaves", "commit", "telemetry",
           "merge", "terms", "finalize", "output", "verify", "finish", "join",
           "calculationFailed", "failed", "joinFailed", "exit0", "exit1"}

TypeOK ==
    /\ config \in [resume : BOOLEAN, writer : BOOLEAN, verify : BOOLEAN, progress : BOOLEAN]
    /\ accepted \subseteq Ranges
    /\ phase \in Phases /\ terms \in 0 .. TermCount
    /\ blocks \in 0 .. TotalBlocks /\ durable \in 0 .. TermCount
    /\ pc \in Places /\ pending \subseteq Ranges
    /\ task \in [Threads -> [step : {"idle", "load", "add"}, block : Ranges \cup {NoBlock}, seen : 0 .. TermCount]]
    /\ taskFailed \in BOOLEAN /\ nodes \in 0 .. TermCount /\ fresh \in 0 .. TermCount
    /\ counted \in BOOLEAN /\ manifest \in 0 .. TermCount
    /\ runner \in {"off", "lock", "counters", "report", "wait", "ended"}
    /\ closing \in BOOLEAN /\ stopRequested \in BOOLEAN /\ reportFailed \in BOOLEAN
    /\ sample \in Records /\ last \in Records
    /\ faults \in 0 .. MaxFaults

\* A manifest an earlier run left on the disk covers every term: the entries
\* that were not accepted fill the gaps.
Init ==
    /\ config \in [resume : BOOLEAN, writer : BOOLEAN, verify : BOOLEAN, progress : BOOLEAN]
    /\ accepted \in {s \in SUBSET Ranges : Disjoint(s) /\ (config.resume \/ s = {})}
    /\ \/ accepted = {} /\ manifest = 0
       \/ manifest \in Cardinality(accepted) + Cardinality(Gaps) ..
                       Cardinality(accepted) + TermCount - Cardinality(Covered)
    /\ phase = "initializing" /\ terms = 0 /\ blocks = 0 /\ durable = 0
    /\ pc = "create" /\ pending = {} /\ task = [t \in Threads |-> Idle]
    /\ taskFailed = FALSE /\ nodes = 0 /\ fresh = 0 /\ counted = FALSE
    /\ runner = "off" /\ closing = FALSE /\ stopRequested = FALSE
    /\ sample = NoRecord /\ reportFailed = FALSE /\ last = NoRecord
    /\ faults = 0

Goto(place) == pc' = place

Fails(kind) == kind \in Faults /\ faults < MaxFaults /\ faults' = faults + 1

IsValidTransition(p, q) ==
    \/ p = q
    \/ p \notin Terminal /\ (q = "failed" \/ q \in
        CASE p = "initializing"          -> {"validatingCheckpoints", "splitting"}
          [] p = "validatingCheckpoints" -> {"splitting"}
          [] p = "splitting"             -> {"merging", "finalizing"}
          [] p = "merging"               -> {"finalizing"}
          [] p = "finalizing"            -> {"writingOutput", "completed"}
          [] p = "writingOutput"         -> {"verifyingOutput", "completed"}
          [] p = "verifyingOutput"       -> {"completed"})

\* transitionTo(): a caller that is refused throws.
Enter(next, place, refused) ==
    IF IsValidTransition(phase, next)
    THEN phase' = next /\ Goto(place)
    ELSE UNCHANGED phase /\ Goto(refused)

\* markFailed(), which leaves a terminal phase alone; the mutant forgets it.
ForgetFailure == UNCHANGED phase

MarkFailed == phase' = IF phase \in Terminal THEN phase ELSE "failed"
-----------------------------------------------------------------------------
(* main() before the calculation.                                          *)

\* ResumeProgressRestorer::restore.
Restore ==
    /\ pc = "create"
    /\ IF config.resume
       THEN /\ phase' = "validatingCheckpoints"
            /\ terms' = Cardinality(Covered)
            /\ blocks' = Cardinality(accepted) /\ durable' = Cardinality(accepted)
       ELSE UNCHANGED tracker
    /\ Goto("runner")
    /\ UNCHANGED <<fixed, work, writer, reports, faults>>

StartRunner ==
    /\ pc = "runner"
    /\ runner' = IF config.progress THEN "lock" ELSE "off"
    /\ Goto("scheduler")
    /\ UNCHANGED <<fixed, tracker, work, writer, closing, stopRequested, sample, reportFailed, last, faults>>

StartScheduler ==
    /\ pc = "scheduler"
    /\ Goto("begin")
    /\ UNCHANGED <<fixed, tracker, work, writer, reports, faults>>

\* A thread cannot be created.  The runner is not started yet, or the
\* destructor of the runner, outside of the handlers, asks it to stop.
StartFails ==
    /\ (pc = "runner" /\ config.progress) \/ pc = "scheduler"
    /\ Fails("start")
    /\ stopRequested' = (pc = "scheduler")
    /\ Goto("unwind")
    /\ UNCHANGED <<fixed, tracker, work, writer, runner, closing, sample, reportFailed, last>>

RunnerIsGone == runner \in {"off", "ended"}

Unwind ==
    /\ pc = "unwind" /\ RunnerIsGone
    /\ Goto("exit1")
    /\ UNCHANGED <<fixed, tracker, work, writer, reports, faults>>
-----------------------------------------------------------------------------
(* The calculation.                                                        *)

BeginSplitting ==
    /\ pc = "begin"
    /\ Enter("splitting", "leaves", "calculationFailed")
    /\ pending' = Blocks
    /\ nodes' = Cardinality(accepted) + Cardinality(Blocks)
    /\ fresh' = Cardinality(Blocks)
    /\ UNCHANGED <<fixed, terms, blocks, durable, task, taskFailed, writer, reports, faults>>

\* A block is computed, by a worker or, if submit refused it, by main().
Compute(t) ==
    /\ pc = "leaves" /\ task[t].step = "idle"
    /\ \E b \in pending :
          /\ pending' = pending \ {b}
          /\ task' = [task EXCEPT ![t] = [step |-> "load", block |-> b, seen |-> 0]]
    /\ UNCHANGED <<fixed, tracker, pc, taskFailed, nodes, fresh, writer, reports, faults>>

ComputeFails(t) ==
    /\ pc = "leaves" /\ task[t].step = "idle" /\ t \in Workers /\ Fails("task")
    /\ \E b \in pending : pending' = pending \ {b}
    /\ taskFailed' = TRUE
    /\ UNCHANGED <<fixed, tracker, pc, task, nodes, fresh, writer, reports>>

\* addCompletedTerms(): the load, and the exchange that only succeeds if no
\* other thread has added in between.  The mutant stores what it has computed.
Exceeds(t) == Length(task[t].block) > TermCount - terms

LoadTerms(t) ==
    /\ task[t].step = "load"
    /\ task' = [task EXCEPT ![t] = IF phase \in Terminal \/ Exceeds(t) THEN Idle
                                   ELSE [@ EXCEPT !.step = "add", !.seen = terms]]
    /\ UNCHANGED <<fixed, tracker, pc, pending, taskFailed, nodes, fresh, writer, reports, faults>>

StoreTerms(t) ==
    terms' = task[t].seen + Length(task[t].block) /\ task' = [task EXCEPT ![t] = Idle]

ExchangeTerms(t) ==
    IF terms = task[t].seen
    THEN terms' = terms + Length(task[t].block) /\ task' = [task EXCEPT ![t] = Idle]
    ELSE /\ UNCHANGED terms
         /\ task' = [task EXCEPT ![t] = IF Exceeds(t) THEN Idle ELSE [@ EXCEPT !.seen = terms]]

AddTerms(t) ==
    /\ task[t].step = "add"
    /\ ExchangeTerms(t)
    /\ UNCHANGED <<fixed, phase, blocks, durable, pc, pending, taskFailed, nodes, fresh, writer, reports, faults>>

\* waitForStage() waits for every task before it looks at one.
LeavesAreDone ==
    /\ pc = "leaves" /\ pending = {} /\ \A t \in Threads : task[t].step = "idle"
    /\ Goto(CASE taskFailed                  -> "calculationFailed"
              [] ~taskFailed /\ fresh # 0    -> "commit"
              [] ~taskFailed /\ fresh = 0    -> "merge")
    /\ UNCHANGED <<fixed, tracker, work, writer, reports, faults>>

\* commitFrontier() replaces the manifest.  It does nothing if it has
\* committed a short while ago, unless one node is left.
Commit ==
    /\ pc = "commit" /\ config.writer
    /\ manifest' = nodes
    /\ Goto("telemetry")
    /\ UNCHANGED <<fixed, tracker, work, counted, reports, faults>>

CommitNotDue ==
    /\ pc = "commit" /\ (~config.writer \/ (counted /\ nodes # 1))
    /\ Goto("merge")
    /\ UNCHANGED <<fixed, tracker, work, writer, reports, faults>>

\* It throws before or after the manifest has been replaced.
CommitFails ==
    /\ pc = "commit" /\ config.writer /\ Fails("commit")
    /\ manifest' \in {manifest, nodes}
    /\ Goto("calculationFailed")
    /\ UNCHANGED <<fixed, tracker, work, counted, reports>>

\* publishCheckpointProgress() adds the work of the first commit and replaces
\* the durable count.
AddWithinTotal(count) == blocks' = blocks + Min({count, TotalBlocks - blocks})

PublishTelemetry ==
    /\ pc = "telemetry"
    /\ AddWithinTotal(IF counted THEN 0 ELSE fresh)
    /\ durable' = nodes
    /\ counted' = TRUE
    /\ Goto("merge")
    /\ UNCHANGED <<fixed, phase, terms, work, manifest, reports, faults>>

\* mergeLevelStarted(): here a refused transition is ignored.
EnterMerging == phase' = IF IsValidTransition(phase, "merging") THEN "merging" ELSE phase

\* One level of the merge.
Merge ==
    /\ pc = "merge" /\ nodes > 1
    /\ EnterMerging
    /\ Goto("commit")
    /\ nodes' = (nodes + 1) \div 2
    /\ fresh' = nodes \div 2
    /\ UNCHANGED <<fixed, terms, blocks, durable, pending, task, taskFailed, writer, reports, faults>>

\* Its nodes cannot be loaded, or one of its tasks throws.
MergeFails ==
    /\ pc = "merge" /\ nodes > 1 /\ Fails("task")
    /\ UNCHANGED phase \/ EnterMerging
    /\ Goto("calculationFailed")
    /\ UNCHANGED <<fixed, terms, blocks, durable, work, writer, reports>>

Merged ==
    /\ pc = "merge" /\ nodes = 1
    /\ Goto("terms")
    /\ UNCHANGED <<fixed, tracker, work, writer, reports, faults>>

\* completeTerms() adds what is still missing.
CompleteTerms ==
    /\ pc = "terms"
    /\ terms' = TermCount
    /\ Goto("finalize")
    /\ UNCHANGED <<fixed, phase, blocks, durable, work, writer, reports, faults>>

Finalize ==
    /\ pc = "finalize"
    /\ Enter("finalizing", "output", "calculationFailed")
    /\ UNCHANGED <<fixed, terms, blocks, durable, work, writer, reports, faults>>

\* The calculator fails after it has entered the phase, and says so itself.
FinalizeFails ==
    /\ pc = "output" /\ phase = "finalizing" /\ Fails("calculation")
    /\ Goto("calculationFailed")
    /\ UNCHANGED <<fixed, tracker, work, writer, reports>>

CalculationFailed ==
    /\ pc = "calculationFailed"
    /\ MarkFailed
    /\ Goto("failed")
    /\ UNCHANGED <<fixed, terms, blocks, durable, work, writer, reports, faults>>
-----------------------------------------------------------------------------
(* main() after the calculation.                                           *)

WriteOutput ==
    /\ pc = "output"
    /\ Enter("writingOutput", IF config.verify THEN "verify" ELSE "finish", "failed")
    /\ UNCHANGED <<fixed, terms, blocks, durable, work, writer, reports, faults>>

VerifyOutput ==
    /\ pc = "verify"
    /\ Enter("verifyingOutput", "finish", "failed")
    /\ UNCHANGED <<fixed, terms, blocks, durable, work, writer, reports, faults>>

\* The file cannot be written, or it does not verify.
OutputFails ==
    /\ pc \in {"verify", "finish"} /\ Fails("output")
    /\ Goto("failed")
    /\ UNCHANGED <<fixed, tracker, work, writer, reports>>

Finish ==
    /\ pc = "finish"
    /\ Enter("completed", "join", "failed")
    /\ UNCHANGED <<fixed, terms, blocks, durable, work, writer, reports, faults>>

\* joinChecked() throws if a report was lost; the mutant is join().
Unchecked == "exit0"

Checked == IF reportFailed THEN "failed" ELSE "exit0"

JoinChecked ==
    /\ pc = "join" /\ RunnerIsGone
    /\ Goto(Checked)
    /\ UNCHANGED <<fixed, tracker, work, writer, reports, faults>>

Failed ==
    /\ pc = "failed"
    /\ MarkFailed
    /\ Goto("joinFailed")
    /\ UNCHANGED <<fixed, terms, blocks, durable, work, writer, reports, faults>>

JoinFailed ==
    /\ pc = "joinFailed" /\ RunnerIsGone
    /\ Goto("exit1")
    /\ UNCHANGED <<fixed, tracker, work, writer, reports, faults>>
-----------------------------------------------------------------------------
(* ProgressReportingRunner::run.                                           *)

\* snapshot(): first the state under metadataMutex_, then the counters.
LockSnapshot ==
    /\ runner = "lock"
    /\ sample' = [phase |-> phase, terms |-> 0, blocks |-> blocks, durable |-> durable]
    /\ runner' = "counters"
    /\ UNCHANGED <<fixed, tracker, pc, work, writer, closing, stopRequested, reportFailed, last, faults>>

LoadCounters ==
    /\ runner = "counters"
    /\ sample' = [sample EXCEPT !.terms = terms]
    /\ runner' = "report"
    /\ UNCHANGED <<fixed, tracker, pc, work, writer, closing, stopRequested, reportFailed, last, faults>>

\* The thread ends with a terminal record or after the last one of a stop; the
\* mutant asks the tracker again instead of its sample.
AfterReread == IF closing \/ phase \in Terminal THEN "ended" ELSE "wait"

AfterReport == IF closing \/ sample.phase \in Terminal THEN "ended" ELSE "wait"

\* The constructor of a snapshot throws if a counter is past its total.
Impossible == sample.terms > TermCount \/ sample.blocks > TotalBlocks

Report ==
    /\ runner = "report" /\ ~Impossible
    /\ last' = sample
    /\ runner' = AfterReport
    /\ UNCHANGED <<fixed, tracker, pc, work, writer, closing, stopRequested, sample, reportFailed, faults>>

ReportFails ==
    /\ runner = "report"
    /\ Fails("report") \/ (Impossible /\ UNCHANGED faults)
    /\ reportFailed' = TRUE
    /\ runner' = AfterReport
    /\ UNCHANGED <<fixed, tracker, pc, work, writer, closing, stopRequested, sample, last>>

\* The interval is over, or requestStop() has been called.
Wake ==
    /\ runner = "wait"
    /\ closing' = stopRequested
    /\ runner' = "lock"
    /\ UNCHANGED <<fixed, tracker, pc, work, writer, stopRequested, sample, reportFailed, last, faults>>
-----------------------------------------------------------------------------
MainStep ==
    \/ Restore \/ StartRunner \/ StartScheduler \/ StartFails \/ Unwind
    \/ BeginSplitting \/ LeavesAreDone \/ Commit \/ CommitNotDue \/ CommitFails \/ PublishTelemetry
    \/ Merge \/ MergeFails \/ Merged \/ CompleteTerms \/ Finalize \/ FinalizeFails
    \/ CalculationFailed \/ WriteOutput \/ VerifyOutput \/ OutputFails \/ Finish
    \/ JoinChecked \/ Failed \/ JoinFailed

ThreadStep(t) == Compute(t) \/ ComputeFails(t) \/ LoadTerms(t) \/ AddTerms(t)

RunnerStep == LockSnapshot \/ LoadCounters \/ Report \/ ReportFails \/ Wake

\* The process is gone.
Exited == pc \in {"exit0", "exit1"} /\ UNCHANGED vars

Next == MainStep \/ (\E t \in Threads : ThreadStep(t)) \/ RunnerStep \/ Exited

Spec == Init /\ [][Next]_vars

FairSpec ==
    /\ Spec
    /\ WF_vars(MainStep) /\ WF_vars(RunnerStep)
    /\ \A t \in Threads : WF_vars(ThreadStep(t))
-----------------------------------------------------------------------------
(* Properties.                                                             *)

\* The atomic additions lose no term and count none twice: when the tree is
\* merged, restored and computed terms are all the terms there are.
TermsAreExact == TypeOK /\ (pc = "terms" => terms = TermCount)

\* The exit status tells the truth.  0 with reporting on: the last record says
\* completed, with all terms and all planned blocks, no record was lost, and
\* with a writer the durable count is that of the manifest on the disk.  1:
\* something failed; the phases a run goes through are all allowed, and every
\* record it samples can be made, whatever was accepted on resume and
\* whichever options are on.
ExitStatusIsTrue ==
    /\ pc = "exit0" /\ config.progress =>
        /\ runner = "ended" /\ ~reportFailed
        /\ last.phase = "completed" /\ last.terms = TermCount
        /\ last.blocks = TotalBlocks
        /\ config.writer => last.durable = manifest
    /\ pc = "exit1" => faults > 0

\* However the process ends, no reporting thread is left, and what it wrote
\* last is where the tracker stopped, unless writing it failed.
LastRecordIsFinal ==
    pc \in {"exit0", "exit1"} =>
        /\ RunnerIsGone
        /\ runner = "ended" /\ ~reportFailed =>
              last.phase = phase /\ last.blocks = blocks /\ last.durable = durable

\* Every run ends: neither join waits for ever.
CliEnds == <>(pc \in {"exit0", "exit1"})
=============================================================================
