--------------------------- MODULE MigrationService ----------------------------
(***************************************************************************)
(* Migration v2 of one plan (internal/migration/v2): the service that      *)
(* scans and prechecks it, the scheduler that runs its jobs, pauses,       *)
(* resumes, cancels and retries, and the recovery after a restart.         *)
(*                                                                         *)
(* A request to the service is one step here, which reads the plan and     *)
(* writes it; only a precheck takes its time between the two.  A run       *)
(* (runPlan) is a goroutine with a worker per job it has dispatched; runs  *)
(* and workers interleave with each other, with the scan and with          *)
(* requests, step by step.  Nobody looks at the error of a write to the    *)
(* plan row, so that any of them may be lost.                              *)
(***************************************************************************)
EXTENDS Naturals, FiniteSets

CONSTANTS
    Jobs,           \* job ids: a set of naturals, worked on in this order
    Runs,           \* bound: goroutines of runPlan alive at one time
    MaxConcurrent,  \* workers of one run
    None

ASSUME MigrationAssumption ==
    /\ Jobs \subseteq Nat /\ Runs \subseteq Nat /\ IsFiniteSet(Jobs) /\ MaxConcurrent \in Nat \ {0}
    /\ None \notin Runs

VARIABLES
    status,     \* of the plan row; "none" before there is one
    stage,      \* its current_stage: "scan" or one of the "others"
    jobs,       \* status of each job row; "none" before the scan has found it
    scan,       \* where the scan goroutine is, or "checking" while a precheck is
                \* under way, "off" when there is neither
    kept,       \* status and stage in the row the scan has read to save it, else None
    run,        \* the runPlan goroutines
    active,     \* the run whose cancel function the scheduler holds
    server,     \* "up", "down" or, while it recovers plans, "resetting"
    unwritten   \* the plan is at work because a write was lost (history)

row == <<status, stage, unwritten>>
rows == <<row, jobs>>
tasks == <<scan, kept>>
serviceVars == <<rows, tasks, run, active, server>>

Over == {"completed", "failed", "cancelled"}
AtWork == {"scanning", "running", "verifying"}
PlanStatus == {"none", "draft", "prechecking", "precheck_failed", "ready", "paused"}
              \cup AtWork \cup Over

NoRun == [pc |-> "off", todo |-> {}, exec |-> [j \in Jobs |-> "no"],
          cancelled |-> FALSE, failed |-> FALSE]
Free(r) == run[r] = NoRun
Working(r) == {j \in Jobs : run[r].exec[j] # "no"}

\* There may be a plan from before, that nobody works on.
Earlier == {"prechecking", "precheck_failed", "ready", "paused"}
ServiceInit ==
    /\ \/ status = "none" /\ stage = "others"
          /\ jobs = [j \in Jobs |-> "none"]
       \/ /\ status \in Earlier /\ stage = "others"
          /\ jobs = [j \in Jobs |-> "pending"]
    /\ scan = "off" /\ kept = None
    /\ run = [r \in Runs |-> NoRun]
    /\ active = None
    /\ server = "up"
    /\ unwritten = FALSE

\* UpdateStatus, and UpdateStage where there is one: both or none are written.
Writes(s, g, ok) ==
    \/ ok /\ status' = s /\ stage' = g /\ unwritten' = FALSE
    \/ ~ok /\ UNCHANGED <<status, stage>> /\ unwritten' = (status \in AtWork)

------------------------------------------------------------------------------
\* Requests.  A plan that nobody works on gives way to a new one.
CreateDraftPlan ==
    /\ scan = "off" /\ \A r \in Runs : Free(r)
    /\ Writes("draft", "others", TRUE)
    /\ jobs' = [j \in Jobs |-> "none"]
    /\ UNCHANGED <<tasks, run, active>>

\* Bound: a plan is scanned, or prechecked, by one goroutine at a time.
ScanPlan(ok) ==
    /\ status \in {"draft", "failed"} /\ scan = "off"
    /\ Writes("scanning", "scan", ok)
    /\ scan' = "begun"
    /\ UNCHANGED <<jobs, kept, run, active>>

PrecheckPlan ==
    /\ status = "prechecking" /\ scan = "off"
    /\ scan' = "checking"
    /\ UNCHANGED <<rows, kept, run, active>>

\* It writes what it has found, whatever has become of the plan.
PrecheckEnds(outcomes, ok) ==
    /\ scan = "checking"
    /\ \E s \in outcomes : Writes(s, stage, ok)
    /\ scan' = "off"
    /\ UNCHANGED <<jobs, kept, run, active>>

\* Blocking conflicts or none.
PrecheckFinds(ok) == PrecheckEnds({"ready", "precheck_failed"}, ok)

\* A policy may leave blocking conflicts unresolved.
ApplyConflictPolicies(ok) ==
    /\ \/ status \in {"precheck_failed", "ready"} /\ UNCHANGED row
       \/ status = "precheck_failed" /\ Writes("ready", stage, ok)
    /\ UNCHANGED <<jobs, tasks, run, active>>

\* A new goroutine; which slot it gets makes no difference.
Launch(r) ==
    /\ Free(r) /\ \A q \in Runs : Free(q) => r <= q
    /\ run' = [run EXCEPT ![r] = [NoRun EXCEPT !.pc = "begin"]]

\* The plan stays "ready" until the goroutine has begun.
StartPlan ==
    /\ status = "ready"
    /\ \E r \in Runs : Launch(r) /\ active' = r
    /\ UNCHANGED <<rows, tasks>>

ResumePlan ==
    /\ status = "paused"
    /\ \E r \in Runs : Launch(r) /\ active' = r
    /\ UNCHANGED <<rows, tasks>>

CancelActive ==
    /\ active' = None
    /\ run' = IF active = None THEN run ELSE [run EXCEPT ![active].cancelled = TRUE]

PausePlan(ok) ==
    /\ active # None
    /\ CancelActive
    /\ Writes("paused", stage, ok)
    /\ UNCHANGED <<jobs, tasks>>

Reset(js, from) == [j \in Jobs |-> IF js[j] = from THEN "pending" ELSE js[j]]

\* The mutant: the plan says "cancelling" for good.
CancelPlanInTwoSteps(ok) ==
    /\ status # "none"
    /\ CancelActive
    /\ jobs' = Reset(jobs, "running")
    /\ Writes("cancelling", stage, ok)
    /\ UNCHANGED tasks

CancelPlan(ok) ==
    /\ status # "none"
    /\ CancelActive
    /\ jobs' = Reset(jobs, "running")
    /\ Writes("cancelled", stage, ok)
    /\ UNCHANGED tasks

\* The retry's run is in nobody's hands: its context is never cancelled.
RetryFailedJobs(ok) ==
    /\ status # "none"
    /\ jobs' = Reset(jobs, "failed")
    /\ Writes("ready", stage, ok)
    /\ \E r \in Runs : Launch(r)
    /\ UNCHANGED <<tasks, active>>

\* The one request that tells its client of a lost write.
DeletePlan ==
    /\ status \notin {"none", "running", "scanning"}
    /\ Writes("cancelled", stage, TRUE)
    /\ UNCHANGED <<jobs, tasks, run, active>>

------------------------------------------------------------------------------
\* The scan drops the old jobs and stores new ones as it finds them.
ScanClears ==
    /\ scan = "begun"
    /\ scan' = "finding" /\ jobs' = [j \in Jobs |-> "none"]
    /\ UNCHANGED <<row, kept, run, active, server>>

ScanFinds ==
    /\ scan = "finding"
    /\ \E j \in Jobs : /\ jobs[j] = "none"
                       /\ \A k \in Jobs : jobs[k] = "none" => j <= k
                       /\ jobs' = [jobs EXCEPT ![j] = "pending"]
    /\ UNCHANGED <<row, tasks, run, active, server>>

\* computeAndSaveScanStats reads the plan row, counts, and saves the whole row
\* again, its status and its stage as they were.
ScanReads ==
    /\ scan = "finding" /\ \A j \in Jobs : jobs[j] # "none"
    /\ scan' = "counting" /\ kept' = [status |-> status, stage |-> stage]
    /\ UNCHANGED <<rows, run, active, server>>

ScanSaves(ok) ==
    /\ scan = "counting"
    /\ Writes(kept.status, kept.stage, ok)
    /\ scan' = "saved" /\ kept' = None
    /\ UNCHANGED <<jobs, run, active, server>>

ScanEnds(ok) ==
    /\ scan = "saved"
    /\ Writes("prechecking", "others", ok) /\ scan' = "off"
    /\ UNCHANGED <<jobs, kept, run, active, server>>

\* The mutant: the error is logged, the plan keeps its status.
ScanFailsQuietly(ok) ==
    /\ scan \in {"begun", "finding"}
    /\ scan' = "off"
    /\ UNCHANGED <<rows, kept, run, active, server>>

\* The source cannot be reached.
ScanFails(ok) ==
    /\ scan \in {"begun", "finding"}
    /\ Writes("failed", stage, ok) /\ scan' = "off"
    /\ UNCHANGED <<jobs, kept, run, active, server>>

Scan == ScanClears \/ ScanFinds \/ ScanReads \/ ScanSaves(TRUE) \/ ScanEnds(TRUE) \/ ScanFails(TRUE)

------------------------------------------------------------------------------
\* runPlan.
RunBegins(r, ok) ==
    /\ run[r].pc = "begin"
    /\ Writes("running", stage, ok)
    /\ run' = [run EXCEPT ![r].pc = "loop",
                          ![r].todo = {j \in Jobs : jobs[j] \notin {"none", "completed"}}]
    /\ UNCHANGED <<jobs, active>>

\* A worker for the next job, as long as the semaphore has room.  When the
\* context is cancelled too, the select takes either.
RunDispatches(r) ==
    /\ run[r].pc = "loop"
    /\ Cardinality(Working(r)) < MaxConcurrent
    /\ \E j \in run[r].todo :
         /\ \A k \in run[r].todo : j <= k
         /\ run' = [run EXCEPT ![r].todo = @ \ {j}, ![r].exec[j] = "queued"]
    /\ UNCHANGED <<rows, active>>

\* The end of the loop: after the last job it waits for the workers, but a
\* cancelled run jumps past the wait.
JobsDone(r) ==
    /\ run[r].pc = "loop"
    /\ \/ run[r].todo = {} /\ Working(r) = {}
       \/ run[r].todo # {} /\ run[r].cancelled
    /\ run' = [run EXCEPT ![r].pc = IF run[r].failed THEN "fail" ELSE "verify",
                          ![r].todo = {}]
    /\ UNCHANGED <<rows, active>>

RunVerifies(r, ok) ==
    /\ run[r].pc = "verify"
    /\ Writes("verifying", "others", ok)
    /\ run' = [run EXCEPT ![r].pc = "finish"]
    /\ UNCHANGED <<jobs, active>>

\* Counting the failed items, which is all the verification does, fails the
\* plan only when the database does.  The run that ends takes the plan's entry
\* out of the active ones, whichever run's it is.
RunEnds(r, ok) ==
    /\ \/ run[r].pc = "finish" /\ Writes("completed", "others", ok)
       \/ run[r].pc = "fail" /\ Writes("failed", stage, ok)
    /\ run' = [run EXCEPT ![r] = [NoRun EXCEPT !.exec = run[r].exec]]
    /\ active' = None
    /\ UNCHANGED <<jobs>>

RunFails(r) ==
    /\ \/ run[r].pc = "begin" /\ (\E ok \in BOOLEAN : Writes("running", stage, ok))
       \/ run[r].pc = "finish" /\ UNCHANGED row
    /\ run' = [run EXCEPT ![r].pc = "fail"]
    /\ UNCHANGED <<jobs, tasks, active, server>>

\* ExecuteJob, in a worker.  A job that fails is recorded and no failure of
\* the run; a record that cannot be saved is.
JobRuns(r, j) ==
    /\ run[r].exec[j] = "queued"
    /\ jobs' = [jobs EXCEPT ![j] = "running"]
    /\ run' = [run EXCEPT ![r].exec[j] = "running"]
    /\ UNCHANGED <<row, active>>

JobEnds(r, j) ==
    /\ run[r].exec[j] = "running"
    /\ \E outcome \in {"completed", "failed"} : jobs' = [jobs EXCEPT ![j] = outcome]
    /\ run' = [run EXCEPT ![r].exec[j] = "no"]
    /\ UNCHANGED <<row, active>>

JobUnsaved(r, j) ==
    /\ run[r].exec[j] \in {"queued", "running"}
    /\ run' = [run EXCEPT ![r].exec[j] = "no",
                          ![r].failed = run[r].pc # "off"]
    /\ UNCHANGED <<rows, tasks, active, server>>

RunWrites(r, ok) == RunBegins(r, ok) \/ RunVerifies(r, ok) \/ RunEnds(r, ok)
RunSteps(r) ==
    /\ \/ RunWrites(r, TRUE) \/ RunDispatches(r) \/ JobsDone(r)
       \/ \E j \in Jobs : JobRuns(r, j) \/ JobEnds(r, j)
    /\ UNCHANGED <<tasks, server>>
RunFaults(r) ==
    \/ RunFails(r) \/ \E j \in Jobs : JobUnsaved(r, j)
    \/ RunWrites(r, FALSE) /\ UNCHANGED <<tasks, server>>

------------------------------------------------------------------------------
\* A crash takes the goroutines; RecoverInterruptedPlans then frees the jobs
\* they had and pauses the plan.
Crash ==
    /\ server # "down"
    /\ server' = "down"
    /\ scan' = "off" /\ kept' = None /\ active' = None
    /\ run' = [r \in Runs |-> NoRun]
    /\ UNCHANGED rows

\* The mutant: a restart forgets the plans it finds verifying.
InterruptedButVerifying == status \in {"scanning", "prechecking", "running", "cancelling"}
Interrupted == status \in {"scanning", "prechecking", "running", "verifying", "cancelling"}
RecoverResets ==
    /\ server = "down"
    /\ jobs' = IF Interrupted THEN Reset(jobs, "running") ELSE jobs
    /\ server' = "resetting"
    /\ UNCHANGED <<row, tasks, run, active>>
RecoverPauses(ok) ==
    /\ server = "resetting"
    /\ IF Interrupted THEN Writes("paused", stage, ok) ELSE ok /\ UNCHANGED row
    /\ server' = "up"
    /\ UNCHANGED <<jobs, tasks, run, active>>
Recover == RecoverResets \/ RecoverPauses(TRUE)

\* Requests, whose writes may be lost (ok is FALSE).
Changes(ok) ==
    \/ ScanPlan(ok) \/ PrecheckFinds(ok) \/ ApplyConflictPolicies(ok)
    \/ PausePlan(ok) \/ CancelPlan(ok) \/ RetryFailedJobs(ok)

Requests ==
    /\ server = "up"
    /\ \/ CreateDraftPlan \/ PrecheckPlan \/ StartPlan \/ ResumePlan \/ DeletePlan
       \/ \E ok \in BOOLEAN : Changes(ok)
    /\ UNCHANGED server

\* What happens without a request.
Background == Scan \/ Recover \/ \E r \in Runs : RunSteps(r)

\* The database fails the precheck, or a write of the scan or the recovery.
PrecheckFails == \E ok \in BOOLEAN : PrecheckEnds({"failed"}, ok) /\ UNCHANGED server
Failures ==
    \/ Crash \/ PrecheckFails \/ \E r \in Runs : RunFaults(r)
    \/ ScanSaves(FALSE) \/ ScanEnds(FALSE) \/ ScanFails(FALSE) \/ RecoverPauses(FALSE)

\* Goroutines are scheduled, scans and jobs come to an end (their requests have
\* timeouts), and a server that is down is started again.
ServiceFairness ==
    /\ WF_serviceVars(Scan) /\ WF_serviceVars(Recover)
    /\ \A r \in Runs : WF_serviceVars(RunSteps(r))

ServiceSpec == ServiceInit /\ [][Requests \/ Background \/ Failures]_serviceVars /\ ServiceFairness

------------------------------------------------------------------------------
\* The variables have their types.
TypeOK ==
    /\ status \in PlanStatus
    /\ stage \in {"scan", "others"}
    /\ jobs \in [Jobs -> {"none", "pending", "running", "completed", "failed"}]
    /\ scan \in {"off", "begun", "finding", "counting", "saved", "checking"}
    /\ scan # "off" => status # "none"
    /\ IF scan = "counting" THEN kept \in [status : PlanStatus \ {"none"}, stage : {"scan", "others"}]
                           ELSE kept = None
    /\ run \in [Runs -> [pc : {"off", "begin", "loop", "verify", "finish", "fail"},
                         todo : SUBSET Jobs,
                         exec : [Jobs -> {"no", "queued", "running"}],
                         cancelled : BOOLEAN, failed : BOOLEAN]]
    /\ active \in Runs \cup {None}
    /\ server \in {"up", "down", "resetting"}
    /\ unwritten \in BOOLEAN /\ (unwritten => status \in AtWork)

\* A plan that says it is being worked on is: whatever overlapping runs, cuts,
\* prechecks, crashes and recoveries do, a status "scanning", "running" or
\* "verifying" has a goroutine behind it that will move it on, a run or, where
\* the scan has just saved a status that is over, the scan.  So nobody has to
\* guess whether a plan is dead, except after a write of its status was lost:
\* the code does not look at those errors, and nothing writes the status again.
ActiveHasRunner ==
    server = "up" /\ ~unwritten =>
        /\ status = "scanning" => scan \notin {"off", "checking"}
        /\ status \in {"running", "verifying"} =>
             \/ \E r \in Runs : run[r].pc \in {"loop", "verify", "finish", "fail"}
             \/ scan = "saved"

\* A plan at work gets on, unless the server crashes again and again: no order
\* of requests, failures and overlapping runs leaves it at work for ever, but
\* for a lost write of its status.
PlanMovesOn ==
    []<>(server # "up") \/ (status \in AtWork ~> status \notin AtWork \/ unwritten)

\* A paused plan stays paused until someone resumes it (or cancels, retries or
\* deletes it): it is not verified and not completed.
PauseSticks == [][status = "paused" => status' \notin {"verifying", "completed"}]_serviceVars
==============================================================================
