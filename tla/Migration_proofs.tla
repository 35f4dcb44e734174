--------------------------- MODULE Migration_proofs ---------------------------
(***************************************************************************)
(* The migration service and the wizard that drives it.                    *)
(*                                                                         *)
(* A plan that says it is at work has a goroutine behind it, for any       *)
(* number of jobs, workers and overlapping runs, whatever fails and        *)
(* however often the server crashes.  The wizard, with any number of       *)
(* visits and of requests in flight, is one more user of that service,     *)
(* and its page does not show a running plan that nobody watches.          *)
(***************************************************************************)
EXTENDS MigrationWizard, SequenceTheorems, TLAPS

\* Both parts of what is proved are preserved together: which run is still
\* at work is known only as long as runs keep their type.
IInv == TypeOK /\ ActiveHasRunner

\* A goroutine of runPlan, and those of the plan.
ARun == [pc : {"off", "begin", "loop", "verify", "finish", "fail"},
         todo : SUBSET Jobs, exec : [Jobs -> {"no", "queued", "running"}],
         cancelled : BOOLEAN, failed : BOOLEAN]
RunsOK == run \in [Runs -> ARun]
AtIt == {"loop", "verify", "finish", "fail"}

\* A goroutine that has ended is one of the type.
LEMMA NoRunIsARun == NoRun \in ARun
BY DEF NoRun, ARun

\* A new goroutine takes a free slot, so that it replaces nobody at work.
LEMMA LaunchKeeps ==
    ASSUME RunsOK, NEW r \in Runs, Launch(r)
    PROVE  RunsOK' /\ \A q \in Runs : run[q].pc \in AtIt => run'[q].pc = run[q].pc
<1>1. [NoRun EXCEPT !.pc = "begin"] \in ARun
    BY DEF NoRun, ARun
<1>2. run[r].pc = "off"
    BY DEF Launch, Free, NoRun
<1> QED
    BY <1>1, <1>2 DEF Launch, RunsOK, AtIt

\* A cancelled context changes neither the type nor who is at work.
LEMMA CancelKeeps ==
    ASSUME RunsOK, active \in Runs \cup {None}, CancelActive
    PROVE  RunsOK' /\ active' \in Runs \cup {None}
BY DEF RunsOK, CancelActive, ARun

\* A step of the run r replaces its record by x.
LEMMA StepKeeps ==
    ASSUME RunsOK, NEW r \in Runs, NEW x \in ARun, run' = [run EXCEPT ![r] = x]
    PROVE  RunsOK' /\ run'[r] = x /\ \A q \in Runs : q # r => run'[q] = run[q]
BY DEF RunsOK

\* The service starts with its types.
LEMMA InitTypeOK == ServiceInit => TypeOK
<1> SUFFICES ASSUME ServiceInit PROVE TypeOK
    OBVIOUS
<1>1. status \in PlanStatus
    BY DEF ServiceInit, Earlier, PlanStatus
<1>2. jobs \in [Jobs -> {"none", "pending", "running", "completed", "failed"}]
    BY DEF ServiceInit
<1>3. RunsOK
    BY NoRunIsARun DEF ServiceInit, RunsOK
<1> QED
    BY <1>1, <1>2, <1>3 DEF TypeOK, ServiceInit, RunsOK, ARun

\* A write of the row, done or lost, leaves statuses and stages of the type.
LEMMA WritesTyped ==
    ASSUME NEW s \in PlanStatus, NEW g \in {"scan", "others"}, NEW ok \in BOOLEAN,
           TypeOK, Writes(s, g, ok)
    PROVE  /\ status' \in PlanStatus /\ stage' \in {"scan", "others"}
           /\ unwritten' \in BOOLEAN /\ (unwritten' => status' \in AtWork)
           /\ status # "none" /\ s # "none" => status' # "none"
           /\ ~unwritten' => status' = s \/ status' \notin AtWork
<1>1. CASE ok
    BY <1>1 DEF TypeOK, Writes
<1>2. CASE ~ok
    <2>0. UNCHANGED <<status, stage>>
        BY <1>2 DEF Writes
    <2>1. unwritten' = (status \in AtWork)
        BY <1>2 DEF Writes
    <2> DEFINE w == status \in AtWork
    <2>2. w \in BOOLEAN
        OBVIOUS
    <2>3. unwritten' = w
        BY <2>1
    <2>4. w => status \in AtWork
        OBVIOUS
    <2>5. ~w => status \notin AtWork
        OBVIOUS
    <2> HIDE DEF w
    <2> QED
        BY <2>0, <2>2, <2>3, <2>4, <2>5 DEF TypeOK
<1> QED
    BY <1>1, <1>2

\* Where the scan is, and what it has read.
TasksOK ==
    /\ scan \in {"off", "begun", "finding", "counting", "saved", "checking"}
    /\ IF scan = "counting" THEN kept \in [status : PlanStatus \ {"none"}, stage : {"scan", "others"}]
                           ELSE kept = None
JobsOK == jobs \in [Jobs -> {"none", "pending", "running", "completed", "failed"}]

\* A step that writes the status s keeps the invariant if there is somebody to
\* move the plan on from there, should the write be done.
LEMMA WriteKeeps ==
    ASSUME IInv, NEW s \in PlanStatus \ {"none"}, NEW g \in {"scan", "others"}, NEW ok \in BOOLEAN,
           Writes(s, g, ok), RunsOK', TasksOK', JobsOK', active' \in Runs \cup {None},
           server' \in {"up", "down", "resetting"}, status # "none" \/ scan' = "off",
           s = "scanning" => scan' \notin {"off", "checking"},
           s \in {"running", "verifying"} => scan' = "saved" \/ \E r \in Runs : run'[r].pc \in AtIt
    PROVE  IInv'
<1>1. /\ status' \in PlanStatus /\ stage' \in {"scan", "others"}
      /\ unwritten' \in BOOLEAN /\ (unwritten' => status' \in AtWork)
      /\ status # "none" => status' # "none"
      /\ ~unwritten' => status' = s \/ status' \notin AtWork
    BY WritesTyped DEF IInv
<1>2. TypeOK'
    BY <1>1 DEF TypeOK, RunsOK, ARun, TasksOK, JobsOK
<1>3. ActiveHasRunner'
    <2> SUFFICES ASSUME ~unwritten'
                 PROVE  /\ status' = "scanning" => scan' \notin {"off", "checking"}
                        /\ status' \in {"running", "verifying"} =>
                             \/ \E r \in Runs : run'[r].pc \in {"loop", "verify", "finish", "fail"}
                             \/ scan' = "saved"
        BY DEF ActiveHasRunner
    <2>1. CASE status' = s
        BY <2>1 DEF AtIt
    <2>2. CASE status' \notin AtWork
        BY <2>2 DEF AtWork
    <2> QED
        BY <1>1, <2>1, <2>2
<1> QED
    BY <1>2, <1>3 DEF IInv

\* The operations that the HTTP handlers call.
LEMMA RequestsKeep == IInv /\ Requests => IInv'
<1> SUFFICES ASSUME IInv, Requests PROVE IInv'
    OBVIOUS
<1>1. server = "up" /\ server' = server
    BY DEF Requests
<1> USE DEF IInv, TypeOK, ActiveHasRunner, row, rows, tasks
<1>w. {"draft", "scanning", "ready", "precheck_failed", "paused", "cancelled"} \subseteq PlanStatus \ {"none"}
    BY DEF PlanStatus, AtWork, Over
<1>0. RunsOK /\ active \in Runs \cup {None}
    BY DEF RunsOK, ARun
<1>t. TasksOK /\ JobsOK
    BY DEF TasksOK, JobsOK
<1>2. CASE CreateDraftPlan
    BY <1>0, <1>1, <1>2, <1>t, <1>w, WriteKeeps DEF CreateDraftPlan, RunsOK, TasksOK, JobsOK
<1>3. CASE PrecheckPlan
    BY <1>1, <1>3 DEF PrecheckPlan
<1>4. CASE StartPlan
    <2>1. PICK r \in Runs : Launch(r) /\ active' = r
        BY <1>4 DEF StartPlan
    <2> QED
        BY <1>0, <1>1, <1>4, <2>1, LaunchKeeps DEF StartPlan, RunsOK, ARun, AtIt
<1>5. CASE ResumePlan
    <2>1. PICK r \in Runs : Launch(r) /\ active' = r
        BY <1>5 DEF ResumePlan
    <2> QED
        BY <1>0, <1>1, <1>5, <2>1, LaunchKeeps DEF ResumePlan, RunsOK, ARun, AtIt
<1>6. CASE DeletePlan
    BY <1>0, <1>1, <1>6, <1>t, <1>w, WriteKeeps DEF DeletePlan, RunsOK, TasksOK, JobsOK
<1>7. ASSUME NEW ok \in BOOLEAN, Changes(ok) PROVE IInv'
    <2>1. CASE ScanPlan(ok)
        BY <1>0, <1>1, <1>t, <1>w, <2>1, WriteKeeps DEF ScanPlan, RunsOK, TasksOK, JobsOK
    <2>2. CASE PrecheckFinds(ok)
        <3>1. PICK s \in {"ready", "precheck_failed"} : Writes(s, stage, ok)
            BY <2>2 DEF PrecheckFinds, PrecheckEnds
        <3>2. scan = "checking" /\ scan' = "off" /\ UNCHANGED <<jobs, kept, run, active>>
            BY <2>2 DEF PrecheckFinds, PrecheckEnds
        <3> QED
            BY <1>0, <1>1, <1>t, <1>w, <3>1, <3>2, WriteKeeps DEF RunsOK, TasksOK, JobsOK
    <2>3. CASE ApplyConflictPolicies(ok)
        <3>1. UNCHANGED <<jobs, scan, kept, run, active>> /\ status # "none"
            BY <2>3 DEF ApplyConflictPolicies
        <3>2. CASE UNCHANGED row
            BY <1>1, <3>1, <3>2
        <3>3. CASE Writes("ready", stage, ok)
            BY <1>0, <1>1, <1>t, <1>w, <3>1, <3>3, WriteKeeps DEF RunsOK, TasksOK, JobsOK
        <3> QED
            BY <2>3, <3>2, <3>3 DEF ApplyConflictPolicies
    <2>4. CASE PausePlan(ok)
        <3>1. RunsOK' /\ active' \in Runs \cup {None} /\ UNCHANGED <<jobs, scan, kept>>
              /\ Writes("paused", stage, ok)
            BY <1>0, <2>4, CancelKeeps DEF PausePlan
        <3>2. CASE status # "none" \/ scan = "off"
            BY <1>1, <1>t, <1>w, <3>1, <3>2, WriteKeeps DEF TasksOK, JobsOK
        <3> QED
            BY <3>2
    <2>5. CASE CancelPlan(ok)
        <3>1. Reset(jobs, "running") \in [Jobs -> {"none", "pending", "running", "completed", "failed"}]
            BY DEF Reset
        <3>2. RunsOK' /\ active' \in Runs \cup {None} /\ UNCHANGED <<scan, kept>>
              /\ jobs' = Reset(jobs, "running") /\ Writes("cancelled", stage, ok)
            BY <1>0, <2>5, CancelKeeps DEF CancelPlan
        <3> QED
            BY <1>1, <1>t, <1>w, <3>1, <3>2, WriteKeeps DEF TasksOK, JobsOK
    <2>6. CASE RetryFailedJobs(ok)
        <3>1. PICK r \in Runs : Launch(r)
            BY <2>6 DEF RetryFailedJobs
        <3>2. Reset(jobs, "failed") \in [Jobs -> {"none", "pending", "running", "completed", "failed"}]
            BY DEF Reset
        <3>3. RunsOK' /\ UNCHANGED <<scan, kept, active>>
              /\ jobs' = Reset(jobs, "failed") /\ Writes("ready", stage, ok)
            BY <1>0, <2>6, <3>1, LaunchKeeps DEF RetryFailedJobs
        <3> QED
            BY <1>0, <1>1, <1>t, <1>w, <3>2, <3>3, WriteKeeps DEF TasksOK, JobsOK
    <2> QED
        BY <1>7, <2>1, <2>2, <2>3, <2>4, <2>5, <2>6 DEF Changes
<1> QED
    BY <1>2, <1>3, <1>4, <1>5, <1>6, <1>7 DEF Requests

\* The goroutine of the scan.
ScanStep(ok) == ScanClears \/ ScanFinds \/ ScanReads \/ ScanSaves(ok) \/ ScanEnds(ok) \/ ScanFails(ok)
LEMMA ScanKeeps == ASSUME IInv, NEW ok \in BOOLEAN, ScanStep(ok) PROVE IInv'
<1> USE DEF IInv, TypeOK, ActiveHasRunner, row, rows, tasks
<1>0. RunsOK /\ TasksOK /\ JobsOK
    BY DEF RunsOK, ARun, TasksOK, JobsOK
<1>w. {"prechecking", "failed"} \subseteq PlanStatus \ {"none"} /\ AtWork = {"scanning", "running", "verifying"}
    BY DEF PlanStatus, AtWork, Over
<1>1. CASE ScanClears
    BY <1>1 DEF ScanClears
<1>2. CASE ScanFinds
    BY <1>2 DEF ScanFinds
<1>3. CASE ScanReads
    BY <1>3 DEF ScanReads
<1>4. CASE ScanSaves(ok)
    <2>1. kept.status \in PlanStatus \ {"none"} /\ kept.stage \in {"scan", "others"}
        BY <1>4 DEF ScanSaves
    <2> QED
        BY <1>0, <1>4, <2>1, WriteKeeps DEF ScanSaves, RunsOK, TasksOK, JobsOK
<1>5. CASE ScanEnds(ok)
    BY <1>0, <1>5, <1>w, WriteKeeps DEF ScanEnds, RunsOK, TasksOK, JobsOK
<1>6. CASE ScanFails(ok)
    BY <1>0, <1>6, <1>w, WriteKeeps DEF ScanFails, RunsOK, TasksOK, JobsOK
<1> QED
    BY <1>1, <1>2, <1>3, <1>4, <1>5, <1>6 DEF ScanStep

\* A precheck that fails.
LEMMA PrecheckKeeps == ASSUME IInv, PrecheckFails PROVE IInv'
<1>1. PICK ok \in BOOLEAN : PrecheckEnds({"failed"}, ok)
    BY DEF PrecheckFails
<1>2. Writes("failed", stage, ok) /\ scan = "checking" /\ scan' = "off"
      /\ UNCHANGED <<jobs, kept, run, active, server>>
    BY <1>1 DEF PrecheckEnds, PrecheckFails
<1>3. "failed" \in PlanStatus \ {"none"}
    BY DEF PlanStatus, Over
<1> QED
    BY <1>2, <1>3, WriteKeeps DEF IInv, TypeOK, RunsOK, ARun, TasksOK, JobsOK

\* What a step of the run r does to the runs, and to the rows: the type of
\* each is kept, and the status is at work only if r is.
Kept(r) ==
    /\ RunsOK'
    /\ \A q \in Runs : q # r => run'[q] = run[q]
    /\ \/ UNCHANGED row /\ (run[r].pc \in AtIt => run'[r].pc \in AtIt)
       \/ \E g \in {"scan", "others"} : Writes("running", g, TRUE) /\ run'[r].pc \in AtIt
       \/ \E g \in {"scan", "others"} : Writes("verifying", g, TRUE) /\ run'[r].pc \in AtIt
       \/ \E s \in Over, g \in {"scan", "others"} : Writes(s, g, TRUE)
       \/ \E s \in PlanStatus, g \in {"scan", "others"} : Writes(s, g, FALSE)

\* A step that keeps the runs in this way keeps the whole invariant.
LEMMA KeptIsEnough ==
    ASSUME IInv, NEW r \in Runs, Kept(r),
           jobs' \in [Jobs -> {"none", "pending", "running", "completed", "failed"}],
           active' \in Runs \cup {None}, UNCHANGED <<tasks, server>>
    PROVE  IInv'
<1>0. UNCHANGED <<scan, kept, server>> /\ RunsOK'
    BY DEF tasks, Kept
<1>1. CASE UNCHANGED row /\ (run[r].pc \in AtIt => run'[r].pc \in AtIt)
    <2>1. TypeOK'
        BY <1>0, <1>1 DEF IInv, TypeOK, RunsOK, ARun, row
    <2>2. ActiveHasRunner'
        BY <1>0, <1>1 DEF IInv, TypeOK, ActiveHasRunner, Kept, AtIt, row
    <2> QED
        BY <2>1, <2>2 DEF IInv
<1>2. ASSUME NEW s \in PlanStatus, NEW g \in {"scan", "others"}, NEW ok \in BOOLEAN, Writes(s, g, ok),
             s # "none", ok => s \in Over \/ (s # "scanning" /\ run'[r].pc \in AtIt)
      PROVE  IInv'
    <2>1. TypeOK'
        BY <1>0, <1>2, WritesTyped DEF IInv, TypeOK, RunsOK, ARun
    <2>2. ActiveHasRunner'
        <3>1. CASE ok
            BY <1>2, <3>1 DEF Writes, ActiveHasRunner, AtIt, Over
        <3>2. CASE ~ok
            BY <1>2, <3>2 DEF Writes, ActiveHasRunner, AtWork
        <3> QED
            BY <3>1, <3>2
    <2> QED
        BY <2>1, <2>2 DEF IInv
<1>3. ASSUME NEW s \in PlanStatus, NEW g \in {"scan", "others"}, Writes(s, g, FALSE) PROVE IInv'
    <2>1. Writes("paused", g, FALSE)
        BY <1>3 DEF Writes
    <2> QED
        BY <2>1, <1>2 DEF PlanStatus
<1>4. {"running", "verifying"} \cup Over \subseteq PlanStatus \ {"none", "scanning"}
    BY DEF PlanStatus, AtWork, Over
<1> QED
    BY <1>1, <1>2, <1>3, <1>4 DEF Kept

\* What a run does to the plan's row: the write may be done or lost.
LEMMA RunWritesKeep ==
    ASSUME IInv, NEW r \in Runs, NEW ok \in BOOLEAN, RunWrites(r, ok), UNCHANGED <<tasks, server>>
    PROVE  IInv'
<1> USE DEF Kept, AtIt
<1>0. RunsOK /\ run[r] \in ARun
    BY DEF IInv, TypeOK, RunsOK, ARun
<1>a. jobs \in [Jobs -> {"none", "pending", "running", "completed", "failed"}] /\ stage \in {"scan", "others"}
      /\ active \in Runs \cup {None}
    BY DEF IInv, TypeOK
<1>b. \A s \in PlanStatus, g \in {"scan", "others"} : Writes(s, g, ok) =>
          (ok /\ Writes(s, g, TRUE)) \/ Writes(s, g, FALSE)
    BY DEF Writes
<1>c. {"running", "verifying"} \cup Over \subseteq PlanStatus
    BY DEF PlanStatus, AtWork
<1>1. CASE RunBegins(r, ok)
    <2> DEFINE x == [run[r] EXCEPT !.pc = "loop",
                                   !.todo = {j \in Jobs : jobs[j] \notin {"none", "completed"}}]
    <2>1. x \in ARun /\ x.pc = "loop"
        BY <1>0 DEF ARun
    <2>2. run' = [run EXCEPT ![r] = x]
        BY <1>1 DEF RunBegins
    <2> HIDE DEF x
    <2>3. RunsOK' /\ run'[r] = x /\ \A q \in Runs : q # r => run'[q] = run[q]
        BY <1>0, <2>1, <2>2, StepKeeps
    <2>4. Writes("running", stage, TRUE) \/ Writes("running", stage, FALSE)
        BY <1>1, <1>a, <1>b, <1>c DEF RunBegins
    <2>5. Kept(r)
        BY <1>a, <1>c, <2>1, <2>3, <2>4
    <2> QED
        BY <1>1, <1>a, <2>5, KeptIsEnough DEF RunBegins
<1>2. CASE RunVerifies(r, ok)
    <2> DEFINE x == [run[r] EXCEPT !.pc = "finish"]
    <2>1. x \in ARun /\ x.pc = "finish"
        BY <1>0 DEF ARun
    <2>2. run' = [run EXCEPT ![r] = x]
        BY <1>2 DEF RunVerifies
    <2> HIDE DEF x
    <2>3. RunsOK' /\ run'[r] = x /\ \A q \in Runs : q # r => run'[q] = run[q]
        BY <1>0, <2>1, <2>2, StepKeeps
    <2>4. Writes("verifying", "others", TRUE) \/ Writes("verifying", "others", FALSE)
        BY <1>2, <1>b, <1>c DEF RunVerifies
    <2>5. Kept(r)
        BY <1>c, <2>1, <2>3, <2>4
    <2> QED
        BY <1>2, <1>a, <2>5, KeptIsEnough DEF RunVerifies
<1>3. CASE RunEnds(r, ok)
    <2> DEFINE x == [NoRun EXCEPT !.exec = run[r].exec]
    <2>1. x \in ARun
        BY <1>0 DEF NoRun, ARun
    <2>2. run' = [run EXCEPT ![r] = x]
        BY <1>3 DEF RunEnds
    <2> HIDE DEF x
    <2>3. RunsOK' /\ \A q \in Runs : q # r => run'[q] = run[q]
        BY <1>0, <2>1, <2>2, StepKeeps
    <2>4. \E s \in Over, g \in {"scan", "others"} : Writes(s, g, TRUE) \/ Writes(s, g, FALSE)
        BY <1>3, <1>a, <1>b, <1>c DEF RunEnds, Over
    <2>5. Kept(r)
        BY <1>c, <2>3, <2>4
    <2> QED
        BY <1>3, <1>a, <2>5, KeptIsEnough DEF RunEnds
<1> QED
    BY <1>1, <1>2, <1>3 DEF RunWrites

\* The goroutine of runPlan and those of its jobs.
LEMMA RunStepsKeep ==
    ASSUME IInv, NEW r \in Runs, RunSteps(r)
    PROVE  IInv'
<1> USE DEF Kept, AtIt
<1>0. RunsOK /\ run[r] \in ARun
    BY DEF IInv, TypeOK, RunsOK, ARun
<1>a. jobs \in [Jobs -> {"none", "pending", "running", "completed", "failed"}] /\ stage \in {"scan", "others"}
      /\ active \in Runs \cup {None}
    BY DEF IInv, TypeOK
<1>b. UNCHANGED <<tasks, server>>
    BY DEF RunSteps
<1>2. CASE RunDispatches(r)
    <2>1. PICK j \in run[r].todo :
              run' = [run EXCEPT ![r].todo = @ \ {j}, ![r].exec[j] = "queued"]
        BY <1>2 DEF RunDispatches
    <2> DEFINE e == [run[r].exec EXCEPT ![j] = "queued"]
               x == [run[r] EXCEPT !.todo = run[r].todo \ {j}, !.exec = e]
    <2>2. e \in [Jobs -> {"no", "queued", "running"}] /\ run[r].todo \ {j} \in SUBSET Jobs
        BY <1>0 DEF ARun
    <2>3. run' = [run EXCEPT ![r] = x]
        BY <2>1
    <2> HIDE DEF e
    <2>4. x \in ARun /\ x.pc = run[r].pc
        BY <1>0, <2>2 DEF ARun
    <2> HIDE DEF x
    <2>5. Kept(r)
        BY <1>0, <1>2, <2>3, <2>4, StepKeeps DEF RunDispatches, rows
    <2> QED
        BY <1>2, <1>a, <1>b, <2>5, KeptIsEnough DEF RunDispatches, rows
<1>3. CASE JobsDone(r)
    <2> DEFINE p == IF run[r].failed THEN "fail" ELSE "verify"
               x == [run[r] EXCEPT !.pc = p, !.todo = {}]
    <2>1. p \in {"fail", "verify"}
        OBVIOUS
    <2>2. run' = [run EXCEPT ![r] = x]
        BY <1>3 DEF JobsDone
    <2> HIDE DEF p
    <2>3. x \in ARun /\ x.pc = p
        BY <1>0, <2>1 DEF ARun
    <2> HIDE DEF x
    <2>4. Kept(r)
        BY <1>0, <1>3, <2>1, <2>2, <2>3, StepKeeps DEF JobsDone, rows
    <2> QED
        BY <1>3, <1>a, <1>b, <2>4, KeptIsEnough DEF JobsDone, rows
<1>6. ASSUME NEW j \in Jobs, JobRuns(r, j) \/ JobEnds(r, j) PROVE IInv'
    <2>1. PICK v \in {"no", "running"} : run' = [run EXCEPT ![r].exec[j] = v]
        BY <1>6 DEF JobRuns, JobEnds
    <2> DEFINE e == [run[r].exec EXCEPT ![j] = v]
               x == [run[r] EXCEPT !.exec = e]
    <2>2. e \in [Jobs -> {"no", "queued", "running"}]
        BY <1>0 DEF ARun
    <2>3. run' = [run EXCEPT ![r] = x]
        BY <2>1
    <2> HIDE DEF e
    <2>4. x \in ARun /\ x.pc = run[r].pc
        BY <1>0, <2>2 DEF ARun
    <2> HIDE DEF x
    <2>5. Kept(r)
        BY <1>0, <1>6, <2>3, <2>4, StepKeeps DEF JobRuns, JobEnds
    <2> QED
        BY <1>6, <1>a, <1>b, <2>5, KeptIsEnough DEF JobRuns, JobEnds
<1>1. ASSUME RunWrites(r, TRUE) PROVE IInv'
    BY <1>1, <1>b, RunWritesKeep
<1> QED
    BY <1>1, <1>2, <1>3, <1>6 DEF RunSteps

\* The failures of a run.
LEMMA RunFaultsKeep ==
    ASSUME IInv, NEW r \in Runs, RunFaults(r)
    PROVE  IInv'
<1> USE DEF Kept, AtIt
<1>0. RunsOK /\ run[r] \in ARun
    BY DEF IInv, TypeOK, RunsOK, ARun
<1>a. jobs \in [Jobs -> {"none", "pending", "running", "completed", "failed"}] /\ stage \in {"scan", "others"}
      /\ active \in Runs \cup {None}
    BY DEF IInv, TypeOK
<1>1. CASE RunFails(r)
    <2> DEFINE x == [run[r] EXCEPT !.pc = "fail"]
    <2>1. x \in ARun /\ x.pc = "fail"
        BY <1>0 DEF ARun
    <2>2. run' = [run EXCEPT ![r] = x]
        BY <1>1 DEF RunFails
    <2> HIDE DEF x
    <2>3. Kept(r)
        BY <1>0, <1>1, <1>a, <2>1, <2>2, StepKeeps DEF RunFails, PlanStatus, AtWork
    <2> QED
        BY <1>1, <1>a, <2>3, KeptIsEnough DEF RunFails
<1>2. ASSUME NEW j \in Jobs, JobUnsaved(r, j) PROVE IInv'
    <2> DEFINE e == [run[r].exec EXCEPT ![j] = "no"]
               f == (run[r].pc # "off")
               x == [run[r] EXCEPT !.exec = e, !.failed = f]
    <2>1. e \in [Jobs -> {"no", "queued", "running"}] /\ f \in BOOLEAN
        BY <1>0 DEF ARun
    <2>2. run' = [run EXCEPT ![r] = x]
        BY <1>2 DEF JobUnsaved
    <2> HIDE DEF e, f
    <2>3. x \in ARun /\ x.pc = run[r].pc
        BY <1>0, <2>1 DEF ARun
    <2> HIDE DEF x
    <2>4. Kept(r)
        BY <1>0, <1>2, <2>2, <2>3, StepKeeps DEF JobUnsaved, rows
    <2> QED
        BY <1>2, <1>a, <2>4, KeptIsEnough DEF JobUnsaved, rows
<1>3. CASE RunWrites(r, FALSE) /\ UNCHANGED <<tasks, server>>
    BY <1>3, RunWritesKeep
<1> QED
    BY <1>1, <1>2, <1>3 DEF RunFaults

\* The end of the process and what the next one repairs.
LEMMA RestartKeeps ==
    ASSUME IInv, NEW ok \in BOOLEAN, Crash \/ RecoverResets \/ RecoverPauses(ok) PROVE IInv'
<1> USE DEF IInv, TypeOK, ActiveHasRunner, AtWork, Over, PlanStatus, Writes, row, rows, tasks
<1>1. CASE Crash
    BY <1>1, NoRunIsARun DEF Crash, ARun
<1>2. CASE RecoverResets
    BY <1>2 DEF RecoverResets, Reset
<1>3. CASE RecoverPauses(ok)
    <2>1. UNCHANGED <<jobs, scan, kept, run, active>> /\ server = "resetting" /\ server' = "up"
        BY <1>3 DEF RecoverPauses
    <2>2. CASE ~Interrupted
        BY <1>3, <2>1, <2>2 DEF RecoverPauses, Interrupted
    <2>3. CASE Interrupted
        <3>1. Writes("paused", stage, ok) /\ status # "none"
            BY <1>3, <2>3 DEF RecoverPauses, Interrupted
        <3>2. RunsOK' /\ TasksOK' /\ JobsOK'
            BY <2>1 DEF RunsOK, ARun, TasksOK, JobsOK
        <3> QED
            BY <2>1, <3>1, <3>2, WriteKeeps
    <2> QED
        BY <2>2, <2>3
<1> QED
    BY <1>1, <1>2, <1>3

\* The inductive invariant of the service.
LEMMA Inductive == ServiceSpec => []IInv
<1>1. ServiceInit => IInv
    BY InitTypeOK DEF IInv, ActiveHasRunner, ServiceInit, Earlier
<1>2. IInv /\ [Requests \/ Background \/ Failures]_serviceVars => IInv'
    <2> SUFFICES ASSUME IInv, [Requests \/ Background \/ Failures]_serviceVars PROVE IInv'
        OBVIOUS
    <2>1. CASE Requests
        BY <2>1, RequestsKeep
    <2>2. CASE Background
        <3>1. CASE Scan
            BY <3>1, ScanKeeps DEF Scan, ScanStep
        <3>2. CASE Recover
            BY <3>2, RestartKeeps DEF Recover
        <3> QED
            BY <2>2, <3>1, <3>2, RunStepsKeep DEF Background
    <2>3. CASE Failures
        <3>1. CASE ScanSaves(FALSE) \/ ScanEnds(FALSE) \/ ScanFails(FALSE)
            BY <3>1, ScanKeeps DEF ScanStep
        <3>2. CASE Crash \/ RecoverPauses(FALSE)
            BY <3>2, RestartKeeps
        <3> QED
            BY <2>3, <3>1, <3>2, PrecheckKeeps, RunFaultsKeep DEF Failures
    <2>4. CASE UNCHANGED serviceVars
        BY <2>4 DEF IInv, TypeOK, ActiveHasRunner, serviceVars, row, rows, tasks
    <2> QED
        BY <2>1, <2>2, <2>3, <2>4
<1> QED
    BY <1>1, <1>2, PTL DEF ServiceSpec

\* The plan's row, its jobs, the runs and the scheduler keep their types.
THEOREM TypeCorrect == ServiceSpec => []TypeOK
BY Inductive, PTL DEF IInv

\* A plan that says it is being worked on is: overlapping runs, a stale save of
\* the scan, cuts, failures and crashes never leave the row at work with nobody
\* working, unless a write of its status was lost.
THEOREM WorkIsDone == ServiceSpec => []ActiveHasRunner
BY Inductive, PTL DEF IInv

------------------------------------------------------------------------------
\* An entry of the list after the n-th was taken out, and where it was before.
Before(n, k) == IF k < n THEN k ELSE k + 1

\* What is left of a list when its n-th entry was taken out.
LEMMA TakenOut ==
    ASSUME NEW S, NEW s \in Seq(S), NEW n \in 1..Len(s)
    PROVE  /\ RemoveAt(s, n) \in Seq(S) /\ Len(RemoveAt(s, n)) = Len(s) - 1
           /\ \A k \in 1..(Len(s) - 1) : RemoveAt(s, n)[k] = s[Before(n, k)]
<1> DEFINE a == SubSeq(s, 1, n - 1)
           b == SubSeq(s, n + 1, Len(s))
<1>0. n - 1 \in Nat /\ n - 1 <= Len(s) /\ n + 1 \in Nat /\ Len(s) \in Nat /\ n \in Nat /\ n <= Len(s)
    OBVIOUS
<1>1. a \in Seq(S) /\ Len(a) = n - 1 /\ \A k \in 1..(n - 1) : a[k] = s[k]
    BY <1>0
<1>2. b \in Seq(S) /\ Len(b) = Len(s) - n /\ \A k \in 1..(Len(s) - n) : b[k] = s[n + k]
    BY <1>0
<1> HIDE DEF a, b
<1>3. a \o b \in Seq(S)
    BY <1>1, <1>2
<1>5. Len(a \o b) = Len(s) - 1
    <2>1. Len(a \o b) = Len(a) + Len(b)
        BY <1>1, <1>2, ConcatProperties
    <2> QED
        BY <1>0, <1>1, <1>2, <2>1
<1>6. \A k \in 1..(Len(s) - 1) : (a \o b)[k] = IF k <= n - 1 THEN a[k] ELSE b[k - (n - 1)]
    BY <1>0, <1>1, <1>2, ConcatProperties
<1>7. ASSUME NEW k \in 1..(Len(s) - 1) PROVE (a \o b)[k] = s[Before(n, k)]
    <2>1. CASE k <= n - 1
        BY <1>0, <1>1, <1>6, <2>1 DEF Before
    <2>2. CASE ~(k <= n - 1)
        <3>1. k - (n - 1) \in 1..(Len(s) - n) /\ n + (k - (n - 1)) = k + 1 /\ ~(k < n)
            BY <1>0, <2>2
        <3>2. (a \o b)[k] = b[k - (n - 1)]
            BY <1>6, <2>2
        <3> QED
            BY <1>2, <3>1, <3>2 DEF Before
    <2> QED
        BY <2>1, <2>2
<1>4. RemoveAt(s, n) = a \o b
    BY DEF RemoveAt, a, b
<1> QED
    BY <1>3, <1>4, <1>5, <1>7

\* One request is a list of one.
LEMMA AskedOne ==
    ASSUME NEW v, NEW o, NEW ops, ops = <<o>>
    PROVE  Asked(v, ops) = <<Ask(o, v)>>
BY DEF Asked

\* How a handler that goes on leaves the list of requests: its own is taken
\* out, and at most one that it sends next is put at the end.
LEMMA GoesShape ==
    ASSUME asks \in Seq(Request), NEW n \in DOMAIN asks, NEW p, NEW ops, Goes(n, p, ops),
           ops = <<>> \/ \E o \in Ops : ops = <<o>>
    PROVE  /\ asks' \in Seq(Request) /\ DOMAIN asks' = 1..Len(asks')
           /\ pages' = [pages EXCEPT ![asks[n].visit] = p]
           /\ \A k \in 1..(Len(asks) - 1) : asks'[k] = asks[Before(n, k)]
           /\ ops = <<>> => Len(asks') = Len(asks) - 1
           /\ \A o \in Ops : ops = <<o>> => /\ Len(asks') = Len(asks)
                                          /\ asks'[Len(asks)] = Ask(o, asks[n].visit)
<1> DEFINE r == RemoveAt(asks, n)
           v == asks[n].visit
<1> DEFINE L == Len(asks) - 1
<1>0. n \in 1..Len(asks) /\ Len(asks) \in Nat /\ L \in Nat
    BY LenProperties
<1>a. asks[n] \in Request
    BY <1>0, ElementOfSeq
<1>b. v \in Visits
    BY <1>a DEF Request
<1>1. /\ r \in Seq(Request) /\ Len(r) = L
      /\ \A k \in 1..L : r[k] = asks[Before(n, k)]
    BY <1>0, TakenOut
<1>2. pages' = [pages EXCEPT ![v] = p] /\ asks' = r \o Asked(v, ops)
    BY DEF Goes
<1> HIDE DEF r, L
<1>d. DOMAIN asks = 1..Len(asks) /\ L + 1 = Len(asks)
    BY <1>0, LenProperties DEF L
<1>3. CASE ops = <<>>
    <2>1. Asked(v, ops) = <<>>
        BY <1>3 DEF Asked
    <2>2. asks' = r
        BY <1>1, <1>2, <2>1
    <2>3. DOMAIN asks' = 1..Len(asks') /\ Len(asks') = L
        BY <1>1, <2>2, LenProperties
    <2>4. \A o \in Ops : ops # <<o>>
        BY <1>3
    <2> QED
        BY <1>1, <1>2, <2>2, <2>3, <2>4 DEF L
<1>5. CASE ops # <<>>
    <2>1. PICK o \in Ops : ops = <<o>>
        BY <1>5
    <2>2. Asked(v, ops) = <<Ask(o, v)>>
        BY <2>1 DEF Asked
    <2>a. Ask(o, v) \in Request
        BY <1>b DEF Ask, Request
    <2>3. asks' = Append(r, Ask(o, v))
        BY <1>1, <1>2, <2>2, <2>a
    <2> DEFINE q == Ask(o, v)
    <2> HIDE DEF q
    <2>b. q \in Request /\ asks' = Append(r, q)
        BY <2>a, <2>3 DEF q
    <2>4. /\ asks' \in Seq(Request) /\ Len(asks') = L + 1
          /\ \A k \in 1..L : asks'[k] = r[k]
          /\ asks'[L + 1] = q
        BY <1>0, <1>1, <2>b, AppendProperties
    <2>5. DOMAIN asks' = 1..Len(asks')
        BY <2>4, LenProperties
    <2>6. \A k \in 1..L : asks'[k] = asks[Before(n, k)]
        BY <1>1, <2>4
    <2>7. Len(asks') = Len(asks) /\ asks'[Len(asks)] = Ask(o, v)
        BY <1>d, <2>4 DEF q
    <2>8. \A e \in Ops : ops = <<e>> => e = o
        BY <2>1
    <2> QED
        BY <1>2, <1>5, <2>1, <2>4, <2>5, <2>6, <2>7, <2>8 DEF L
<1> QED
    BY <1>3, <1>5

\* The same, said of the entries.
LEMMA Goes1 ==
    ASSUME asks \in Seq(Request), NEW n \in DOMAIN asks, NEW p, NEW ops, Goes(n, p, ops),
           ops = <<>> \/ \E o \in Ops : ops = <<o>>
    PROVE  /\ asks' \in Seq(Request) /\ Len(asks') <= Len(asks)
           /\ pages' = [pages EXCEPT ![asks[n].visit] = p]
           /\ \A m \in DOMAIN asks' :
                 \/ Before(n, m) \in DOMAIN asks \ {n} /\ asks'[m] = asks[Before(n, m)]
                    /\ m \in 1..(Len(asks) - 1)
                 \/ m = Len(asks) /\ \E o \in Ops : ops = <<o>> /\ asks'[m] = Ask(o, asks[n].visit)
           /\ \A k \in DOMAIN asks \ {n} : \E m \in DOMAIN asks' : asks'[m] = asks[k]
           /\ \A o \in Ops : ops = <<o>> => \E m \in DOMAIN asks' : asks'[m] = Ask(o, asks[n].visit)
<1> DEFINE L == Len(asks) - 1
           v == asks[n].visit
<1>0. n \in 1..Len(asks) /\ Len(asks) \in Nat /\ L \in Nat /\ L + 1 = Len(asks) /\ DOMAIN asks = 1..Len(asks)
    BY LenProperties
<1>1. /\ asks' \in Seq(Request) /\ DOMAIN asks' = 1..Len(asks')
      /\ pages' = [pages EXCEPT ![v] = p]
      /\ \A k \in 1..L : asks'[k] = asks[Before(n, k)]
      /\ ops = <<>> => Len(asks') = L
      /\ \A o \in Ops : ops = <<o>> => Len(asks') = Len(asks) /\ asks'[Len(asks)] = Ask(o, v)
    BY GoesShape
<1>2. \A k \in 1..L : Before(n, k) \in 1..Len(asks) /\ Before(n, k) # n
    BY <1>0 DEF Before
<1>3. \A k \in 1..Len(asks) : k # n => \E m \in 1..L : Before(n, m) = k
    <2> SUFFICES ASSUME NEW k \in 1..Len(asks), k # n
                 PROVE  \E m \in 1..L : Before(n, m) = k
        OBVIOUS
    <2>1. CASE k < n
        <3>1. k \in 1..L /\ Before(n, k) = k
            BY <1>0, <2>1 DEF Before
        <3> QED
            BY <3>1
    <2>2. CASE k > n
        <3>1. k - 1 \in 1..L /\ Before(n, k - 1) = k
            BY <1>0, <2>2 DEF Before
        <3> QED
            BY <3>1
    <2> QED
        BY <1>0, <2>1, <2>2
<1> HIDE DEF L, v
<1>4. CASE ops = <<>>
    <2>1. DOMAIN asks' = 1..L /\ Len(asks') <= Len(asks)
        BY <1>0, <1>1, <1>4
    <2>2. \A o \in Ops : ops # <<o>>
        BY <1>4
    <2>3. \A m \in 1..L : Before(n, m) \in DOMAIN asks \ {n} /\ asks'[m] = asks[Before(n, m)]
        BY <1>0, <1>1, <1>2
    <2>4. \A k \in DOMAIN asks \ {n} : \E m \in DOMAIN asks' : asks'[m] = asks[k]
        BY <1>0, <1>3, <2>1, <2>3
    <2> QED
        BY <1>1, <2>1, <2>2, <2>3, <2>4 DEF L, v
<1>5. CASE \E o \in Ops : ops = <<o>>
    <2>1. PICK o \in Ops : ops = <<o>>
        BY <1>5
    <2>a. Len(asks') = Len(asks) /\ asks'[Len(asks)] = Ask(o, v)
        BY <1>1, <2>1
    <2>2. DOMAIN asks' = 1..(L + 1) /\ Len(asks') <= Len(asks) /\ asks'[L + 1] = Ask(o, v)
        BY <1>0, <1>1, <2>a
    <2>3. \A m \in 1..L : Before(n, m) \in DOMAIN asks \ {n} /\ asks'[m] = asks[Before(n, m)]
        BY <1>0, <1>1, <1>2
    <2>4. \A k \in DOMAIN asks \ {n} : \E m \in 1..L : asks'[m] = asks[k]
        BY <1>0, <1>3, <2>3
    <2>5. 1..L \subseteq DOMAIN asks' /\ L + 1 \in DOMAIN asks'
          /\ \A m \in DOMAIN asks' : m \in 1..L \/ m = L + 1
        BY <1>0, <2>2
    <2>6. \A k \in DOMAIN asks \ {n} : \E m \in DOMAIN asks' : asks'[m] = asks[k]
        BY <2>4, <2>5
    <2>7. \A e \in Ops : ops = <<e>> => e = o
        BY <2>1
    <2>8. \A e \in Ops : ops = <<e>> => \E m \in DOMAIN asks' : asks'[m] = Ask(e, v)
        BY <2>2, <2>5, <2>7
    <2>9. \A m \in DOMAIN asks' :
             \/ Before(n, m) \in DOMAIN asks \ {n} /\ asks'[m] = asks[Before(n, m)] /\ m \in 1..L
             \/ m = L + 1 /\ \E e \in Ops : ops = <<e>> /\ asks'[m] = Ask(e, v)
        BY <2>1, <2>2, <2>3, <2>5
    <2> QED
        BY <1>0, <1>1, <2>2, <2>6, <2>8, <2>9 DEF L, v
<1> QED
    BY <1>4, <1>5

\* A request that is sent is put at the end.
LEMMA Sent ==
    ASSUME asks \in Seq(Request), NEW v \in Visits, NEW o \in Ops, asks' = asks \o Asked(v, <<o>>)
    PROVE  /\ asks' \in Seq(Request) /\ Len(asks') = Len(asks) + 1
           /\ \A m \in DOMAIN asks' : \/ m \in DOMAIN asks /\ asks'[m] = asks[m]
                                      \/ m = Len(asks) + 1 /\ asks'[m] = Ask(o, v)
           /\ \A m \in DOMAIN asks : m \in DOMAIN asks' /\ asks'[m] = asks[m]
           /\ Len(asks) + 1 \in DOMAIN asks' /\ asks'[Len(asks) + 1] = Ask(o, v)
<1> DEFINE q == Ask(o, v)
<1>1. q \in Request
    BY DEF Ask, Request
<1>2. Asked(v, <<o>>) = <<q>>
    BY AskedOne
<1> HIDE DEF q
<1>3. asks' = Append(asks, q)
    <2>1. asks' = asks \o <<q>>
        BY <1>2, Zenon
    <2>2. asks \o <<q>> = Append(asks, q)
        BY <1>1
    <2> QED
        BY <2>1, <2>2, Zenon
<1>a. /\ Append(asks, q) \in Seq(Request) /\ Len(Append(asks, q)) = Len(asks) + 1
      /\ \A k \in 1..Len(asks) : Append(asks, q)[k] = asks[k]
      /\ Append(asks, q)[Len(asks) + 1] = q
    BY <1>1, AppendProperties
<1>4. /\ asks' \in Seq(Request) /\ Len(asks') = Len(asks) + 1
      /\ \A k \in 1..Len(asks) : asks'[k] = asks[k]
      /\ asks'[Len(asks) + 1] = q
    BY <1>3, <1>a
<1>5. DOMAIN asks' = 1..(Len(asks) + 1) /\ DOMAIN asks = 1..Len(asks) /\ Len(asks) \in Nat
    BY <1>4, LenProperties
<1>6. \A m \in 1..(Len(asks) + 1) : m \in 1..Len(asks) \/ m = Len(asks) + 1
    BY <1>5
<1>7. Len(asks) + 1 \in 1..(Len(asks) + 1) /\ \A m \in 1..Len(asks) : m \in 1..(Len(asks) + 1)
    BY <1>5
<1> QED
    BY <1>4, <1>5, <1>6, <1>7 DEF q

\* An answer changes the entry of its request, and neither what it asks for
\* nor on whose behalf.
LEMMA EntryAnswered ==
    ASSUME asks \in Seq(Request), NEW n \in DOMAIN asks, NEW q \in Request, asks' = [asks EXCEPT ![n] = q],
           q.op = asks[n].op, q.visit = asks[n].visit
    PROVE  /\ asks' \in Seq(Request) /\ Len(asks') = Len(asks) /\ DOMAIN asks' = DOMAIN asks
           /\ asks'[n] = q /\ \A m \in DOMAIN asks : m # n => asks'[m] = asks[m]
           /\ \A m \in DOMAIN asks : asks'[m].op = asks[m].op /\ asks'[m].visit = asks[m].visit
<1>1. n \in 1..Len(asks) /\ DOMAIN asks = 1..Len(asks) /\ Len(asks) \in Nat
    BY LenProperties
<1>2. asks \in [1..Len(asks) -> Request]
    BY LenProperties
<1>3. asks' \in [1..Len(asks) -> Request]
    BY <1>1, <1>2
<1>4. asks' \in Seq(Request) /\ Len(asks') = Len(asks)
    BY <1>1, <1>3, IsASeq, LenProperties
<1> QED
    BY <1>1, <1>2, <1>4

\* What the service knows of the page, and the page of the service: the plan
\* that a page shows exists, requests are of pages that were opened, and an
\* answer that tells of the plan tells of one.
Known ==
    /\ \A v \in Visits : pages[v] # None /\ pages[v].seen # None => status # "none"
    /\ \A n \in DOMAIN asks :
          LET q == asks[n] IN
          /\ pages[q.visit] # None
          /\ q.op \notin {"listPlans", "createPlan"} => status # "none"
          /\ q.st = "ok" /\ q.op \in TellsPlan =>
               /\ q.reply \in Plan
               /\ q.op # "listPlans" => q.reply.status # "none"
               /\ q.op = "createPlan" => q.reply.status = "draft"
               /\ q.reply.status # "none" => status # "none"

\* The types, and what they rest on.
TInv == TypeOK /\ WizardTypeOK /\ Known

\* A request is a handler of a page that was opened.
LEMMA AskFacts ==
    ASSUME WizardTypeOK, Known, NEW n \in DOMAIN asks
    PROVE  /\ asks[n] \in Request /\ asks[n].visit \in Visits /\ On(n) \in Page
           /\ On(n).seen # None => On(n).seen \in Plan /\ On(n).seen.status # "none"
<1>1. n \in 1..Len(asks)
    BY LenProperties DEF WizardTypeOK
<1>2. asks[n] \in Request
    BY <1>1, ElementOfSeq DEF WizardTypeOK
<1>3. asks[n].visit \in Visits
    BY <1>2 DEF Request
<1>4. On(n) \in Page
    BY <1>3 DEF WizardTypeOK, Known, On
<1> QED
    BY <1>2, <1>3, <1>4, WizardAssumption DEF WizardTypeOK, On, Page

\* A handler that goes on keeps the types, if the page it leaves has them.
LEMMA GoesTyped ==
    ASSUME WizardTypeOK, Known, NEW n \in DOMAIN asks, NEW p \in Page, NEW ops,
           Goes(n, p, ops), ops = <<>> \/ (status # "none" /\ \E o \in Ops : ops = <<o>>),
           p.seen = None \/ (p.seen.status # "none" /\ status # "none"),
           UNCHANGED <<serviceVars, current, clicks, faults>>
    PROVE  WizardTypeOK' /\ Known'
<1>1. asks \in Seq(Request) /\ Len(asks) \in Nat /\ asks[n].visit \in Visits
    BY AskFacts, LenProperties DEF WizardTypeOK
<1>2. /\ asks' \in Seq(Request) /\ Len(asks') <= Len(asks)
      /\ pages' = [pages EXCEPT ![asks[n].visit] = p]
      /\ \A m \in DOMAIN asks' : \/ \E k \in DOMAIN asks : asks'[m] = asks[k]
                                 \/ status # "none" /\ \E o \in Ops : asks'[m] = Ask(o, asks[n].visit)
    <2>1. ops = <<>> \/ \E o \in Ops : ops = <<o>>
        OBVIOUS
    <2>2. /\ asks' \in Seq(Request) /\ Len(asks') <= Len(asks)
          /\ pages' = [pages EXCEPT ![asks[n].visit] = p]
        BY <1>1, <2>1, Goes1
    <2>3. ASSUME NEW m \in DOMAIN asks', ~\E k \in DOMAIN asks : asks'[m] = asks[k]
          PROVE  \E o \in Ops : ops = <<o>> /\ asks'[m] = Ask(o, asks[n].visit)
        BY <1>1, <2>1, <2>3, Goes1
    <2>4. ASSUME NEW m \in DOMAIN asks', ~\E k \in DOMAIN asks : asks'[m] = asks[k]
          PROVE  status # "none" /\ \E o \in Ops : asks'[m] = Ask(o, asks[n].visit)
        <3>1. ops # <<>>
            BY <2>3, <2>4
        <3> QED
            BY <2>3, <2>4, <3>1
    <2> QED
        BY <2>2, <2>4
<1>3. UNCHANGED <<status, current, clicks, faults>>
    BY DEF serviceVars, rows, row
<1>4. pages' \in [Visits -> Page \cup {None}] /\ pages'[asks[n].visit] = p
      /\ \A v \in Visits : pages[v] # None => pages'[v] # None
    BY <1>1, <1>2, WizardAssumption DEF WizardTypeOK
<1>5. Len(asks') <= MaxAsks
    <2>1. Len(asks') \in Nat
        BY <1>2, LenProperties
    <2> QED
        BY <1>1, <1>2, <2>1, WizardAssumption DEF WizardTypeOK
<1>6. WizardTypeOK'
    BY <1>1, <1>2, <1>3, <1>4, <1>5 DEF WizardTypeOK
<1>7. ASSUME NEW m \in DOMAIN asks'
      PROVE  LET q == asks'[m] IN
          /\ pages'[q.visit] # None
          /\ q.op \notin {"listPlans", "createPlan"} => status # "none"
          /\ q.st = "ok" /\ q.op \in TellsPlan =>
               /\ q.reply \in Plan
               /\ q.op # "listPlans" => q.reply.status # "none"
               /\ q.op = "createPlan" => q.reply.status = "draft"
               /\ q.reply.status # "none" => status # "none"
    <2>1. CASE \E k \in DOMAIN asks : asks'[m] = asks[k]
        BY <1>4, <2>1, AskFacts DEF Known
    <2>2. CASE status # "none" /\ \E o \in Ops : asks'[m] = Ask(o, asks[n].visit)
        BY <1>1, <1>4, <2>2, WizardAssumption DEF Ask
    <2> QED
        BY <1>2, <2>1, <2>2
<1>8. \A v \in Visits : pages'[v] # None /\ pages'[v].seen # None => status # "none"
    BY <1>1, <1>2, <1>4 DEF Known, WizardTypeOK
<1> QED
    BY <1>3, <1>6, <1>7, <1>8 DEF Known

\* A page that a handler may leave behind.
Fine(p) == p \in Page /\ (p.seen = None \/ (p.seen.status # "none" /\ status # "none"))
AtMostOne(ops) == ops = <<>> \/ \E o \in Ops : ops = <<o>>

\* The lists that the handlers ask for next.
LEMMA OneIsFew ==
    /\ AtMostOne(<<>>)
    /\ AtMostOne(<<"loadScan">>)
    /\ AtMostOne(<<"load">>)
    /\ AtMostOne(<<"conflicts">>)
    /\ AtMostOne(<<"readyConflicts">>)
    /\ AtMostOne(<<"loadRun">>)
    /\ AtMostOne(<<"scanPlan">>)
    /\ AtMostOne(<<"scanData">>)
    /\ AtMostOne(<<"newConflicts">>)
    /\ AtMostOne(<<"start">>)
    /\ AtMostOne(<<"policies">>)
    /\ AtMostOne(<<"applyStart">>)
    /\ AtMostOne(<<"refresh">>)
    /\ AtMostOne(<<"cancelRefresh">>)
    /\ AtMostOne(<<"execData">>)
<1>1. ASSUME NEW ops, NEW o \in Ops, ops = <<o>> PROVE AtMostOne(ops)
    BY <1>1 DEF AtMostOne
<1>2. AtMostOne(<<>>)
    BY DEF AtMostOne
<1>3. AtMostOne(<<"loadScan">>)
    BY <1>1 DEF Ops
<1>4. AtMostOne(<<"load">>)
    BY <1>1 DEF Ops
<1>5. AtMostOne(<<"conflicts">>)
    BY <1>1 DEF Ops
<1>6. AtMostOne(<<"readyConflicts">>)
    BY <1>1 DEF Ops
<1>7. AtMostOne(<<"loadRun">>)
    BY <1>1 DEF Ops
<1>8. AtMostOne(<<"scanPlan">>)
    BY <1>1 DEF Ops
<1>9. AtMostOne(<<"scanData">>)
    BY <1>1 DEF Ops
<1>10. AtMostOne(<<"newConflicts">>)
    BY <1>1 DEF Ops
<1>11. AtMostOne(<<"start">>)
    BY <1>1 DEF Ops
<1>12. AtMostOne(<<"policies">>)
    BY <1>1 DEF Ops
<1>13. AtMostOne(<<"applyStart">>)
    BY <1>1 DEF Ops
<1>14. AtMostOne(<<"refresh">>)
    BY <1>1 DEF Ops
<1>15. AtMostOne(<<"cancelRefresh">>)
    BY <1>1 DEF Ops
<1>16. AtMostOne(<<"execData">>)
    BY <1>1 DEF Ops
<1> QED
    BY <1>2, <1>3, <1>4, <1>5, <1>6, <1>7, <1>8, <1>9, <1>10, <1>11, <1>12, <1>13, <1>14, <1>15, <1>16

\* The pieces that handlers are made of keep a page fine.
LEMMA FineParts ==
    ASSUME NEW p, Fine(p)
    PROVE  /\ \A s \in 0..5 : Fine(toStep(p, s))
           /\ \A t \in {"scan", "exec"} : Fine(startPolling(p, t)) /\ Fine(stopPolling(p, t))
           /\ \A c \in BOOLEAN : Fine(listing(p, c)) /\ Fine([p EXCEPT !.astray = c])
           /\ \A r \in Plan : r.status # "none" /\ status # "none" => Fine([p EXCEPT !.seen = r])
<1>1. \A s \in 0..5 : Fine(toStep(p, s))
    BY DEF Fine, Page, toStep
<1>2. \A t \in {"scan", "exec"} : Fine(startPolling(p, t)) /\ Fine(stopPolling(p, t))
    BY DEF Fine, Page, startPolling, stopPolling
<1>3. \A c \in BOOLEAN : Fine(listing(p, c)) /\ Fine([p EXCEPT !.astray = c])
    BY DEF Fine, Page, listing
<1>4. \A r \in Plan : r.status # "none" /\ status # "none" => Fine([p EXCEPT !.seen = r])
    BY DEF Fine, Page
<1> QED
    BY <1>1, <1>2, <1>3, <1>4

\* Every handler that goes on.
LEMMA BackTyped ==
    ASSUME TInv, NEW n \in DOMAIN asks, Back(n)
    PROVE  WizardTypeOK' /\ Known'
<1> DEFINE q == asks[n]
           Goal == WizardTypeOK' /\ Known'
<1>1. /\ q \in Request /\ q.visit \in Visits /\ On(n) \in Page
      /\ On(n).seen # None => On(n).seen \in Plan /\ On(n).seen.status # "none" /\ status # "none"
    BY AskFacts DEF TInv, On, Known
<1>2. Fine(On(n))
    BY <1>1 DEF Fine
<1>3. \A p, ops : Fine(p) /\ Goes(n, p, ops) /\ AtMostOne(ops) /\ (ops = <<>> \/ status # "none") => Goal
    <2> SUFFICES ASSUME NEW p, NEW ops, Fine(p), Goes(n, p, ops), AtMostOne(ops),
                        ops = <<>> \/ status # "none"
                 PROVE  Goal
        OBVIOUS
    <2>1. UNCHANGED <<serviceVars, current, clicks, faults>>
        BY DEF Back
    <2>2. ops = <<>> \/ (status # "none" /\ \E o \in Ops : ops = <<o>>)
        BY DEF AtMostOne
    <2> QED
        BY <2>1, <2>2, GoesTyped DEF Fine, TInv
<1>4. /\ q.op \notin {"listPlans", "createPlan"} => status # "none"
      /\ q.st = "ok" /\ q.op \in TellsPlan =>
               /\ q.reply \in Plan
               /\ q.op # "listPlans" => q.reply.status # "none"
               /\ q.reply.status # "none" => status # "none"
    BY DEF TInv, Known
<1>5. q.found \in BOOLEAN
    BY <1>1 DEF Request
<1>6. q.op \in TellsPlan \ {"listPlans"} => Fine(refreshPlan(n))
    BY <1>2, <1>4, FineParts DEF refreshPlan, Ok
<1>7. Ok(n) /\ q.op = "listPlans" /\ q.reply.status # "none" =>
          Fine(refreshPlan(n)) /\ refreshPlan(n).seen = q.reply /\ status # "none"
    <2> SUFFICES ASSUME Ok(n), q.op = "listPlans", q.reply.status # "none"
                 PROVE  Fine(refreshPlan(n)) /\ refreshPlan(n).seen = q.reply /\ status # "none"
        OBVIOUS
    <2>1. q.reply \in Plan /\ status # "none"
        BY <1>4 DEF Ok, TellsPlan
    <2> QED
        BY <1>1, <1>2, <2>1, FineParts DEF refreshPlan, Page
<1>8. \A p : Fine(p) =>
        /\ \A s \in 0..5 : Fine(toStep(p, s))
        /\ \A t \in {"scan", "exec"} : Fine(startPolling(p, t)) /\ Fine(stopPolling(p, t))
        /\ \A c \in BOOLEAN : Fine(listing(p, c)) /\ Fine([p EXCEPT !.astray = c])
    BY FineParts
<1>9. CASE RecentBack(n)
    <2> USE OneIsFew
    <2>1. CASE Op(n, {"listPlans"}) /\ Ok(n) /\ loadRecentPlan(n)
        <3> DEFINE p == refreshPlan(n)
                   st == p.seen.status
                   At(k) == toStep(p, k)
        <3>1. CASE st = "none" /\ Goes(n, On(n), <<>>)
            BY <1>2, <1>3, <3>1
        <3>2. st = q.reply.status /\ (st # "none" => Fine(p) /\ status # "none")
            <4>1. q.reply \in Plan
                BY <1>4, <2>1 DEF Op, Ok, TellsPlan
            <4>2. p.seen = q.reply
                BY <1>1, <2>1 DEF refreshPlan, Page
            <4> QED
                BY <1>7, <2>1, <4>2 DEF Op
        <3>3. ASSUME st # "none" PROVE \A k \in 0..5 : Fine(At(k))
            BY <1>8, <3>2, <3>3
        <3> HIDE DEF p
        <3>4. CASE \E k \in 0..5 : \E ops : AtMostOne(ops) /\ st # "none" /\ Goes(n, At(k), ops)
            BY <1>3, <3>2, <3>3, <3>4
        <3>5. CASE \E k \in 0..5 : st # "none" /\ Goes(n, At(k), <<>>)
            BY <1>3, <3>2, <3>3, <3>5
        <3>6. CASE st # "none" /\ Goes(n, p, <<"readyConflicts">>)
            BY <1>3, <3>2, <3>6
        <3>7. \/ st = "none" /\ Goes(n, On(n), <<>>)
              \/ \E k \in 0..5 : st # "none" /\ Goes(n, At(k), <<>>)
              \/ \E k \in 0..5 : \E ops : AtMostOne(ops) /\ st # "none" /\ Goes(n, At(k), ops)
              \/ st # "none" /\ Goes(n, p, <<"readyConflicts">>)
            <4>1. \/ st = "none" /\ Goes(n, On(n), <<>>)
                  \/ st = "draft" /\ Goes(n, At(1), <<>>)
                  \/ st = "scanning" /\ Goes(n, At(2), <<"loadScan">>)
                  \/ st = "prechecking" /\ Goes(n, At(2), <<"load">>)
                  \/ st = "precheck_failed" /\ Goes(n, At(3), <<"conflicts">>)
                  \/ st = "ready" /\ Goes(n, p, <<"readyConflicts">>)
                  \/ st \in {"running", "verifying"} /\ Goes(n, At(4), <<"loadRun">>)
                  \/ st = "paused" /\ Goes(n, At(4), <<"load">>)
                  \/ st \in Over /\ Goes(n, At(IF p.seen.scanned THEN 2 ELSE 5), <<"load">>)
                BY <2>1 DEF loadRecentPlan, p
            <4>2. (IF p.seen.scanned THEN 2 ELSE 5) \in 0..5
                OBVIOUS
            <4> HIDE DEF At
            <4> QED
                BY <4>1, <4>2 DEF Over
        <3> QED
            BY <3>1, <3>4, <3>5, <3>6, <3>7
    <2>2. CASE Op(n, {"loadScan"}) /\ Ok(n) /\ Goes(n, startPolling(On(n), "scan"), <<>>)
        BY <1>2, <1>3, <1>8, <2>2
    <2>3. CASE Op(n, {"loadRun"}) /\ Goes(n, startPolling(On(n), "exec"), <<>>)
        BY <1>2, <1>3, <1>8, <2>3
    <2>4. CASE Op(n, {"load"}) /\ Goes(n, On(n), <<>>)
        BY <1>2, <1>3, <2>4
    <2>5. CASE Op(n, {"conflicts"}) /\ Ok(n) /\ Goes(n, listing(On(n), asks[n].found), <<>>)
        BY <1>2, <1>3, <1>5, <1>8, <2>5
    <2> QED
        BY <1>9, <2>1, <2>2, <2>3, <2>4, <2>5 DEF RecentBack
<1>10. CASE ScanBack(n)
    <2> USE OneIsFew
    <2>1. CASE Op(n, {"createPlan"}) /\ Ok(n) /\ Goes(n, toStep(refreshPlan(n), 2), <<"scanPlan">>)
        BY <1>3, <1>4, <1>6, <1>8, <2>1 DEF Op, Ok, TellsPlan
    <2>2. CASE Op(n, {"scanPlan", "rescan"}) /\ Ok(n) /\ Goes(n, startPolling(On(n), "scan"), <<>>)
        BY <1>2, <1>3, <1>8, <2>2
    <2>3. CASE Op(n, {"scan"})
        <3> DEFINE ops == IF refreshPlan(n).seen = None THEN <<>> ELSE <<"scanData">>
        <3>1. AtMostOne(ops) /\ status # "none" /\ Fine(refreshPlan(n))
            BY <1>4, <1>6, <2>3 DEF Op, TellsPlan
        <3>2. Goes(n, refreshPlan(n), ops)
            BY <1>10, <2>3 DEF ScanBack, Op
        <3> HIDE DEF ops
        <3> QED
            BY <1>3, <3>1, <3>2
    <2>4. CASE Op(n, {"scanData"})
        <3> DEFINE p == IF On(n).seen # None /\ On(n).seen.status \in {"prechecking", "failed"}
                        THEN stopPolling(On(n), "scan") ELSE On(n)
        <3>1. Goes(n, p, <<>>)
            BY <1>10, <2>4 DEF ScanBack, Op
        <3>2. Fine(p)
            BY <1>2, <1>8
        <3> HIDE DEF p
        <3> QED
            BY <1>3, <3>1, <3>2
    <2> QED
        BY <1>10, <2>1, <2>2, <2>3, <2>4 DEF ScanBack
<1>11. \A o \in {"newConflicts", "start", "applyStart", "refresh"} :
           AtMostOne(OnPlan(n, o)) /\ (OnPlan(n, o) = <<>> \/ status # "none")
    <2> SUFFICES ASSUME NEW o \in {"newConflicts", "start", "applyStart", "refresh"}
                 PROVE  AtMostOne(OnPlan(n, o)) /\ (OnPlan(n, o) = <<>> \/ status # "none")
        OBVIOUS
    <2>1. o \in Ops
        BY DEF Ops
    <2> QED
        BY <1>1, <2>1 DEF OnPlan, AtMostOne
<1>12. CASE PrecheckBack(n)
    <2> USE OneIsFew
    <2> DEFINE p == On(n)
    <2>1. CASE Goes(n, p, OnPlan(n, "newConflicts"))
        BY <1>2, <1>3, <1>11, <2>1
    <2>2. CASE Op(n, {"newConflicts", "readyConflicts"})
        <3> DEFINE c == q.found
                   r == toStep(listing(p, c), IF c THEN 3 ELSE 4)
        <3>1. Goes(n, r, IF c THEN <<>> ELSE OnPlan(n, "start"))
            BY <1>12, <2>2 DEF PrecheckBack, Op
        <3>2. Fine(r)
            <4>1. Fine(listing(p, c))
                BY <1>2, <1>5, <1>8
            <4>2. (IF c THEN 3 ELSE 4) \in 0..5
                OBVIOUS
            <4> QED
                BY <1>8, <4>1, <4>2
        <3> HIDE DEF r
        <3>3. CASE c
            BY <1>3, <3>1, <3>2, <3>3
        <3>4. CASE ~c
            BY <1>3, <1>11, <3>1, <3>2, <3>4
        <3> QED
            BY <3>3, <3>4
    <2>3. CASE Op(n, {"start"})
        BY <1>2, <1>3, <1>8, <1>12, <2>3 DEF PrecheckBack, Op
    <2>4. CASE Op(n, {"applyRefresh"})
        <3> DEFINE r == [refreshPlan(n) EXCEPT !.astray = @ \/ isRunning(refreshPlan(n))]
                   ops == IF r.seen = None THEN <<>>
                          ELSE IF r.listed THEN <<"policies">> ELSE <<"applyStart">>
        <3>1. Goes(n, r, ops)
            BY <1>12, <2>4 DEF PrecheckBack, Op
        <3>2. AtMostOne(ops) /\ status # "none"
            BY <1>4, <2>4 DEF Op
        <3>3. Fine(refreshPlan(n)) /\ refreshPlan(n).astray \in BOOLEAN
            BY <1>6, <2>4 DEF Op, TellsPlan, Fine, Page
        <3>4. Fine(r)
            BY <3>3 DEF Fine, Page
        <3> HIDE DEF ops, r
        <3> QED
            BY <1>3, <3>1, <3>2, <3>4
    <2>5. CASE Goes(n, p, OnPlan(n, "applyStart"))
        BY <1>2, <1>3, <1>11, <2>5
    <2>6. CASE Op(n, {"applyStart"})
        <3>1. Goes(n, startPolling(toStep(p, 4), "exec"), <<>>)
            BY <1>12, <2>6 DEF PrecheckBack, Op
        <3>2. Fine(toStep(p, 4))
            BY <1>8, <1>2
        <3> QED
            BY <1>3, <1>8, <3>1, <3>2
    <2> QED
        BY <1>12, <2>1, <2>2, <2>3, <2>4, <2>5, <2>6 DEF PrecheckBack
<1>13. CASE ExecBack(n)
    <2> USE OneIsFew
    <2> DEFINE p == On(n)
    <2>1. CASE Goes(n, p, OnPlan(n, "refresh"))
        BY <1>2, <1>3, <1>11, <2>1
    <2>2. CASE Op(n, {"refresh"}) /\ Goes(n, refreshPlan(n), <<>>)
        BY <1>3, <1>6, <2>2 DEF Op, TellsPlan
    <2>3. CASE Op(n, {"resume"})
        BY <1>2, <1>3, <1>8, <1>13, <2>3 DEF ExecBack, Op
    <2>4. CASE Op(n, {"cancel"})
        <3> DEFINE r == stopPolling(p, "exec")
        <3>1. IF r.seen = None THEN Goes(n, toStep(r, 5), <<>>)
              ELSE Goes(n, r, <<"cancelRefresh">>)
            BY <1>13, <2>4 DEF ExecBack, Op
        <3>2. Fine(r) /\ status # "none"
            BY <1>4, <1>8, <1>2, <2>4 DEF Op
        <3> HIDE DEF r
        <3> QED
            BY <1>3, <1>8, <3>1, <3>2
    <2>5. CASE Op(n, {"cancelRefresh"})
        <3>1. Goes(n, toStep(refreshPlan(n), 5), <<>>)
            BY <1>13, <2>5 DEF ExecBack, Op
        <3> QED
            BY <1>3, <1>6, <1>8, <2>5, <3>1 DEF Op, TellsPlan
    <2>6. CASE Op(n, {"exec"})
        <3> DEFINE ops == IF refreshPlan(n).seen = None THEN <<>> ELSE <<"execData">>
        <3>1. AtMostOne(ops) /\ status # "none" /\ Fine(refreshPlan(n))
            BY <1>4, <1>6, <2>6 DEF Op, TellsPlan
        <3>2. Goes(n, refreshPlan(n), ops)
            BY <1>13, <2>6 DEF ExecBack, Op
        <3> HIDE DEF ops
        <3> QED
            BY <1>3, <3>1, <3>2
    <2>7. CASE Op(n, {"execData"})
        <3> DEFINE r == IF SeenOver(p) THEN toStep(stopPolling(p, "exec"), 5) ELSE p
        <3>1. Goes(n, r, <<>>)
            BY <1>13, <2>7 DEF ExecBack, Op
        <3>2. Fine(stopPolling(p, "exec"))
            BY <1>8, <1>2
        <3>3. Fine(r)
            BY <1>8, <1>2, <3>2
        <3> HIDE DEF r
        <3> QED
            BY <1>3, <3>1, <3>3
    <2> QED
        BY <1>13, <2>1, <2>2, <2>3, <2>4, <2>5, <2>6, <2>7 DEF ExecBack
<1>14. CASE Fails(n)
    BY <1>2, <1>3, <1>14, OneIsFew DEF Fails
<1> QED
    BY <1>9, <1>10, <1>12, <1>13, <1>14 DEF Back

\* An entry of the list that gets another state, and is the same otherwise.
LEMMA StateTyped ==
    ASSUME TInv, NEW n \in DOMAIN asks, NEW s \in {"held", "err"}, asks' = [asks EXCEPT ![n].st = s],
           UNCHANGED <<pages, current, clicks>>, status # "none" => status' # "none",
           faults' \in 0..MaxFaults
    PROVE  WizardTypeOK' /\ Known'
<1> DEFINE q == asks[n]
           r == [q EXCEPT !.st = s]
<1>1. q \in Request /\ q.visit \in Visits /\ asks \in Seq(Request)
    BY AskFacts DEF TInv, WizardTypeOK
<1>2. r \in Request /\ r.op = q.op /\ r.visit = q.visit /\ r.st # "ok"
    BY <1>1 DEF Request
<1>3. asks' = [asks EXCEPT ![n] = r]
    OBVIOUS
<1> HIDE DEF r
<1>4. /\ asks' \in Seq(Request) /\ Len(asks') = Len(asks) /\ DOMAIN asks' = DOMAIN asks
      /\ asks'[n] = r /\ \A m \in DOMAIN asks : m # n => asks'[m] = asks[m]
    BY <1>1, <1>2, <1>3, EntryAnswered
<1>5. WizardTypeOK'
    BY <1>4 DEF TInv, WizardTypeOK
<1>6. Known'
    BY <1>1, <1>2, <1>4 DEF TInv, Known
<1> QED
    BY <1>5, <1>6

\* A request that the service performs.
LEMMA ServedTyped ==
    ASSUME TInv, NEW n \in DOMAIN asks, Served(n), TypeOK', status # "none" => status' # "none"
    PROVE  WizardTypeOK' /\ Known'
<1> DEFINE q == asks[n]
<1>1. q \in Request /\ q.visit \in Visits /\ asks \in Seq(Request)
    BY AskFacts DEF TInv, WizardTypeOK
<1>2. UNCHANGED <<pages, current, clicks>>
    BY DEF Served
<1>3. /\ q.op \notin {"listPlans", "createPlan"} => status' # "none"
      /\ q.op = "createPlan" => status' = "draft"
    <2>1. q.op \notin {"listPlans", "createPlan"} => status' # "none"
        BY DEF TInv, Known
    <2>2. q.op = "createPlan" => CreateDraftPlan
        BY DEF Served, Operation, Writing
    <2> QED
        BY <2>1, <2>2 DEF CreateDraftPlan, Writes
<1>4. status' \in PlanStatus /\ Plan = [status : PlanStatus, scanned : BOOLEAN]
    BY DEF TypeOK, Plan
<1>f. faults' \in 0..MaxFaults
    <2>1. faults' = faults \/ (faults < MaxFaults /\ faults' = faults + 1)
        BY DEF Served
    <2> QED
        BY <2>1, WizardAssumption DEF TInv, WizardTypeOK
<1>5. CASE Answered(n)
    <2> PICK c \in Finds(q.op) : asks' = [asks EXCEPT ![n].st = "ok", ![n].found = c, ![n].reply = Tells(q.op)]
        BY <1>5 DEF Answered
    <2> DEFINE r == [q EXCEPT !.st = "ok", !.found = c, !.reply = Tells(q.op)]
    <2>1. c \in BOOLEAN /\ Tells(q.op) \in Plan \cup {None}
        BY <1>4 DEF Finds, Tells
    <2>2. r \in Request /\ r.op = q.op /\ r.visit = q.visit /\ r.reply = Tells(q.op) /\ r.st = "ok"
        BY <1>1, <2>1 DEF Request
    <2>3. asks' = [asks EXCEPT ![n] = r]
        OBVIOUS
    <2> HIDE DEF r
    <2>4. /\ asks' \in Seq(Request) /\ Len(asks') = Len(asks) /\ DOMAIN asks' = DOMAIN asks
          /\ asks'[n] = r /\ \A m \in DOMAIN asks : m # n => asks'[m] = asks[m]
        BY <1>1, <2>2, <2>3, EntryAnswered
    <2>5. WizardTypeOK'
        BY <1>2, <1>f, <2>4 DEF TInv, WizardTypeOK
    <2>6. q.op \in TellsPlan => r.reply \in Plan /\ r.reply.status = status'
        BY <1>4, <2>2 DEF Tells
    <2>7. Known'
        BY <1>1, <1>2, <1>3, <2>2, <2>4, <2>6 DEF TInv, Known
    <2> QED
        BY <2>5, <2>7
<1>6. CASE asks' = [asks EXCEPT ![n].st = "err"]
    BY <1>2, <1>6, <1>f, StateTyped
<1> QED
    BY <1>5, <1>6 DEF Served

\* A precheck that begins.
LEMMA HeldTyped ==
    ASSUME TInv, NEW n \in DOMAIN asks, Held(n), status # "none" => status' # "none"
    PROVE  WizardTypeOK' /\ Known'
<1>1. asks' = [asks EXCEPT ![n].st = "held"] /\ UNCHANGED <<pages, current, clicks, faults>>
    BY DEF Held
<1>2. faults' \in 0..MaxFaults
    BY <1>1 DEF TInv, WizardTypeOK
<1> QED
    BY <1>1, <1>2, StateTyped

\* A request that it turns down, or that finds no server.
LEMMA RefusedTyped ==
    ASSUME TInv, NEW n \in DOMAIN asks, Refused(n), status # "none" => status' # "none"
    PROVE  WizardTypeOK' /\ Known'
<1>1. asks' = [asks EXCEPT ![n].st = "err"] /\ UNCHANGED <<pages, current, clicks, faults>>
    BY DEF Refused
<1>2. faults' \in 0..MaxFaults
    BY <1>1 DEF TInv, WizardTypeOK
<1> QED
    BY <1>1, <1>2, StateTyped

\* A request that is sent: by a click, a tick or the page when it opens.
LEMMA SentTyped ==
    ASSUME TInv, NEW v \in Visits, NEW o \in Ops, asks' = asks \o Asked(v, <<o>>), Len(asks) < MaxAsks,
           o \notin {"listPlans", "createPlan"} => status # "none",
           pages' \in [Visits -> Page \cup {None}], pages'[v] # None,
           \A w \in Visits : pages[w] # None => pages'[w] # None,
           \A w \in Visits : pages'[w] # None => pages'[w].seen = None \/ (pages[w] # None /\ pages'[w].seen = pages[w].seen),
           current' \in Visits \cup {None}, current' # None => pages'[current'] # None,
           clicks' \in 0..MaxClicks, UNCHANGED <<status, faults>>
    PROVE  WizardTypeOK' /\ Known'
<1>1. asks \in Seq(Request) /\ Len(asks) \in Nat
    BY LenProperties DEF TInv, WizardTypeOK
<1>2. /\ asks' \in Seq(Request) /\ Len(asks') = Len(asks) + 1
      /\ \A m \in DOMAIN asks' : \/ m \in DOMAIN asks /\ asks'[m] = asks[m]
                                 \/ m = Len(asks) + 1 /\ asks'[m] = Ask(o, v)
    BY <1>1, Sent
<1>3. WizardTypeOK'
    <2>1. \A w \in Visits : pages'[w] # None => pages'[w].seen = None \/ pages'[w].seen.status # "none"
        BY DEF TInv, WizardTypeOK
    <2>2. asks' \in Seq(Request) /\ Len(asks') <= MaxAsks /\ faults' \in 0..MaxFaults
        BY <1>1, <1>2, WizardAssumption DEF TInv, WizardTypeOK
    <2> QED
        BY <2>1, <2>2 DEF WizardTypeOK
<1>4. Ask(o, v).op = o /\ Ask(o, v).visit = v /\ Ask(o, v).st = "sent"
    BY DEF Ask
<1>5. \A m \in DOMAIN asks : asks[m].visit \in Visits
    BY AskFacts DEF TInv
<1>6. ASSUME NEW w \in Visits, pages'[w] # None, pages'[w].seen # None PROVE status # "none"
    BY <1>6 DEF TInv, Known
<1>7. ASSUME NEW m \in DOMAIN asks'
      PROVE  LET q == asks'[m] IN
          /\ pages'[q.visit] # None
          /\ q.op \notin {"listPlans", "createPlan"} => status # "none"
          /\ q.st = "ok" /\ q.op \in TellsPlan =>
               /\ q.reply \in Plan
               /\ q.op # "listPlans" => q.reply.status # "none"
               /\ q.op = "createPlan" => q.reply.status = "draft"
               /\ q.reply.status # "none" => status # "none"
    <2>1. CASE m \in DOMAIN asks /\ asks'[m] = asks[m]
        <3>1. asks[m].visit \in Visits /\ pages[asks[m].visit] # None
            BY <1>5, <2>1 DEF TInv, Known
        <3> DEFINE w == asks[m].visit
        <3>a. w \in Visits /\ pages[w] # None
            BY <3>1
        <3> HIDE DEF w
        <3>b. pages'[w] # None
            BY <3>a
        <3>2. pages'[asks[m].visit] # None
            BY <3>b DEF w
        <3>3. LET q == asks[m] IN
              /\ q.op \notin {"listPlans", "createPlan"} => status # "none"
              /\ q.st = "ok" /\ q.op \in TellsPlan =>
                   /\ q.reply \in Plan
                   /\ q.op # "listPlans" => q.reply.status # "none"
                   /\ q.op = "createPlan" => q.reply.status = "draft"
                   /\ q.reply.status # "none" => status # "none"
            BY <2>1 DEF TInv, Known
        <3> QED
            BY <2>1, <3>2, <3>3
    <2>2. CASE asks'[m] = Ask(o, v)
        BY <1>4, <2>2
    <2> QED
        BY <1>2, <2>1, <2>2
<1>8. Known'
    BY <1>6, <1>7 DEF Known
<1> QED
    BY <1>3, <1>8

\* A click of the user.
LEMMA ClickTyped ==
    ASSUME TInv, Click
    PROVE  WizardTypeOK' /\ Known'
<1> DEFINE p == pages[current]
<1>1. current \in Visits /\ p \in Page /\ (p.seen # None => p.seen \in Plan /\ p.seen.status # "none" /\ status # "none")
    BY DEF Click, TInv, WizardTypeOK, Known, Page
<1>2. PICK e \in SetupOffers(p) \cup RunOffers(p) :
         /\ pages' = [pages EXCEPT ![current] =
                         [Moved(p, e) EXCEPT !.astray = @ \/ Astray(current, e)]]
         /\ IF e \in {"prevStep", "nextStep", "resetWizard"}
            THEN UNCHANGED <<asks, clicks>>
            ELSE /\ p.seen # None \/ e = "createPlan"
                 /\ Len(asks) < MaxAsks /\ clicks < MaxClicks
                 /\ asks' = asks \o Asked(current, <<e>>)
                 /\ clicks' = clicks + 1
    BY DEF Click
<1> DEFINE r == [Moved(p, e) EXCEPT !.astray = @ \/ Astray(current, e)]
<1>3. UNCHANGED <<status, current, faults>>
    BY DEF Click, serviceVars, rows, row
<1>4. /\ e = "prevStep" => p.step \in 1..5
      /\ e = "nextStep" => p.step \in 0..4
      /\ e \in {"prevStep", "nextStep", "resetWizard"} \cup Ops
      /\ e # "listPlans"
    BY <1>1, <1>2 DEF SetupOffers, RunOffers, Ops, Page
<1>5. Moved(p, e) \in Page /\ Moved(p, e).seen \in {p.seen, None}
    <2>1. CASE e = "prevStep"
        <3> DEFINE b == p.backed \/ p.step = 5
        <3>1. b \in BOOLEAN /\ p.step - 1 \in 0..5
            BY <1>1, <1>4, <2>1 DEF Page
        <3>2. Moved(p, e) = [p EXCEPT !.step = p.step - 1, !.backed = b]
            BY <2>1 DEF Moved
        <3> HIDE DEF b
        <3> QED
            BY <1>1, <3>1, <3>2 DEF Page
    <2>2. CASE e = "nextStep"
        BY <1>1, <1>4, <2>2 DEF Moved, Page
    <2>3. CASE e = "resetWizard"
        <3>1. Moved(p, e) = [step |-> 0, seen |-> None, listed |-> FALSE, timers |-> {},
                             backed |-> FALSE, astray |-> p.astray]
            BY <2>3 DEF Moved, Fresh
        <3>2. p.astray \in BOOLEAN
            BY <1>1 DEF Page
        <3> QED
            BY <3>1, <3>2 DEF Page
    <2>4. CASE e \notin {"prevStep", "nextStep", "resetWizard"}
        BY <1>1, <2>4 DEF Moved
    <2> QED
        BY <2>1, <2>2, <2>3, <2>4
<1>6. r \in Page /\ r.seen \in {p.seen, None}
    BY <1>5 DEF Page
<1>7. pages' = [pages EXCEPT ![current] = r]
    BY <1>2
<1> HIDE DEF r
<1>8. /\ pages' \in [Visits -> Page \cup {None}] /\ pages'[current] = r /\ r # None
      /\ \A w \in Visits : w # current => pages'[w] = pages[w]
    BY <1>1, <1>6, <1>7, WizardAssumption DEF TInv, WizardTypeOK
<1>9. CASE e \in {"prevStep", "nextStep", "resetWizard"}
    <2>1. UNCHANGED <<asks, clicks>>
        BY <1>2, <1>9
    <2>2. WizardTypeOK'
        <3>1. \A v \in Visits : pages'[v] # None => pages'[v].seen = None \/ pages'[v].seen.status # "none"
            BY <1>1, <1>6, <1>8 DEF TInv, WizardTypeOK
        <3>2. current' = current /\ pages'[current] # None /\ UNCHANGED <<asks, clicks, faults>>
            BY <1>1, <1>3, <1>8, <2>1
        <3> QED
            BY <1>1, <1>8, <3>1, <3>2 DEF TInv, WizardTypeOK
    <2>3. \A m \in DOMAIN asks : asks[m].visit \in Visits
        BY AskFacts DEF TInv
    <2>4. Known'
        BY <1>1, <1>3, <1>6, <1>8, <2>1, <2>3 DEF TInv, Known
    <2> QED
        BY <2>2, <2>4
<1>10. CASE e \notin {"prevStep", "nextStep", "resetWizard"}
    <2>1. e \in Ops /\ (e \notin {"listPlans", "createPlan"} => status # "none")
        BY <1>1, <1>2, <1>4, <1>10
    <2>2. asks' = asks \o Asked(current, <<e>>) /\ Len(asks) < MaxAsks
        BY <1>2, <1>10
    <2>3. clicks' \in 0..MaxClicks
        BY <1>2, <1>10, WizardAssumption DEF TInv, WizardTypeOK
    <2>a. \A w \in Visits : pages[w] # None => pages'[w] # None
        BY <1>1, <1>6, <1>8, WizardAssumption
    <2>4. \A w \in Visits : pages'[w] # None => pages'[w].seen = None \/ (pages[w] # None /\ pages'[w].seen = pages[w].seen)
        BY <1>1, <1>6, <1>8, WizardAssumption
    <2>5. current' \in Visits \cup {None} /\ pages'[current'] # None
        BY <1>1, <1>3, <1>8
    <2> QED
        BY <1>1, <1>3, <1>8, <2>1, <2>2, <2>3, <2>a, <2>4, <2>5, SentTyped
<1> QED
    BY <1>9, <1>10

\* A tick of an interval.
LEMMA TickTyped ==
    ASSUME TInv, NEW v \in Visits, pages[v] # None, NEW t \in {"scan", "exec"}, Tick(v, t)
    PROVE  WizardTypeOK' /\ Known'
<1>1. UNCHANGED <<status, pages, current, clicks, faults>> /\ Len(asks) < MaxAsks
      /\ asks' = asks \o Asked(v, <<t>>)
    BY DEF Tick, serviceVars, rows, row
<1>2. status # "none" /\ t \in Ops
    BY DEF Tick, TInv, Known, Ops
<1> QED
    BY <1>1, <1>2, SentTyped DEF TInv, WizardTypeOK

\* The page is opened.
LEMMA MountTyped ==
    ASSUME TInv, Mount
    PROVE  WizardTypeOK' /\ Known'
<1>1. PICK v \in Visits : /\ pages[v] = None
                         /\ pages' = [pages EXCEPT ![v] = Fresh]
                         /\ current' = v
                         /\ asks' = asks \o Asked(v, <<"listPlans">>)
    BY DEF Mount
<1>2. Fresh \in Page /\ Fresh.seen = None
    BY DEF Fresh, Page
<1>3. UNCHANGED <<status, clicks, faults>> /\ Len(asks) < MaxAsks
    BY DEF Mount, serviceVars, rows, row
<1>4. /\ pages' \in [Visits -> Page \cup {None}] /\ pages'[v] = Fresh
      /\ \A w \in Visits : w # v => pages'[w] = pages[w]
    BY <1>1, <1>2 DEF TInv, WizardTypeOK
<1>5. "listPlans" \in Ops
    BY DEF Ops
<1> QED
    BY <1>1, <1>2, <1>3, <1>4, <1>5, SentTyped, WizardAssumption DEF TInv, WizardTypeOK

\* The page is left.
LEMMA UnmountTyped ==
    ASSUME TInv, Unmount
    PROVE  WizardTypeOK' /\ Known'
<1> DEFINE r == [pages[current] EXCEPT !.timers = {}]
<1>1. current \in Visits /\ pages[current] \in Page
    BY DEF Unmount, TInv, WizardTypeOK
<1>2. r \in Page /\ r.seen = pages[current].seen
    BY <1>1 DEF Page
<1>3. pages' = [pages EXCEPT ![current] = r] /\ current' = None /\ UNCHANGED <<status, asks, clicks, faults>>
    BY DEF Unmount, serviceVars, rows, row
<1> HIDE DEF r
<1>4. /\ pages' \in [Visits -> Page \cup {None}] /\ pages'[current] = r
      /\ \A w \in Visits : w # current => pages'[w] = pages[w]
    BY <1>1, <1>2, <1>3 DEF TInv, WizardTypeOK
<1>5. WizardTypeOK'
    BY <1>1, <1>2, <1>3, <1>4, WizardAssumption DEF TInv, WizardTypeOK
<1>6. \A m \in DOMAIN asks : asks[m].visit \in Visits
    BY AskFacts DEF TInv
<1>7. Known'
    BY <1>1, <1>2, <1>3, <1>4, <1>6, WizardAssumption DEF TInv, Known
<1> QED
    BY <1>5, <1>7

\* The service's variables of a step of the wizard.
LEMMA OperationIsARequest ==
    ASSUME NEW n \in DOMAIN asks, Held(n) \/ Served(n)
    PROVE  Requests \/ UNCHANGED serviceVars
<1>1. server = "up" /\ server' = server
    BY DEF Held, Served
<1>2. CASE Held(n)
    BY <1>1, <1>2 DEF Held, Requests
<1>3. ASSUME NEW ok \in BOOLEAN, Operation(asks[n].op, ok) PROVE Requests \/ UNCHANGED serviceVars
    <2>1. Changes(ok) => Requests
        BY <1>1 DEF Requests
    <2> QED
        BY <1>1, <1>3, <2>1 DEF Operation, Changes, Requests, serviceVars
<1> QED
    BY <1>2, <1>3 DEF Served

\* What the wizard does to the service is a request of it, or nothing.
LEMMA ServiceSteps ==
    ASSUME Next
    PROVE  Requests \/ Background \/ Failures \/ UNCHANGED serviceVars
<1>1. CASE Click \/ Ticks \/ Mount \/ Unmount
    BY <1>1 DEF Click, Ticks, Tick, Mount, Unmount
<1>2. CASE Elsewhere
    <2>1. server = "up" /\ server' = server
        BY <1>2 DEF Elsewhere
    <2>2. ASSUME NEW ok \in BOOLEAN, RetryFailedJobs(ok) PROVE Requests
        BY <2>1, <2>2 DEF Requests, Changes
    <2> QED
        BY <1>2, <2>1, <2>2 DEF Elsewhere, Requests
<1>3. CASE Answers
    BY <1>3, OperationIsARequest DEF Answers, Refused
<1>4. CASE Handlers
    BY <1>4 DEF Handlers, Back
<1> QED
    BY <1>1, <1>2, <1>3, <1>4 DEF Next

\* A plan that there is stays: its status never becomes "none" again.
LEMMA PlansStay ==
    ASSUME TypeOK, status # "none", Requests \/ Background \/ Failures \/ UNCHANGED serviceVars
    PROVE  status' # "none"
<1> USE DEF Writes, row, rows
<1>1. CASE Requests
    BY <1>1 DEF Requests, Changes, CreateDraftPlan, ScanPlan, PrecheckPlan, PrecheckFinds, PrecheckEnds,
                ApplyConflictPolicies, StartPlan, ResumePlan, PausePlan, CancelPlan, RetryFailedJobs, DeletePlan
<1>2. ASSUME NEW ok \in BOOLEAN, ScanStep(ok) PROVE status' # "none"
    BY <1>2 DEF ScanStep, ScanClears, ScanFinds, ScanReads, ScanSaves, ScanEnds, ScanFails, TypeOK
<1>3. ASSUME NEW ok \in BOOLEAN, RecoverResets \/ RecoverPauses(ok) \/ Crash PROVE status' # "none"
    BY <1>3 DEF RecoverResets, RecoverPauses, Crash
<1>4. ASSUME NEW r \in Runs, NEW ok \in BOOLEAN, RunWrites(r, ok) PROVE status' # "none"
    BY <1>4 DEF RunWrites, RunBegins, RunVerifies, RunEnds
<1>5. ASSUME NEW r \in Runs, RunSteps(r) PROVE status' # "none"
    BY <1>4, <1>5 DEF RunSteps, RunDispatches, JobsDone, JobRuns, JobEnds
<1>6. ASSUME NEW r \in Runs, RunFaults(r) PROVE status' # "none"
    BY <1>4, <1>6 DEF RunFaults, RunFails, JobUnsaved
<1>7. CASE Background
    BY <1>2, <1>3, <1>5, <1>7 DEF Background, Scan, ScanStep, Recover
<1>8. CASE Failures
    BY <1>2, <1>3, <1>6, <1>8 DEF Failures, ScanStep, PrecheckFails, PrecheckEnds
<1> QED
    BY <1>1, <1>7, <1>8 DEF serviceVars

\* No step of the wizard or the service takes the types away.
LEMMA TInvKept ==
    ASSUME TInv, TypeOK', [Next]_vars
    PROVE  WizardTypeOK' /\ Known'
<1>0. status # "none" => status' # "none"
    BY ServiceSteps, PlansStay DEF TInv, vars
<1>1. ASSUME UNCHANGED pageVars PROVE WizardTypeOK' /\ Known'
    BY <1>0, <1>1 DEF TInv, WizardTypeOK, Known, pageVars
<1>2. ASSUME Elsewhere \/ (Failures /\ faults < MaxFaults /\ faults' = faults + 1 /\ UNCHANGED <<pages, current, asks, clicks>>)
      PROVE WizardTypeOK' /\ Known'
    <2>1. UNCHANGED <<pages, current, asks>> /\ clicks' \in 0..MaxClicks /\ faults' \in 0..MaxFaults
        <3>1. clicks' = clicks \/ (clicks < MaxClicks /\ clicks' = clicks + 1)
            BY <1>2 DEF Elsewhere
        <3>2. faults' = faults \/ (faults < MaxFaults /\ faults' = faults + 1)
            BY <1>2 DEF Elsewhere
        <3>3. UNCHANGED <<pages, current, asks>>
            BY <1>2 DEF Elsewhere
        <3>4. clicks' \in 0..MaxClicks
            BY <3>1, WizardAssumption DEF TInv, WizardTypeOK
        <3>5. faults' \in 0..MaxFaults
            BY <3>2, WizardAssumption DEF TInv, WizardTypeOK
        <3> QED
            BY <3>3, <3>4, <3>5
    <2> QED
        BY <1>0, <2>1 DEF TInv, WizardTypeOK, Known
<1>3. CASE Click \/ Ticks \/ Mount \/ Unmount
    BY <1>3, ClickTyped, TickTyped, MountTyped, UnmountTyped DEF Ticks
<1>4. CASE Answers
    BY <1>0, <1>4, HeldTyped, ServedTyped, RefusedTyped DEF Answers
<1>5. CASE Handlers
    BY <1>5, BackTyped DEF Handlers
<1> QED
    BY <1>1, <1>2, <1>3, <1>4, <1>5 DEF Next, vars

------------------------------------------------------------------------------
\* What the handlers of a visit wait for, and that only one waits for any of
\* a class of requests.
Pending(v) == {o \in Ops : \E n \in DOMAIN asks : asks[n].visit = v /\ asks[n].op = o}
AtMost1(v, C) ==
    \A m, n \in DOMAIN asks :
        asks[m].visit = v /\ asks[n].visit = v /\ asks[m].op \in C /\ asks[n].op \in C => m = n

\* The requests by the handlers that send them: those of ticks, of the setup
\* and the scan, of the way to the start, and of the running plan.
Others == Ops \ Ticking
ScanTicks == {"scan", "scanData"}
ExecTicks == {"exec", "execData"}
Scanning == {"createPlan", "scanPlan", "rescan", "loadScan"}
Starting == {"precheck", "newConflicts", "readyConflicts", "start", "applyRefresh", "policies", "applyStart"}
Steering == {"pause", "refresh", "resume", "cancel", "cancelRefresh"}

\* Nothing polls, and the page does not show a running plan.
Idle(p, H) == p.timers = {} /\ H \cap Ticking = {} /\ ~isRunning(p)

\* The way of a page through its steps, with the requests H pending: what may
\* be on its way at which step, and which interval is on.
Way(p, H) ==
    /\ "listPlans" \in H => p.seen = None /\ Idle(p, H) /\ p.step <= 1
    /\ "loadScan" \in H => Idle(p, H) /\ p.step <= 2
    /\ H \cap {"loadRun", "start"} # {} => p.step = 4
    /\ "loadRun" \in H => p.timers = {} /\ H \cap Ticking = {}
    /\ H \cap Starting # {} => Idle(p, H)
    /\ p.step <= 3 => /\ "exec" \notin p.timers /\ H \cap (ExecTicks \cup Steering) = {}
                      /\ isRunning(p) => "scan" \in p.timers
    /\ p.step >= 4 => "scan" \notin p.timers /\ H \cap (ScanTicks \cup Scanning) = {}
    /\ p.step = 4 /\ "exec" \notin p.timers => H \cap {"cancelRefresh", "loadRun"} # {} \/ Idle(p, H)
    /\ p.step = 4 /\ H \cap {"pause", "refresh"} # {} => "exec" \in p.timers
    /\ H \cap ScanTicks # {} => "scan" \in p.timers

\* How the pending requests of a visit change.
LEMMA PendingGoes ==
    ASSUME asks \in Seq(Request), NEW n \in DOMAIN asks, NEW p, NEW ops, Goes(n, p, ops),
           AtMostOne(ops), NEW v
    PROVE  /\ asks[n].visit # v => Pending(v)' = Pending(v)
           /\ Pending(v)' \subseteq Pending(v) \cup {o \in Ops : ops = <<o>>}
           /\ asks[n].visit = v => {o \in Ops : ops = <<o>>} \subseteq Pending(v)'
           /\ Pending(v) \ {asks[n].op} \subseteq Pending(v)'
<1> DEFINE next == {o \in Ops : ops = <<o>>}
           w == asks[n].visit
<1>0. ops = <<>> \/ \E o \in Ops : ops = <<o>>
    BY DEF AtMostOne
<1>1. /\ \A m \in DOMAIN asks' :
            \/ Before(n, m) \in DOMAIN asks \ {n} /\ asks'[m] = asks[Before(n, m)]
            \/ \E o \in Ops : ops = <<o>> /\ asks'[m] = Ask(o, w)
      /\ \A k \in DOMAIN asks \ {n} : \E m \in DOMAIN asks' : asks'[m] = asks[k]
      /\ \A o \in Ops : ops = <<o>> => \E m \in DOMAIN asks' : asks'[m] = Ask(o, w)
    BY <1>0, Goes1
<1>2. \A o : Ask(o, w).op = o /\ Ask(o, w).visit = w
    BY DEF Ask
<1> HIDE DEF w
<1>3. ASSUME NEW o \in Ops, NEW m \in DOMAIN asks', asks'[m].visit = v, asks'[m].op = o
      PROVE  o \in Pending(v) \/ (o \in next /\ w = v)
    BY <1>1, <1>2, <1>3 DEF Pending
<1>4. ASSUME NEW o \in next, w = v PROVE o \in Pending(v)'
    BY <1>1, <1>2, <1>4 DEF Pending
<1>5. ASSUME NEW o \in Ops, NEW k \in DOMAIN asks, k # n, asks[k].visit = v, asks[k].op = o
      PROVE  o \in Pending(v)'
    BY <1>1, <1>5 DEF Pending
<1>6. Pending(v)' \subseteq Pending(v) \cup next /\ (w # v => Pending(v)' \subseteq Pending(v))
    BY <1>3 DEF Pending
<1>7. (w # v => Pending(v) \subseteq Pending(v)') /\ Pending(v) \ {asks[n].op} \subseteq Pending(v)'
    BY <1>5 DEF Pending, w
<1> QED
    BY <1>4, <1>6, <1>7 DEF w

\* A class of requests of which one at most is pending stays that way, if its
\* handler asks at most for one more of the class and no other handler for any.
LEMMA AtMost1Goes ==
    ASSUME asks \in Seq(Request), NEW n \in DOMAIN asks, NEW p, NEW ops, Goes(n, p, ops),
           AtMostOne(ops), NEW v, NEW C, AtMost1(v, C),
           asks[n].op \in C \/ asks[n].visit # v \/ \A o \in Ops : ops = <<o>> => o \notin C
    PROVE  /\ AtMost1(v, C)'
           /\ asks[n].visit = v /\ asks[n].op \in C => Pending(v)' \cap C \subseteq {o \in Ops : ops = <<o>>}
<1> DEFINE w == asks[n].visit
           L == Len(asks)
<1>0. ops = <<>> \/ \E o \in Ops : ops = <<o>>
    BY DEF AtMostOne
<1>1. \A m \in DOMAIN asks' :
            \/ m \in 1..(L - 1) /\ Before(n, m) \in DOMAIN asks /\ Before(n, m) # n /\ asks'[m] = asks[Before(n, m)]
            \/ m = L /\ \E o \in Ops : ops = <<o>> /\ asks'[m] = Ask(o, w)
    BY <1>0, Goes1
<1>2. \A o : Ask(o, w).op = o /\ Ask(o, w).visit = w
    BY DEF Ask
<1>a. L \in Nat /\ n \in Nat
    BY LenProperties
<1>3. \A i, j \in 1..(L - 1) : Before(n, i) = Before(n, j) => i = j
    BY <1>a DEF Before
<1> HIDE DEF w, L
<1>4. ASSUME NEW i \in DOMAIN asks', NEW j \in DOMAIN asks', asks'[i].visit = v, asks'[j].visit = v,
             asks'[i].op \in C, asks'[j].op \in C
      PROVE  i = j
    <2>1. CASE i = L /\ j = L
        BY <2>1
    <2>2. ASSUME NEW k \in DOMAIN asks', asks'[k].visit = v, asks'[k].op \in C,
                 Before(n, k) \in DOMAIN asks, Before(n, k) # n, asks'[k] = asks[Before(n, k)]
          PROVE  \A o \in Ops : ops = <<o>> /\ w = v => o \notin C
        BY <2>2 DEF AtMost1, w
    <2>3. CASE i \in 1..(L - 1) /\ Before(n, i) \in DOMAIN asks /\ Before(n, i) # n /\ asks'[i] = asks[Before(n, i)]
               /\ j = L /\ \E o \in Ops : ops = <<o>> /\ asks'[j] = Ask(o, w)
        BY <1>2, <1>4, <2>2, <2>3
    <2>4. CASE j \in 1..(L - 1) /\ Before(n, j) \in DOMAIN asks /\ Before(n, j) # n /\ asks'[j] = asks[Before(n, j)]
               /\ i = L /\ \E o \in Ops : ops = <<o>> /\ asks'[i] = Ask(o, w)
        BY <1>2, <1>4, <2>2, <2>4
    <2>5. CASE /\ i \in 1..(L - 1) /\ Before(n, i) \in DOMAIN asks /\ asks'[i] = asks[Before(n, i)]
               /\ j \in 1..(L - 1) /\ Before(n, j) \in DOMAIN asks /\ asks'[j] = asks[Before(n, j)]
        BY <1>3, <1>4, <2>5 DEF AtMost1
    <2> QED
        BY <1>1, <2>1, <2>3, <2>4, <2>5
<1>5. ASSUME w = v, asks[n].op \in C, NEW m \in DOMAIN asks', asks'[m].visit = v, asks'[m].op \in C
      PROVE  \E o \in Ops : ops = <<o>> /\ asks'[m].op = o
    <2>1. ASSUME Before(n, m) \in DOMAIN asks, Before(n, m) # n, asks'[m] = asks[Before(n, m)]
          PROVE  FALSE
        BY <1>5, <2>1 DEF AtMost1, w
    <2> QED
        BY <1>1, <1>2, <2>1
<1>6. AtMost1(v, C)'
    BY <1>4 DEF AtMost1
<1> QED
    BY <1>5, <1>6 DEF Pending, w

\* A request that is sent is one more that is pending.
LEMMA PendingSent ==
    ASSUME asks \in Seq(Request), NEW v \in Visits, NEW o \in Ops, asks' = asks \o Asked(v, <<o>>), NEW C
    PROVE  /\ Pending(v)' = Pending(v) \cup {o}
           /\ AtMost1(v, C) /\ (o \in C => Pending(v) \cap C = {}) /\ C \subseteq Ops => AtMost1(v, C)'
<1>1. /\ \A m \in DOMAIN asks' : \/ m \in DOMAIN asks /\ asks'[m] = asks[m]
                                 \/ m = Len(asks) + 1 /\ asks'[m] = Ask(o, v)
      /\ \A m \in DOMAIN asks : m \in DOMAIN asks' /\ asks'[m] = asks[m]
      /\ Len(asks) + 1 \in DOMAIN asks' /\ asks'[Len(asks) + 1] = Ask(o, v)
    BY Sent
<1>2. Ask(o, v).op = o /\ Ask(o, v).visit = v
    BY DEF Ask
<1>3. Pending(v)' = Pending(v) \cup {o}
    BY <1>1, <1>2 DEF Pending
<1>4. ASSUME AtMost1(v, C), o \in C => Pending(v) \cap C = {}, C \subseteq Ops,
             NEW i \in DOMAIN asks', NEW j \in DOMAIN asks', asks'[i].visit = v, asks'[j].visit = v,
             asks'[i].op \in C, asks'[j].op \in C
      PROVE  i = j
    <2>1. ASSUME NEW k \in DOMAIN asks, asks[k].visit = v, asks[k].op \in C PROVE o \notin C
        BY <1>4, <2>1 DEF Pending
    <2> QED
        BY <1>1, <1>2, <1>4, <2>1 DEF AtMost1
<1> QED
    BY <1>3, <1>4 DEF AtMost1

\* An answer changes nothing here.
LEMMA PendingSame ==
    ASSUME DOMAIN asks' = DOMAIN asks,
           \A m \in DOMAIN asks : asks'[m].op = asks[m].op /\ asks'[m].visit = asks[m].visit, NEW v, NEW C
    PROVE  Pending(v)' = Pending(v) /\ (AtMost1(v, C) => AtMost1(v, C)')
BY DEF Pending, AtMost1

------------------------------------------------------------------------------
\* Nothing of it runs: what is pending then fits any step but few.
LEMMA IdleWay ==
    ASSUME NEW p, NEW H \in SUBSET Ops, p.step \in 0..5, Idle(p, H),
           H \cap (Steering \cup {"listPlans", "loadRun"}) = {},
           "loadScan" \in H => p.step <= 2, p.step >= 4 => H \cap Scanning = {},
           "start" \in H => p.step = 4
    PROVE  Way(p, H)
BY DEF Way, Idle, Ticking, ExecTicks, ScanTicks, Scanning, Starting, Steering

\* The page has found a running plan and loads its data.
LEMMA RunFound ==
    ASSUME NEW p, p.step = 4, p.timers = {}, NEW H \in SUBSET {"loadRun"}, "loadRun" \in H
    PROVE  Way(p, H)
BY DEF Way, Idle, Ticking, ExecTicks, ScanTicks, Scanning, Starting, Steering

\* The interval of the scan starts.
LEMMA ScanStarts ==
    ASSUME NEW p, NEW q, NEW H \in SUBSET Ops, NEW G \in SUBSET Ops, p.step \in 0..5, Way(p, H),
           H \cap Scanning # {}, q.step = p.step, q.seen = p.seen, q.timers = p.timers \cup {"scan"},
           G \cap Others = {}, G \cap Ticking \subseteq H
    PROVE  Way(q, G)
BY DEF Way, Idle, isRunning, Others, Ticking, ExecTicks, ScanTicks, Scanning, Starting, Steering

\* The interval of the run starts.
LEMMA RunStarts ==
    ASSUME NEW p, NEW q, NEW H \in SUBSET Ops, NEW G \in SUBSET Ops, p.step \in 0..5, Way(p, H),
           \/ H \cap {"loadRun", "start", "resume"} # {} /\ q.step = p.step
           \/ "applyStart" \in H /\ q.step = 4,
           q.timers = p.timers \cup {"exec"},
           G \cap Others = {}, G \cap Ticking \subseteq H
    PROVE  Way(q, G)
BY DEF Way, Idle, isRunning, Others, Ticking, ExecTicks, ScanTicks, Scanning, Starting, Steering

\* A handler ends and leaves the page as it was.
LEMMA HandlerEnds ==
    ASSUME NEW p, NEW q, NEW H \in SUBSET Ops, NEW G \in SUBSET Ops, p.step \in 0..5, Way(p, H),
           H \cap {"loadRun", "cancelRefresh"} = {},
           q.step = p.step, q.seen = p.seen, q.timers = p.timers,
           G \cap Others = {}, G \cap Ticking \subseteq H
    PROVE  Way(q, G)
BY DEF Way, Idle, isRunning, Others, Ticking, ExecTicks, ScanTicks, Scanning, Starting, Steering

\* The plan was created; its scan comes next.
LEMMA PlanCreated ==
    ASSUME NEW p, NEW q, NEW H \in SUBSET Ops, NEW G \in SUBSET Ops, p.step \in 0..5, Way(p, H),
           "createPlan" \in H, q.step = 2, q.timers = p.timers, q.seen.status = "draft",
           G \cap Others \subseteq {"scanPlan"}, G \cap Ticking \subseteq H
    PROVE  Way(q, G)
BY DEF Way, Idle, isRunning, Others, Ticking, ExecTicks, ScanTicks, Scanning, Starting, Steering

\* The plan was paused, and is read again.
LEMMA PauseGoesOn ==
    ASSUME NEW p, NEW H \in SUBSET Ops, NEW G \in SUBSET Ops, p.step \in 0..5, Way(p, H),
           "pause" \in H, G \cap Others \subseteq {"refresh"}, G \cap Ticking \subseteq H
    PROVE  Way(p, G)
BY DEF Way, Idle, isRunning, Others, Ticking, ExecTicks, ScanTicks, Scanning, Starting, Steering

\* The plan that was read again.
LEMMA Refreshed ==
    ASSUME NEW p, NEW q, NEW H \in SUBSET Ops, NEW G \in SUBSET Ops, p.step \in 0..5, Way(p, H),
           "refresh" \in H, q.step = p.step, q.timers = p.timers,
           G \cap Others = {}, G \cap Ticking \subseteq H
    PROVE  Way(q, G)
BY DEF Way, Idle, isRunning, Others, Ticking, ExecTicks, ScanTicks, Scanning, Starting, Steering

\* The plan was cancelled: the interval of the run is stopped.
LEMMA Cancelled ==
    ASSUME NEW p, NEW q, NEW H \in SUBSET Ops, NEW G \in SUBSET Ops, p.step \in 0..5, Way(p, H),
           "cancel" \in H, q.timers = p.timers \ {"exec"},
           \/ q.step = 5 /\ G \cap Others = {}
           \/ q.step = p.step /\ G \cap Others = {"cancelRefresh"},
           G \cap Ticking \subseteq H
    PROVE  Way(q, G)
BY DEF Way, Idle, isRunning, Others, Ticking, ExecTicks, ScanTicks, Scanning, Starting, Steering

\* The page goes on to the result.
LEMMA ResultShown ==
    ASSUME NEW p, NEW q, NEW H \in SUBSET Ops, NEW G \in SUBSET Ops, p.step \in 0..5, Way(p, H),
           \/ "cancelRefresh" \in H /\ G \cap Others = {}
           \/ "execData" \in H /\ G \cap Others = H \cap Others,
           q.step = 5, q.timers \subseteq p.timers, G \cap Ticking \subseteq H
    PROVE  Way(q, G)
BY DEF Way, Idle, isRunning, Others, Ticking, ExecTicks, ScanTicks, Scanning, Starting, Steering

\* A tick: the plan is read again, and then its data.
LEMMA TickRead ==
    ASSUME NEW p, NEW q, NEW H \in SUBSET Ops, NEW G \in SUBSET Ops, p.step \in 0..5, Way(p, H),
           NEW t \in {"scan", "exec"}, t \in H, q.step = p.step, q.timers = p.timers,
           G \cap Others = H \cap Others,
           t = "scan" => G \cap Ticking \subseteq H \cup {"scanData"},
           t = "exec" => G \cap Ticking \subseteq H \cup {"execData"}
    PROVE  Way(q, G)
BY DEF Way, Idle, isRunning, Others, Ticking, ExecTicks, ScanTicks, Scanning, Starting, Steering

\* A tick ends, and nothing has changed.
LEMMA TickEnds ==
    ASSUME NEW p, NEW H \in SUBSET Ops, NEW G \in SUBSET Ops, p.step \in 0..5, Way(p, H),
           G \cap Others = H \cap Others, G \cap Ticking \subseteq H
    PROVE  Way(p, G)
BY DEF Way, Idle, isRunning, Others, Ticking, ExecTicks, ScanTicks, Scanning, Starting, Steering

\* A tick finds that the scan has ended, and stops its interval.
LEMMA ScanStops ==
    ASSUME NEW p, NEW q, NEW H \in SUBSET Ops, NEW G \in SUBSET Ops, p.step \in 0..5, Way(p, H),
           "scanData" \in H, q.step = p.step, q.seen = p.seen, q.timers = p.timers \ {"scan"}, ~isRunning(p),
           G \cap Others = H \cap Others, G \cap Ticking \subseteq H, G \cap ScanTicks = {}
    PROVE  Way(q, G)
BY DEF Way, Idle, isRunning, Others, Ticking, ExecTicks, ScanTicks, Scanning, Starting, Steering

------------------------------------------------------------------------------
\* The page was used in turn, and then it goes its way with one handler at a
\* time, beside those of the intervals.
Calm(p) == ~p.backed /\ ~p.astray
Orderly(v) == AtMost1(v, Others) /\ AtMost1(v, ScanTicks) /\ Way(pages[v], Pending(v))
WInv == current # None /\ Calm(pages[current]) => Orderly(current)
\* What a handler asks for next, as a set.
Nx(ops) == {o \in Ops : ops = <<o>>}

\* A list of one request asks for it.
LEMMA NxOne == ASSUME NEW o \in Ops, NEW ops, ops = <<o>> PROVE Nx(ops) = {o} /\ AtMostOne(ops)
<1>1. \A e \in Ops : ops = <<e>> => e = o
    OBVIOUS
<1> QED
    BY <1>1 DEF Nx, AtMostOne

\* The requests that the handlers send next.
LEMMA NextOf ==
    /\ Nx(<<>>) = {}
    /\ Nx(<<"loadScan">>) = {"loadScan"}
    /\ Nx(<<"load">>) = {"load"}
    /\ Nx(<<"conflicts">>) = {"conflicts"}
    /\ Nx(<<"readyConflicts">>) = {"readyConflicts"}
    /\ Nx(<<"loadRun">>) = {"loadRun"}
    /\ Nx(<<"scanPlan">>) = {"scanPlan"}
    /\ Nx(<<"scanData">>) = {"scanData"}
    /\ Nx(<<"policies">>) = {"policies"}
    /\ Nx(<<"applyStart">>) = {"applyStart"}
    /\ Nx(<<"cancelRefresh">>) = {"cancelRefresh"}
    /\ Nx(<<"execData">>) = {"execData"}
<1>1. Nx(<<>>) = {}
    BY DEF Nx
<1>2. Nx(<<"loadScan">>) = {"loadScan"}
    BY NxOne DEF Ops
<1>3. Nx(<<"load">>) = {"load"}
    BY NxOne DEF Ops
<1>4. Nx(<<"conflicts">>) = {"conflicts"}
    BY NxOne DEF Ops
<1>5. Nx(<<"readyConflicts">>) = {"readyConflicts"}
    BY NxOne DEF Ops
<1>6. Nx(<<"loadRun">>) = {"loadRun"}
    BY NxOne DEF Ops
<1>7. Nx(<<"scanPlan">>) = {"scanPlan"}
    BY NxOne DEF Ops
<1>8. Nx(<<"scanData">>) = {"scanData"}
    BY NxOne DEF Ops
<1>9. Nx(<<"policies">>) = {"policies"}
    BY NxOne DEF Ops
<1>10. Nx(<<"applyStart">>) = {"applyStart"}
    BY NxOne DEF Ops
<1>11. Nx(<<"cancelRefresh">>) = {"cancelRefresh"}
    BY NxOne DEF Ops
<1>12. Nx(<<"execData">>) = {"execData"}
    BY NxOne DEF Ops
<1> QED
    BY <1>1, <1>2, <1>3, <1>4, <1>5, <1>6, <1>7, <1>8, <1>9, <1>10, <1>11, <1>12

\* What needs a plan is asked for once, or not at all.
LEMMA OnPlanIs ==
    ASSUME NEW n, NEW o \in Ops
    PROVE  AtMostOne(OnPlan(n, o)) /\ Nx(OnPlan(n, o)) \subseteq {o}
<1>1. CASE On(n).seen = None
    BY <1>1, OneIsFew, NextOf DEF OnPlan
<1>2. CASE On(n).seen # None
    BY <1>2, NxOne DEF OnPlan
<1> QED
    BY <1>1, <1>2

\* A handler of the page that is open, other than a tick's, goes on.
LEMMA ChainStep ==
    ASSUME TInv, WInv, current # None, current' = current, NEW n \in DOMAIN asks, asks[n].visit = current,
           NEW p, NEW ops, Goes(n, p, ops), AtMostOne(ops),
           asks[n].op \notin Ticking, Nx(ops) \cap Ticking = {},
           Calm(p) => Calm(On(n)),
           Calm(p) /\ Way(On(n), Pending(current)) /\ asks[n].op \in Pending(current)
                   /\ Pending(current) \cap Others = {asks[n].op} =>
               \A G \in SUBSET Ops :
                  G \cap Others = Nx(ops) /\ G \cap Ticking \subseteq Pending(current) => Way(p, G)
    PROVE  WInv'
<1> DEFINE v == current
<1>1. asks \in Seq(Request) /\ asks[n] \in Request /\ v \in Visits
    BY AskFacts DEF TInv, WizardTypeOK
<1>2. pages'[v] = p /\ On(n) = pages[v]
    BY <1>1 DEF Goes, On, TInv, WizardTypeOK
<1>3. SUFFICES ASSUME Calm(p) PROVE Orderly(v)'
    BY <1>2 DEF WInv, Calm
<1>4. AtMost1(v, Others) /\ AtMost1(v, ScanTicks) /\ Way(On(n), Pending(v))
    BY <1>2, <1>3 DEF WInv, Orderly
<1>5. asks[n].op \in Ops /\ asks[n].op \in Pending(v) /\ asks[n].op \in Others
    BY <1>1 DEF Request, Pending, Others
<1>6. Pending(v) \cap Others = {asks[n].op}
    BY <1>4, <1>5 DEF Pending, AtMost1
<1>7. AtMost1(v, Others)' /\ Pending(v)' \cap Others \subseteq Nx(ops)
    BY <1>1, <1>4, <1>5, AtMost1Goes DEF Nx
<1>8. AtMost1(v, ScanTicks)'
    BY <1>1, <1>4, AtMost1Goes DEF Nx, ScanTicks, Ticking
<1>9. /\ Pending(v)' \subseteq Pending(v) \cup Nx(ops)
      /\ Nx(ops) \subseteq Pending(v)'
    BY <1>1, PendingGoes DEF Nx
<1>10. Pending(v)' \in SUBSET Ops /\ Pending(v)' \cap Others = Nx(ops) /\ Pending(v)' \cap Ticking \subseteq Pending(v)
    BY <1>7, <1>9 DEF Nx, Others, Pending
<1>11. Way(p, Pending(v)')
    BY <1>3, <1>4, <1>5, <1>6, <1>10
<1> QED
    BY <1>2, <1>7, <1>8, <1>11 DEF Orderly, Way, Idle, isRunning

\* The handler of a tick goes on.
LEMMA TickStep ==
    ASSUME TInv, WInv, current # None, current' = current, NEW n \in DOMAIN asks, asks[n].visit = current,
           NEW p, NEW ops, Goes(n, p, ops), AtMostOne(ops),
           asks[n].op \in Ticking, Nx(ops) \subseteq Ticking,
           asks[n].op \in ScanTicks \/ Nx(ops) \cap ScanTicks = {},
           Calm(p) => Calm(On(n)),
           Way(On(n), Pending(current)) /\ asks[n].op \in Pending(current) =>
               \A G \in SUBSET Ops :
                  /\ G \cap Others = Pending(current) \cap Others
                  /\ G \cap Ticking \subseteq Pending(current) \cup Nx(ops)
                  /\ asks[n].op \in ScanTicks => G \cap ScanTicks \subseteq Nx(ops)
                  => Way(p, G)
    PROVE  WInv'
<1> DEFINE v == current
<1>1. asks \in Seq(Request) /\ asks[n] \in Request /\ v \in Visits
    BY AskFacts DEF TInv, WizardTypeOK
<1>2. pages'[v] = p /\ On(n) = pages[v]
    BY <1>1 DEF Goes, On, TInv, WizardTypeOK
<1>3. SUFFICES ASSUME Calm(p) PROVE Orderly(v)'
    BY <1>2 DEF WInv, Calm
<1>4. AtMost1(v, Others) /\ AtMost1(v, ScanTicks) /\ Way(On(n), Pending(v))
    BY <1>2, <1>3 DEF WInv, Orderly
<1>5. asks[n].op \in Ops /\ asks[n].op \in Pending(v) /\ asks[n].op \notin Others
    BY <1>1 DEF Request, Pending, Others
<1>6. Nx(ops) \cap Others = {}
    BY DEF Others
<1>7. AtMost1(v, Others)'
    BY <1>1, <1>4, <1>6, AtMost1Goes DEF Nx
<1>8. AtMost1(v, ScanTicks)' /\ (asks[n].op \in ScanTicks => Pending(v)' \cap ScanTicks \subseteq Nx(ops))
    BY <1>1, <1>4, AtMost1Goes DEF Nx
<1>9. /\ Pending(v)' \subseteq Pending(v) \cup Nx(ops)
      /\ Pending(v) \ {asks[n].op} \subseteq Pending(v)'
    BY <1>1, PendingGoes DEF Nx
<1>10. /\ Pending(v)' \in SUBSET Ops /\ Pending(v)' \cap Others = Pending(v) \cap Others
       /\ Pending(v)' \cap Ticking \subseteq Pending(v) \cup Nx(ops)
    BY <1>5, <1>6, <1>9 DEF Others, Pending
<1>11. Way(p, Pending(v)')
    BY <1>4, <1>5, <1>8, <1>10
<1> QED
    BY <1>2, <1>7, <1>8, <1>11 DEF Orderly, Way, Idle, isRunning

\* What the pieces that handlers are made of do to the refs.
LEMMA PageFields ==
    ASSUME NEW p \in Page
    PROVE  /\ \A k \in 0..5 : LET q == toStep(p, k) IN
                 /\ q \in Page /\ q.step = k
                 /\ q.seen = p.seen /\ q.timers = p.timers /\ q.backed = p.backed /\ q.astray = p.astray
           /\ \A c \in BOOLEAN : LET q == listing(p, c) IN
                 /\ q \in Page /\ q.step = p.step
                 /\ q.seen = p.seen /\ q.timers = p.timers /\ q.backed = p.backed /\ q.astray = p.astray
           /\ \A t \in {"scan", "exec"} : LET q == startPolling(p, t) IN
                 /\ q \in Page /\ q.step = p.step /\ q.timers = p.timers \cup {t}
                 /\ q.seen = p.seen /\ q.backed = p.backed /\ q.astray = p.astray
           /\ \A t \in {"scan", "exec"} : LET q == stopPolling(p, t) IN
                 /\ q \in Page /\ q.step = p.step /\ q.timers = p.timers \ {t}
                 /\ q.seen = p.seen /\ q.backed = p.backed /\ q.astray = p.astray
<1>1. ASSUME NEW k \in 0..5
      PROVE  LET q == toStep(p, k) IN
                 /\ q \in Page /\ q.step = k
                 /\ q.seen = p.seen /\ q.timers = p.timers /\ q.backed = p.backed /\ q.astray = p.astray
    BY <1>1 DEF Page, toStep
<1>2. ASSUME NEW c \in BOOLEAN
      PROVE  LET q == listing(p, c) IN
                 /\ q \in Page /\ q.step = p.step
                 /\ q.seen = p.seen /\ q.timers = p.timers /\ q.backed = p.backed /\ q.astray = p.astray
    BY <1>2 DEF Page, listing
<1>3. ASSUME NEW t \in {"scan", "exec"}
      PROVE  LET q == startPolling(p, t) IN
                 /\ q \in Page /\ q.step = p.step /\ q.timers = p.timers \cup {t}
                 /\ q.seen = p.seen /\ q.backed = p.backed /\ q.astray = p.astray
    BY <1>3 DEF Page, startPolling
<1>4. ASSUME NEW t \in {"scan", "exec"}
      PROVE  LET q == stopPolling(p, t) IN
                 /\ q \in Page /\ q.step = p.step /\ q.timers = p.timers \ {t}
                 /\ q.seen = p.seen /\ q.backed = p.backed /\ q.astray = p.astray
    BY <1>4 DEF Page, stopPolling
<1> QED
    BY <1>1, <1>2, <1>3, <1>4

------------------------------------------------------------------------------
\* Whatever goes on, one request at most is asked next.
LEMMA BackGoes ==
    ASSUME NEW n \in DOMAIN asks, Back(n)
    PROVE  \E p, ops : Goes(n, p, ops) /\ AtMostOne(ops)
<1> USE OneIsFew
<1>1. CASE RecentBack(n)
    <2>1. CASE loadRecentPlan(n)
        BY <2>1 DEF loadRecentPlan
    <2> QED
        BY <1>1, <2>1 DEF RecentBack
<1>2. CASE ScanBack(n)
    <2>1. AtMostOne(IF refreshPlan(n).seen = None THEN <<>> ELSE <<"scanData">>)
        OBVIOUS
    <2> QED
        BY <1>2, <2>1 DEF ScanBack
<1>3. \A o \in {"newConflicts", "start", "applyStart", "refresh"} : AtMostOne(OnPlan(n, o))
    BY OnPlanIs DEF Ops
<1>4. CASE PrecheckBack(n)
    <2>1. CASE Op(n, {"newConflicts", "readyConflicts"})
        <3>1. \E q : Goes(n, q, IF asks[n].found THEN <<>> ELSE OnPlan(n, "start"))
            BY <1>4, <2>1 DEF PrecheckBack, Op
        <3> QED
            BY <1>3, <3>1
    <2>2. CASE Op(n, {"applyRefresh"})
        <3>1. \E q, r : Goes(n, q, IF r.seen = None THEN <<>>
                                   ELSE IF r.listed THEN <<"policies">> ELSE <<"applyStart">>)
            BY <1>4, <2>2 DEF PrecheckBack, Op
        <3> QED
            BY <3>1
    <2> QED
        BY <1>3, <1>4, <2>1, <2>2 DEF PrecheckBack
<1>5. CASE ExecBack(n)
    <2>1. AtMostOne(IF refreshPlan(n).seen = None THEN <<>> ELSE <<"execData">>)
        OBVIOUS
    <2>2. CASE Op(n, {"cancel"})
        BY <1>5, <2>2 DEF ExecBack, Op
    <2> QED
        BY <1>3, <1>5, <2>1, <2>2 DEF ExecBack
<1>6. CASE Fails(n)
    BY <1>6 DEF Fails
<1> QED
    BY <1>1, <1>2, <1>4, <1>5, <1>6 DEF Back

\* A handler of a page that is gone leaves the page that is open alone.
LEMMA OldBackOrderly ==
    ASSUME TInv, WInv, NEW n \in DOMAIN asks, Back(n), asks[n].visit # current
    PROVE  WInv'
<1>1. PICK p, ops : Goes(n, p, ops) /\ AtMostOne(ops)
    BY BackGoes
<1>2. asks \in Seq(Request) /\ asks[n].visit \in Visits /\ current \in Visits \cup {None} /\ current' = current
    BY AskFacts DEF TInv, WizardTypeOK, Back
<1>3. CASE current = None
    BY <1>2, <1>3 DEF WInv
<1>4. CASE current # None
    <2>1. pages'[current] = pages[current]
        BY <1>1, <1>2, <1>4 DEF Goes, TInv, WizardTypeOK
    <2>2. Pending(current)' = Pending(current)
        <3>1. \A v : v = current => Pending(v)' = Pending(v)
            BY <1>1, <1>2, PendingGoes
        <3> QED
            BY <1>2, <3>1 DEF Pending
    <2>3. ASSUME NEW C, AtMost1(current, C) PROVE AtMost1(current, C)'
        <3>1. \A v : v = current => AtMost1(v, C)'
            BY <1>1, <1>2, <2>3, AtMost1Goes
        <3> QED
            BY <1>2, <3>1 DEF AtMost1
    <2> QED
        BY <1>2, <2>1, <2>2, <2>3 DEF WInv, Orderly, Calm, Way, Idle, isRunning
<1> QED
    BY <1>3, <1>4

\* The parts of the page that is open and what is known of the request.
LEMMA OnFacts ==
    ASSUME TInv, NEW n \in DOMAIN asks
    PROVE  /\ On(n) \in Page /\ On(n).step \in 0..5 /\ asks[n].found \in BOOLEAN
           /\ LET q == refreshPlan(n) IN
                 q.step = On(n).step /\ q.timers = On(n).timers /\ q.backed = On(n).backed /\ q.astray = On(n).astray
           /\ Ok(n) => refreshPlan(n).seen = asks[n].reply
           /\ Ok(n) /\ asks[n].op = "createPlan" => asks[n].reply.status = "draft"
           /\ asks[n].op \in TellsPlan => refreshPlan(n) \in Page
<1>1. On(n) \in Page /\ asks[n] \in Request
    BY AskFacts DEF TInv
<1>2. Ok(n) /\ asks[n].op \in TellsPlan => asks[n].reply \in Plan
    BY DEF TInv, Known, Ok
<1>3. Ok(n) /\ asks[n].op = "createPlan" => asks[n].reply.status = "draft"
    BY DEF TInv, Known, Ok, TellsPlan
<1>4. LET q == refreshPlan(n) IN
         q.step = On(n).step /\ q.timers = On(n).timers /\ q.backed = On(n).backed /\ q.astray = On(n).astray
    BY <1>1 DEF refreshPlan, Page
<1>5. Ok(n) => refreshPlan(n).seen = asks[n].reply
    BY <1>1 DEF refreshPlan, Page
<1>6. asks[n].op \in TellsPlan => refreshPlan(n) \in Page
    BY <1>1, <1>2 DEF refreshPlan, Page
<1>7. On(n).step \in 0..5 /\ asks[n].found \in BOOLEAN
    BY <1>1 DEF Page, Request
<1> QED
    BY <1>1, <1>3, <1>4, <1>5, <1>6, <1>7

\* loadRecentPlan and the loads it waits for.
LEMMA RecentBackOrderly ==
    ASSUME TInv, WInv, NEW n \in DOMAIN asks, RecentBack(n), asks[n].visit = current, current # None,
           current' = current
    PROVE  WInv'
<1> DEFINE H == Pending(current)
           op == asks[n].op
<1>1. On(n) \in Page /\ On(n).step \in 0..5 /\ H \in SUBSET Ops /\ asks[n].found \in BOOLEAN
    BY OnFacts DEF Pending
<1> HIDE DEF H
<1>2. CASE op = "listPlans"
    <2> DEFINE p == refreshPlan(n)
               st == p.seen.status
    <2>0. Ok(n) /\ loadRecentPlan(n)
        BY <1>2 DEF RecentBack, Op
    <2>1. /\ p \in Page /\ p.seen = asks[n].reply /\ p.step = On(n).step /\ p.timers = On(n).timers
          /\ p.backed = On(n).backed /\ p.astray = On(n).astray
        BY <1>2, <2>0, OnFacts DEF TellsPlan
    <2>2. Ticking \cap {"listPlans", "loadScan", "load", "conflicts", "readyConflicts", "loadRun"} = {}
        BY DEF Ticking
    <2>3. st \in PlanStatus
        BY <1>2, <2>0, <2>1 DEF TInv, Known, Ok, TellsPlan, Plan
    <2> HIDE DEF p, st
    <2>4. ASSUME NEW q, NEW ops, Goes(n, q, ops), AtMostOne(ops),
                 q.timers = On(n).timers, q.backed = On(n).backed, q.astray = On(n).astray, q.step \in 0..5,
                 ~isRunning(q), Nx(ops) \subseteq {"loadScan", "load", "conflicts", "readyConflicts"},
                 "loadScan" \in Nx(ops) => q.step <= 2
          PROVE  WInv'
        <3>1. Calm(q) => Calm(On(n))
            BY <2>4 DEF Calm
        <3>2. ASSUME Way(On(n), H), op \in H, NEW G \in SUBSET Ops, G \cap Others = Nx(ops), G \cap Ticking \subseteq H
              PROVE  Way(q, G)
            <4>1. Idle(On(n), H)
                BY <1>2, <3>2 DEF Way
            <4>2. G \cap Ticking = {} /\ Idle(q, G)
                BY <2>4, <3>2, <4>1 DEF Idle
            <4>3. \A o \in Others : o \in G => o \in {"loadScan", "load", "conflicts", "readyConflicts"}
                BY <2>4, <3>2
            <4>4. G \cap (Steering \cup {"listPlans", "loadRun"}) = {} /\ G \cap Scanning \subseteq {"loadScan"} /\ "start" \notin G
                BY <4>2, <4>3 DEF Others, Ops, Ticking, Steering, Scanning
            <4>5. "loadScan" \in G => q.step <= 2
                BY <2>4, <3>2 DEF Others, Ops, Ticking
            <4> QED
                BY <2>4, <4>2, <4>4, <4>5, IdleWay DEF Scanning
        <3>3. Nx(ops) \cap Ticking = {} /\ op \notin Ticking
            BY <1>2, <2>2, <2>4
        <3> QED
            BY <2>4, <3>1, <3>2, <3>3, ChainStep DEF H
    <2>5. ASSUME NEW k \in 0..5, NEW ops, Goes(n, toStep(p, k), ops), AtMostOne(ops), st \notin {"running", "verifying"},
                 Nx(ops) \subseteq {"loadScan", "load", "conflicts", "readyConflicts"},
                 "loadScan" \in Nx(ops) => k <= 2
          PROVE  WInv'
        <3>1. LET q == toStep(p, k) IN /\ q.step = k /\ q.timers = On(n).timers /\ q.seen = p.seen
                 /\ q.backed = On(n).backed /\ q.astray = On(n).astray
            BY <2>1, PageFields
        <3>2. ~isRunning(toStep(p, k))
            BY <2>5, <3>1 DEF isRunning, st
        <3> QED
            BY <2>4, <2>5, <3>1, <3>2
    <2>6. CASE st = "none" /\ Goes(n, On(n), <<>>)
        <3>1. ASSUME Way(On(n), H), op \in H, H \cap Others = {op},
                 NEW G \in SUBSET Ops, G \cap Others = {}, G \cap Ticking \subseteq H
              PROVE  Way(On(n), G)
            <4>1. H \cap {"loadRun", "cancelRefresh"} = {}
                BY <1>2, <3>1 DEF Others, Ops, Ticking
            <4> QED
                BY <1>1, <3>1, <4>1, HandlerEnds
        <3> QED
            BY <1>2, <2>2, <2>6, <3>1, ChainStep, OneIsFew, NextOf DEF H
    <2>7. CASE st = "ready" /\ Goes(n, p, <<"readyConflicts">>)
        <3>1. ~isRunning(p)
            BY <2>7 DEF isRunning, st
        <3> QED
            BY <1>1, <2>1, <2>4, <2>7, <3>1, OneIsFew, NextOf
    <2>8. CASE st \in {"running", "verifying"} /\ Goes(n, toStep(p, 4), <<"loadRun">>)
        <3> DEFINE q == toStep(p, 4)
        <3>1. q.step = 4 /\ q.timers = On(n).timers /\ q.backed = On(n).backed /\ q.astray = On(n).astray
            BY <2>1, PageFields
        <3> HIDE DEF q
        <3>2. ASSUME Way(On(n), H), op \in H, NEW G \in SUBSET Ops, G \cap Others = {"loadRun"}, G \cap Ticking \subseteq H
              PROVE  Way(q, G)
            <4>1. Idle(On(n), H)
                BY <1>2, <3>2 DEF Way
            <4>2. G \cap Ticking = {} /\ q.timers = {}
                BY <3>1, <3>2, <4>1 DEF Idle
            <4>3. G \in SUBSET {"loadRun"} /\ "loadRun" \in G
                BY <3>2, <4>2 DEF Others
            <4> QED
                BY <3>1, <4>2, <4>3, RunFound
        <3>3. Calm(q) => Calm(On(n))
            BY <3>1 DEF Calm
        <3>4. Goes(n, q, <<"loadRun">>)
            BY <2>8 DEF q
        <3> QED
            BY <1>2, <2>2, <3>2, <3>3, <3>4, ChainStep, OneIsFew, NextOf DEF H
    <2>9. CASE st = "draft" /\ Goes(n, toStep(p, 1), <<>>)
        BY <2>5, <2>9, OneIsFew, NextOf
    <2>10. CASE st = "scanning" /\ Goes(n, toStep(p, 2), <<"loadScan">>)
        BY <2>5, <2>10, OneIsFew, NextOf
    <2>11. CASE st = "prechecking" /\ Goes(n, toStep(p, 2), <<"load">>)
        BY <2>5, <2>11, OneIsFew, NextOf
    <2>12. CASE st = "precheck_failed" /\ Goes(n, toStep(p, 3), <<"conflicts">>)
        BY <2>5, <2>12, OneIsFew, NextOf
    <2>13. CASE st = "paused" /\ Goes(n, toStep(p, 4), <<"load">>)
        BY <2>5, <2>13, OneIsFew, NextOf
    <2>14. CASE st \in Over /\ \E k \in 0..5 : Goes(n, toStep(p, k), <<"load">>)
        BY <2>5, <2>14, OneIsFew, NextOf DEF Over
    <2>15. \/ st = "none" /\ Goes(n, On(n), <<>>)
           \/ st = "draft" /\ Goes(n, toStep(p, 1), <<>>)
           \/ st = "scanning" /\ Goes(n, toStep(p, 2), <<"loadScan">>)
           \/ st = "prechecking" /\ Goes(n, toStep(p, 2), <<"load">>)
           \/ st = "precheck_failed" /\ Goes(n, toStep(p, 3), <<"conflicts">>)
           \/ st = "ready" /\ Goes(n, p, <<"readyConflicts">>)
           \/ st \in {"running", "verifying"} /\ Goes(n, toStep(p, 4), <<"loadRun">>)
           \/ st = "paused" /\ Goes(n, toStep(p, 4), <<"load">>)
           \/ st \in Over /\ Goes(n, toStep(p, IF p.seen.scanned THEN 2 ELSE 5), <<"load">>)
        BY <2>0 DEF loadRecentPlan, p, st
    <2>16. (IF p.seen.scanned THEN 2 ELSE 5) \in 0..5
        OBVIOUS
    <2> QED
        BY <2>6, <2>7, <2>8, <2>9, <2>10, <2>11, <2>12, <2>13, <2>14, <2>15, <2>16
<1>3. CASE op = "loadScan"
    <2>1. Goes(n, startPolling(On(n), "scan"), <<>>)
        BY <1>3 DEF RecentBack, Op
    <2>2. ASSUME Way(On(n), H), op \in H, NEW G \in SUBSET Ops, G \cap Others = {}, G \cap Ticking \subseteq H
          PROVE  Way(startPolling(On(n), "scan"), G)
        <3>1. H \cap Scanning # {}
            BY <1>3, <2>2 DEF Scanning
        <3> QED
            BY <1>1, <2>2, <3>1, ScanStarts, PageFields
    <2>3. Calm(startPolling(On(n), "scan")) => Calm(On(n))
        BY <1>1, PageFields DEF Calm
    <2> QED
        BY <1>3, <2>1, <2>2, <2>3, ChainStep, OneIsFew, NextOf DEF H, Ticking
<1>4. CASE op = "loadRun"
    <2>1. Goes(n, startPolling(On(n), "exec"), <<>>)
        BY <1>4 DEF RecentBack, Op
    <2>2. ASSUME Way(On(n), H), op \in H, NEW G \in SUBSET Ops, G \cap Others = {}, G \cap Ticking \subseteq H
          PROVE  Way(startPolling(On(n), "exec"), G)
        <3>1. H \cap {"loadRun", "start", "resume"} # {}
            BY <1>4, <2>2
        <3> QED
            BY <1>1, <2>2, <3>1, RunStarts, PageFields
    <2>3. Calm(startPolling(On(n), "exec")) => Calm(On(n))
        BY <1>1, PageFields DEF Calm
    <2> QED
        BY <1>4, <2>1, <2>2, <2>3, ChainStep, OneIsFew, NextOf DEF H, Ticking
<1>5. CASE op \in {"load", "conflicts"}
    <2> DEFINE q == IF op = "load" THEN On(n) ELSE listing(On(n), asks[n].found)
    <2>1. Goes(n, q, <<>>)
        BY <1>5 DEF RecentBack, Op
    <2>2. q.step = On(n).step /\ q.seen = On(n).seen /\ q.timers = On(n).timers
          /\ q.backed = On(n).backed /\ q.astray = On(n).astray
        BY <1>1, PageFields
    <2> HIDE DEF q
    <2>3. ASSUME Way(On(n), H), op \in H, H \cap Others = {op},
                 NEW G \in SUBSET Ops, G \cap Others = {}, G \cap Ticking \subseteq H
          PROVE  Way(q, G)
        <3>1. H \cap {"loadRun", "cancelRefresh"} = {}
            BY <1>5, <2>3 DEF Others, Ops, Ticking
        <3> QED
            BY <1>1, <2>2, <2>3, <3>1, HandlerEnds
    <2>4. Calm(q) => Calm(On(n))
        BY <2>2 DEF Calm
    <2> QED
        BY <1>5, <2>1, <2>3, <2>4, ChainStep, OneIsFew, NextOf DEF H, Ticking
<1> QED
    BY <1>2, <1>3, <1>4, <1>5 DEF RecentBack, Op

------------------------------------------------------------------------------
\* createAndScan, retryScan and the ticks of the scan.
LEMMA ScanBackOrderly ==
    ASSUME TInv, WInv, NEW n \in DOMAIN asks, ScanBack(n), asks[n].visit = current, current # None,
           current' = current
    PROVE  WInv'
<1> DEFINE H == Pending(current)
           op == asks[n].op
<1>1. On(n) \in Page /\ On(n).step \in 0..5 /\ H \in SUBSET Ops
    BY OnFacts DEF Pending
<1> HIDE DEF H
<1>2. CASE op = "createPlan"
    <2> DEFINE q == toStep(refreshPlan(n), 2)
    <2>1. Ok(n) /\ Goes(n, q, <<"scanPlan">>)
        BY <1>2 DEF ScanBack, Op
    <2>2. q.step = 2 /\ q.seen.status = "draft" /\ q.timers = On(n).timers
          /\ q.backed = On(n).backed /\ q.astray = On(n).astray
        BY <1>2, <2>1, OnFacts, PageFields DEF TellsPlan
    <2> HIDE DEF q
    <2>3. ASSUME Way(On(n), H), op \in H, NEW G \in SUBSET Ops, G \cap Others = {"scanPlan"}, G \cap Ticking \subseteq H
          PROVE  Way(q, G)
        BY <1>1, <1>2, <2>2, <2>3, PlanCreated
    <2>4. Calm(q) => Calm(On(n))
        BY <2>2 DEF Calm
    <2> QED
        BY <1>2, <2>1, <2>3, <2>4, ChainStep, OneIsFew, NextOf DEF H, Ticking
<1>3. CASE op \in {"scanPlan", "rescan"}
    <2>1. Goes(n, startPolling(On(n), "scan"), <<>>)
        BY <1>3 DEF ScanBack, Op
    <2>2. ASSUME Way(On(n), H), op \in H, NEW G \in SUBSET Ops, G \cap Others = {}, G \cap Ticking \subseteq H
          PROVE  Way(startPolling(On(n), "scan"), G)
        <3>1. H \cap Scanning # {}
            BY <1>3, <2>2 DEF Scanning
        <3> QED
            BY <1>1, <2>2, <3>1, ScanStarts, PageFields
    <2>3. Calm(startPolling(On(n), "scan")) => Calm(On(n))
        BY <1>1, PageFields DEF Calm
    <2> QED
        BY <1>3, <2>1, <2>2, <2>3, ChainStep, OneIsFew, NextOf DEF H, Ticking
<1>4. CASE op = "scan"
    <2> DEFINE q == refreshPlan(n)
               ops == IF q.seen = None THEN <<>> ELSE <<"scanData">>
    <2>1. Goes(n, q, ops)
        BY <1>4 DEF ScanBack, Op
    <2>2. q.step = On(n).step /\ q.timers = On(n).timers /\ q.backed = On(n).backed /\ q.astray = On(n).astray
        BY OnFacts
    <2>3. AtMostOne(ops) /\ Nx(ops) \subseteq {"scanData"}
        BY OneIsFew, NextOf
    <2> HIDE DEF q, ops
    <2>4. ASSUME Way(On(n), H), op \in H, NEW G \in SUBSET Ops, G \cap Others = H \cap Others,
                 G \cap Ticking \subseteq H \cup Nx(ops)
          PROVE  Way(q, G)
        BY <1>1, <1>4, <2>2, <2>3, <2>4, TickRead
    <2>5. Calm(q) => Calm(On(n))
        BY <2>2 DEF Calm
    <2>6. Nx(ops) \subseteq Ticking /\ op \in Ticking /\ op \in ScanTicks
        BY <1>4, <2>3 DEF Ticking, ScanTicks
    <2> QED
        BY <2>1, <2>3, <2>4, <2>5, <2>6, TickStep DEF H
<1>5. CASE op = "scanData"
    <2> DEFINE over == On(n).seen # None /\ On(n).seen.status \in {"prechecking", "failed"}
               q == IF over THEN stopPolling(On(n), "scan") ELSE On(n)
    <2>1. Goes(n, q, <<>>)
        BY <1>5 DEF ScanBack, Op
    <2>2. ASSUME over
          PROVE  q.step = On(n).step /\ q.seen = On(n).seen /\ q.timers = On(n).timers \ {"scan"}
                 /\ q.backed = On(n).backed /\ q.astray = On(n).astray /\ ~isRunning(On(n))
        BY <1>1, <2>2, PageFields DEF isRunning
    <2>3. ~over => q = On(n)
        OBVIOUS
    <2> HIDE DEF q, over
    <2>4. ASSUME Way(On(n), H), op \in H, NEW G \in SUBSET Ops, G \cap Others = H \cap Others,
                 G \cap Ticking \subseteq H, G \cap ScanTicks = {}
          PROVE  Way(q, G)
        <3>1. CASE over
            BY <1>1, <1>5, <2>2, <2>4, <3>1, ScanStops
        <3>2. CASE ~over
            BY <1>1, <2>3, <2>4, <3>2, TickEnds
        <3> QED
            BY <3>1, <3>2
    <2>5. Calm(q) => Calm(On(n))
        BY <2>2, <2>3 DEF Calm
    <2>6. op \in Ticking /\ op \in ScanTicks
        BY <1>5 DEF Ticking, ScanTicks
    <2> QED
        BY <2>1, <2>4, <2>5, <2>6, TickStep, OneIsFew, NextOf DEF H
<1> QED
    BY <1>2, <1>3, <1>4, <1>5 DEF ScanBack, Op

\* A handler of those that start the plan goes on while nothing runs yet.
LEMMA StartingGoesOn ==
    ASSUME TInv, WInv, NEW n \in DOMAIN asks, asks[n].visit = current, current # None, current' = current,
           asks[n].op \in Starting, NEW q, NEW ops, Goes(n, q, ops), AtMostOne(ops),
           q.timers = On(n).timers, q.step \in 0..5, Calm(q) => Calm(On(n)) /\ (isRunning(q) => isRunning(On(n))),
           Nx(ops) \subseteq Starting, "start" \in Nx(ops) => q.step = 4
    PROVE  WInv'
<1> DEFINE H == Pending(current)
           op == asks[n].op
<1>1. H \in SUBSET Ops
    BY DEF Pending
<1> HIDE DEF H
<1>2. ASSUME Calm(q), Way(On(n), H), op \in H, NEW G \in SUBSET Ops, G \cap Others = Nx(ops), G \cap Ticking \subseteq H
      PROVE  Way(q, G)
    <2>1. Idle(On(n), H)
        BY <1>2 DEF Way
    <2>2. Idle(q, G)
        BY <1>2, <2>1 DEF Idle
    <2>3. \A o \in Others : o \in G => o \in Starting
        BY <1>2
    <2>4. G \cap (Steering \cup {"listPlans", "loadRun"}) = {} /\ G \cap Scanning = {} /\ "loadScan" \notin G
        BY <2>3 DEF Others, Ops, Ticking, Steering, Scanning, Starting
    <2>5. "start" \in G => q.step = 4
        BY <1>2 DEF Others, Ops, Ticking
    <2> QED
        BY <2>2, <2>4, <2>5, IdleWay
<1>3. Nx(ops) \cap Ticking = {} /\ op \notin Ticking
    BY DEF Starting, Ticking
<1> QED
    BY <1>2, <1>3, ChainStep DEF H

\* Whoever starts the interval of the run.
LEMMA RunStartsOrderly ==
    ASSUME TInv, WInv, NEW n \in DOMAIN asks, asks[n].visit = current, current # None, current' = current,
           NEW q, Goes(n, q, <<>>),
           \/ asks[n].op \in {"start", "resume"} /\ q = startPolling(On(n), "exec")
           \/ asks[n].op = "applyStart" /\ q = startPolling(toStep(On(n), 4), "exec")
    PROVE  WInv'
<1> DEFINE H == Pending(current)
           op == asks[n].op
<1>1. On(n) \in Page /\ On(n).step \in 0..5 /\ H \in SUBSET Ops
    BY OnFacts DEF Pending
<1> HIDE DEF H
<1>2. q.timers = On(n).timers \cup {"exec"} /\ q.backed = On(n).backed /\ q.astray = On(n).astray
      /\ ((op \in {"start", "resume"} /\ q.step = On(n).step) \/ (op = "applyStart" /\ q.step = 4))
    <2>1. toStep(On(n), 4) \in Page /\ toStep(On(n), 4).timers = On(n).timers /\ toStep(On(n), 4).step = 4
          /\ toStep(On(n), 4).backed = On(n).backed /\ toStep(On(n), 4).astray = On(n).astray
        BY <1>1, PageFields
    <2>2. CASE op \in {"start", "resume"} /\ q = startPolling(On(n), "exec")
        BY <1>1, <2>2, PageFields
    <2>3. CASE op = "applyStart" /\ q = startPolling(toStep(On(n), 4), "exec")
        BY <2>1, <2>3, PageFields
    <2> QED
        BY <2>2, <2>3
<1>3. ASSUME Way(On(n), H), op \in H, NEW G \in SUBSET Ops, G \cap Others = {}, G \cap Ticking \subseteq H
      PROVE  Way(q, G)
    <2>1. \/ H \cap {"loadRun", "start", "resume"} # {} /\ q.step = On(n).step
          \/ "applyStart" \in H /\ q.step = 4
        BY <1>2, <1>3
    <2> QED
        BY <1>1, <1>2, <1>3, <2>1, RunStarts
<1>4. Calm(q) => Calm(On(n))
    BY <1>2 DEF Calm
<1>5. op \notin Ticking
    BY <1>2 DEF Ticking
<1> QED
    BY <1>3, <1>4, <1>5, ChainStep, OneIsFew, NextOf DEF H

\* runPrecheck and applyConflicts.
LEMMA PrecheckBackOrderly ==
    ASSUME TInv, WInv, NEW n \in DOMAIN asks, PrecheckBack(n), asks[n].visit = current, current # None,
           current' = current
    PROVE  WInv'
<1> DEFINE op == asks[n].op
           p == On(n)
<1>1. p \in Page /\ p.step \in 0..5 /\ asks[n].found \in BOOLEAN
    BY OnFacts
<1>2. \A o \in {"newConflicts", "start", "applyStart"} : AtMostOne(OnPlan(n, o)) /\ Nx(OnPlan(n, o)) \subseteq {o}
    BY OnPlanIs DEF Ops
<1>3. op \in {"precheck", "newConflicts", "readyConflicts", "applyRefresh", "policies"} => op \in Starting
    BY DEF Starting
<1>a. {"newConflicts", "start", "applyStart", "policies"} \subseteq Starting
    BY DEF Starting
<1>4. CASE op = "precheck"
    <2>1. Goes(n, p, OnPlan(n, "newConflicts"))
        BY <1>4 DEF PrecheckBack, Op
    <2>2. Nx(OnPlan(n, "newConflicts")) \subseteq Starting /\ "start" \notin Nx(OnPlan(n, "newConflicts"))
        BY <1>2, <1>a
    <2> QED
        BY <1>1, <1>2, <1>3, <1>4, <2>1, <2>2, StartingGoesOn
<1>5. CASE op \in {"newConflicts", "readyConflicts"}
    <2> DEFINE c == asks[n].found
               q == toStep(listing(p, c), IF c THEN 3 ELSE 4)
               ops == IF c THEN <<>> ELSE OnPlan(n, "start")
    <2>1. Goes(n, q, ops)
        BY <1>5 DEF PrecheckBack, Op
    <2>2. listing(p, c) \in Page /\ listing(p, c).timers = p.timers /\ listing(p, c).seen = p.seen
          /\ listing(p, c).backed = p.backed /\ listing(p, c).astray = p.astray
        BY <1>1, PageFields
    <2>3. q.step = (IF c THEN 3 ELSE 4) /\ q.timers = p.timers /\ q.seen = p.seen /\ q.backed = p.backed /\ q.astray = p.astray
        <3>1. (IF c THEN 3 ELSE 4) \in 0..5
            OBVIOUS
        <3> QED
            BY <2>2, <3>1, PageFields
    <2>4. AtMostOne(ops) /\ Nx(ops) \subseteq {"start"}
        BY <1>2, OneIsFew, NextOf
    <2>5. "start" \in Nx(ops) => q.step = 4
        BY <2>3, NextOf
    <2> HIDE DEF q, ops
    <2>6. q.step \in 0..5
        BY <2>3
    <2>7. Nx(ops) \subseteq Starting
        BY <1>a, <2>4
    <2>8. Calm(q) => Calm(p) /\ (isRunning(q) => isRunning(p))
        BY <2>3 DEF Calm, isRunning
    <2> QED
        BY <1>3, <1>5, <2>1, <2>3, <2>4, <2>5, <2>6, <2>7, <2>8, StartingGoesOn
<1>6. CASE op = "start"
    <2>1. Goes(n, startPolling(p, "exec"), <<>>)
        BY <1>6 DEF PrecheckBack, Op
    <2> QED
        BY <1>6, <2>1, RunStartsOrderly
<1>7. CASE op = "applyRefresh"
    <2> DEFINE r == refreshPlan(n)
               b == r.astray \/ isRunning(r)
               q == [r EXCEPT !.astray = b]
               ops == IF q.seen = None THEN <<>> ELSE IF q.listed THEN <<"policies">> ELSE <<"applyStart">>
    <2>1. Goes(n, q, ops)
        BY <1>7 DEF PrecheckBack, Op
    <2>2. r \in Page /\ r.step = p.step /\ r.timers = p.timers /\ r.backed = p.backed /\ r.astray = p.astray
        BY <1>7, OnFacts DEF TellsPlan
    <2> HIDE DEF r, b
    <2>3. q.step = p.step /\ q.timers = p.timers /\ q.backed = p.backed /\ q.astray = b /\ q.seen = r.seen
        BY <2>2 DEF Page
    <2>4. AtMostOne(ops) /\ Nx(ops) \subseteq {"policies", "applyStart"}
        BY OneIsFew, NextOf
    <2> HIDE DEF q, ops
    <2>5. Calm(q) => Calm(p) /\ (isRunning(q) => isRunning(p))
        BY <2>2, <2>3 DEF Calm, b, isRunning
    <2>6. Nx(ops) \subseteq Starting /\ "start" \notin Nx(ops)
        BY <1>a, <2>4
    <2> QED
        BY <1>1, <1>3, <1>7, <2>1, <2>3, <2>4, <2>5, <2>6, StartingGoesOn
<1>8. CASE op = "policies"
    <2>1. Goes(n, p, OnPlan(n, "applyStart"))
        BY <1>8 DEF PrecheckBack, Op
    <2>2. Nx(OnPlan(n, "applyStart")) \subseteq Starting /\ "start" \notin Nx(OnPlan(n, "applyStart"))
        BY <1>2, <1>a
    <2> QED
        BY <1>1, <1>2, <1>3, <1>8, <2>1, <2>2, StartingGoesOn
<1>9. CASE op = "applyStart"
    <2>1. Goes(n, startPolling(toStep(p, 4), "exec"), <<>>)
        BY <1>9 DEF PrecheckBack, Op
    <2> QED
        BY <1>9, <2>1, RunStartsOrderly
<1> QED
    BY <1>4, <1>5, <1>6, <1>7, <1>8, <1>9 DEF PrecheckBack, Op

\* pausePlan, resumePlan, cancelPlan and the ticks of the run.
LEMMA ExecBackOrderly ==
    ASSUME TInv, WInv, NEW n \in DOMAIN asks, ExecBack(n), asks[n].visit = current, current # None,
           current' = current
    PROVE  WInv'
<1> DEFINE H == Pending(current)
           op == asks[n].op
           p == On(n)
<1>1. p \in Page /\ p.step \in 0..5 /\ H \in SUBSET Ops
    BY OnFacts DEF Pending
<1>2. LET r == refreshPlan(n) IN
         r.step = p.step /\ r.timers = p.timers /\ r.backed = p.backed /\ r.astray = p.astray
         /\ (op \in TellsPlan => r \in Page)
    BY OnFacts
<1> HIDE DEF H
<1>3. CASE op = "pause"
    <2>1. Goes(n, p, OnPlan(n, "refresh"))
        BY <1>3 DEF ExecBack, Op
    <2>2. AtMostOne(OnPlan(n, "refresh")) /\ Nx(OnPlan(n, "refresh")) \subseteq {"refresh"}
        BY OnPlanIs DEF Ops
    <2>3. ASSUME Way(p, H), op \in H, NEW G \in SUBSET Ops, G \cap Others = Nx(OnPlan(n, "refresh")), G \cap Ticking \subseteq H
          PROVE  Way(p, G)
        BY <1>1, <1>3, <2>2, <2>3, PauseGoesOn
    <2> QED
        BY <1>3, <2>1, <2>2, <2>3, ChainStep DEF H, Ticking
<1>4. CASE op = "refresh"
    <2> DEFINE q == refreshPlan(n)
    <2>1. Goes(n, q, <<>>)
        BY <1>4 DEF ExecBack, Op
    <2> HIDE DEF q
    <2>2. q.step = p.step /\ q.timers = p.timers /\ q.backed = p.backed /\ q.astray = p.astray
        BY <1>2 DEF q
    <2>3. ASSUME Way(p, H), op \in H, NEW G \in SUBSET Ops, G \cap Others = {}, G \cap Ticking \subseteq H
          PROVE  Way(q, G)
        BY <1>1, <1>4, <2>2, <2>3, Refreshed
    <2>4. Calm(q) => Calm(p)
        BY <2>2 DEF Calm
    <2> QED
        BY <1>4, <2>1, <2>3, <2>4, ChainStep, OneIsFew, NextOf DEF H, Ticking
<1>5. CASE op = "resume"
    <2>1. Goes(n, startPolling(p, "exec"), <<>>)
        BY <1>5 DEF ExecBack, Op
    <2> QED
        BY <1>5, <2>1, RunStartsOrderly
<1>6. CASE op = "cancel"
    <2> DEFINE r == stopPolling(p, "exec")
    <2>1. IF r.seen = None THEN Goes(n, toStep(r, 5), <<>>) ELSE Goes(n, r, <<"cancelRefresh">>)
        BY <1>6 DEF ExecBack, Op
    <2>2. r \in Page /\ r.step = p.step /\ r.timers = p.timers \ {"exec"} /\ r.backed = p.backed /\ r.astray = p.astray
        BY <1>1, PageFields
    <2> HIDE DEF r
    <2>3. CASE Goes(n, toStep(r, 5), <<>>)
        <3> DEFINE q == toStep(r, 5)
        <3>1. q.step = 5 /\ q.timers = p.timers \ {"exec"} /\ q.backed = p.backed /\ q.astray = p.astray
            BY <2>2, PageFields
        <3>2. Goes(n, q, <<>>)
            BY <2>3
        <3> HIDE DEF q
        <3>3. ASSUME Way(p, H), op \in H, NEW G \in SUBSET Ops, G \cap Others = {}, G \cap Ticking \subseteq H
              PROVE  Way(q, G)
            BY <1>1, <1>6, <3>1, <3>3, Cancelled
        <3>4. Calm(q) => Calm(p)
            BY <3>1 DEF Calm
        <3> QED
            BY <1>6, <3>2, <3>3, <3>4, ChainStep, OneIsFew, NextOf DEF H, Ticking
    <2>4. CASE Goes(n, r, <<"cancelRefresh">>)
        <3>3. ASSUME Way(p, H), op \in H, NEW G \in SUBSET Ops, G \cap Others = {"cancelRefresh"}, G \cap Ticking \subseteq H
              PROVE  Way(r, G)
            BY <1>1, <1>6, <2>2, <3>3, Cancelled
        <3>4. Calm(r) => Calm(p)
            BY <2>2 DEF Calm
        <3> QED
            BY <1>6, <2>4, <3>3, <3>4, ChainStep, OneIsFew, NextOf DEF H, Ticking
    <2> QED
        BY <2>1, <2>3, <2>4
<1>7. CASE op = "cancelRefresh"
    <2> DEFINE q == toStep(refreshPlan(n), 5)
    <2>1. Goes(n, q, <<>>)
        BY <1>7 DEF ExecBack, Op
    <2>2. q.step = 5 /\ q.timers = p.timers /\ q.backed = p.backed /\ q.astray = p.astray
        BY <1>2, <1>7, PageFields DEF TellsPlan
    <2> HIDE DEF q
    <2>3. ASSUME Way(p, H), op \in H, NEW G \in SUBSET Ops, G \cap Others = {}, G \cap Ticking \subseteq H
          PROVE  Way(q, G)
        BY <1>1, <1>7, <2>2, <2>3, ResultShown
    <2>4. Calm(q) => Calm(p)
        BY <2>2 DEF Calm
    <2> QED
        BY <1>7, <2>1, <2>3, <2>4, ChainStep, OneIsFew, NextOf DEF H, Ticking
<1>8. CASE op = "exec"
    <2> DEFINE q == refreshPlan(n)
               ops == IF q.seen = None THEN <<>> ELSE <<"execData">>
    <2>1. Goes(n, q, ops)
        BY <1>8 DEF ExecBack, Op
    <2>2. q.step = p.step /\ q.timers = p.timers /\ q.backed = p.backed /\ q.astray = p.astray
        BY <1>2
    <2>3. AtMostOne(ops) /\ Nx(ops) \subseteq {"execData"}
        BY OneIsFew, NextOf
    <2> HIDE DEF q, ops
    <2>4. ASSUME Way(p, H), op \in H, NEW G \in SUBSET Ops, G \cap Others = H \cap Others,
                 G \cap Ticking \subseteq H \cup Nx(ops)
          PROVE  Way(q, G)
        BY <1>1, <1>8, <2>2, <2>3, <2>4, TickRead
    <2>5. Calm(q) => Calm(p)
        BY <2>2 DEF Calm
    <2>6. Nx(ops) \subseteq Ticking /\ op \in Ticking /\ Nx(ops) \cap ScanTicks = {}
        BY <1>8, <2>3 DEF Ticking, ScanTicks
    <2> QED
        BY <2>1, <2>3, <2>4, <2>5, <2>6, TickStep DEF H
<1>9. CASE op = "execData"
    <2> DEFINE r == stopPolling(p, "exec")
               q == IF SeenOver(p) THEN toStep(r, 5) ELSE p
    <2>1. Goes(n, q, <<>>)
        BY <1>9 DEF ExecBack, Op
    <2>2. r \in Page /\ r.timers \subseteq p.timers /\ r.backed = p.backed /\ r.astray = p.astray
        BY <1>1, PageFields
    <2>3. ASSUME SeenOver(p)
          PROVE  q.step = 5 /\ q.timers \subseteq p.timers /\ q.backed = p.backed /\ q.astray = p.astray
        BY <2>2, <2>3, PageFields
    <2>4. ~SeenOver(p) => q = p
        OBVIOUS
    <2> HIDE DEF q
    <2>5. ASSUME Way(p, H), op \in H, NEW G \in SUBSET Ops, G \cap Others = H \cap Others, G \cap Ticking \subseteq H
          PROVE  Way(q, G)
        <3>1. CASE SeenOver(p)
            BY <1>1, <1>9, <2>3, <2>5, <3>1, ResultShown
        <3>2. CASE ~SeenOver(p)
            BY <1>1, <2>4, <2>5, <3>2, TickEnds
        <3> QED
            BY <3>1, <3>2
    <2>6. Calm(q) => Calm(p)
        BY <2>3, <2>4 DEF Calm
    <2>7. op \in Ticking
        BY <1>9 DEF Ticking
    <2> QED
        BY <2>1, <2>5, <2>6, <2>7, TickStep, OneIsFew, NextOf DEF H
<1> QED
    BY <1>3, <1>4, <1>5, <1>6, <1>7, <1>8, <1>9 DEF ExecBack, Op

\* A handler that only shows a message.
LEMMA FailsOrderly ==
    ASSUME TInv, WInv, NEW n \in DOMAIN asks, Fails(n), asks[n].visit = current, current # None,
           current' = current
    PROVE  WInv'
<1> DEFINE H == Pending(current)
           op == asks[n].op
           p == On(n)
<1>1. p \in Page /\ p.step \in 0..5 /\ H \in SUBSET Ops
    BY OnFacts DEF Pending
<1> HIDE DEF H
<1>2. Goes(n, p, <<>>) /\ op \notin {"loadRun", "cancelRefresh"} \cup Ticking
    BY DEF Fails, Op, Ticking
<1>3. ASSUME Way(p, H), op \in H, H \cap Others = {op},
             NEW G \in SUBSET Ops, G \cap Others = {}, G \cap Ticking \subseteq H
      PROVE  Way(p, G)
    <2>1. H \cap {"loadRun", "cancelRefresh"} = {}
        BY <1>2, <1>3 DEF Others, Ops, Ticking
    <2> QED
        BY <1>1, <1>3, <2>1, HandlerEnds
<1> QED
    BY <1>2, <1>3, ChainStep, OneIsFew, NextOf DEF H

\* A handler that goes on keeps the page in order.
LEMMA BackOrderly ==
    ASSUME TInv, WInv, NEW n \in DOMAIN asks, Back(n)
    PROVE  WInv'
<1>1. current' = current
    BY DEF Back
<1>2. CASE asks[n].visit # current
    BY <1>2, OldBackOrderly
<1>3. CASE asks[n].visit = current
    <2>1. current # None
        BY <1>3, AskFacts, WizardAssumption DEF TInv
    <2> QED
        BY <1>1, <1>3, <2>1, RecentBackOrderly, ScanBackOrderly, PrecheckBackOrderly, ExecBackOrderly, FailsOrderly DEF Back
<1> QED
    BY <1>2, <1>3

------------------------------------------------------------------------------
\* A click that asks for something when no handler is waiting.
LEMMA ClickAsks ==
    ASSUME NEW p, NEW q, NEW H \in SUBSET Ops, NEW G \in SUBSET Ops, NEW e \in Ops, p.step \in 0..5, Way(p, H),
           H \cap Others = {}, G = H \cup {e},
           q.step = p.step, q.seen = p.seen, q.timers = p.timers, p.timers \subseteq {"scan", "exec"},
           \/ e = "createPlan" /\ p.step = 1
           \/ e = "rescan" /\ p.step = 2
           \/ e = "precheck" /\ p.step = 2 /\ "scan" \notin p.timers
           \/ e = "applyRefresh" /\ p.step = 3 /\ "scan" \notin p.timers
           \/ e \in {"resume", "cancel"} /\ p.step = 4
           \/ e = "pause" /\ p.step = 4 /\ isRunning(p)
    PROVE  Way(q, G)
<1>1. \A o \in Ops : o \in G => o \in Ticking \/ o = e
    BY DEF Others
<1>2. CASE e \in {"createPlan", "rescan"}
    BY <1>1, <1>2 DEF Way, Idle, isRunning, Others, Ticking, ExecTicks, ScanTicks, Scanning, Starting, Steering
<1>3. CASE e \in {"precheck", "applyRefresh"}
    <2>1. Idle(p, H)
        BY <1>3 DEF Way, Idle, isRunning, Others, Ticking, ExecTicks, ScanTicks, Scanning, Starting, Steering
    <2>2. Idle(q, G)
        BY <1>3, <2>1 DEF Idle, isRunning, Ticking
    <2> QED
        BY <1>1, <1>3, <2>2, IdleWay DEF Ticking, Scanning, Steering
<1>4. CASE e \in {"resume", "cancel", "pause"}
    <2>1. Idle(p, H) => Idle(q, G)
        BY <1>4 DEF Idle, isRunning, Ticking
    <2>2. p.step = 4 /\ (Idle(p, H) \/ "exec" \in p.timers)
        BY <1>4 DEF Way, Others, Ops, Ticking
    <2> QED
        BY <1>1, <1>4, <2>1, <2>2 DEF Way, Idle, isRunning, Others, Ticking, ExecTicks, ScanTicks, Scanning, Starting, Steering
<1> QED
    BY <1>2, <1>3, <1>4

\* A walk along the first steps.
LEMMA ClickWalks ==
    ASSUME NEW p, NEW q, NEW H \in SUBSET Ops, Way(p, H), p.step \in 0..5,
           q.seen = p.seen, q.timers = p.timers,
           \/ p.step \in 1..3 /\ q.step = p.step - 1
           \/ p.step = 0 /\ q.step = 1
    PROVE  Way(q, H)
<1>1. q.step \in 0..2 /\ p.step \in 0..3 /\ (q.step = 2 => p.step = 3) /\ (p.step <= 2 => q.step <= 1)
    OBVIOUS
<1>2. H \cap {"loadRun", "start"} = {}
    BY <1>1 DEF Way
<1>3. "exec" \notin q.timers /\ H \cap (ExecTicks \cup Steering) = {} /\ (isRunning(q) => "scan" \in q.timers)
    BY <1>1 DEF Way, isRunning
<1>4. Idle(p, H) => Idle(q, H)
    BY DEF Idle, isRunning
<1>5. q.step <= 2 /\ ~(q.step >= 4) /\ q.step # 4
    BY <1>1
<1>6. "listPlans" \in H => q.step <= 1
    BY <1>1 DEF Way
<1> QED
    BY <1>2, <1>3, <1>4, <1>5, <1>6 DEF Way

\* The page after a click.
Clicked(p, e, b) == [Moved(p, e) EXCEPT !.astray = @ \/ b]

\* What a click does to the page, and what it takes for it to stay calm.
LEMMA ClickPage ==
    ASSUME NEW p \in Page, NEW e, NEW b \in BOOLEAN, NEW q, q = Clicked(p, e, b),
           e \in SetupOffers(p) \cup RunOffers(p), Calm(q)
    PROVE  /\ ~b /\ (e # "resetWizard" => Calm(p))
           /\ e # "resetWizard" => q.seen = p.seen /\ q.timers = p.timers
           /\ e \notin {"prevStep", "nextStep", "resetWizard"} => q.step = p.step
           /\ e = "prevStep" => p.step \in 1..3 /\ q.step = p.step - 1
           /\ e = "nextStep" => p.step = 0 /\ q.step = 1
           /\ e = "resetWizard" => q.step = 0 /\ q.seen = None /\ q.timers = {}
           /\ e = "createPlan" => p.step = 1
           /\ e \in {"rescan", "precheck"} => p.step = 2
           /\ e = "applyRefresh" => p.step = 3
           /\ e \in {"resume", "cancel", "pause"} => p.step = 4
           /\ e = "pause" => isRunning(p)
           /\ e \in {"prevStep", "nextStep", "resetWizard", "createPlan", "rescan", "precheck", "applyRefresh",
                     "resume", "cancel", "pause"}
<1> DEFINE b1 == p.backed \/ p.step = 5
           a1 == p.astray \/ b
<1>1. p.step \in 0..5 /\ p.backed \in BOOLEAN /\ p.astray \in BOOLEAN /\ b1 \in BOOLEAN /\ a1 \in BOOLEAN
    BY DEF Page
<1>2. /\ e \in {"prevStep", "nextStep", "resetWizard", "createPlan", "rescan", "precheck", "applyRefresh",
                     "resume", "cancel", "pause"}
      /\ e = "prevStep" => p.step \in {1, 2, 3, 5}
      /\ e = "nextStep" => p.step = 0
      /\ e = "createPlan" => p.step = 1
      /\ e \in {"rescan", "precheck"} => p.step = 2
      /\ e = "applyRefresh" => p.step = 3
      /\ e \in {"resume", "cancel", "pause"} => p.step = 4
      /\ e = "pause" => isRunning(p)
    BY <1>1 DEF SetupOffers, RunOffers
<1>3. CASE e = "prevStep"
    <2>1. Moved(p, e) = [p EXCEPT !.step = p.step - 1, !.backed = b1]
        BY <1>3 DEF Moved
    <2> HIDE DEF b1
    <2>2. q = [p EXCEPT !.step = p.step - 1, !.backed = b1, !.astray = a1]
        BY <2>1 DEF Page, Clicked
    <2> HIDE DEF a1
    <2>3. q.backed = b1 /\ q.astray = a1 /\ q.step = p.step - 1 /\ q.seen = p.seen /\ q.timers = p.timers
        BY <2>2 DEF Page
    <2>4. ~b1 /\ ~a1
        BY <2>3 DEF Calm
    <2> QED
        BY <1>1, <1>2, <1>3, <2>3, <2>4 DEF Calm, a1, b1
<1>4. CASE e = "nextStep"
    <2>1. Moved(p, e) = [p EXCEPT !.step = p.step + 1]
        BY <1>4 DEF Moved
    <2>2. q = [p EXCEPT !.step = p.step + 1, !.astray = a1]
        BY <2>1 DEF Page, Clicked
    <2> HIDE DEF a1
    <2>3. q.backed = p.backed /\ q.astray = a1 /\ q.step = p.step + 1 /\ q.seen = p.seen /\ q.timers = p.timers
        BY <2>2 DEF Page
    <2> QED
        BY <1>1, <1>2, <1>4, <2>3 DEF Calm, a1
<1>5. CASE e = "resetWizard"
    <2>1. Moved(p, e) = [Fresh EXCEPT !.astray = p.astray]
        BY <1>5 DEF Moved
    <2>2. q = [Fresh EXCEPT !.astray = a1]
        BY <2>1 DEF Fresh, Clicked
    <2> HIDE DEF a1
    <2>3. q.astray = a1 /\ q.step = 0 /\ q.seen = None /\ q.timers = {}
        BY <2>2 DEF Fresh
    <2> QED
        BY <1>1, <1>2, <1>5, <2>3 DEF Calm, a1
<1>6. CASE e \notin {"prevStep", "nextStep", "resetWizard"}
    <2>1. Moved(p, e) = p
        BY <1>6 DEF Moved
    <2>2. q = [p EXCEPT !.astray = a1]
        BY <2>1 DEF Page, Clicked
    <2> HIDE DEF a1
    <2>3. q.backed = p.backed /\ q.astray = a1 /\ q.step = p.step /\ q.seen = p.seen /\ q.timers = p.timers
        BY <2>2 DEF Page
    <2> QED
        BY <1>1, <1>2, <1>6, <2>3 DEF Calm, a1
<1> QED
    BY <1>3, <1>4, <1>5, <1>6

\* A click keeps the page in order, or puts it out of the reach of the
\* property.
LEMMA ClickOrderly ==
    ASSUME TInv, WInv, Click
    PROVE  WInv'
<1> DEFINE v == current
           p == pages[v]
           H == Pending(v)
<1>1. v # None /\ current' = v /\ v \in Visits /\ p \in Page /\ asks \in Seq(Request) /\ H \in SUBSET Ops
    BY WizardAssumption DEF Click, TInv, WizardTypeOK, Pending
<1>2. PICK e \in SetupOffers(p) \cup RunOffers(p) :
         /\ pages' = [pages EXCEPT ![v] = [Moved(p, e) EXCEPT !.astray = @ \/ Astray(v, e)]]
         /\ IF e \in {"prevStep", "nextStep", "resetWizard"}
            THEN UNCHANGED <<asks, clicks>>
            ELSE asks' = asks \o Asked(v, <<e>>)
    BY DEF Click
<1> DEFINE q == pages'[v]
<1>3. q = [Moved(p, e) EXCEPT !.astray = @ \/ Astray(v, e)]
    BY <1>1, <1>2 DEF TInv, WizardTypeOK
<1>4. SUFFICES ASSUME Calm(q) PROVE Orderly(v)'
    BY <1>1 DEF WInv, Calm
<1> DEFINE b == Astray(v, e)
<1>5. b \in BOOLEAN
    BY DEF Astray, Waits, Busy
<1>6. /\ ~b /\ (e # "resetWizard" => Calm(p))
      /\ e # "resetWizard" => q.seen = p.seen /\ q.timers = p.timers
      /\ e \notin {"prevStep", "nextStep", "resetWizard"} => q.step = p.step
      /\ e = "prevStep" => p.step \in 1..3 /\ q.step = p.step - 1
      /\ e = "nextStep" => p.step = 0 /\ q.step = 1
      /\ e = "resetWizard" => q.step = 0 /\ q.seen = None /\ q.timers = {}
      /\ e = "createPlan" => p.step = 1
      /\ e \in {"rescan", "precheck"} => p.step = 2
      /\ e = "applyRefresh" => p.step = 3
      /\ e \in {"resume", "cancel", "pause"} => p.step = 4
      /\ e = "pause" => isRunning(p)
      /\ e \in {"prevStep", "nextStep", "resetWizard", "createPlan", "rescan", "precheck", "applyRefresh",
                "resume", "cancel", "pause"}
    <2>1. q = Clicked(p, e, b)
        BY <1>3 DEF Clicked
    <2> HIDE DEF b, q, p
    <2> QED
        BY <1>1, <1>4, <1>5, <2>1, ClickPage
<1>7. e # "resetWizard" => AtMost1(v, Others) /\ AtMost1(v, ScanTicks) /\ Way(p, H)
    BY <1>1, <1>6 DEF WInv, Orderly
<1>8. p.step \in 0..5 /\ p.timers \subseteq {"scan", "exec"}
    BY <1>1 DEF Page
<1>9. pages' # pages => pages'[v] = q
    OBVIOUS
<1> HIDE DEF q, p
<1>10. CASE e \in {"prevStep", "nextStep"}
    <2>1. asks' = asks /\ H' = H
        BY <1>1, <1>2, <1>10 DEF Pending
    <2>2. Way(q, H)
        BY <1>1, <1>6, <1>7, <1>8, <1>10, ClickWalks DEF H
    <2>3. AtMost1(v, Others)' /\ AtMost1(v, ScanTicks)'
        BY <1>1, <1>7, <1>10, <2>1 DEF AtMost1
    <2> QED
        BY <1>1, <2>1, <2>2, <2>3 DEF Orderly, Way, Idle, isRunning, q
<1>11. CASE e = "resetWizard"
    <2>1. ~Waits(v)
        BY <1>6, <1>11 DEF Astray
    <2>2. asks' = asks /\ H' = H /\ H = {}
        BY <1>1, <1>2, <1>11, <2>1 DEF Pending, Waits
    <2>3. AtMost1(v, Others)' /\ AtMost1(v, ScanTicks)'
        BY <1>1, <2>1, <2>2 DEF AtMost1, Waits
    <2>4. Way(q, {})
        BY <1>6, <1>11 DEF Way, Idle, isRunning
    <2> QED
        BY <1>1, <2>2, <2>3, <2>4 DEF Orderly, Way, Idle, isRunning, q
<1>12. CASE e \notin {"prevStep", "nextStep", "resetWizard"}
    <2>1. ~Busy(v) /\ (e \in {"precheck", "applyRefresh"} => "scan" \notin p.timers)
        BY <1>6, <1>12 DEF Astray, p
    <2>2. H \cap Others = {}
        BY <2>1 DEF Pending, Busy, Others
    <2>3. e \in Ops /\ e \in Others /\ asks' = asks \o Asked(v, <<e>>)
        BY <1>2, <1>6, <1>12 DEF Ops, Others, Ticking
    <2>4. H' = H \cup {e}
        BY <1>1, <2>3, PendingSent
    <2>5. AtMost1(v, Others)' /\ AtMost1(v, ScanTicks)'
        <3>1. Others \subseteq Ops /\ ScanTicks \subseteq Ops /\ e \notin ScanTicks
            BY <2>3 DEF Others, Ops, ScanTicks, Ticking
        <3> QED
            BY <1>1, <1>7, <1>12, <2>2, <2>3, <3>1, PendingSent
    <2>6. Way(p, H) /\ Calm(p) /\ q.step = p.step /\ q.seen = p.seen /\ q.timers = p.timers
        BY <1>6, <1>7, <1>12
    <2> DEFINE G == H \cup {e}
    <2>7. G \in SUBSET Ops
        BY <1>1, <2>3
    <2>8. \/ e = "createPlan" /\ p.step = 1
          \/ e = "rescan" /\ p.step = 2
          \/ e = "precheck" /\ p.step = 2 /\ "scan" \notin p.timers
          \/ e = "applyRefresh" /\ p.step = 3 /\ "scan" \notin p.timers
          \/ e \in {"resume", "cancel"} /\ p.step = 4
          \/ e = "pause" /\ p.step = 4 /\ isRunning(p)
        BY <1>6, <1>12, <2>1
    <2>9. Way(q, G)
        <3> HIDE DEF H
        <3> QED
            BY <1>1, <1>8, <2>2, <2>3, <2>6, <2>7, <2>8, ClickAsks
    <2> QED
        BY <1>1, <2>4, <2>5, <2>9 DEF Orderly, Way, Idle, isRunning, q
<1> QED
    BY <1>10, <1>11, <1>12

\* A tick of an interval, on the page that is open or on one that is gone.
LEMMA TickOrderly ==
    ASSUME TInv, WInv, NEW v \in Visits, pages[v] # None, NEW t \in {"scan", "exec"}, Tick(v, t)
    PROVE  WInv'
<1>1. /\ t \in pages[v].timers /\ asks' = asks \o Asked(v, <<t>>) /\ pages' = pages /\ current' = current
      /\ \A n \in DOMAIN asks : asks[n].visit # v \/ asks[n].op \notin TickOps[t]
    BY DEF Tick
<1>2. asks \in Seq(Request) /\ t \in Ops /\ pages[v] \in Page /\ v # None
    BY WizardAssumption DEF Ops, TInv, WizardTypeOK
<1>3. SUFFICES ASSUME current # None, Calm(pages[current]) PROVE Orderly(current)'
    BY <1>1 DEF WInv, Calm
<1>4. Orderly(current)
    BY <1>3 DEF WInv
<1>a. Others \subseteq Ops /\ ScanTicks \subseteq Ops /\ t \notin Others
    BY DEF Others, Ops, ScanTicks, Ticking
<1>5. CASE v = current
    <2> DEFINE p == pages[v]
               H == Pending(v)
               G == Pending(v) \cup {t}
    <2>1. Pending(v)' = G
        BY <1>1, <1>2, PendingSent
    <2>2. t \in ScanTicks => Pending(v) \cap ScanTicks = {}
        BY <1>1 DEF TickOps, ScanTicks, Pending
    <2>3. AtMost1(v, Others)' /\ AtMost1(v, ScanTicks)'
        BY <1>1, <1>2, <1>4, <1>5, <1>a, <2>2, PendingSent DEF Orderly
    <2>4. Way(p, H) /\ H \in SUBSET Ops /\ p.step \in 0..5
        BY <1>2, <1>4, <1>5 DEF Orderly, Pending, Page
    <2>5. Way(p, G)
        <3>0. t \in p.timers
            BY <1>1
        <3> HIDE DEF H, p
        <3>1. H \cup {t} = G
            BY DEF H
        <3>2. Way(p, H \cup {t})
            BY <2>4, <3>0 DEF Way, Idle, isRunning, Others, Ticking, ExecTicks, ScanTicks, Scanning, Starting, Steering
        <3> QED
            BY <3>1, <3>2
    <2> QED
        BY <1>1, <1>5, <2>1, <2>3, <2>5 DEF Orderly, Way, Idle, isRunning
<1>6. CASE v # current
    <2>1. Ask(t, v).visit = v
        BY DEF Ask
    <2>2. /\ \A m \in DOMAIN asks' : \/ m \in DOMAIN asks /\ asks'[m] = asks[m]
                                     \/ asks'[m].visit = v
          /\ \A m \in DOMAIN asks : m \in DOMAIN asks' /\ asks'[m] = asks[m]
        BY <1>1, <1>2, <2>1, Sent
    <2>3. Pending(current)' = Pending(current)
        BY <1>1, <1>6, <2>2 DEF Pending
    <2>4. ASSUME NEW C, AtMost1(current, C) PROVE AtMost1(current, C)'
        <3>1. \A m \in DOMAIN asks' : asks'[m].visit = current => m \in DOMAIN asks /\ asks'[m] = asks[m]
            BY <1>6, <2>2
        <3> QED
            BY <1>1, <2>4, <3>1 DEF AtMost1
    <2> QED
        BY <1>1, <1>4, <2>3, <2>4 DEF Orderly, Way, Idle, isRunning
<1> QED
    BY <1>5, <1>6

\* A page that was just opened waits for its list of plans.
LEMMA MountOrderly ==
    ASSUME TInv, WInv, Mount
    PROVE  WInv'
<1>1. PICK v \in Visits : /\ pages[v] = None /\ pages' = [pages EXCEPT ![v] = Fresh]
                          /\ current' = v /\ asks' = asks \o Asked(v, <<"listPlans">>)
    BY DEF Mount
<1>2. asks \in Seq(Request) /\ pages'[v] = Fresh /\ "listPlans" \in Ops
    BY <1>1 DEF Ops, TInv, WizardTypeOK
<1>3. \A n \in DOMAIN asks : asks[n].visit # v
    BY <1>1 DEF TInv, Known
<1>4. Pending(v)' = {"listPlans"}
    <2>1. Pending(v) = {}
        BY <1>3 DEF Pending
    <2> QED
        BY <1>1, <1>2, <2>1, PendingSent
<1>5. AtMost1(v, Others)' /\ AtMost1(v, ScanTicks)'
    <2>1. AtMost1(v, Others) /\ AtMost1(v, ScanTicks) /\ Pending(v) = {}
        BY <1>3 DEF AtMost1, Pending
    <2>2. Others \subseteq Ops /\ ScanTicks \subseteq Ops
        BY DEF Others, Ops, ScanTicks
    <2> QED
        BY <1>1, <1>2, <2>1, <2>2, PendingSent
<1>6. Way(Fresh, {"listPlans"})
    BY DEF Way, Idle, isRunning, Fresh, Others, Ticking, ExecTicks, ScanTicks, Scanning, Starting, Steering
<1> QED
    BY <1>1, <1>2, <1>4, <1>5, <1>6 DEF WInv, Orderly, Way, Idle, isRunning

\* Answers change no page and no request that is pending.
LEMMA AnswersOrderly ==
    ASSUME TInv, WInv, NEW n \in DOMAIN asks, Held(n) \/ Served(n) \/ Refused(n)
    PROVE  WInv'
<1>1. asks \in Seq(Request) /\ pages' = pages /\ current' = current
    BY DEF TInv, WizardTypeOK, Held, Served, Refused
<1>2. DOMAIN asks' = DOMAIN asks
      /\ \A m \in DOMAIN asks : asks'[m].op = asks[m].op /\ asks'[m].visit = asks[m].visit
    <2>1. asks[n] \in Request
        BY AskFacts DEF TInv
    <2>2. ASSUME NEW s, asks' = [asks EXCEPT ![n].st = s]
          PROVE  /\ DOMAIN asks' = DOMAIN asks
                 /\ \A m \in DOMAIN asks : asks'[m].op = asks[m].op /\ asks'[m].visit = asks[m].visit
        BY <2>1, <2>2 DEF Request
    <2>3. ASSUME NEW c, asks' = [asks EXCEPT ![n].st = "ok", ![n].found = c, ![n].reply = Tells(asks[n].op)]
          PROVE  /\ DOMAIN asks' = DOMAIN asks
                 /\ \A m \in DOMAIN asks : asks'[m].op = asks[m].op /\ asks'[m].visit = asks[m].visit
        BY <2>1, <2>3 DEF Request
    <2> QED
        BY <2>2, <2>3 DEF Held, Served, Answered, Refused
<1>3. \A v, C : Pending(v)' = Pending(v) /\ (AtMost1(v, C) => AtMost1(v, C)')
    BY <1>2, PendingSame
<1> QED
    BY <1>1, <1>3 DEF WInv, Orderly, Way, Idle, isRunning, Calm

\* Every step keeps the page in order.
LEMMA WInvKept ==
    ASSUME TInv, WInv, [Next]_vars
    PROVE  WInv'
<1>1. ASSUME UNCHANGED <<pages, current, asks>> PROVE WInv'
    BY <1>1 DEF WInv, Orderly, Way, Idle, isRunning, Calm, Pending, AtMost1
<1>2. CASE UNCHANGED vars
    BY <1>1, <1>2 DEF vars, pageVars
<1>3. CASE Background /\ UNCHANGED pageVars
    BY <1>1, <1>3 DEF pageVars
<1>4. CASE Failures /\ UNCHANGED <<pages, current, asks, clicks>>
    BY <1>1, <1>4
<1>5. CASE Click
    BY <1>5, ClickOrderly
<1>6. CASE Ticks
    BY <1>6, TickOrderly DEF Ticks
<1>7. CASE Mount
    BY <1>7, MountOrderly
<1>8. CASE Unmount
    BY <1>8 DEF Unmount, WInv
<1>9. CASE Elsewhere
    BY <1>1, <1>9 DEF Elsewhere
<1>10. CASE Answers
    BY <1>10, AnswersOrderly DEF Answers
<1>11. CASE Handlers
    BY <1>11, BackOrderly DEF Handlers
<1> QED
    BY <1>2, <1>3, <1>4, <1>5, <1>6, <1>7, <1>8, <1>9, <1>10, <1>11 DEF Next

------------------------------------------------------------------------------
\* The wizard starts with a service that starts, and no page.
LEMMA WizardStarts == Init => TypeOK /\ WizardTypeOK /\ Known /\ WInv
<1> SUFFICES ASSUME Init PROVE TypeOK /\ WizardTypeOK /\ Known /\ WInv
    OBVIOUS
<1>1. TypeOK
    BY InitTypeOK DEF Init
<1>2. asks = <<>> /\ Len(asks) = 0 /\ DOMAIN asks = {} /\ asks \in Seq(Request)
    BY DEF Init
<1>3. WizardTypeOK
    BY <1>2, WizardAssumption DEF Init, WizardTypeOK
<1>4. Known /\ WInv
    BY <1>2 DEF Init, Known, WInv
<1> QED
    BY <1>1, <1>3, <1>4

\* The page, however it is used and left, does to the service what anybody may
\* do who calls its handlers: a behaviour of the two is one of the service.
THEOREM WizardOnlyRequests == Spec => ServiceSpec
<1>1. Init => ServiceInit
    BY DEF Init
<1>2. [Next]_vars => [Requests \/ Background \/ Failures]_serviceVars
    BY ServiceSteps DEF vars
<1> QED
    BY <1>1, <1>2, PTL DEF Spec, ServiceSpec

\* The plan that the wizard drives is never at work with nobody working.
THEOREM WizardWorkIsDone == Spec => []ActiveHasRunner
BY WizardOnlyRequests, WorkIsDone, PTL

\* The inductive invariant of the wizard, over that of the service.
LEMMA WizardInductive == Spec => [](TypeOK /\ WizardTypeOK /\ Known /\ WInv)
<1>1. Spec => []TypeOK
    BY WizardOnlyRequests, TypeCorrect, PTL
<1>2. TypeOK /\ TypeOK' /\ WizardTypeOK /\ Known /\ WInv /\ [Next]_vars => WizardTypeOK' /\ Known' /\ WInv'
    BY TInvKept, WInvKept DEF TInv
<1>3. Init => WizardTypeOK /\ Known /\ WInv
    BY WizardStarts
<1> QED
    BY <1>1, <1>2, <1>3, PTL DEF Spec

\* The page's refs, on every visit, and its requests keep their types: it stays
\* within its six steps, and shows a plan only if one was created.
THEOREM WizardTypeCorrect == Spec => []WizardTypeOK
BY WizardInductive, PTL

\* What keeps an eye on the plan in the running step: its interval, a request
\* of the page's own, or else there is nothing running to be seen.
LEMMA OrderlyIsWatched == TypeOK /\ WizardTypeOK /\ WInv => WatchedWhileRunning
<1> SUFFICES ASSUME WizardTypeOK, WInv, current # None,
                    pages[current].step = 4, isRunning(pages[current]),
                    ~pages[current].backed, ~pages[current].astray, "exec" \notin pages[current].timers
             PROVE  Busy(current)
    BY DEF WatchedWhileRunning
<1>1. Way(pages[current], Pending(current))
    BY DEF WInv, Orderly, Calm
<1>2. Pending(current) \cap {"cancelRefresh", "loadRun"} # {}
    BY <1>1 DEF Way, Idle
<1> QED
    BY <1>2 DEF Pending, Busy, Ticking

\* The page that shows a running plan keeps watching it, for any number of
\* visits, clicks, requests in flight, lost answers and crashes.
THEOREM RunningIsWatched == Spec => []WatchedWhileRunning
BY WizardInductive, OrderlyIsWatched, PTL
==============================================================================
