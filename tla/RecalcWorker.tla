---------------------------- MODULE RecalcWorker -----------------------------
(***************************************************************************)
(* The summary rows of ArtifactService (internal/service/                  *)
(* artifact_service.go): packages and package_versions repeat what the     *)
(* artifacts say.  SaveBatch and AttachBlob commit artifacts first and     *)
(* leave the summaries to the recalculation worker, through a bounded      *)
(* channel; Save recalculates them itself after its commit; Delete does so *)
(* inside its transaction.                                                 *)
(*                                                                         *)
(* A row is identified by its key.  Of its content only one thing is kept: *)
(* whether it shows the artifacts as they are (it is in "clean").  A       *)
(* recalculation reads and then writes in separate statements, so a commit *)
(* in between makes what it writes out of date.                            *)
(***************************************************************************)
EXTENDS Naturals, Sequences

CONSTANTS
    Packages, Versions,   \* the keys of the two tables
    PackageOf,            \* the package of a version
    Writers,              \* requests and sync tasks that save or delete
    Worker,               \* the goroutine of recalcLoop
    QueueCap,             \* capacity of recalcCh (256 in the code)
    NoKey

Keys == Packages \cup Versions
Recalculators == Writers \cup {Worker}

ASSUME RecalcAssumption ==
    /\ PackageOf \in [Versions -> Packages]
    /\ Packages \cap Versions = {}
    /\ NoKey \notin Keys
    /\ Worker \notin Writers
    /\ QueueCap \in Nat \ {0}

VARIABLES
    clean,      \* rows that show the committed artifacts
    missed,     \* rows whose recalculation was given up (history)
    pc,         \* what each writer is doing
    batch,      \* versions a SaveBatch has yet to save
    seen,       \* keys a SaveBatch or AttachBlob has yet to enqueue
    left,       \* keys a recalculation has yet to finish
    current,    \* the key it has read, or NoKey
    fresh,      \* recalculations whose rows have not changed since
    queue,      \* recalcCh
    pending,    \* the worker's merged tasks
    timer,      \* its merge window: timer and timerC
    wpc,        \* where recalcLoop is
    stopping    \* recalcStop is closed

rows == <<clean, missed>>
writer == <<pc, batch, seen>>
recalculation == <<left, current, fresh>>
loop == <<pending, timer, wpc>>
vars == <<rows, writer, recalculation, queue, loop, stopping>>

TypeOK ==
    /\ clean \in SUBSET Keys
    /\ missed \in SUBSET Keys
    /\ pc \in [Writers -> {"idle", "batch", "enqueue", "waiting", "saved", "recalc"}]
    /\ batch \in [Writers -> SUBSET Versions]
    /\ seen \in [Writers -> SUBSET Keys]
    /\ left \in [Recalculators -> SUBSET Keys]
    /\ current \in [Recalculators -> Keys \cup {NoKey}]
    /\ fresh \in SUBSET Recalculators
    /\ queue \in Seq(SUBSET Keys)
    /\ Len(queue) <= QueueCap
    /\ pending \in SUBSET Keys
    /\ timer \in {"unset", "armed", "dead"}
    /\ wpc \in {"select", "execute", "flush", "drain", "last", "done"}
    /\ stopping \in BOOLEAN

Init ==
    /\ clean = Keys
    /\ missed = {}
    /\ pc = [w \in Writers |-> "idle"]
    /\ batch = [w \in Writers |-> {}]
    /\ seen = [w \in Writers |-> {}]
    /\ left = [x \in Recalculators |-> {}]
    /\ current = [x \in Recalculators |-> NoKey]
    /\ fresh = {}
    /\ queue = <<>>
    /\ pending = {}
    /\ timer = "unset"
    /\ wpc = "select"
    /\ stopping = FALSE

KeysOf(v) == {v, PackageOf[v]}

\* A committed transaction changed the artifacts that these rows repeat:
\* whoever has read them holds old data.
Overtake(ks) == fresh' = {x \in fresh : current[x] \notin ks}

\* Whoever commits owes the rows a recalculation, whatever was given up
\* before.
Commit(ks) ==
    /\ clean' = clean \ ks
    /\ missed' = missed \ ks
    /\ Overtake(ks)

GiveUp(ks) == missed' = missed \cup (ks \ clean)

\* recalcLoop has seen the channel empty for the last time.
Drained == wpc \in {"last", "done"}

Queued == UNION {queue[i] : i \in DOMAIN queue}

\* Keys whose recalculation is still to come: a writer holds them, a
\* recalculation has them before it, or the loop will take them up.
Due ==
    (UNION {seen[w] : w \in Writers})
        \cup (UNION {left[x] : x \in Recalculators})
        \cup (IF Drained THEN {} ELSE Queued)
        \cup (IF wpc \in {"select", "flush", "drain"} THEN pending ELSE {})

-----------------------------------------------------------------------------
(* SaveBatch, AttachBlob and enqueueRecalc                                 *)

SaveBatch(w, vs) ==
    /\ pc[w] = "idle"
    /\ pc' = [pc EXCEPT ![w] = "batch"]
    /\ batch' = [batch EXCEPT ![w] = vs]
    /\ UNCHANGED <<rows, seen, recalculation, queue, loop, stopping>>

\* saveBatchChunk: one transaction; the keys are collected across chunks.
SaveChunk(w, v) ==
    /\ pc[w] = "batch"
    /\ v \in batch[w]
    /\ Commit(KeysOf(v))
    /\ batch' = [batch EXCEPT ![w] = @ \ {v}]
    /\ seen' = [seen EXCEPT ![w] = @ \cup KeysOf(v)]
    /\ pc' = [pc EXCEPT ![w] = IF batch[w] = {v} THEN "enqueue" ELSE "batch"]
    /\ UNCHANGED <<left, current, queue, loop, stopping>>

\* A chunk that fails ends SaveBatch at once, before enqueueRecalc: the
\* chunks already committed are not recalculated.
ChunkFails(w) ==
    /\ pc[w] = "batch"
    /\ GiveUp(seen[w])
    /\ pc' = [pc EXCEPT ![w] = "idle"]
    /\ batch' = [batch EXCEPT ![w] = {}]
    /\ seen' = [seen EXCEPT ![w] = {}]
    /\ UNCHANGED <<clean, recalculation, queue, loop, stopping>>

\* AttachBlob on a row it finds changes a version's sizes and files, and when
\* its artifact was last updated and has blobs: what the package's row says of
\* the latest version, and of a go package of the number of versions.  Only
\* the version is enqueued; the package's row is given up unless somebody
\* else's recalculation of it is still to come.
AttachBlob(w, v) ==
    /\ pc[w] = "idle"
    /\ clean' = clean \ KeysOf(v)
    /\ missed' = (missed \ KeysOf(v)) \cup ({PackageOf[v]} \ Due)
    /\ Overtake(KeysOf(v))
    /\ seen' = [seen EXCEPT ![w] = {v}]
    /\ pc' = [pc EXCEPT ![w] = "enqueue"]
    /\ UNCHANGED <<batch, left, current, queue, loop, stopping>>

\* A send into the channel, which blocks when it is full.  The mutant's
\* channel has no limit.
AcceptedUnbounded(w) ==
    /\ queue' = Append(queue, seen[w])
    /\ IF Drained THEN GiveUp(seen[w]) ELSE UNCHANGED missed

Accepted(w) ==
    /\ Len(queue) < QueueCap
    /\ queue' = Append(queue, seen[w])
    /\ IF Drained THEN GiveUp(seen[w]) ELSE UNCHANGED missed

Returns(w) ==
    /\ pc' = [pc EXCEPT ![w] = "idle"]
    /\ seen' = [seen EXCEPT ![w] = {}]

\* enqueueRecalc: either of its two attempts to send.
Enqueue(w) ==
    /\ pc[w] \in {"enqueue", "waiting"}
    /\ Accepted(w)
    /\ Returns(w)
    /\ UNCHANGED <<clean, batch, recalculation, loop, stopping>>

QueueFull(w) ==
    /\ pc[w] = "enqueue"
    /\ Len(queue) = QueueCap
    /\ pc' = [pc EXCEPT ![w] = "waiting"]
    /\ UNCHANGED <<rows, batch, seen, recalculation, queue, loop, stopping>>

\* 100 ms without room: the task is dropped.
Drop(w) ==
    /\ pc[w] = "waiting"
    /\ GiveUp(seen[w])
    /\ Returns(w)
    /\ UNCHANGED <<clean, batch, recalculation, queue, loop, stopping>>

-----------------------------------------------------------------------------
(* Save and Delete                                                         *)

Save(w, v) ==
    /\ pc[w] = "idle"
    /\ Commit(KeysOf(v))
    /\ left' = [left EXCEPT ![w] = KeysOf(v)]
    /\ pc' = [pc EXCEPT ![w] = "saved"]
    /\ UNCHANGED <<batch, seen, current, queue, loop, stopping>>

\* syncPackageAfterSave counts the version once more in the package's row,
\* whether or not another recalculation has counted it since the commit.
SyncPackage(w) ==
    /\ pc[w] = "saved"
    /\ clean' = clean \ (left[w] \cap Packages)
    /\ pc' = [pc EXCEPT ![w] = "recalc"]
    /\ UNCHANGED <<missed, batch, seen, recalculation, queue, loop, stopping>>

SaveReturns(w) ==
    /\ pc[w] = "recalc"
    /\ left[w] = {}
    /\ pc' = [pc EXCEPT ![w] = "idle"]
    /\ UNCHANGED <<rows, batch, seen, recalculation, queue, loop, stopping>>

\* Delete removes artifacts and recalculates both rows in one transaction.
Delete(w, v) ==
    /\ pc[w] = "idle"
    /\ clean' = clean \cup KeysOf(v)
    /\ missed' = missed \ KeysOf(v)
    /\ Overtake(KeysOf(v))
    /\ UNCHANGED <<writer, left, current, queue, loop, stopping>>

-----------------------------------------------------------------------------
(* recalcPackageVersions and recalcPackageVersionSummary, by the worker    *)
(* and by a Save                                                           *)

Kind(k) == IF k \in Packages THEN Packages ELSE Versions

\* executePackageRecalc takes the packages first, Save its version.
FirstKind(x) == IF x = Worker THEN Packages ELSE Versions

Runs(x) ==
    IF x = Worker THEN wpc \in {"execute", "flush", "last"} ELSE pc[x] = "recalc"

ReadArtifacts(x, k) ==
    /\ Runs(x)
    /\ current[x] = NoKey
    /\ k \in left[x]
    /\ k \in FirstKind(x) \/ left[x] \cap FirstKind(x) = {}
    /\ current' = [current EXCEPT ![x] = k]
    /\ fresh' = fresh \cup {x}
    /\ UNCHANGED <<rows, writer, left, queue, loop, stopping>>

FinishKeys(x, ks) ==
    /\ left' = [left EXCEPT ![x] = @ \ ks]
    /\ current' = [current EXCEPT ![x] = NoKey]
    /\ fresh' = fresh \ {x}

WriteSummary(x) ==
    /\ current[x] # NoKey
    /\ IF x \in fresh
       THEN clean' = clean \cup {current[x]} /\ missed' = missed \ {current[x]}
       ELSE clean' = clean \ {current[x]} /\ missed' = missed \cup {current[x]}
    /\ FinishKeys(x, {current[x]})
    /\ UNCHANGED <<writer, queue, loop, stopping>>

\* An error is logged.  It ends the worker's loop over the keys of its kind;
\* Save has one key of each kind.
RecalcFails(x) ==
    /\ current[x] # NoKey
    /\ LET ks == left[x] \cap Kind(current[x])
       IN  GiveUp(ks) /\ FinishKeys(x, ks)
    /\ UNCHANGED <<clean, writer, queue, loop, stopping>>

-----------------------------------------------------------------------------
(* recalcLoop                                                              *)

\* merge.  The mutant keeps the latest task only.
MergeLatest ==
    /\ queue # <<>>
    /\ pending' = Head(queue)
    /\ queue' = Tail(queue)

Merge ==
    /\ queue # <<>>
    /\ pending' = pending \cup Head(queue)
    /\ queue' = Tail(queue)

\* A task restarts the merge window.  timer.Reset does not bring back the
\* channel that was set to nil: once dead, the window stays dead.
Receive ==
    /\ wpc = "select"
    /\ Merge
    /\ timer' = IF timer = "unset" THEN "armed" ELSE timer
    /\ UNCHANGED <<rows, writer, recalculation, wpc, stopping>>

Execute(next) ==
    /\ left' = [left EXCEPT ![Worker] = pending]
    /\ wpc' = next

WindowEnds ==
    /\ wpc = "select"
    /\ timer = "armed"
    /\ Execute("execute")
    /\ UNCHANGED <<rows, writer, current, fresh, queue, pending, timer, stopping>>

Executed(at) == wpc = at /\ left[Worker] = {}

ExecuteEnds ==
    /\ Executed("execute")
    /\ pending' = {}
    /\ timer' = "dead"
    /\ wpc' = "select"
    /\ UNCHANGED <<rows, writer, recalculation, queue, stopping>>

SeesStop ==
    /\ wpc = "select"
    /\ stopping
    /\ Execute("flush")
    /\ UNCHANGED <<rows, writer, current, fresh, queue, pending, timer, stopping>>

\* On to the inner loop that drains the channel.  The mutant is back in the
\* outer one.
FlushEndsInSelect ==
    /\ Executed("flush")
    /\ wpc' = "select"
    /\ UNCHANGED <<rows, writer, recalculation, queue, pending, timer, stopping>>

FlushEnds ==
    /\ Executed("flush")
    /\ wpc' = "drain"
    /\ UNCHANGED <<rows, writer, recalculation, queue, pending, timer, stopping>>

Drain ==
    /\ wpc = "drain"
    /\ Merge
    /\ UNCHANGED <<rows, writer, recalculation, timer, wpc, stopping>>

\* pending still holds what the flush executed: it is executed again.
DrainEnds ==
    /\ wpc = "drain"
    /\ queue = <<>>
    /\ Execute("last")
    /\ UNCHANGED <<rows, writer, current, fresh, queue, pending, timer, stopping>>

LastEnds ==
    /\ Executed("last")
    /\ pending' = {}
    /\ wpc' = "done"
    /\ UNCHANGED <<rows, writer, recalculation, queue, timer, stopping>>

Stop ==
    /\ ~stopping
    /\ stopping' = TRUE
    /\ UNCHANGED <<rows, writer, recalculation, queue, loop>>

-----------------------------------------------------------------------------

Recalculates(x) ==
    (\E k \in Keys : ReadArtifacts(x, k)) \/ WriteSummary(x) \/ RecalcFails(x)

Begins(w) ==
    \/ \E vs \in SUBSET Versions \ {{}} : SaveBatch(w, vs)
    \/ \E v \in Versions : AttachBlob(w, v) \/ Save(w, v) \/ Delete(w, v)

Continues(w) ==
    \/ \E v \in Versions : SaveChunk(w, v)
    \/ ChunkFails(w) \/ Enqueue(w) \/ QueueFull(w) \/ Drop(w)
    \/ SyncPackage(w) \/ SaveReturns(w) \/ Recalculates(w)

Loop ==
    \/ Receive \/ WindowEnds \/ ExecuteEnds
    \/ SeesStop \/ FlushEnds \/ Drain \/ DrainEnds \/ LastEnds
    \/ Recalculates(Worker)

Next ==
    \/ \E w \in Writers : Begins(w) \/ Continues(w)
    \/ Loop
    \/ Stop

\* Goroutines run and statements return; select chooses at random among the
\* ready channels, so that a closed recalcStop is not passed over for ever.
\* Nothing makes a writer begin or the server stop.
Fairness ==
    /\ WF_vars(Loop) /\ SF_vars(SeesStop)
    /\ \A w \in Writers : WF_vars(Continues(w))

Spec == Init /\ [][Next]_vars /\ Fairness

-----------------------------------------------------------------------------

\* A row that does not show the artifacts is going to be recalculated, unless
\* the code gave that up at one of the places where it does: a full queue, a
\* failed chunk or recalculation, a commit between a read and its write, a
\* task sent after the last look at the channel, an AttachBlob as to the
\* package's row.
NothingForgotten == Keys \ clean \subseteq Due \cup missed

\* Stop returns once the writers have come to rest: nothing the loop does on
\* its way out, and no window that will never end, holds it up.
StopReturns ==
    <>[](\A w \in Writers : pc[w] = "idle") => (stopping ~> wpc = "done")

\* "Idempotent and eventually consistent" (enqueueRecalc): what the worker
\* has merged while it serves, it gets round to executing.
MergedIsExecuted == (wpc = "select" /\ pending # {}) ~> wpc # "select"

\* Granting more than the code does, whose window every task restarts.
SpecWithTimer == Spec /\ SF_vars(WindowEnds)
=============================================================================
