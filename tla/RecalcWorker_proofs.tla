------------------------ MODULE RecalcWorker_proofs -------------------------
(***************************************************************************)
(* No summary row is forgotten, proved for every set of packages, versions *)
(* and writers, every capacity and every interleaving.                     *)
(*                                                                         *)
(* NothingForgotten is not inductive alone: a step that overwrites seen or *)
(* left must find it empty, which Tidy says of the places where that       *)
(* happens.  The other steps move keys between the parts of Due.           *)
(***************************************************************************)
EXTENDS RecalcWorker, TLAPS

\* Keys are held only where the control says that something is done with them.
Tidy ==
    /\ \A w \in Writers : seen[w] # {} => pc[w] \in {"batch", "enqueue", "waiting"}
    /\ \A w \in Writers : left[w] # {} => pc[w] \in {"saved", "recalc"}
    /\ left[Worker] # {} => wpc \in {"execute", "flush", "last"}
    /\ \A x \in Recalculators : current[x] # NoKey => current[x] \in left[x]

\* Due and NothingForgotten, key by key.
IsDue(k) ==
    \/ \E w \in Writers : k \in seen[w]
    \/ \E x \in Recalculators : k \in left[x]
    \/ ~Drained /\ \E i \in DOMAIN queue : k \in queue[i]
    \/ wpc \in {"select", "flush", "drain"} /\ k \in pending

EachIsDue == \A k \in Keys : k \in clean \/ k \in missed \/ IsDue(k)

IInv == TypeOK /\ Tidy /\ EachIsDue

-----------------------------------------------------------------------------

LEMMA EachIsEnough == EachIsDue => NothingForgotten
  <1> SUFFICES ASSUME EachIsDue, NEW k \in Keys, k \notin clean, k \notin missed
               PROVE  k \in Due
    BY DEF NothingForgotten
  <1>1. IsDue(k)
    BY DEF EachIsDue
  <1>2. CASE \E w \in Writers : k \in seen[w]
    BY <1>2 DEF Due
  <1>3. CASE \E x \in Recalculators : k \in left[x]
    BY <1>3 DEF Due
  <1>4. CASE ~Drained /\ \E i \in DOMAIN queue : k \in queue[i]
    <2>1. k \in Queued
      BY <1>4 DEF Queued
    <2> QED
      BY <2>1, <1>4 DEF Due
  <1>5. CASE wpc \in {"select", "flush", "drain"} /\ k \in pending
    <2>1. k \in (IF wpc \in {"select", "flush", "drain"} THEN pending ELSE {})
      BY <1>5
    <2> QED
      BY <2>1 DEF Due
  <1> QED
    BY <1>1, <1>2, <1>3, <1>4, <1>5 DEF IsDue

LEMMA DueIsDue == \A k \in Due : IsDue(k)
  <1> SUFFICES ASSUME NEW k \in Due PROVE IsDue(k)
    OBVIOUS
  <1>1. \/ \E w \in Writers : k \in seen[w]
        \/ \E x \in Recalculators : k \in left[x]
        \/ k \in (IF Drained THEN {} ELSE Queued)
        \/ k \in (IF wpc \in {"select", "flush", "drain"} THEN pending ELSE {})
    BY DEF Due
  <1> QED
    BY <1>1 DEF IsDue, Queued

LEMMA InitIInv == Init => IInv
  <1> SUFFICES ASSUME Init PROVE IInv
    OBVIOUS
  <1> USE RecalcAssumption DEF Init, Recalculators
  <1>1. TypeOK
    <2>1. queue \in Seq(SUBSET Keys) /\ Len(queue) <= QueueCap
      BY DEF Init
    <2>2. /\ pc \in [Writers -> {"idle", "batch", "enqueue", "waiting", "saved", "recalc"}]
          /\ batch \in [Writers -> SUBSET Versions]
          /\ seen \in [Writers -> SUBSET Keys]
          /\ left \in [Recalculators -> SUBSET Keys]
          /\ current \in [Recalculators -> Keys \cup {NoKey}]
      BY DEF Init
    <2> QED
      BY <2>1, <2>2 DEF TypeOK
  <1>2. Tidy
    BY DEF Tidy
  <1>3. EachIsDue
    BY DEF EachIsDue
  <1> QED
    BY <1>1, <1>2, <1>3 DEF IInv

-----------------------------------------------------------------------------
(* The writers                                                             *)

LEMMA KeysOfType == \A v \in Versions : KeysOf(v) \subseteq Keys
  BY RecalcAssumption DEF KeysOf, Keys

LEMMA SaveBatchStep ==
    ASSUME IInv, NEW w \in Writers, NEW vs \in SUBSET Versions, SaveBatch(w, vs)
    PROVE  IInv'
  <1> USE DEF IInv, SaveBatch, rows, recalculation, loop
  <1>1. TypeOK'
    BY DEF TypeOK
  <1>2. Tidy'
    BY DEF TypeOK, Tidy
  <1>3. EachIsDue'
    BY DEF EachIsDue, IsDue, Drained
  <1> QED
    BY <1>1, <1>2, <1>3

\* The committed keys pass into the hands of the writer.
LEMMA SaveChunkStep ==
    ASSUME IInv, NEW w \in Writers, NEW v \in Versions, SaveChunk(w, v)
    PROVE  IInv'
  <1> USE KeysOfType DEF IInv, SaveChunk, Commit, Overtake, loop
  <1>1. TypeOK'
    BY DEF TypeOK
  <1>2. Tidy'
    BY DEF TypeOK, Tidy
  <1>3. EachIsDue'
    <2> SUFFICES ASSUME NEW k \in Keys, k \notin clean', k \notin missed'
                 PROVE  IsDue(k)'
      BY DEF EachIsDue
    <2>1. CASE k \in KeysOf(v)
      BY <2>1 DEF IsDue, TypeOK
    <2>2. CASE k \notin KeysOf(v)
      BY <2>2 DEF EachIsDue, IsDue, Drained, TypeOK
    <2> QED
      BY <2>1, <2>2
  <1> QED
    BY <1>1, <1>2, <1>3

LEMMA ChunkFailsStep ==
    ASSUME IInv, NEW w \in Writers, ChunkFails(w)
    PROVE  IInv'
  <1> USE DEF IInv, ChunkFails, GiveUp, recalculation, loop
  <1>1. TypeOK'
    BY DEF TypeOK
  <1>2. Tidy'
    BY DEF TypeOK, Tidy
  <1>3. EachIsDue'
    BY DEF EachIsDue, IsDue, Drained, TypeOK
  <1> QED
    BY <1>1, <1>2, <1>3

\* An idle writer holds nothing that the new key could displace, and the
\* package's row is given up unless it was due.
LEMMA AttachBlobStep ==
    ASSUME IInv, NEW w \in Writers, NEW v \in Versions, AttachBlob(w, v)
    PROVE  IInv'
  <1> USE DEF IInv, AttachBlob, Overtake, loop
  <1>0. KeysOf(v) = {v, PackageOf[v]} /\ v \in Keys /\ PackageOf[v] \in Keys
    BY RecalcAssumption DEF KeysOf, Keys
  <1>1. TypeOK'
    BY <1>0 DEF TypeOK
  <1>2. Tidy'
    BY DEF TypeOK, Tidy
  <1>3. seen[w] = {}
    BY DEF Tidy
  <1>4. EachIsDue'
    <2> SUFFICES ASSUME NEW k \in Keys, k \notin clean', k \notin missed'
                 PROVE  IsDue(k)'
      BY DEF EachIsDue
    <2>1. CASE k = v
      BY <2>1 DEF IsDue, TypeOK
    <2>2. CASE k # v
      <3>1. k = PackageOf[v] => IsDue(k)
        BY DueIsDue
      <3>2. k # PackageOf[v] => IsDue(k)
        BY <1>0, <2>2 DEF EachIsDue
      <3>3. IsDue(k)
        BY <3>1, <3>2
      <3> QED
        BY <1>3, <2>2, <3>3 DEF IsDue, Drained, TypeOK
    <2> QED
      BY <2>1, <2>2
  <1> QED
    BY <1>1, <1>2, <1>4

LEMMA EnqueueStep ==
    ASSUME IInv, NEW w \in Writers, Enqueue(w)
    PROVE  IInv'
  <1> USE DEF IInv, Enqueue, Returns, GiveUp, recalculation, loop
  <1>1. /\ queue' = Append(queue, seen[w]) /\ Len(queue) < QueueCap
        /\ missed' = missed \/ missed' = missed \cup (seen[w] \ clean)
        /\ Drained => missed' = missed \cup (seen[w] \ clean)
    BY DEF Accepted
  <1>2. queue \in Seq(SUBSET Keys) /\ seen[w] \in SUBSET Keys
    BY DEF TypeOK
  <1>3. queue' \in Seq(SUBSET Keys) /\ Len(queue') = Len(queue) + 1
    BY <1>1, <1>2
  <1>4. /\ \A i \in DOMAIN queue : i \in DOMAIN queue' /\ queue'[i] = queue[i]
        /\ Len(queue) + 1 \in DOMAIN queue'
        /\ queue'[Len(queue) + 1] = seen[w]
    BY <1>1, <1>2
  <1>5. TypeOK'
    <2>1. Len(queue') <= QueueCap
      BY <1>1, <1>2, <1>3, RecalcAssumption
    <2>2. missed' \in SUBSET Keys
      BY <1>1, <1>2 DEF TypeOK
    <2> QED
      BY <1>3, <2>1, <2>2 DEF TypeOK
  <1>6. Tidy'
    BY DEF TypeOK, Tidy
  <1>7. EachIsDue'
    <2> SUFFICES ASSUME NEW k \in Keys, k \notin clean', k \notin missed'
                 PROVE  IsDue(k)'
      BY DEF EachIsDue
    <2>1. CASE k \in seen[w]
      <3>1. ~Drained
        BY <1>1, <2>1
      <3>2. ~Drained'
        BY <3>1 DEF Drained
      <3> QED
        BY <3>2, <2>1, <1>4 DEF IsDue
    <2>2. CASE k \notin seen[w]
      <3>1. IsDue(k)
        BY <1>1 DEF EachIsDue
      <3>2. Drained' <=> Drained
        BY DEF Drained
      <3>3. \A u \in Writers : k \in seen[u] => k \in seen'[u]
        BY <2>2 DEF TypeOK
      <3> QED
        BY <3>1, <3>2, <3>3, <1>4 DEF IsDue
    <2> QED
      BY <2>1, <2>2
  <1> QED
    BY <1>5, <1>6, <1>7

LEMMA QueueFullStep ==
    ASSUME IInv, NEW w \in Writers, QueueFull(w)
    PROVE  IInv'
  <1> USE DEF IInv, QueueFull, rows, recalculation, loop
  <1>1. TypeOK'
    BY DEF TypeOK
  <1>2. Tidy'
    BY DEF TypeOK, Tidy
  <1>3. EachIsDue'
    BY DEF EachIsDue, IsDue, Drained
  <1> QED
    BY <1>1, <1>2, <1>3

LEMMA DropStep ==
    ASSUME IInv, NEW w \in Writers, Drop(w)
    PROVE  IInv'
  <1> USE DEF IInv, Drop, Returns, GiveUp, recalculation, loop
  <1>1. TypeOK'
    BY DEF TypeOK
  <1>2. Tidy'
    BY DEF TypeOK, Tidy
  <1>3. EachIsDue'
    BY DEF EachIsDue, IsDue, Drained, TypeOK
  <1> QED
    BY <1>1, <1>2, <1>3

-----------------------------------------------------------------------------

LEMMA SaveStep ==
    ASSUME IInv, NEW w \in Writers, NEW v \in Versions, Save(w, v)
    PROVE  IInv'
  <1> USE KeysOfType, RecalcAssumption DEF IInv, Save, Commit, Overtake, loop, Recalculators
  <1>1. TypeOK'
    BY DEF TypeOK
  <1>2. left[w] = {} /\ w # Worker
    BY DEF Tidy
  <1>3. Tidy'
    BY <1>2 DEF TypeOK, Tidy
  <1>4. EachIsDue'
    <2> SUFFICES ASSUME NEW k \in Keys, k \notin clean', k \notin missed'
                 PROVE  IsDue(k)'
      BY DEF EachIsDue
    <2>1. CASE k \in KeysOf(v)
      BY <2>1 DEF IsDue, TypeOK
    <2>2. CASE k \notin KeysOf(v)
      BY <1>2, <2>2 DEF EachIsDue, IsDue, Drained, TypeOK
    <2> QED
      BY <2>1, <2>2
  <1> QED
    BY <1>1, <1>3, <1>4

LEMMA SyncPackageStep ==
    ASSUME IInv, NEW w \in Writers, SyncPackage(w)
    PROVE  IInv'
  <1> USE RecalcAssumption DEF IInv, SyncPackage, recalculation, loop, Recalculators
  <1>1. TypeOK'
    BY DEF TypeOK
  <1>2. Tidy'
    BY DEF TypeOK, Tidy
  <1>3. EachIsDue'
    BY DEF EachIsDue, IsDue, Drained
  <1> QED
    BY <1>1, <1>2, <1>3

LEMMA SaveReturnsStep ==
    ASSUME IInv, NEW w \in Writers, SaveReturns(w)
    PROVE  IInv'
  <1> USE DEF IInv, SaveReturns, rows, recalculation, loop
  <1>1. TypeOK'
    BY DEF TypeOK
  <1>2. Tidy'
    BY DEF TypeOK, Tidy
  <1>3. EachIsDue'
    BY DEF EachIsDue, IsDue, Drained
  <1> QED
    BY <1>1, <1>2, <1>3

LEMMA DeleteStep ==
    ASSUME IInv, NEW w \in Writers, NEW v \in Versions, Delete(w, v)
    PROVE  IInv'
  <1> USE KeysOfType DEF IInv, Delete, Overtake, writer, loop
  <1>1. TypeOK'
    BY DEF TypeOK
  <1>2. Tidy'
    BY DEF Tidy
  <1>3. EachIsDue'
    BY DEF EachIsDue, IsDue, Drained
  <1> QED
    BY <1>1, <1>2, <1>3

-----------------------------------------------------------------------------
(* A recalculation, by whomever                                            *)

LEMMA RecalculatesStep ==
    ASSUME IInv, NEW x \in Recalculators, Recalculates(x)
    PROVE  IInv'
  <1> USE RecalcAssumption DEF IInv, writer, loop, Recalculators
  <1>1. CASE \E k \in Keys : ReadArtifacts(x, k)
    <2> PICK k \in Keys : ReadArtifacts(x, k)
      BY <1>1
    <2> USE DEF ReadArtifacts, rows
    <2>1. TypeOK'
      BY DEF TypeOK
    <2>2. Tidy'
      BY DEF TypeOK, Tidy
    <2>3. EachIsDue'
      BY DEF EachIsDue, IsDue, Drained
    <2> QED
      BY <2>1, <2>2, <2>3
  <1>2. CASE WriteSummary(x)
    <2> USE <1>2 DEF WriteSummary, FinishKeys
    <2>1. current[x] \in Keys
      BY DEF TypeOK
    <2>2. TypeOK'
      BY <2>1 DEF TypeOK
    <2>3. Tidy'
      BY DEF TypeOK, Tidy
    <2>4. EachIsDue'
      BY <2>1 DEF EachIsDue, IsDue, Drained, TypeOK
    <2> QED
      BY <2>2, <2>3, <2>4
  <1>3. CASE RecalcFails(x)
    <2> DEFINE ks == left[x] \cap Kind(current[x])
    <2>1. /\ current[x] # NoKey /\ FinishKeys(x, ks)
          /\ missed' = missed \cup (ks \ clean)
          /\ UNCHANGED <<clean, writer, queue, loop, stopping>>
      BY <1>3 DEF RecalcFails, GiveUp
    <2>2. ks \in SUBSET Keys
      BY DEF TypeOK
    <2> HIDE DEF ks
    <2> USE <2>1, <2>2 DEF FinishKeys
    <2>3. TypeOK'
      BY DEF TypeOK
    <2>4. Tidy'
      BY DEF TypeOK, Tidy
    <2>5. EachIsDue'
      BY DEF EachIsDue, IsDue, Drained, TypeOK
    <2> QED
      BY <2>3, <2>4, <2>5
  <1> QED
    BY <1>1, <1>2, <1>3 DEF Recalculates

-----------------------------------------------------------------------------
(* The worker's loop                                                       *)

\* What is taken from the channel is pending.
LEMMA MergeStep ==
    ASSUME IInv, Merge, UNCHANGED <<rows, writer, recalculation, wpc, stopping>>,
           timer' \in {"unset", "armed", "dead"}, wpc \in {"select", "drain"}
    PROVE  IInv'
  <1> USE DEF IInv, Merge, rows, writer, recalculation
  <1>1. /\ queue \in Seq(SUBSET Keys) /\ Len(queue) <= QueueCap /\ Len(queue) \in Nat
        /\ queue # <<>>
    BY DEF TypeOK
  <1>2. /\ queue' \in Seq(SUBSET Keys) /\ Len(queue') = Len(queue) - 1
        /\ Head(queue) = queue[1] /\ queue[1] \in SUBSET Keys
        /\ \A i \in DOMAIN queue : i # 1 =>
               i - 1 \in DOMAIN queue' /\ queue'[i - 1] = queue[i]
    BY <1>1
  <1>3. TypeOK'
    <2>1. Len(queue') <= QueueCap
      BY <1>1, <1>2, RecalcAssumption
    <2> QED
      BY <1>2, <2>1 DEF TypeOK
  <1>4. Tidy'
    BY DEF Tidy
  <1>5. EachIsDue'
    <2> SUFFICES ASSUME NEW k \in Keys, k \notin clean, k \notin missed
                 PROVE  IsDue(k)'
      BY DEF EachIsDue
    <2>1. IsDue(k)
      BY DEF EachIsDue
    <2>2. CASE \E i \in DOMAIN queue : k \in queue[i]
      <3> PICK i \in DOMAIN queue : k \in queue[i]
        BY <2>2
      <3>1. CASE i = 1
        BY <3>1, <1>2 DEF IsDue
      <3>2. CASE i # 1
        BY <3>2, <1>2 DEF IsDue, Drained
      <3> QED
        BY <3>1, <3>2
    <2>3. CASE ~\E i \in DOMAIN queue : k \in queue[i]
      BY <2>1, <2>3 DEF IsDue
    <2> QED
      BY <2>2, <2>3
  <1> QED
    BY <1>3, <1>4, <1>5

\* What is executed passes from pending to left; at the drain's end nothing
\* is left in the channel.
LEMMA ExecuteStep ==
    ASSUME IInv, NEW next \in {"execute", "flush", "last"}, Execute(next),
           UNCHANGED <<rows, writer, current, fresh, queue, pending, timer, stopping>>,
           wpc \in {"select", "drain"}, next = "last" => queue = <<>>
    PROVE  IInv'
  <1> USE RecalcAssumption DEF IInv, Execute, rows, writer, Recalculators
  <1>1. left[Worker] = {}
    BY DEF Tidy
  <1>2. TypeOK'
    BY DEF TypeOK
  <1>3. Tidy'
    BY <1>1 DEF TypeOK, Tidy
  <1>4. EachIsDue'
    <2> SUFFICES ASSUME NEW k \in Keys, k \notin clean, k \notin missed
                 PROVE  IsDue(k)'
      BY DEF EachIsDue
    <2>1. IsDue(k)
      BY DEF EachIsDue
    <2>2. CASE k \in pending
      BY <2>2 DEF IsDue, TypeOK
    <2>3. CASE \E i \in DOMAIN queue : k \in queue[i]
      BY <2>3 DEF IsDue, Drained
    <2>4. CASE k \notin pending /\ ~\E i \in DOMAIN queue : k \in queue[i]
      BY <1>1, <2>1, <2>4 DEF IsDue, TypeOK
    <2> QED
      BY <2>2, <2>3, <2>4
  <1> QED
    BY <1>2, <1>3, <1>4

LEMMA LoopStep ==
    ASSUME IInv, Loop
    PROVE  IInv'
  <1>1. CASE Receive
    BY <1>1, MergeStep DEF Receive, IInv, TypeOK
  <1>2. CASE Drain
    BY <1>2, MergeStep DEF Drain, IInv, TypeOK
  <1>3. CASE WindowEnds
    BY <1>3, ExecuteStep DEF WindowEnds
  <1>4. CASE SeesStop
    BY <1>4, ExecuteStep DEF SeesStop
  <1>5. CASE DrainEnds
    BY <1>5, ExecuteStep DEF DrainEnds
  <1>6. CASE ExecuteEnds \/ FlushEnds \/ LastEnds
    <2> USE <1>6 DEF IInv, ExecuteEnds, FlushEnds, LastEnds, Executed,
                     rows, writer, recalculation
    <2>1. TypeOK'
      BY DEF TypeOK
    <2>2. Tidy'
      BY DEF Tidy
    <2>3. EachIsDue'
      BY DEF EachIsDue, IsDue, Drained
    <2> QED
      BY <2>1, <2>2, <2>3
  <1>7. CASE Recalculates(Worker)
    BY <1>7, RecalculatesStep DEF Recalculators
  <1> QED
    BY <1>1, <1>2, <1>3, <1>4, <1>5, <1>6, <1>7 DEF Loop

LEMMA NextIInv == IInv /\ [Next]_vars => IInv'
  <1> SUFFICES ASSUME IInv, [Next]_vars PROVE IInv'
    OBVIOUS
  <1>1. CASE \E w \in Writers : Begins(w)
    BY <1>1, SaveBatchStep, AttachBlobStep, SaveStep, DeleteStep DEF Begins
  <1>2. CASE \E w \in Writers : Continues(w)
    BY <1>2, SaveChunkStep, ChunkFailsStep, EnqueueStep, QueueFullStep, DropStep,
       SyncPackageStep, SaveReturnsStep, RecalculatesStep DEF Continues, Recalculators
  <1>3. CASE Loop
    BY <1>3, LoopStep
  <1>4. CASE Stop \/ UNCHANGED vars
    BY <1>4 DEF Stop, vars, rows, writer, recalculation, loop,
                IInv, TypeOK, Tidy, EachIsDue, IsDue, Drained
  <1> QED
    BY <1>1, <1>2, <1>3, <1>4 DEF Next

LEMMA Invariance == Spec => []IInv
  BY InitIInv, NextIInv, PTL DEF Spec

-----------------------------------------------------------------------------

\* Every variable keeps its type.
THEOREM TypeCorrect == Spec => []TypeOK
  BY Invariance, PTL DEF IInv

\* Whatever writers, failures and shutdown do, a summary row that is out of
\* date is still to be recalculated, or the code has given it up.
THEOREM NoRowIsForgotten == Spec => []NothingForgotten
  <1>1. IInv => NothingForgotten
    BY EachIsEnough DEF IInv
  <1> QED
    BY <1>1, Invariance, PTL
=============================================================================
