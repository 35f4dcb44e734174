------------------------ MODULE CASBlobStore_proofs -------------------------
(***************************************************************************)
(* A hosted repository keeps the content of its artifacts, for any number  *)
(* of requests, contents and keys, with uploads and deletions of one       *)
(* content in any order, and crashes and disconnections at any step.  The  *)
(* only artifacts that may lose theirs are those whose own upload met a    *)
(* deletion that nothing stopped any more (atRisk).                        *)
(***************************************************************************)
EXTENDS CASBlobStore, TLAPS

\* Ids were given out, each to one digest: a row's to its own, a request's to
\* the one it works on.
IdsAreUnique ==
    /\ \A d \in Digests : row[d] <= lastId /\ (row[d] # 0 => digestOf[row[d]] = d)
    /\ \A a \in Actors : ref[a] <= lastId /\ (ref[a] # 0 => digestOf[ref[a]] = digest[a])
    /\ \A k \in Keys : artifact[k] # NoArtifact =>
           artifact[k] <= lastId /\ digestOf[artifact[k]] \in Digests

\* What a request that stores a blob may rely on at each of its statements,
\* as long as it has met no deletion.
PutOK ==
    \A a \in Actors :
        /\ pc[a] \in {"idle", "put_find"} => ref[a] = 0 /\ a \notin met
        /\ pc[a] \in {"put_check", "stored"} \cup Deleting => ref[a] # 0
        /\ pc[a] \in {"put_save", "stored"} => file[digest[a]] # "bad"
        /\ pc[a] \in Holding /\ a \notin met => ref[a] \in {0, row[digest[a]]}
        /\ pc[a] \in {"put_save", "stored"} /\ a \notin met => file[digest[a]] = "good"

Exclusion ==
    \A a \in Actors : pc[a] \in Holding /\ Condemned(digest[a]) => a \in met

\* An artifact that was committed in peace.
Safe(k) == k \notin atRisk /\ artifact[k] # NoArtifact

\* What a request that deletes a blob has established.
DeleteOK ==
    \A a \in Actors, k \in Keys : Safe(k) /\ digestOf[artifact[k]] = digest[a] =>
        /\ pc[a] \notin {"del_file", "del_blob"}
        /\ pc[a] = "del_count" => artifact[k] = ref[a]

SafeIsStored ==
    \A k \in Keys : Safe(k) =>
        /\ row[digestOf[artifact[k]]] = artifact[k]
        /\ file[digestOf[artifact[k]]] # "none"

IInv ==
    /\ TypeOK
    /\ IdsAreUnique
    /\ PutOK
    /\ Exclusion
    /\ DeleteOK
    /\ SafeIsStored

USE DEF Holding, Putting, Deleting, At, Goto, store, request, history
-----------------------------------------------------------------------------

LEMMA InitIInv == Init => IInv
  <1> SUFFICES ASSUME Init PROVE IInv
    OBVIOUS
  <1> USE StoreAssumption DEF Init
  <1>1. TypeOK
    BY DEF TypeOK
  <1>2. IdsAreUnique /\ PutOK
    BY DEF IdsAreUnique, PutOK
  <1>3. Exclusion /\ DeleteOK /\ SafeIsStored
    BY DEF Exclusion, DeleteOK, SafeIsStored, Safe
  <1> QED
    BY <1>1, <1>2, <1>3 DEF IInv

\* The steps of a request that change only where it is.
LEMMA GotoStep ==
    ASSUME IInv, NEW a \in Actors, NEW there \in Putting \cup Deleting,
           pc[a] \notin {"idle", "put_find"},
           Goto(a, there), UNCHANGED <<store, request, met, atRisk>>,
           cancelled' \in [Actors -> BOOLEAN], cut' \subseteq Digests,
           there # "put_find",
           there \in {"put_check", "stored"} \cup Deleting => ref[a] # 0,
           there \in {"put_save", "stored"} => file[digest[a]] = "good",
           there \in Holding => pc[a] \in Holding,
           there = "del_count" => row[digest[a]] = ref[a],
           there \notin {"del_file", "del_blob"}
    PROVE  IInv'
  <1> USE DEF IInv
  <1>1. TypeOK' /\ IdsAreUnique'
    BY DEF TypeOK, IdsAreUnique
  <1>2. PutOK'
    BY DEF TypeOK, PutOK
  <1>3. \A d \in Digests : Condemned(d)' => Condemned(d)
    BY DEF TypeOK, Condemned
  <1>4. Exclusion'
    BY <1>3 DEF TypeOK, Exclusion
  <1>5. SafeIsStored'
    BY DEF SafeIsStored, Safe
  <1>6. DeleteOK'
    <2> SUFFICES ASSUME NEW b \in Actors, NEW k \in Keys, Safe(k),
                        digestOf[artifact[k]] = digest[b]
                 PROVE  /\ pc'[b] \notin {"del_file", "del_blob"}
                        /\ pc'[b] = "del_count" => artifact[k] = ref[b]
      BY DEF DeleteOK, Safe
    <2>1. CASE b = a
      BY <2>1 DEF TypeOK, SafeIsStored
    <2>2. CASE b # a
      BY <2>2 DEF TypeOK, DeleteOK
    <2> QED
      BY <2>1, <2>2
  <1> QED
    BY <1>1, <1>2, <1>4, <1>5, <1>6

\* A request that ends leaves the store alone.
LEMMA EndStep ==
    ASSUME IInv, NEW a \in Actors, pc[a] # "idle", End(a), UNCHANGED <<store, atRisk>>,
           cut' \subseteq Digests
    PROVE  IInv'
  <1> USE DEF IInv, End
  <1>1. TypeOK'
    BY StoreAssumption DEF TypeOK
  <1>2. IdsAreUnique'
    BY StoreAssumption DEF TypeOK, IdsAreUnique
  <1>3. PutOK'
    BY DEF TypeOK, PutOK
  <1>4. \A d \in Digests : Condemned(d)' => Condemned(d)
    BY StoreAssumption DEF TypeOK, Condemned
  <1>5. Exclusion'
    BY <1>4 DEF TypeOK, Exclusion
  <1>6. DeleteOK' /\ SafeIsStored'
    BY DEF TypeOK, DeleteOK, SafeIsStored, Safe
  <1> QED
    BY <1>1, <1>2, <1>3, <1>5, <1>6

-----------------------------------------------------------------------------
(* One lemma per action that changes the store or begins a request.        *)

LEMMA BeginUploadStep ==
    ASSUME IInv, NEW a \in Actors, NEW k \in Keys, NEW d \in Digests,
           BeginUpload(a, k, d)
    PROVE  IInv'
  <1> USE DEF IInv, BeginUpload
  <1>1. TypeOK'
    BY DEF TypeOK
  <1>2. IdsAreUnique' /\ PutOK'
    <2>1. ref[a] = 0
      BY DEF PutOK
    <2> QED
      BY <2>1 DEF TypeOK, IdsAreUnique, PutOK
  <1>3. \A e \in Digests : Condemned(e)' => Condemned(e)
    BY DEF TypeOK, Condemned
  <1>4. Exclusion'
    BY <1>3 DEF TypeOK, Exclusion
  <1>5. DeleteOK' /\ SafeIsStored'
    BY DEF TypeOK, DeleteOK, SafeIsStored, Safe
  <1> QED
    BY <1>1, <1>2, <1>4, <1>5

LEMMA PutFindStep ==
    ASSUME IInv, NEW a \in Actors, PutFind(a)
    PROVE  IInv'
  <1> USE DEF IInv
  <1> DEFINE d == digest[a]
  <1>p. /\ pc[a] = "put_find" /\ d \in Digests /\ ref[a] = 0
        /\ UNCHANGED <<store, digest, key, cancelled, atRisk>>
    BY DEF PutFind, PutOK, TypeOK
  <1>g. \E there \in {"put_check", "put_move"} :
            /\ pc' = [pc EXCEPT ![a] = there]
            /\ there = "put_check" => row[d] # 0 /\ ref' = [ref EXCEPT ![a] = row[d]]
            /\ there = "put_move" => ref' = ref
    BY DEF PutFind
  <1>m. /\ met' = met \cup {b \in {a} : Condemned(digest[b])}
        /\ cut' = cut \cup {digest[b] : b \in {c \in {a} : Condemned(digest[c])}}
    BY DEF PutFind, Meet
  <1>n. met' \subseteq Actors /\ cut' \subseteq Digests /\ (a \in met' <=> Condemned(d))
        /\ \A b \in Actors : b # a => (b \in met' <=> b \in met)
    BY <1>m, <1>p DEF TypeOK, PutOK
  <1> HIDE DEF d
  <1>1. TypeOK' /\ IdsAreUnique'
    <2>1. d = digest[a]
      BY DEF d
    <2> QED
      <3>2. row[d] \in 0..MaxBlobId /\ row[d] \in Nat
        BY <1>p, StoreAssumption DEF TypeOK
      <3>5. ref' \in [Actors -> 0..MaxBlobId] /\ pc' \in [Actors -> {"idle"} \cup Putting \cup Deleting]
        BY <1>g, <3>2 DEF TypeOK
      <3>6. \A b \in Actors : pc'[b] # "idle" => pc[b] # "idle"
        BY <1>g, <1>p DEF TypeOK
      <3>1. TypeOK'
        BY <1>p, <1>n, <3>5, <3>6 DEF TypeOK
      <3>3. \A b \in Actors : ref'[b] = ref[b] \/ (b = a /\ ref'[b] = row[d] /\ row[d] # 0)
        BY <1>p, <1>g DEF TypeOK
      <3>4. IdsAreUnique'
        BY <1>p, <3>2, <3>3, <2>1 DEF IdsAreUnique
      <3> QED
        BY <3>1, <3>4
  <1>2. PutOK'
    BY <1>p, <1>g, <1>n DEF TypeOK, PutOK, d
  <1>3. \A e \in Digests : Condemned(e)' => Condemned(e)
    BY <1>p, <1>g DEF TypeOK, Condemned
  <1>4. Exclusion'
    BY <1>3, <1>p, <1>g, <1>n DEF TypeOK, Exclusion, d
  <1>5. DeleteOK' /\ SafeIsStored'
    BY <1>p, <1>g DEF TypeOK, DeleteOK, SafeIsStored, Safe
  <1> QED
    BY <1>1, <1>2, <1>4, <1>5

LEMMA PutMoveStep ==
    ASSUME IInv, NEW a \in Actors, PutMove(a)
    PROVE  IInv'
  <1> USE DEF IInv, PutMove
  <1>1. TypeOK' /\ IdsAreUnique'
    BY DEF TypeOK, IdsAreUnique
  <1>2. PutOK'
    BY DEF TypeOK, PutOK
  <1>3. \A e \in Digests : Condemned(e)' => Condemned(e)
    BY DEF TypeOK, Condemned
  <1>4. Exclusion'
    BY <1>3 DEF TypeOK, Exclusion
  <1>5. DeleteOK' /\ SafeIsStored'
    BY DEF TypeOK, DeleteOK, SafeIsStored, Safe
  <1> QED
    BY <1>1, <1>2, <1>4, <1>5

\* A row that is saved is either there already, or was not there.
LEMMA PutSaveStep ==
    ASSUME IInv, NEW a \in Actors, PutSave(a)
    PROVE  IInv'
  <1> DEFINE d == digest[a]
             id == SavedId(a)
  <1> USE DEF IInv
  <1>t. /\ d \in Digests /\ ref[a] \in 0..MaxBlobId /\ lastId \in 0..MaxBlobId
        /\ MaxBlobId \in Nat /\ row[d] \in 0..MaxBlobId
    BY StoreAssumption DEF PutSave, TypeOK
  <1>p. /\ pc[a] = "put_save" /\ id <= MaxBlobId
        /\ row' = [row EXCEPT ![d] = id] /\ ref' = [ref EXCEPT ![a] = id]
        /\ digestOf' = [digestOf EXCEPT ![id] = d]
        /\ lastId' = IF ref[a] # 0 THEN lastId ELSE lastId + 1
        /\ pc' = [pc EXCEPT ![a] = "stored"]
        /\ UNCHANGED <<file, artifact, digest, key, cancelled, history>>
        /\ row[d] \in {0, id}
    BY DEF PutSave
  <1>i. id = IF ref[a] # 0 THEN ref[a] ELSE lastId + 1
    BY DEF SavedId
  <1>1. /\ id \in 1..MaxBlobId /\ lastId <= lastId' /\ id <= lastId' /\ lastId' \in 0..MaxBlobId
        /\ \/ id = ref[a] /\ ref[a] # 0 /\ lastId' = lastId /\ digestOf' = digestOf
           \/ ref[a] = 0 /\ id = lastId + 1
    BY <1>t, <1>p, <1>i DEF TypeOK, IdsAreUnique
  <1>d. d = digest[a]
    OBVIOUS
  <1> HIDE DEF d, id
  <1>r. /\ \A e \in Digests : row'[e] = IF e = d THEN id ELSE row[e]
        /\ \A b \in Actors : ref'[b] = IF b = a THEN id ELSE ref[b]
        /\ \A b \in Actors : pc'[b] = IF b = a THEN "stored" ELSE pc[b]
        /\ \A i \in 1..MaxBlobId : digestOf'[i] = IF i = id THEN d ELSE digestOf[i]
    BY <1>p, <1>t, <1>1 DEF TypeOK
  <1>o. \A i \in 1..MaxBlobId : i <= lastId => digestOf'[i] = digestOf[i]
    BY <1>r, <1>1, <1>t
  <1>2. TypeOK'
    BY <1>1, <1>p, <1>t DEF TypeOK
  <1>3. IdsAreUnique'
    <2>1. \A e \in Digests : row'[e] <= lastId' /\ (row'[e] # 0 => digestOf'[row'[e]] = e)
      <3> SUFFICES ASSUME NEW e \in Digests, e # d
                   PROVE  row'[e] <= lastId' /\ (row'[e] # 0 => digestOf'[row'[e]] = e)
        BY <1>r, <1>1
      <3>1. row'[e] = row[e] /\ row[e] \in 0..MaxBlobId /\ row[e] <= lastId
        BY <1>r DEF TypeOK, IdsAreUnique
      <3> QED
        BY <3>1, <1>o, <1>1, <1>t DEF IdsAreUnique
    <2>2. \A b \in Actors : ref'[b] <= lastId' /\ (ref'[b] # 0 => digestOf'[ref'[b]] = digest[b])
      <3> SUFFICES ASSUME NEW b \in Actors, b # a
                   PROVE  ref'[b] <= lastId' /\ (ref'[b] # 0 => digestOf'[ref'[b]] = digest[b])
        BY <1>r, <1>1, <1>d
      <3>1. ref'[b] = ref[b] /\ ref[b] \in 0..MaxBlobId /\ ref[b] <= lastId
        BY <1>r DEF TypeOK, IdsAreUnique
      <3> QED
        BY <3>1, <1>o, <1>1, <1>t DEF IdsAreUnique
    <2>3. \A k \in Keys : artifact[k] # NoArtifact =>
              artifact[k] <= lastId' /\ digestOf'[artifact[k]] \in Digests
      <3> SUFFICES ASSUME NEW k \in Keys, artifact[k] # NoArtifact
                   PROVE  artifact[k] <= lastId' /\ digestOf'[artifact[k]] \in Digests
        OBVIOUS
      <3>1. artifact[k] \in 1..MaxBlobId /\ artifact[k] <= lastId
        BY DEF TypeOK, IdsAreUnique
      <3> QED
        BY <3>1, <1>o, <1>1, <1>t DEF IdsAreUnique
    <2> QED
      BY <2>1, <2>2, <2>3, <1>p DEF IdsAreUnique
  <1>4. PutOK'
    <2> SUFFICES ASSUME NEW b \in Actors
                 PROVE  /\ pc'[b] \in {"idle", "put_find"} => ref'[b] = 0 /\ b \notin met
                        /\ pc'[b] \in {"put_check", "stored"} \cup Deleting => ref'[b] # 0
                        /\ pc'[b] \in {"put_save", "stored"} => file[digest[b]] # "bad"
                        /\ pc'[b] \in Holding /\ b \notin met => ref'[b] \in {0, row'[digest[b]]}
                        /\ pc'[b] \in {"put_save", "stored"} /\ b \notin met => file[digest[b]] = "good"
      BY <1>p DEF PutOK
    <2>1. CASE b = a
      BY <2>1, <1>p, <1>r, <1>t, <1>1, <1>d DEF PutOK
    <2>2. CASE b # a
      <3>1. pc'[b] = pc[b] /\ ref'[b] = ref[b]
        BY <2>2, <1>r
      <3>2. ASSUME pc[b] \in Holding, b \notin met PROVE ref[b] \in {0, row'[digest[b]]}
        <4>1. digest[b] \in Digests /\ ref[b] \in {0, row[digest[b]]}
          BY <3>2 DEF TypeOK, PutOK
        <4> QED
          BY <4>1, <1>r, <1>p, <1>t
      <3> QED
        BY <3>1, <3>2 DEF PutOK
    <2> QED
      BY <2>1, <2>2
  <1>5. \A e \in Digests : Condemned(e)' => Condemned(e)
    <2> SUFFICES ASSUME NEW e \in Digests, NEW b \in Actors, digest[b] = e,
                        pc'[b] \in {"del_file", "del_blob"} \/
                            (pc'[b] = "del_count" /\ row'[e] # ref'[b])
                 PROVE  Condemned(e)
      BY <1>p DEF Condemned
    <2>1. b # a /\ pc[b] = pc'[b] /\ ref'[b] = ref[b]
      BY <1>r
    <2>2. pc[b] \in Deleting => ref[b] # 0
      BY DEF PutOK
    <2>3. pc[b] = "del_count" => row[e] # ref[b]
      BY <2>1, <2>2, <1>r, <1>p
    <2> QED
      BY <2>1, <2>3 DEF Condemned
  <1>6. Exclusion'
    <2>1. \A b \in Actors : pc'[b] \in Holding => pc[b] \in Holding
      BY <1>r, <1>p
    <2> QED
      BY <1>5, <2>1, <1>p DEF TypeOK, Exclusion
  <1>k. \A k \in Keys : Safe(k)' => Safe(k) /\ digestOf'[artifact[k]] = digestOf[artifact[k]]
    <2> SUFFICES ASSUME NEW k \in Keys, Safe(k)'
                 PROVE  Safe(k) /\ digestOf'[artifact[k]] = digestOf[artifact[k]]
      OBVIOUS
    <2>1. Safe(k) /\ artifact[k] \in 1..MaxBlobId /\ artifact[k] <= lastId
      BY <1>p DEF Safe, TypeOK, IdsAreUnique
    <2> QED
      BY <2>1, <1>o
  <1>7. DeleteOK'
    <2> SUFFICES ASSUME NEW b \in Actors, NEW k \in Keys, Safe(k),
                        digestOf[artifact[k]] = digest[b]
                 PROVE  /\ pc'[b] \notin {"del_file", "del_blob"}
                        /\ pc'[b] = "del_count" => artifact[k] = ref'[b]
      BY <1>p, <1>k DEF DeleteOK
    <2> QED
      BY <1>r DEF DeleteOK
  <1>8. SafeIsStored'
    <2> SUFFICES ASSUME NEW k \in Keys, Safe(k)
                 PROVE  /\ row'[digestOf[artifact[k]]] = artifact[k]
                        /\ file[digestOf[artifact[k]]] # "none"
      BY <1>p, <1>k DEF SafeIsStored
    <2>1. digestOf[artifact[k]] \in Digests /\ artifact[k] # 0
      BY StoreAssumption DEF Safe, IdsAreUnique, TypeOK
    <2> QED
      BY <2>1, <1>r, <1>p DEF SafeIsStored
  <1> QED
    BY <1>2, <1>3, <1>4, <1>6, <1>7, <1>8

LEMMA CommitStep ==
    ASSUME IInv, NEW a \in Actors, Commit(a)
    PROVE  IInv'
  <1> USE DEF IInv
  <1>p. /\ pc[a] = "stored" /\ key[a] \in Keys /\ digest[a] \in Digests
        /\ ref[a] \in 1..MaxBlobId /\ ref[a] # NoArtifact
        /\ artifact' = [artifact EXCEPT ![key[a]] = ref[a]]
        /\ atRisk' = IF a \in met THEN atRisk \cup {key[a]} ELSE atRisk \ {key[a]}
        /\ cut' = cut \cup Orphaned(key[a], ref[a])
        /\ End(a) /\ UNCHANGED <<file, row, digestOf, lastId>>
    BY StoreAssumption DEF Commit, TypeOK, PutOK
  <1>i. ref[a] <= lastId /\ digestOf[ref[a]] = digest[a]
    BY <1>p DEF IdsAreUnique
  <1>k. \A k \in Keys : artifact'[k] = IF k = key[a] THEN ref[a] ELSE artifact[k]
    BY <1>p DEF TypeOK
  <1>s. /\ \A k \in Keys : k # key[a] => (Safe(k)' <=> Safe(k))
        /\ \A k \in Keys : k = key[a] /\ Safe(k)' => a \notin met
    BY <1>p, <1>k DEF Safe
  <1>1. TypeOK'
    <2>1. cut' \subseteq Digests /\ atRisk' \subseteq Keys
      BY <1>p DEF TypeOK, Orphaned
    <2>2. artifact' \in [Keys -> (1..MaxBlobId) \cup {NoArtifact}]
      BY <1>p DEF TypeOK
    <2> QED
      BY <1>p, <2>1, <2>2, StoreAssumption DEF TypeOK, End
  <1>2. IdsAreUnique'
    BY <1>p, <1>i, <1>k, StoreAssumption DEF TypeOK, IdsAreUnique, End
  <1>3. PutOK'
    BY <1>p DEF TypeOK, PutOK, End
  <1>4. \A d \in Digests : Condemned(d)' => Condemned(d)
    BY <1>p, StoreAssumption DEF TypeOK, Condemned, End
  <1>5. Exclusion'
    BY <1>4, <1>p DEF TypeOK, Exclusion, End
  <1>6. DeleteOK'
    <2> SUFFICES ASSUME NEW b \in Actors, NEW k \in Keys, Safe(k)',
                        digestOf[artifact'[k]] = digest[b], b # a
                 PROVE  /\ pc[b] \notin {"del_file", "del_blob"}
                        /\ pc[b] = "del_count" => artifact'[k] = ref[b]
      BY <1>p DEF DeleteOK, TypeOK, End
    <2>1. CASE k # key[a]
      BY <2>1, <1>k, <1>s DEF DeleteOK
    <2>2. CASE k = key[a]
      <3>1. a \notin met /\ digest[b] = digest[a] /\ artifact'[k] = ref[a]
        BY <2>2, <1>s, <1>k, <1>i
      <3>2. ~Condemned(digest[a])
        BY <3>1, <1>p DEF Exclusion
      <3>3. ref[a] = row[digest[a]]
        BY <3>1, <1>p DEF PutOK
      <3> QED
        BY <3>1, <3>2, <3>3 DEF Condemned
    <2> QED
      BY <2>1, <2>2
  <1>7. SafeIsStored'
    <2> SUFFICES ASSUME NEW k \in Keys, Safe(k)'
                 PROVE  /\ row[digestOf[artifact'[k]]] = artifact'[k]
                        /\ file[digestOf[artifact'[k]]] # "none"
      BY <1>p DEF SafeIsStored
    <2>1. CASE k # key[a]
      BY <2>1, <1>k, <1>s DEF SafeIsStored
    <2>2. CASE k = key[a]
      BY <2>2, <1>k, <1>s, <1>i, <1>p DEF PutOK
    <2> QED
      BY <2>1, <2>2
  <1> QED
    BY <1>1, <1>2, <1>3, <1>5, <1>6, <1>7

LEMMA BeginDeleteStep ==
    ASSUME IInv, NEW a \in Actors, NEW k \in Keys, BeginDelete(a, k)
    PROVE  IInv'
  <1> USE DEF IInv, BeginDelete
  <1>1. /\ artifact[k] \in 1..MaxBlobId /\ artifact[k] # 0
        /\ digestOf[artifact[k]] \in Digests /\ artifact[k] <= lastId
    BY StoreAssumption DEF TypeOK, IdsAreUnique
  <1>2. TypeOK'
    BY <1>1 DEF TypeOK
  <1>3. IdsAreUnique'
    BY <1>1 DEF TypeOK, IdsAreUnique
  <1>4. PutOK'
    BY <1>1 DEF TypeOK, PutOK
  <1>5. \A e \in Digests : Condemned(e)' => Condemned(e)
    BY DEF TypeOK, Condemned
  <1>6. Exclusion'
    BY <1>5 DEF TypeOK, Exclusion
  <1>7. DeleteOK' /\ SafeIsStored'
    BY DEF TypeOK, DeleteOK, SafeIsStored, Safe
  <1> QED
    BY <1>2, <1>3, <1>4, <1>6, <1>7

LEMMA DeleteMetadataStep ==
    ASSUME IInv, NEW a \in Actors, DeleteMetadata(a)
    PROVE  IInv'
  <1> USE DEF IInv
  <1>1. CASE artifact[key[a]] = NoArtifact
    <2>1. pc[a] # "idle" /\ End(a) /\ UNCHANGED <<store, atRisk>> /\ cut' \subseteq Digests
      BY <1>1 DEF DeleteMetadata, TypeOK
    <2> QED
      BY <2>1, EndStep
  <1>2. CASE artifact[key[a]] # NoArtifact
    <2>p. /\ pc[a] = "del_meta" /\ key[a] \in Keys
          /\ artifact' = [artifact EXCEPT ![key[a]] = NoArtifact]
          /\ atRisk' = atRisk \ {key[a]} /\ cut' = cut \cup Orphaned(key[a], ref[a])
          /\ Goto(a, "del_row")
          /\ UNCHANGED <<request, cancelled, met, file, row, digestOf, lastId>>
      BY <1>2 DEF DeleteMetadata, TypeOK
    <2>k. \A k \in Keys : artifact'[k] = IF k = key[a] THEN NoArtifact ELSE artifact[k]
      BY <2>p DEF TypeOK
    <2>s. \A k \in Keys : Safe(k)' => Safe(k) /\ artifact'[k] = artifact[k]
      BY <2>k, <2>p DEF Safe
    <2>1. TypeOK'
      <3>1. cut' \subseteq Digests /\ atRisk' \subseteq Keys
        BY <2>p DEF TypeOK, Orphaned
      <3> QED
        BY <2>p, <3>1 DEF TypeOK
    <2>2. IdsAreUnique'
      BY <2>k, <2>p DEF IdsAreUnique
    <2>3. PutOK'
      BY <2>p DEF TypeOK, PutOK
    <2>4. \A e \in Digests : Condemned(e)' => Condemned(e)
      BY <2>p DEF TypeOK, Condemned
    <2>5. Exclusion'
      BY <2>4, <2>p DEF TypeOK, Exclusion
    <2>6. DeleteOK' /\ SafeIsStored'
      BY <2>s, <2>p DEF TypeOK, DeleteOK, SafeIsStored
    <2> QED
      BY <2>1, <2>2, <2>3, <2>5, <2>6
  <1> QED
    BY <1>1, <1>2

\* Whoever holds the blob when its references are counted has met the
\* deletion; every artifact that is safe is linked to the id counted.
LEMMA DeleteCountStep ==
    ASSUME IInv, NEW a \in Actors, DeleteCount(a)
    PROVE  IInv'
  <1> USE DEF IInv
  <1>1. CASE ~Unreferenced(ref[a])
    <2>1. pc[a] # "idle" /\ End(a) /\ UNCHANGED <<store, atRisk>> /\ cut' \subseteq Digests
      BY <1>1 DEF DeleteCount, TypeOK
    <2> QED
      BY <2>1, EndStep
  <1>2. CASE Unreferenced(ref[a])
    <2> DEFINE holders == {b \in Actors : pc[b] \in Holding /\ digest[b] = digest[a]}
    <2>p. /\ pc[a] = "del_count" /\ digest[a] \in Digests /\ Goto(a, "del_file")
          /\ met' = met \cup holders /\ cut' = cut \cup {digest[b] : b \in holders}
          /\ UNCHANGED <<request, cancelled, store, atRisk>>
      BY <1>2 DEF DeleteCount, Meet, TypeOK
    <2>u. \A k \in Keys : artifact[k] # ref[a]
      BY <1>2, StoreAssumption DEF Unreferenced, LinkedIds, TypeOK
    <2>1. TypeOK' /\ IdsAreUnique'
      <3>1. met' \subseteq Actors /\ cut' \subseteq Digests
        BY <2>p DEF TypeOK
      <3> QED
        BY <2>p, <3>1 DEF TypeOK, IdsAreUnique
    <2>2. PutOK'
      BY <2>p DEF TypeOK, PutOK
    <2>3. \A e \in Digests : e # digest[a] /\ Condemned(e)' => Condemned(e)
      BY <2>p DEF TypeOK, Condemned
    <2>4. Exclusion'
      BY <2>3, <2>p DEF TypeOK, Exclusion
    <2>5. SafeIsStored'
      BY <2>p DEF SafeIsStored, Safe
    <2>6. DeleteOK'
      BY <2>p, <2>u DEF TypeOK, DeleteOK, Safe
    <2> QED
      BY <2>1, <2>2, <2>4, <2>5, <2>6
  <1> QED
    BY <1>1, <1>2

\* The file that goes is no safe artifact's, and who relies on it has met the
\* deletion.
LEMMA DeleteFileStep ==
    ASSUME IInv, NEW a \in Actors, DeleteFile(a)
    PROVE  IInv'
  <1> USE DEF IInv, DeleteFile
  <1>c. digest[a] \in Digests /\ Condemned(digest[a])
    BY DEF TypeOK, Condemned
  <1>1. TypeOK' /\ IdsAreUnique'
    BY DEF TypeOK, IdsAreUnique
  <1>2. PutOK'
    <2>1. \A b \in Actors : pc[b] \in Holding /\ b \notin met => digest[b] # digest[a]
      BY <1>c DEF Exclusion
    <2>2. \A e \in Digests : file'[e] = IF e = digest[a] THEN "none" ELSE file[e]
      BY DEF TypeOK
    <2>3. \A b \in Actors : pc[b] \in Holding => digest[b] \in Digests
      BY DEF TypeOK
    <2> QED
      BY <2>1, <2>2, <2>3 DEF TypeOK, PutOK
  <1>3. \A e \in Digests : Condemned(e)' => Condemned(e)
    BY DEF TypeOK, Condemned
  <1>4. Exclusion'
    BY <1>3 DEF TypeOK, Exclusion
  <1>5. DeleteOK'
    BY DEF TypeOK, DeleteOK, Safe
  <1>6. SafeIsStored'
    <2>1. \A k \in Keys : Safe(k) => digestOf[artifact[k]] # digest[a]
      BY DEF DeleteOK
    <2> QED
      BY <2>1 DEF TypeOK, SafeIsStored, Safe, IdsAreUnique
  <1> QED
    BY <1>1, <1>2, <1>4, <1>5, <1>6

LEMMA DeleteRowStep ==
    ASSUME IInv, NEW a \in Actors, DeleteRow(a)
    PROVE  IInv'
  <1> USE DEF IInv
  <1>p. /\ pc[a] = "del_blob" /\ digest[a] \in Digests /\ End(a)
        /\ UNCHANGED <<file, digestOf, lastId, artifact, atRisk, cut>>
    BY DEF DeleteRow, TypeOK
  <1>r. /\ \A e \in Digests : row'[e] \in {row[e], 0} /\ (e # digest[a] => row'[e] = row[e])
        /\ row' \in [Digests -> 0..MaxBlobId]
    BY StoreAssumption DEF DeleteRow, TypeOK
  <1>c. Condemned(digest[a])
    BY <1>p DEF Condemned
  <1>1. TypeOK'
    BY <1>p, <1>r, StoreAssumption DEF TypeOK, End
  <1>2. IdsAreUnique'
    <2>1. \A e \in Digests : row'[e] <= lastId /\ (row'[e] # 0 => digestOf[row'[e]] = e)
      BY <1>r, StoreAssumption DEF IdsAreUnique, TypeOK
    <2>2. \A b \in Actors : ref'[b] <= lastId /\ (ref'[b] # 0 => digestOf[ref'[b]] = digest'[b])
      BY <1>p, StoreAssumption DEF IdsAreUnique, TypeOK, End
    <2> QED
      BY <1>p, <2>1, <2>2 DEF IdsAreUnique
  <1>h. \A b \in Actors : pc[b] \in Holding /\ b \notin met =>
            digest[b] \in Digests /\ digest[b] # digest[a]
    BY <1>c DEF Exclusion, TypeOK
  <1>3. PutOK'
    BY <1>p, <1>r, <1>h DEF TypeOK, PutOK, End
  <1>4. \A e \in Digests : e # digest[a] /\ Condemned(e)' => Condemned(e)
    BY <1>p, <1>r, StoreAssumption DEF TypeOK, Condemned, End
  <1>5. Exclusion'
    <2> SUFFICES ASSUME NEW b \in Actors, pc[b] \in Holding, b # a, Condemned(digest[b])'
                 PROVE  b \in met
      BY <1>p DEF Exclusion, TypeOK, End
    <2>1. digest'[b] = digest[b] /\ digest[b] \in Digests
      BY <1>p DEF End, TypeOK
    <2>2. CASE digest[b] = digest[a]
      BY <2>2, <1>h
    <2>3. CASE digest[b] # digest[a]
      BY <2>1, <2>3, <1>4 DEF Exclusion
    <2> QED
      BY <2>2, <2>3
  <1>s. \A k \in Keys : Safe(k) => digestOf[artifact[k]] # digest[a]
                                   /\ digestOf[artifact[k]] \in Digests
    BY <1>p DEF DeleteOK, IdsAreUnique, Safe
  <1>6. DeleteOK'
    BY <1>p DEF TypeOK, DeleteOK, Safe, End
  <1>7. SafeIsStored'
    BY <1>p, <1>r, <1>s DEF SafeIsStored, Safe
  <1> QED
    BY <1>1, <1>2, <1>3, <1>5, <1>6, <1>7

LEMMA CrashStep ==
    ASSUME IInv, Crash
    PROVE  IInv'
  <1> USE DEF IInv, Crash
  <1>1. TypeOK'
    <2>1. cut' \subseteq Digests
      BY DEF TypeOK
    <2> QED
      BY <2>1, StoreAssumption DEF TypeOK
  <1>2. IdsAreUnique' /\ PutOK'
    BY StoreAssumption DEF TypeOK, IdsAreUnique, PutOK
  <1>3. Exclusion' /\ DeleteOK' /\ SafeIsStored'
    BY DEF Exclusion, DeleteOK, SafeIsStored, Safe
  <1> QED
    BY <1>1, <1>2, <1>3

LEMMA TruncateStep ==
    ASSUME IInv, NEW d \in Digests, Truncate(d)
    PROVE  IInv'
  <1> USE DEF IInv, Truncate
  <1>1. TypeOK' /\ IdsAreUnique'
    BY DEF TypeOK, IdsAreUnique
  <1>2. PutOK'
    BY DEF TypeOK, PutOK
  <1>3. Exclusion' /\ DeleteOK' /\ SafeIsStored'
    BY DEF TypeOK, Exclusion, Condemned, DeleteOK, SafeIsStored, Safe, IdsAreUnique
  <1> QED
    BY <1>1, <1>2, <1>3

LEMMA StutterStep ==
    ASSUME IInv, UNCHANGED <<store, pc, request, history>>,
           cancelled' \in [Actors -> BOOLEAN]
    PROVE  IInv'
  BY DEF IInv, TypeOK, IdsAreUnique, PutOK, Exclusion, Condemned, DeleteOK,
         SafeIsStored, Safe

-----------------------------------------------------------------------------

\* The remaining actions only move on (GotoStep) or end (EndStep).
LEMMA ActorStep ==
    ASSUME IInv, NEW a \in Actors,
           \/ PutFind(a) \/ PutCheck(a) \/ PutMove(a)
           \/ PutSave(a) \/ PutSaveConflicts(a) \/ PutSaveCancelled(a)
           \/ Commit(a) \/ Abort(a)
           \/ DeleteMetadata(a) \/ DeleteFindRow(a) \/ DeleteCount(a)
           \/ DeleteFile(a) \/ DeleteRow(a) \/ StatementCancelled(a)
           \/ Disconnect(a)
    PROVE  IInv'
  <1>t. cut \subseteq Digests /\ cancelled \in [Actors -> BOOLEAN]
    BY DEF IInv, TypeOK
  <1>r. pc[a] \in {"put_check", "stored"} \cup Deleting => ref[a] # 0
    BY DEF IInv, PutOK
  <1>1. CASE PutCheck(a)
    <2>1. PICK there \in {"stored", "put_move"} :
              Goto(a, there) /\ (there = "stored" => Reusable(digest[a]))
      BY <1>1, Zenon DEF PutCheck
    <2>2. pc[a] = "put_check" /\ UNCHANGED <<store, request, cancelled, history>>
      BY <1>1 DEF PutCheck
    <2>3. there = "stored" => file[digest[a]] = "good"
      BY <2>1 DEF Reusable
    <2> QED
      BY <2>1, <2>2, <2>3, <1>t, <1>r, GotoStep
  <1>2. CASE Abort(a)
    BY <1>2, <1>t, <1>r, GotoStep DEF Abort
  <1>3. CASE DeleteFindRow(a)
    <2>1. CASE row[digest[a]] = ref[a]
      BY <1>3, <2>1, <1>t, <1>r, GotoStep DEF DeleteFindRow
    <2>2. CASE row[digest[a]] # ref[a]
      BY <1>3, <2>2, <1>t, EndStep DEF DeleteFindRow
    <2> QED
      BY <2>1, <2>2
  <1>4. CASE PutSaveConflicts(a)
    BY <1>4, <1>t, EndStep DEF PutSaveConflicts
  <1>5. CASE PutSaveCancelled(a) \/ StatementCancelled(a)
    <2>1. GiveUp(a) /\ pc[a] # "idle"
      BY <1>5 DEF PutSaveCancelled, StatementCancelled
    <2>2. digest[a] \in Digests
      BY <2>1 DEF IInv, TypeOK
    <2> QED
      BY <2>1, <2>2, <1>t, EndStep DEF GiveUp
  <1>6. CASE Disconnect(a)
    <2>1. cancelled' \in [Actors -> BOOLEAN]
      BY <1>6, <1>t DEF Disconnect
    <2> QED
      BY <1>6, <2>1, StutterStep DEF Disconnect
  <1> QED
    BY <1>1, <1>2, <1>3, <1>4, <1>5, <1>6, PutFindStep, PutMoveStep, PutSaveStep,
       CommitStep, DeleteMetadataStep, DeleteCountStep, DeleteFileStep, DeleteRowStep

LEMMA NextIInv == IInv /\ [Next]_vars => IInv'
  <1> SUFFICES ASSUME IInv, [Next]_vars PROVE IInv'
    OBVIOUS
  <1>1. CASE Next
    BY <1>1, BeginUploadStep, BeginDeleteStep, ActorStep, CrashStep, TruncateStep
       DEF Next
  <1>2. CASE UNCHANGED vars
    <2>1. cancelled' \in [Actors -> BOOLEAN]
      BY <1>2 DEF vars, IInv, TypeOK
    <2> QED
      BY <1>2, <2>1, StutterStep DEF vars
  <1> QED
    BY <1>1, <1>2

LEMMA Invariance == Spec => []IInv
  BY InitIInv, NextIInv, PTL DEF Spec

-----------------------------------------------------------------------------

\* Every variable keeps its type.
THEOREM TypeCorrect == Spec => []TypeOK
  BY Invariance, PTL DEF IInv

\* Whatever requests, disconnections, crashes and truncated files do, in any
\* order, an artifact whose own upload met no deletion is never left without
\* its row or file.
THEOREM ContentIsKept == Spec => []ArtifactsKeepContent
  <1>1. IInv => ArtifactsKeepContent
    BY DEF IInv, SafeIsStored, Safe, IdsAreUnique, ArtifactsKeepContent, Stored
  <1> QED
    BY <1>1, Invariance, PTL

\* A put that returns leaves a complete file behind it, unless it met a
\* deletion.
THEOREM PutsHeal == Spec => PutHeals
  <1> DEFINE Heals == \A a \in Actors \ met :
                 pc[a] \in {"put_check", "put_save"} /\ pc'[a] = "stored" =>
                     row'[digest[a]] = ref'[a] /\ file'[digest[a]] = "good"
  <1>1. IInv /\ IInv' /\ [Next]_vars => [Heals]_vars
    <2> SUFFICES ASSUME IInv, IInv', Next, NEW a \in Actors \ met,
                        pc[a] \in {"put_check", "put_save"}, pc'[a] = "stored"
                 PROVE  row'[digest[a]] = ref'[a] /\ file'[digest[a]] = "good"
      OBVIOUS
    <2>1. CASE PutCheck(a) \/ PutSave(a)
      <3>1. digest'[a] = digest[a] /\ a \notin met'
        BY <2>1 DEF PutCheck, PutSave
      <3> QED
        BY <3>1 DEF IInv, PutOK
    <2>2. CASE ~(PutCheck(a) \/ PutSave(a))
      <3> USE <2>2 DEF IInv, TypeOK
      <3>1. ASSUME NEW b \in Actors, PutFind(b) \/ PutCheck(b) \/ PutMove(b) \/ PutSave(b)
                                       \/ Abort(b) \/ DeleteFile(b) \/ Disconnect(b)
            PROVE  FALSE
        BY <3>1 DEF PutFind, PutCheck, PutMove, PutSave, Abort, DeleteFile, Disconnect
      <3>2. ASSUME NEW b \in Actors, \/ PutSaveConflicts(b) \/ PutSaveCancelled(b) \/ Commit(b)
                                       \/ DeleteRow(b) \/ StatementCancelled(b)
            PROVE  FALSE
        BY <3>2 DEF PutSaveConflicts, PutSaveCancelled, Commit, DeleteRow,
                    StatementCancelled, GiveUp, End
      <3>3. ASSUME NEW b \in Actors, DeleteMetadata(b) \/ DeleteFindRow(b) \/ DeleteCount(b)
            PROVE  FALSE
        <4>1. PICK there \in {"idle", "del_row", "del_count", "del_file"} :
                  pc' = [pc EXCEPT ![b] = there]
          BY <3>3, Zenon DEF DeleteMetadata, DeleteFindRow, DeleteCount, End
        <4> QED
          BY <4>1
      <3>4. CASE \/ \E b \in Actors, k \in Keys, d \in Digests : BeginUpload(b, k, d)
                 \/ \E b \in Actors, k \in Keys : BeginDelete(b, k)
                 \/ Crash \/ \E d \in Digests : Truncate(d)
        BY <3>4 DEF BeginUpload, BeginDelete, Crash, Truncate
      <3> QED
        BY <3>1, <3>2, <3>3, <3>4 DEF Next
    <2> QED
      BY <2>1, <2>2
  <1> QED
    BY <1>1, Invariance, PTL DEF Spec, PutHeals
-----------------------------------------------------------------------------
(* The refinement of ArtifactStore.                                        *)

\* The content and the answer of a key, with the conditions spelt out.
LEMMA AnswerOf ==
    ASSUME IInv, NEW k \in Keys
    PROVE  /\ artifact[k] = NoArtifact => content[k] = Nothing /\ answer[k] = "not found"
           /\ artifact[k] # NoArtifact =>
                  /\ content[k] = digestOf[artifact[k]] /\ content[k] \in Digests
                  /\ content[k] # Nothing
                  /\ row[content[k]] # artifact[k] \/ file[content[k]] = "none" =>
                         answer[k] = "missing"
                  /\ row[content[k]] = artifact[k] /\ file[content[k]] = "bad" =>
                         answer[k] = "corrupt"
                  /\ row[content[k]] = artifact[k] /\ file[content[k]] = "good" =>
                         answer[k] = "content"
  <1>1. artifact[k] # NoArtifact => digestOf[artifact[k]] \in Digests
    BY DEF IInv, IdsAreUnique
  <1>2. content[k] = IF artifact[k] = NoArtifact THEN Nothing ELSE digestOf[artifact[k]]
    BY DEF content
  <1>3. answer[k] = IF artifact[k] = NoArtifact THEN "not found"
                    ELSE OpenContext(content[k], artifact[k])
    BY DEF answer
  <1>4. \A d \in Digests : LET o == OpenContext(d, artifact[k]) IN
            /\ row[d] # artifact[k] \/ file[d] = "none" => o = "missing"
            /\ row[d] = artifact[k] /\ file[d] = "bad" => o = "corrupt"
            /\ row[d] = artifact[k] /\ file[d] = "good" => o = "content"
    BY DEF OpenContext
  <1> QED
    BY <1>1, <1>2, <1>3, <1>4, StoreAssumption

\* A step that leaves a key's artifact, row and file alone leaves its answer.
LEMMA SameAnswer ==
    ASSUME IInv, IInv', NEW k \in Keys, artifact'[k] = artifact[k],
           artifact[k] # NoArtifact =>
               LET d == digestOf[artifact[k]] IN
               /\ digestOf'[artifact[k]] = d
               /\ row'[d] = artifact[k] <=> row[d] = artifact[k]
               /\ file'[d] = file[d]
    PROVE  content'[k] = content[k] /\ answer'[k] = answer[k]
  <1>1. CASE artifact[k] = NoArtifact
    BY <1>1 DEF content, answer
  <1>2. CASE artifact[k] # NoArtifact
    <2>1. content'[k] = content[k] /\ content[k] = digestOf[artifact[k]]
      BY <1>2 DEF content
    <2>2. /\ answer[k] = OpenContext(content[k], artifact[k])
          /\ answer'[k] = OpenContext(content[k], artifact[k])'
      BY <1>2, <2>1 DEF answer, OpenContext
    <2> QED
      BY <1>2, <2>1, <2>2 DEF OpenContext
  <1> QED
    BY <1>1, <1>2

\* The same of the next state.
LEMMA AnswerNext ==
    ASSUME NEW k \in Keys, NEW d, artifact'[k] # NoArtifact, digestOf'[artifact'[k]] = d
    PROVE  /\ content'[k] = d
           /\ row'[d] # artifact'[k] \/ file'[d] = "none" => answer'[k] = "missing"
           /\ (row'[d] = artifact'[k] /\ file'[d] = "bad") => answer'[k] = "corrupt"
           /\ (row'[d] = artifact'[k] /\ file'[d] = "good") => answer'[k] = "content"
  <1>1. content'[k] = d
    BY DEF content
  <1>2. answer'[k] = OpenContext(content[k], artifact[k])'
    BY DEF answer
  <1>3. OpenContext(content[k], artifact[k])' =
            CASE row'[content'[k]] # artifact'[k] \/ file'[content'[k]] = "none" -> "missing"
              [] row'[content'[k]] = artifact'[k] /\ file'[content'[k]] = "bad"  -> "corrupt"
              [] row'[content'[k]] = artifact'[k] /\ file'[content'[k]] = "good" -> "content"
    BY DEF OpenContext
  <1> HIDE DEF content, answer
  <1> QED
    BY <1>1, <1>2, <1>3

\* Commit publishes: safely, unless the upload has met a deletion.
LEMMA CommitPublishes ==
    ASSUME IInv, IInv', NEW a \in Actors, Commit(a)
    PROVE  \E k \in Keys, d \in Digests :
               Abstract!PublishSafely(k, d) \/ Abstract!PublishAtRisk(k, d)
  <1> DEFINE k == key[a]
             d == digest[a]
  <1>1. /\ pc[a] = "stored" /\ k \in Keys /\ d \in Digests /\ ref[a] # NoArtifact /\ ref[a] # 0
        /\ artifact' = [artifact EXCEPT ![k] = ref[a]] /\ digestOf[ref[a]] = d
        /\ AllowOverwrite \/ artifact[k] = NoArtifact
        /\ atRisk' = IF a \in met THEN atRisk \cup {k} ELSE atRisk \ {k}
        /\ UNCHANGED <<file, row, digestOf>>
    BY StoreAssumption DEF Commit, MayCommit, IInv, TypeOK, PutOK, IdsAreUnique
  <1>2. artifact'[k] = ref[a] /\ \A j \in Keys : j # k => artifact'[j] = artifact[j]
    BY <1>1 DEF IInv, TypeOK
  <1>3. /\ file[d] \in {"none", "good"}
        /\ a \notin met => row[d] = ref[a] /\ file[d] = "good"
    BY <1>1 DEF IInv, TypeOK, PutOK
  <1> HIDE DEF k, d
  <1>4. content'[k] = d
    BY <1>1, <1>2, AnswerOf, StoreAssumption DEF content
  <1>5. /\ answer'[k] \in {"content", "missing"}
        /\ a \notin met => answer'[k] = "content"
    <2>1. /\ row'[d] # artifact'[k] \/ file'[d] = "none" => answer'[k] = "missing"
          /\ row'[d] = artifact'[k] /\ file'[d] = "good" => answer'[k] = "content"
      <3>1. artifact'[k] # NoArtifact /\ digestOf'[artifact'[k]] = d
        BY <1>1, <1>2
      <3> QED
        BY <3>1, <1>1, AnswerNext
    <2> QED
      BY <1>1, <1>2, <1>3, <2>1
  <1>6. \A j \in Keys : j # k => content'[j] = content[j] /\ answer'[j] = answer[j]
    BY <1>1, <1>2, SameAnswer
  <1>7. content' = [content EXCEPT ![k] = d]
    <2>1. content' = [j \in Keys |-> content'[j]] /\ content = [j \in Keys |-> content[j]]
      BY DEF content
    <2> QED
      BY <2>1, <1>1, <1>4, <1>6
  <1>8. answer' = [j \in Keys |-> IF j \in {k} THEN answer'[k] ELSE answer[j]]
    <2>1. answer' = [j \in Keys |-> answer'[j]]
      BY DEF answer
    <2> QED
      BY <2>1, <1>6
  <1>9. AllowOverwrite \/ content[k] = Nothing
    BY <1>1 DEF content
  <1>10. CASE a \in met
    <2>1. Abstract!PublishAtRisk(k, d)
      BY <1>1, <1>5, <1>7, <1>8, <1>9, <1>10
         DEF Abstract!PublishAtRisk, Abstract!Publish, Abstract!Answers
    <2> QED
      BY <1>1, <2>1
  <1>11. CASE a \notin met
    <2>1. Abstract!PublishSafely(k, d)
      BY <1>1, <1>5, <1>7, <1>8, <1>9, <1>11
         DEF Abstract!PublishSafely, Abstract!Publish, Abstract!Answers
    <2> QED
      BY <1>1, <2>1
  <1> QED
    BY <1>10, <1>11

\* Deleting the metadata removes; a deletion that finds none is not seen.
LEMMA DeleteRemoves ==
    ASSUME IInv, IInv', NEW a \in Actors, DeleteMetadata(a), artifact[key[a]] # NoArtifact
    PROVE  \E k \in Keys : Abstract!Remove(k)
  <1> DEFINE k == key[a]
  <1>1. /\ k \in Keys /\ artifact' = [artifact EXCEPT ![k] = NoArtifact]
        /\ atRisk' = atRisk \ {k} /\ UNCHANGED <<file, row, digestOf>>
    BY DEF DeleteMetadata, IInv, TypeOK
  <1> HIDE DEF k
  <1>2. artifact'[k] = NoArtifact /\ \A j \in Keys : j # k => artifact'[j] = artifact[j]
    BY <1>1 DEF IInv, TypeOK
  <1>3. content'[k] = Nothing /\ answer'[k] = "not found" /\ content[k] # Nothing
    <2>1. content'[k] = Nothing /\ answer'[k] = "not found"
      BY <1>1, <1>2 DEF content, answer
    <2> QED
      BY <2>1, <1>1, AnswerOf DEF k
  <1>4. \A j \in Keys : j # k => content'[j] = content[j] /\ answer'[j] = answer[j]
    BY <1>1, <1>2, SameAnswer
  <1>5. content' = [content EXCEPT ![k] = Nothing]
    <2>1. content' = [j \in Keys |-> content'[j]] /\ content = [j \in Keys |-> content[j]]
      BY DEF content
    <2> QED
      BY <2>1, <1>1, <1>3, <1>4
  <1>6. answer' = [j \in Keys |-> IF j \in {k} THEN "not found" ELSE answer[j]]
    <2>1. answer' = [j \in Keys |-> answer'[j]]
      BY DEF answer
    <2> QED
      BY <2>1, <1>3, <1>4
  <1> QED
    BY <1>1, <1>3, <1>5, <1>6 DEF Abstract!Remove, Abstract!Answers

\* A step that changes the file or the row of one digest changes the answers
\* of that content only.
LEMMA AnswersChange ==
    ASSUME IInv, IInv', NEW d \in Digests, NEW K \in SUBSET Keys, NEW this,
           UNCHANGED <<artifact, atRisk>>,
           \A k \in Keys : artifact[k] # NoArtifact => digestOf'[artifact[k]] = digestOf[artifact[k]],
           \A e \in Digests : e # d => row'[e] = row[e] /\ file'[e] = file[e],
           \A k \in K : content[k] = d,
           \A k \in Keys : content[k] = d => answer'[k] = IF k \in K THEN this ELSE answer[k]
    PROVE  Abstract!Answers(K, this) /\ UNCHANGED <<content, atRisk>>
  <1>1. \A k \in Keys : content'[k] = content[k]
    BY DEF content
  <1>2. \A k \in Keys : content[k] # d => answer'[k] = answer[k]
    <2> SUFFICES ASSUME NEW k \in Keys, content[k] # d
                 PROVE  answer'[k] = answer[k]
      OBVIOUS
    <2>1. artifact[k] # NoArtifact => digestOf[artifact[k]] \in Digests \ {d}
      BY DEF content, IInv, IdsAreUnique
    <2> QED
      BY <2>1, SameAnswer
  <1>3. content' = content
    <2>1. content' = [k \in Keys |-> content'[k]] /\ content = [k \in Keys |-> content[k]]
      BY DEF content
    <2> QED
      BY <2>1, <1>1
  <1>4. answer' = [k \in Keys |-> IF k \in K THEN this ELSE answer[k]]
    <2>1. answer' = [k \in Keys |-> answer'[k]]
      BY DEF answer
    <2> QED
      BY <2>1, <1>2
  <1> QED
    BY <1>3, <1>4 DEF Abstract!Answers

LEMMA PutMoveRepairs ==
    ASSUME IInv, IInv', NEW a \in Actors, PutMove(a)
    PROVE  \E d \in Digests : Abstract!Repair(d)
  <1> DEFINE d == digest[a]
             K == {k \in Keys : content[k] = d /\ row[d] = artifact[k]}
  <1>1. /\ d \in Digests /\ UNCHANGED <<row, digestOf, artifact, atRisk>>
        /\ \A e \in Digests : file'[e] = IF e = d THEN "good" ELSE file[e]
    BY DEF PutMove, IInv, TypeOK
  <1>2. ASSUME NEW k \in Keys, content[k] = d
        PROVE  answer'[k] = IF k \in K THEN "content" ELSE answer[k]
    <2>1. artifact[k] # NoArtifact /\ digestOf[artifact[k]] = d
      BY <1>1, <1>2, AnswerOf, StoreAssumption
    <2>2. /\ row'[d] # artifact'[k] => answer'[k] = "missing"
          /\ row'[d] = artifact'[k] => answer'[k] = "content"
      <3>1. artifact'[k] # NoArtifact /\ digestOf'[artifact'[k]] = d /\ file'[d] = "good"
        BY <1>1, <2>1
      <3> HIDE DEF d
      <3> QED
        BY <3>1, AnswerNext
    <2>3. row[d] # artifact[k] => answer[k] = "missing"
      BY <1>2, <2>1, AnswerOf
    <2> QED
      BY <1>1, <1>2, <2>2, <2>3
  <1> HIDE DEF d
  <1>3. K \in SUBSET Keys /\ \A k \in K : content[k] = d
    OBVIOUS
  <1> HIDE DEF K
  <1>4. Abstract!Answers(K, "content") /\ UNCHANGED <<content, atRisk>>
    BY <1>1, <1>2, <1>3, AnswersChange
  <1> QED
    BY <1>1, <1>3, <1>4 DEF Abstract!Repair, Abstract!Having

LEMMA PutSaveRepairs ==
    ASSUME IInv, IInv', NEW a \in Actors, PutSave(a)
    PROVE  \E d \in Digests : Abstract!Repair(d)
  <1> DEFINE d == digest[a]
             id == SavedId(a)
             K == {k \in Keys : content[k] = d /\ artifact[k] = id /\ file[d] = "good"}
  <1>1. /\ d \in Digests /\ UNCHANGED <<file, artifact, atRisk>>
        /\ row[d] \in {0, id} /\ file[d] \in {"none", "good"}
        /\ \A e \in Digests : row'[e] = IF e = d THEN id ELSE row[e]
    BY DEF PutSave, IInv, TypeOK, PutOK
  <1>2. \A k \in Keys : artifact[k] # NoArtifact => digestOf'[artifact[k]] = digestOf[artifact[k]]
    <2> SUFFICES ASSUME NEW k \in Keys, artifact[k] # NoArtifact
                 PROVE  digestOf'[artifact[k]] = digestOf[artifact[k]]
      OBVIOUS
    <2>1. artifact[k] \in 1..MaxBlobId /\ artifact[k] <= lastId
      BY DEF IInv, TypeOK, IdsAreUnique
    <2>2. digestOf' = [digestOf EXCEPT ![id] = d]
      BY DEF PutSave
    <2>3. CASE ref[a] # 0
      <3>1. id = ref[a] /\ digestOf[ref[a]] = d
        BY <2>3 DEF SavedId, IInv, IdsAreUnique
      <3> QED
        BY <2>1, <2>2, <3>1 DEF IInv, TypeOK
    <2>4. CASE ref[a] = 0
      <3>1. id = lastId + 1 /\ lastId \in Nat
        BY <2>4, StoreAssumption DEF SavedId, IInv, TypeOK
      <3>2. artifact[k] # id
        BY <2>1, <3>1, StoreAssumption
      <3> HIDE DEF id
      <3> QED
        BY <2>1, <2>2, <3>2 DEF IInv, TypeOK
    <2> QED
      BY <2>3, <2>4
  <1> HIDE DEF id
  <1>3. ASSUME NEW k \in Keys, content[k] = d
        PROVE  answer'[k] = IF k \in K THEN "content" ELSE answer[k]
    <2>1. artifact[k] # NoArtifact /\ digestOf[artifact[k]] = d
      BY <1>1, <1>3, AnswerOf, StoreAssumption
    <2>2. answer'[k] = IF artifact[k] = id /\ file[d] = "good" THEN "content" ELSE "missing"
      <3>1. /\ artifact'[k] = artifact[k] /\ artifact'[k] # NoArtifact
            /\ digestOf'[artifact'[k]] = d /\ row'[d] = id /\ file'[d] = file[d]
        BY <1>1, <1>2, <2>1
      <3> HIDE DEF d
      <3> QED
        BY <1>1, <3>1, AnswerNext
    <2>3. ~(artifact[k] = id /\ file[d] = "good") => answer[k] = "missing"
      <3>1. artifact[k] # 0
        BY <2>1 DEF IInv, TypeOK
      <3> QED
        BY <1>1, <1>3, <2>1, <3>1, AnswerOf
    <2> QED
      BY <1>1, <1>3, <2>2, <2>3
  <1> HIDE DEF d
  <1>4. K \in SUBSET Keys /\ \A k \in K : content[k] = d
    OBVIOUS
  <1> HIDE DEF K
  <1>5. Abstract!Answers(K, "content") /\ UNCHANGED <<content, atRisk>>
    BY <1>1, <1>2, <1>3, <1>4, AnswersChange
  <1> QED
    BY <1>1, <1>4, <1>5 DEF Abstract!Repair, Abstract!Having

LEMMA TruncateDamages ==
    ASSUME IInv, IInv', NEW d \in Digests, Truncate(d)
    PROVE  Abstract!Damage(d)
  <1> DEFINE K == {k \in Abstract!Having(d) : answer[k] = "content"}
  <1>1. /\ file[d] = "good" /\ UNCHANGED <<row, digestOf, artifact, atRisk>>
        /\ \A e \in Digests : file'[e] = IF e = d THEN "bad" ELSE file[e]
    BY DEF Truncate, IInv, TypeOK
  <1>2. ASSUME NEW k \in Keys, content[k] = d
        PROVE  answer'[k] = IF k \in K THEN "corrupt" ELSE answer[k]
    <2>1. artifact[k] # NoArtifact /\ digestOf[artifact[k]] = d
      BY <1>1, <1>2, AnswerOf, StoreAssumption
    <2>2. answer'[k] = IF row[d] = artifact[k] THEN "corrupt" ELSE "missing"
      <3>1. artifact'[k] # NoArtifact /\ digestOf'[artifact'[k]] = d /\ file'[d] = "bad"
        BY <1>1, <2>1
      <3> QED
        BY <3>1, <1>1, AnswerNext
    <2>3. answer[k] = IF row[d] = artifact[k] THEN "content" ELSE "missing"
      BY <1>1, <1>2, <2>1, AnswerOf
    <2> QED
      BY <1>2, <2>2, <2>3 DEF Abstract!Having
  <1>3. K \in SUBSET Keys /\ \A k \in K : content[k] = d
    BY DEF Abstract!Having
  <1> HIDE DEF K
  <1>4. Abstract!Answers(K, "corrupt") /\ UNCHANGED <<content, atRisk>>
    BY <1>1, <1>2, <1>3, AnswersChange
  <1> QED
    BY <1>4 DEF Abstract!Damage, K

\* Who deletes a file, or a row, loses only what was published at risk.
LEMMA DeletionLoses ==
    ASSUME IInv, IInv', NEW a \in Actors, DeleteFile(a) \/ DeleteRow(a)
    PROVE  \E d \in Digests : Abstract!Lose(d)
  <1> DEFINE d == digest[a]
             K == {k \in Keys : content[k] = d /\
                                (file'[d] = "none" \/ row'[d] # artifact[k])}
  <1>1. /\ d \in Digests /\ pc[a] \in {"del_file", "del_blob"}
        /\ UNCHANGED <<digestOf, artifact, atRisk>>
        /\ \A e \in Digests : e # d => row'[e] = row[e] /\ file'[e] = file[e]
    BY DEF DeleteFile, DeleteRow, IInv, TypeOK
  <1>2. file'[d] \in {file[d], "none"} /\ row'[d] \in {row[d], 0}
    BY <1>1 DEF DeleteFile, DeleteRow, IInv, TypeOK
  <1>3. ASSUME NEW k \in Keys, content[k] = d
        PROVE  answer'[k] = IF k \in K THEN "missing" ELSE answer[k]
    <2>1. artifact[k] # NoArtifact /\ digestOf[artifact[k]] = d
      BY <1>1, <1>3, AnswerOf, StoreAssumption
    <2>2. artifact'[k] # NoArtifact /\ digestOf'[artifact'[k]] = d /\ artifact'[k] = artifact[k]
      BY <1>1, <2>1
    <2>3. ASSUME k \in K PROVE answer'[k] = "missing"
      <3>1. file'[d] = "none" \/ row'[d] # artifact'[k]
        BY <2>2, <2>3
      <3> HIDE DEF d, K
      <3> QED
        BY <2>2, <3>1, AnswerNext
    <2>4. ASSUME k \notin K PROVE answer'[k] = answer[k]
      <3>1. artifact[k] # 0
        BY <2>1 DEF IInv, TypeOK
      <3>2. file'[d] = file[d] /\ row'[d] = row[d]
        BY <1>1, <1>2, <1>3, <2>1, <2>4, <3>1
      <3> HIDE DEF d, K
      <3> QED
        BY <1>1, <2>1, <2>2, <3>2, SameAnswer
    <2> HIDE DEF K
    <2> QED
      BY <2>3, <2>4
  <1>4. K \subseteq Keys /\ \A k \in K : content[k] = d
    OBVIOUS
  <1>5. K \subseteq atRisk
    <2> SUFFICES ASSUME NEW k \in Keys, content[k] = d, k \notin atRisk PROVE FALSE
      OBVIOUS
    <2>1. artifact[k] # NoArtifact /\ content[k] = digestOf[artifact[k]]
      BY <1>1, AnswerOf, StoreAssumption
    <2> QED
      BY <1>1, <2>1 DEF IInv, DeleteOK, Safe
  <1> HIDE DEF K, d
  <1>6. Abstract!Answers(K, "missing") /\ UNCHANGED <<content, atRisk>>
    BY <1>1, <1>3, <1>4, AnswersChange
  <1>7. K \in SUBSET (Abstract!Having(d) \cap atRisk)
    BY <1>4, <1>5 DEF Abstract!Having
  <1> QED
    BY <1>1, <1>6, <1>7 DEF Abstract!Lose

LEMMA StepRefines == IInv /\ IInv' /\ [Next]_vars => [Abstract!Next]_(Abstract!vars)
  <1> SUFFICES ASSUME IInv, IInv', [Next]_vars PROVE [Abstract!Next]_(Abstract!vars)
    OBVIOUS
  <1>0. ASSUME UNCHANGED <<store, atRisk>> PROVE UNCHANGED Abstract!vars
    BY <1>0 DEF Abstract!vars, content, answer, OpenContext
  <1>1. CASE UNCHANGED vars
    BY <1>0, <1>1 DEF vars
  <1>2. ASSUME NEW a \in Actors, Commit(a) PROVE Abstract!Next
    BY <1>2, CommitPublishes DEF Abstract!Next
  <1>3. ASSUME NEW a \in Actors, DeleteMetadata(a)
        PROVE  Abstract!Next \/ UNCHANGED Abstract!vars
    <2>1. CASE artifact[key[a]] # NoArtifact
      BY <1>3, <2>1, DeleteRemoves DEF Abstract!Next
    <2>2. CASE artifact[key[a]] = NoArtifact
      BY <1>0, <1>3, <2>2 DEF DeleteMetadata, End
    <2> QED
      BY <2>1, <2>2
  <1>4. ASSUME NEW a \in Actors, PutMove(a) \/ PutSave(a) PROVE Abstract!Next
    BY <1>4, PutMoveRepairs, PutSaveRepairs DEF Abstract!Next
  <1>5. ASSUME NEW a \in Actors, DeleteFile(a) \/ DeleteRow(a) PROVE Abstract!Next
    BY <1>5, DeletionLoses DEF Abstract!Next
  <1>6. ASSUME NEW d \in Digests, Truncate(d) PROVE Abstract!Next
    BY <1>6, TruncateDamages DEF Abstract!Next
  <1>7. ASSUME NEW a \in Actors,
               \/ PutFind(a) \/ PutCheck(a) \/ PutSaveConflicts(a) \/ PutSaveCancelled(a)
               \/ Abort(a) \/ DeleteFindRow(a) \/ DeleteCount(a) \/ StatementCancelled(a)
               \/ Disconnect(a)
        PROVE  UNCHANGED <<store, atRisk>>
    BY <1>7 DEF PutFind, PutCheck, PutSaveConflicts, PutSaveCancelled, Abort, DeleteFindRow,
                DeleteCount, StatementCancelled, GiveUp, Disconnect
  <1>8. ASSUME \/ \E a \in Actors, k \in Keys, d \in Digests : BeginUpload(a, k, d)
               \/ \E a \in Actors, k \in Keys : BeginDelete(a, k)
               \/ Crash
        PROVE  UNCHANGED <<store, atRisk>>
    BY <1>8 DEF BeginUpload, BeginDelete, Crash
  <1> QED
    BY <1>0, <1>1, <1>2, <1>3, <1>4, <1>5, <1>6, <1>7, <1>8 DEF Next

\* The store with its files, rows and sessions implements the abstract one: a
\* key's content appears by Publish, goes by Remove, is never another one, and
\* is answered with an error only after a disk fault or a publication at risk.
THEOREM StoreImplementsArtifactStore == Spec => ImplementsArtifactStore
  <1>1. Init => Abstract!Init
    BY DEF Init, Abstract!Init, content, answer
  <1> QED
    BY <1>1, Invariance, StepRefines, PTL DEF Spec, ImplementsArtifactStore, Abstract!Spec
-----------------------------------------------------------------------------
(* Nothing leaks.  Of a digest nothing was cut short for, a row that no     *)
(* artifact links to has a request that will commit or delete it, and a     *)
(* file without a row has a put that is about to save one.                  *)

Cleaning == {"stored", "del_row", "del_count", "del_file", "del_blob"}

Linked(d) == \E k \in Keys : artifact[k] = row[d]

Cleans(a, d) == pc[a] \in Cleaning /\ digest[a] = d /\ ref[a] = row[d]

Writes(a, d) == pc[a] = "put_save" /\ digest[a] = d

RowsAreAnswered ==
    \A d \in Digests \ cut :
        row[d] # 0 => Linked(d) \/ \E a \in Actors : Cleans(a, d)

FilesAreAnswered ==
    \A d \in Digests \ cut :
        row[d] = 0 /\ file[d] # "none" => \E a \in Actors : Writes(a, d)

FileGoesFirst ==
    \A a \in Actors : pc[a] = "del_blob" /\ digest[a] \notin cut => file[digest[a]] = "none"

MetIsCut == \A a \in met : digest[a] \in cut

Answered == FileGoesFirst /\ RowsAreAnswered /\ FilesAreAnswered

JInv == IInv /\ MetIsCut /\ Answered

LEMMA InitAnswered == Init => MetIsCut /\ Answered
  BY DEF Init, MetIsCut, Answered, FileGoesFirst, RowsAreAnswered, FilesAreAnswered

\* Meeting a deletion marks the digest cut, and a request that ends has met
\* none any more.
LEMMA NextMetIsCut ==
    ASSUME IInv, MetIsCut, Next
    PROVE  MetIsCut' /\ cut \subseteq cut'
  <1> USE DEF IInv, TypeOK, MetIsCut
  <1>1. ASSUME NEW a \in Actors, NEW k \in Keys,
               BeginDelete(a, k) \/ \E d \in Digests : BeginUpload(a, k, d)
        PROVE  MetIsCut' /\ cut \subseteq cut'
    <2>1. pc[a] = "idle" /\ met' = met /\ cut' = cut
          /\ \A b \in Actors \ {a} : digest'[b] = digest[b]
      BY <1>1 DEF BeginDelete, BeginUpload
    <2> QED
      BY <2>1 DEF PutOK
  <1>2. ASSUME NEW a \in Actors, End(a), cut \subseteq cut' PROVE MetIsCut'
    BY <1>2 DEF End
  <1>3. ASSUME NEW a \in Actors, PutFind(a) PROVE MetIsCut' /\ cut \subseteq cut'
    BY <1>3 DEF PutFind, Meet
  <1>4. ASSUME NEW a \in Actors, DeleteCount(a) PROVE MetIsCut' /\ cut \subseteq cut'
    <2>1. CASE Unreferenced(ref[a])
      BY <1>4, <2>1 DEF DeleteCount, Meet
    <2>2. CASE ~Unreferenced(ref[a])
      BY <1>2, <1>4, <2>2 DEF DeleteCount
    <2> QED
      BY <2>1, <2>2
  <1>5. ASSUME NEW a \in Actors, DeleteMetadata(a) \/ DeleteFindRow(a)
        PROVE  MetIsCut' /\ cut \subseteq cut'
    <2>1. cut \subseteq cut' /\ (End(a) \/ UNCHANGED <<digest, met>>)
      BY <1>5, Zenon DEF DeleteMetadata, DeleteFindRow
    <2> QED
      BY <1>2, <2>1
  <1>6. ASSUME NEW a \in Actors, \/ PutSaveConflicts(a) \/ PutSaveCancelled(a) \/ Commit(a)
                                 \/ DeleteRow(a) \/ StatementCancelled(a)
        PROVE  MetIsCut' /\ cut \subseteq cut'
    <2>1. End(a) /\ cut \subseteq cut'
      BY <1>6 DEF PutSaveConflicts, PutSaveCancelled, Commit, DeleteRow, StatementCancelled,
                  GiveUp
    <2> QED
      BY <1>2, <2>1
  <1>7. ASSUME \/ \E a \in Actors : PutCheck(a) \/ PutMove(a) \/ PutSave(a) \/ Abort(a)
                                    \/ DeleteFile(a) \/ Disconnect(a)
               \/ \E d \in Digests : Truncate(d)
        PROVE  MetIsCut' /\ cut \subseteq cut'
    BY <1>7 DEF PutCheck, PutMove, PutSave, Abort, DeleteFile, Disconnect, Truncate
  <1>8. CASE Crash
    BY <1>8 DEF Crash
  <1> QED
    BY <1>1, <1>3, <1>4, <1>5, <1>6, <1>7, <1>8 DEF Next

\* A step of one request that leaves the store alone keeps everything
\* answered if the request stays with its row or its file, or marks it cut,
\* or finds the row linked.
LEMMA MoveKeeps ==
    ASSUME JInv, NEW a \in Actors, cut \subseteq cut',
           UNCHANGED <<file, row, artifact>>, pc'[a] # "del_blob",
           \A b \in Actors \ {a} :
               pc'[b] = pc[b] /\ ref'[b] = ref[b] /\ digest'[b] = digest[b],
           \A d \in Digests : Cleans(a, d) => Linked(d) \/ d \in cut' \/ Cleans(a, d)',
           \A d \in Digests : Writes(a, d) => row[d] # 0 \/ d \in cut' \/ Writes(a, d)'
    PROVE  Answered'
  <1> USE DEF JInv, Answered, IInv
  <1>1. FileGoesFirst'
    BY DEF FileGoesFirst
  <1>2. RowsAreAnswered'
    <2> SUFFICES ASSUME NEW d \in Digests, d \notin cut', row[d] # 0, ~Linked(d)
                 PROVE  \E b \in Actors : Cleans(b, d)'
      BY DEF RowsAreAnswered, Linked
    <2>1. PICK b \in Actors : Cleans(b, d)
      BY DEF RowsAreAnswered
    <2>2. CASE b = a
      BY <2>1, <2>2
    <2>3. CASE b # a
      <3>1. Cleans(b, d)'
        BY <2>1, <2>3 DEF Cleans
      <3> QED
        BY <3>1
    <2> QED
      BY <2>2, <2>3
  <1>3. FilesAreAnswered'
    <2> SUFFICES ASSUME NEW d \in Digests, d \notin cut', row[d] = 0, file[d] # "none"
                 PROVE  \E b \in Actors : Writes(b, d)'
      BY DEF FilesAreAnswered
    <2>1. PICK b \in Actors : Writes(b, d)
      BY DEF FilesAreAnswered
    <2>2. CASE b = a
      BY <2>1, <2>2
    <2>3. CASE b # a
      <3>1. Writes(b, d)'
        BY <2>1, <2>3 DEF Writes
      <3> QED
        BY <3>1
    <2> QED
      BY <2>2, <2>3
  <1> QED
    BY <1>1, <1>2, <1>3

\* A request that moves to another statement, for MoveKeeps.
LEMMA GotoKeeps ==
    ASSUME JInv, NEW a \in Actors, NEW there, there # "del_blob", Goto(a, there),
           UNCHANGED <<file, row, artifact, digest>>, cut \subseteq cut',
           \A b \in Actors \ {a} : ref'[b] = ref[b],
           pc[a] \in Cleaning => there \in Cleaning /\ ref'[a] = ref[a],
           pc[a] # "put_save"
    PROVE  Answered'
  <1> USE DEF JInv, IInv, TypeOK
  <1>1. /\ pc'[a] # "del_blob"
        /\ \A b \in Actors \ {a} : pc'[b] = pc[b] /\ digest'[b] = digest[b]
    OBVIOUS
  <1>2. \A d \in Digests : Cleans(a, d) => Cleans(a, d)'
    BY DEF Cleans
  <1>3. \A d \in Digests : ~Writes(a, d)
    BY DEF Writes
  <1> QED
    BY <1>1, <1>2, <1>3, MoveKeeps

\* A request that ends.
LEMMA EndKeeps ==
    ASSUME JInv, NEW a \in Actors, End(a), UNCHANGED <<file, row, artifact>>, cut \subseteq cut',
           \A d \in Digests : Cleans(a, d) => Linked(d) \/ d \in cut',
           \A d \in Digests : Writes(a, d) => row[d] # 0 \/ d \in cut'
    PROVE  Answered'
  <1>1. /\ pc'[a] # "del_blob"
        /\ \A b \in Actors \ {a} : pc'[b] = pc[b] /\ ref'[b] = ref[b] /\ digest'[b] = digest[b]
    BY DEF End, JInv, IInv, TypeOK
  <1> QED
    BY <1>1, MoveKeeps

\* A request that begins has answered for nothing so far.
LEMMA BeginKeeps ==
    ASSUME JInv, NEW a \in Actors, NEW k \in Keys, cut \subseteq cut',
           BeginDelete(a, k) \/ \E d \in Digests : BeginUpload(a, k, d)
    PROVE  Answered'
  <1>1. /\ UNCHANGED <<file, row, artifact>> /\ pc'[a] # "del_blob" /\ pc[a] = "idle"
        /\ \A b \in Actors \ {a} : pc'[b] = pc[b] /\ ref'[b] = ref[b] /\ digest'[b] = digest[b]
    BY DEF BeginDelete, BeginUpload, JInv, IInv, TypeOK
  <1>2. \A d \in Digests : ~Cleans(a, d) /\ ~Writes(a, d)
    BY <1>1 DEF Cleans, Cleaning, Writes
  <1> QED
    BY <1>1, <1>2, MoveKeeps

\* A moved file is answered for by the put that will save its row.
LEMMA PutMoveKeeps ==
    ASSUME JInv, NEW a \in Actors, PutMove(a)
    PROVE  Answered'
  <1> USE DEF JInv, Answered, IInv, TypeOK, PutMove
  <1>1. FileGoesFirst'
    <2> SUFFICES ASSUME NEW b \in Actors, pc'[b] = "del_blob", digest[b] \notin cut
                 PROVE  file'[digest[b]] = "none"
      BY DEF FileGoesFirst
    <2>1. pc[b] = "del_blob" /\ file[digest[b]] = "none"
      BY DEF FileGoesFirst
    <2>2. digest[b] = digest[a] => Condemned(digest[a])
      BY <2>1 DEF Condemned
    <2>3. digest[b] # digest[a]
      BY <2>2 DEF Exclusion, MetIsCut
    <2> QED
      BY <2>1, <2>3
  <1>2. RowsAreAnswered'
    <2> SUFFICES ASSUME NEW e \in Digests, e \notin cut, row[e] # 0, ~Linked(e)
                 PROVE  \E b \in Actors : Cleans(b, e)'
      BY DEF RowsAreAnswered, Linked
    <2>1. PICK b \in Actors : Cleans(b, e)
      BY DEF RowsAreAnswered
    <2>2. Cleans(b, e)'
      BY <2>1 DEF Cleans, Cleaning
    <2> QED
      BY <2>2
  <1>3. FilesAreAnswered'
    <2> SUFFICES ASSUME NEW e \in Digests, e \notin cut, row[e] = 0, file'[e] # "none"
                 PROVE  \E b \in Actors : Writes(b, e)'
      BY DEF FilesAreAnswered
    <2>1. CASE e = digest[a]
      <3>1. Writes(a, e)'
        BY <2>1 DEF Writes
      <3> QED
        BY <3>1
    <2>2. CASE e # digest[a]
      <3>1. PICK b \in Actors : Writes(b, e)
        BY <2>2 DEF FilesAreAnswered
      <3>2. Writes(b, e)'
        BY <3>1 DEF Writes
      <3> QED
        BY <3>2
    <2> QED
      BY <2>1, <2>2
  <1> QED
    BY <1>1, <1>2, <1>3

\* A saved row is answered for by the session that holds its id.
LEMMA PutSaveKeeps ==
    ASSUME JInv, NEW a \in Actors, PutSave(a)
    PROVE  Answered'
  <1> USE DEF JInv, Answered, IInv, TypeOK
  <1> DEFINE d == digest[a]
             id == SavedId(a)
  <1>p. /\ pc[a] = "put_save" /\ d \in Digests
        /\ row' = [row EXCEPT ![d] = id] /\ ref' = [ref EXCEPT ![a] = id]
        /\ pc' = [pc EXCEPT ![a] = "stored"]
        /\ UNCHANGED <<file, artifact, digest, key, cut>>
    BY DEF PutSave
  <1>i. id # 0
    BY StoreAssumption DEF SavedId
  <1> HIDE DEF id
  <1>1. FileGoesFirst'
    BY <1>p DEF FileGoesFirst
  <1>2. RowsAreAnswered'
    <2> SUFFICES ASSUME NEW e \in Digests, e \notin cut, row'[e] # 0, ~Linked(e)'
                 PROVE  \E b \in Actors : Cleans(b, e)'
      BY <1>p DEF RowsAreAnswered
    <2>1. CASE e = d
      <3>1. Cleans(a, e)'
        BY <2>1, <1>p DEF Cleans, Cleaning
      <3> QED
        BY <3>1
    <2>2. CASE e # d
      <3>1. row'[e] = row[e]
        BY <2>2, <1>p
      <3>2. ~Linked(e)
        BY <3>1, <1>p DEF Linked
      <3>3. PICK b \in Actors : Cleans(b, e)
        BY <3>1, <3>2 DEF RowsAreAnswered
      <3>4. Cleans(b, e)'
        BY <3>1, <3>3, <2>2, <1>p DEF Cleans
      <3> QED
        BY <3>4
    <2> QED
      BY <2>1, <2>2
  <1>3. FilesAreAnswered'
    <2> SUFFICES ASSUME NEW e \in Digests, e \notin cut, row'[e] = 0, file[e] # "none"
                 PROVE  \E b \in Actors : Writes(b, e)'
      BY <1>p DEF FilesAreAnswered
    <2>1. e # d /\ row[e] = 0
      BY <1>p, <1>i
    <2>2. PICK b \in Actors : Writes(b, e)
      BY <2>1 DEF FilesAreAnswered
    <2>3. Writes(b, e)'
      BY <2>1, <2>2, <1>p DEF Writes
    <2> QED
      BY <2>3
  <1> QED
    BY <1>1, <1>2, <1>3

\* A commit links the row it answered for; one it unlinks counts as cut.
LEMMA CommitKeeps ==
    ASSUME JInv, NEW a \in Actors, Commit(a)
    PROVE  Answered'
  <1> USE DEF JInv, Answered, IInv, TypeOK
  <1>p. /\ pc[a] = "stored" /\ key[a] \in Keys
        /\ artifact' = [artifact EXCEPT ![key[a]] = ref[a]]
        /\ UNCHANGED <<file, row>> /\ cut' = cut \cup Orphaned(key[a], ref[a])
        /\ pc'[a] = "idle"
        /\ \A b \in Actors \ {a} : pc'[b] = pc[b] /\ ref'[b] = ref[b] /\ digest'[b] = digest[b]
    BY DEF Commit, End
  <1>1. FileGoesFirst'
    BY <1>p DEF FileGoesFirst
  <1>2. RowsAreAnswered'
    <2> SUFFICES ASSUME NEW e \in Digests, e \notin cut', row[e] # 0, ~Linked(e)'
                 PROVE  \E b \in Actors : Cleans(b, e)'
      BY <1>p DEF RowsAreAnswered
    <2>1. row[e] # ref[a] /\ \A k \in Keys : k # key[a] => artifact[k] # row[e]
      BY <1>p DEF Linked
    <2>2. artifact[key[a]] # row[e]
      BY <2>1, <1>p DEF Orphaned
    <2>3. ~Linked(e)
      BY <2>1, <2>2 DEF Linked
    <2>4. PICK b \in Actors : Cleans(b, e)
      BY <2>3, <1>p DEF RowsAreAnswered
    <2>5. b # a /\ Cleans(b, e)'
      BY <2>1, <2>4, <1>p DEF Cleans
    <2> QED
      BY <2>5
  <1>3. FilesAreAnswered'
    <2> SUFFICES ASSUME NEW e \in Digests, e \notin cut', row[e] = 0, file[e] # "none"
                 PROVE  \E b \in Actors : Writes(b, e)'
      BY <1>p DEF FilesAreAnswered
    <2>1. PICK b \in Actors : Writes(b, e)
      BY <1>p DEF FilesAreAnswered
    <2>2. b # a /\ Writes(b, e)'
      BY <2>1, <1>p DEF Writes
    <2> QED
      BY <2>2
  <1> QED
    BY <1>1, <1>2, <1>3

\* A deletion that unlinks the row it knows of answers for it from then on;
\* another one counts as cut.
LEMMA DeleteMetadataKeeps ==
    ASSUME JInv, NEW a \in Actors, DeleteMetadata(a)
    PROVE  Answered'
  <1> USE DEF JInv, Answered, IInv, TypeOK
  <1>1. CASE artifact[key[a]] = NoArtifact
    <2>1. End(a) /\ UNCHANGED <<file, row, artifact, cut>> /\ pc[a] = "del_meta"
      BY <1>1 DEF DeleteMetadata
    <2>2. \A d \in Digests : ~Cleans(a, d) /\ ~Writes(a, d)
      BY <2>1 DEF Cleans, Cleaning, Writes
    <2> QED
      BY <2>1, <2>2, EndKeeps
  <1>2. CASE artifact[key[a]] # NoArtifact
    <2>p. /\ pc[a] = "del_meta" /\ key[a] \in Keys /\ ref[a] # 0
          /\ artifact' = [artifact EXCEPT ![key[a]] = NoArtifact]
          /\ pc' = [pc EXCEPT ![a] = "del_row"]
          /\ UNCHANGED <<file, row, digest, ref>> /\ cut' = cut \cup Orphaned(key[a], ref[a])
      BY <1>2 DEF DeleteMetadata, PutOK
    <2>1. FileGoesFirst'
      BY <2>p DEF FileGoesFirst
    <2>2. RowsAreAnswered'
      <3> SUFFICES ASSUME NEW e \in Digests, e \notin cut', row[e] # 0, ~Linked(e)'
                   PROVE  \E b \in Actors : Cleans(b, e)'
        BY <2>p DEF RowsAreAnswered
      <3>1. CASE row[e] = ref[a]
        <4>1. digest[a] = e
          BY <3>1, <2>p DEF IdsAreUnique
        <4>2. Cleans(a, e)'
          BY <4>1, <3>1, <2>p DEF Cleans, Cleaning
        <4> QED
          BY <4>2
      <3>2. CASE row[e] # ref[a]
        <4>1. ~Linked(e)
          BY <3>2, <2>p DEF Linked, Orphaned
        <4>2. PICK b \in Actors : Cleans(b, e)
          BY <4>1, <2>p DEF RowsAreAnswered
        <4>3. Cleans(b, e)'
          BY <4>2, <2>p DEF Cleans, Cleaning
        <4> QED
          BY <4>3
      <3> QED
        BY <3>1, <3>2
    <2>3. FilesAreAnswered'
      <3> SUFFICES ASSUME NEW e \in Digests, e \notin cut', row[e] = 0, file[e] # "none"
                   PROVE  \E b \in Actors : Writes(b, e)'
        BY <2>p DEF FilesAreAnswered
      <3>1. PICK b \in Actors : Writes(b, e)
        BY <2>p DEF FilesAreAnswered
      <3>2. Writes(b, e)'
        BY <3>1, <2>p DEF Writes
      <3> QED
        BY <3>2
    <2> QED
      BY <2>1, <2>2, <2>3
  <1> QED
    BY <1>1, <1>2

\* The file goes before its row: what is left is still answered for.
LEMMA DeleteFileKeeps ==
    ASSUME JInv, NEW a \in Actors, DeleteFile(a)
    PROVE  Answered'
  <1> USE DEF JInv, Answered, IInv, TypeOK, DeleteFile
  <1>1. FileGoesFirst'
    BY DEF FileGoesFirst
  <1>2. RowsAreAnswered'
    <2> SUFFICES ASSUME NEW e \in Digests, e \notin cut, row[e] # 0, ~Linked(e)
                 PROVE  \E b \in Actors : Cleans(b, e)'
      BY DEF RowsAreAnswered, Linked
    <2>1. PICK b \in Actors : Cleans(b, e)
      BY DEF RowsAreAnswered
    <2>2. Cleans(b, e)'
      BY <2>1 DEF Cleans, Cleaning
    <2> QED
      BY <2>2
  <1>3. FilesAreAnswered'
    <2> SUFFICES ASSUME NEW e \in Digests, e \notin cut, row[e] = 0, file'[e] # "none"
                 PROVE  \E b \in Actors : Writes(b, e)'
      BY DEF FilesAreAnswered
    <2>1. PICK b \in Actors : Writes(b, e)
      BY DEF FilesAreAnswered
    <2>2. Writes(b, e)'
      BY <2>1 DEF Writes
    <2> QED
      BY <2>2
  <1> QED
    BY <1>1, <1>2, <1>3

\* When the row goes its file has gone.
LEMMA DeleteRowKeeps ==
    ASSUME JInv, NEW a \in Actors, DeleteRow(a)
    PROVE  Answered'
  <1> USE DEF JInv, Answered, IInv, TypeOK
  <1>p. /\ pc[a] = "del_blob" /\ digest[a] \in Digests /\ pc'[a] = "idle"
        /\ UNCHANGED <<file, artifact, cut>>
        /\ \A b \in Actors \ {a} : pc'[b] = pc[b] /\ ref'[b] = ref[b] /\ digest'[b] = digest[b]
    BY DEF DeleteRow, End
  <1>r. \A e \in Digests : row'[e] = IF e = digest[a] /\ row[e] = ref[a] THEN 0 ELSE row[e]
    BY DEF DeleteRow
  <1>1. FileGoesFirst'
    BY <1>p DEF FileGoesFirst
  <1>2. RowsAreAnswered'
    <2> SUFFICES ASSUME NEW e \in Digests, e \notin cut, row'[e] # 0, ~Linked(e)'
                 PROVE  \E b \in Actors : Cleans(b, e)'
      BY <1>p DEF RowsAreAnswered
    <2>1. row'[e] = row[e] /\ ~(e = digest[a] /\ row[e] = ref[a])
      BY <1>r
    <2>2. ~Linked(e)
      BY <2>1, <1>p DEF Linked
    <2>3. PICK b \in Actors : Cleans(b, e)
      BY <2>1, <2>2 DEF RowsAreAnswered
    <2>4. b # a /\ Cleans(b, e)'
      BY <2>1, <2>3, <1>p DEF Cleans
    <2> QED
      BY <2>4
  <1>3. FilesAreAnswered'
    <2> SUFFICES ASSUME NEW e \in Digests, e \notin cut, row'[e] = 0, file[e] # "none"
                 PROVE  \E b \in Actors : Writes(b, e)'
      BY <1>p DEF FilesAreAnswered
    <2>1. e # digest[a] /\ row[e] = 0
      BY <1>p, <1>r DEF FileGoesFirst
    <2>2. PICK b \in Actors : Writes(b, e)
      BY <2>1 DEF FilesAreAnswered
    <2>3. b # a /\ Writes(b, e)'
      BY <2>1, <2>2, <1>p DEF Writes
    <2> QED
      BY <2>3
  <1> QED
    BY <1>1, <1>2, <1>3

\* Whatever a crash interrupts was cut short.
LEMMA CrashKeeps ==
    ASSUME JInv, Crash
    PROVE  Answered'
  <1> USE DEF JInv, Answered, IInv, TypeOK
  <1>p. /\ pc' = [a \in Actors |-> "idle"] /\ UNCHANGED store
        /\ cut \subseteq cut'
        /\ \A a \in Actors : pc[a] # "idle" => digest[a] \in cut'
    BY DEF Crash
  <1>1. FileGoesFirst'
    BY <1>p DEF FileGoesFirst
  <1>2. RowsAreAnswered'
    <2> SUFFICES ASSUME NEW e \in Digests, e \notin cut', row[e] # 0
                 PROVE  Linked(e)'
      BY <1>p DEF RowsAreAnswered
    <2>1. ~\E b \in Actors : Cleans(b, e)
      BY <1>p DEF Cleans, Cleaning
    <2> QED
      BY <2>1, <1>p DEF RowsAreAnswered, Linked
  <1>3. FilesAreAnswered'
    <2> SUFFICES ASSUME NEW e \in Digests, e \notin cut', row[e] = 0, file[e] # "none"
                 PROVE  FALSE
      BY <1>p DEF FilesAreAnswered
    <2> QED
      BY <1>p DEF FilesAreAnswered, Writes
  <1> QED
    BY <1>1, <1>2, <1>3

LEMMA TruncateKeeps ==
    ASSUME JInv, NEW d \in Digests, Truncate(d)
    PROVE  Answered'
  <1> USE DEF JInv, Answered, IInv, TypeOK, Truncate
  <1>1. FileGoesFirst'
    BY DEF FileGoesFirst
  <1>2. RowsAreAnswered'
    BY DEF RowsAreAnswered, Linked, Cleans
  <1>3. \A e \in Digests : file'[e] # "none" => file[e] # "none"
    OBVIOUS
  <1>4. FilesAreAnswered'
    BY <1>3 DEF FilesAreAnswered, Writes
  <1> QED
    BY <1>1, <1>2, <1>4

LEMMA IdleStoreKeeps ==
    ASSUME JInv, UNCHANGED <<store, pc, request, cut>>
    PROVE  Answered'
  BY DEF JInv, Answered, FileGoesFirst, RowsAreAnswered, FilesAreAnswered, Linked, Cleans, Writes

\* The remaining actions move on or end.
LEMMA ActorKeeps ==
    ASSUME JInv, NEW a \in Actors, cut \subseteq cut',
           \/ PutFind(a) \/ PutCheck(a) \/ PutMove(a)
           \/ PutSave(a) \/ PutSaveConflicts(a) \/ PutSaveCancelled(a)
           \/ Commit(a) \/ Abort(a)
           \/ DeleteMetadata(a) \/ DeleteFindRow(a) \/ DeleteCount(a)
           \/ DeleteFile(a) \/ DeleteRow(a) \/ StatementCancelled(a)
           \/ Disconnect(a)
    PROVE  Answered'
  <1> USE DEF JInv, IInv, TypeOK
  <1>1. CASE PutFind(a)
    <2>1. PICK there \in {"put_check", "put_move"} : Goto(a, there)
      BY <1>1, Zenon DEF PutFind
    <2>2. /\ UNCHANGED <<file, row, artifact, digest>> /\ pc[a] = "put_find"
          /\ \A b \in Actors \ {a} : ref'[b] = ref[b]
      BY <1>1 DEF PutFind
    <2> QED
      BY <2>1, <2>2, GotoKeeps DEF Cleaning
  <1>2. CASE PutCheck(a)
    <2>1. PICK there \in {"stored", "put_move"} : Goto(a, there)
      BY <1>2, Zenon DEF PutCheck
    <2>2. UNCHANGED <<file, row, artifact, digest, ref>> /\ pc[a] = "put_check"
      BY <1>2 DEF PutCheck
    <2> QED
      BY <2>1, <2>2, GotoKeeps DEF Cleaning
  <1>3. CASE Abort(a)
    BY <1>3, GotoKeeps DEF Abort, Cleaning
  <1>4. CASE PutSaveConflicts(a)
    <2>1. /\ End(a) /\ UNCHANGED <<file, row, artifact>> /\ pc[a] = "put_save"
          /\ row[digest[a]] # 0
      BY <1>4 DEF PutSaveConflicts
    <2>2. \A d \in Digests : ~Cleans(a, d) /\ (Writes(a, d) => row[d] # 0)
      BY <2>1 DEF Cleans, Cleaning, Writes
    <2> QED
      BY <2>1, <2>2, EndKeeps
  <1>5. CASE PutSaveCancelled(a) \/ StatementCancelled(a)
    <2>1. End(a) /\ UNCHANGED <<file, row, artifact>> /\ digest[a] \in cut'
      BY <1>5 DEF PutSaveCancelled, StatementCancelled, GiveUp
    <2>2. \A d \in Digests : Cleans(a, d) \/ Writes(a, d) => d \in cut'
      BY <2>1 DEF Cleans, Writes
    <2> QED
      BY <2>1, <2>2, EndKeeps
  <1>6. CASE DeleteFindRow(a)
    <2>1. UNCHANGED <<file, row, artifact>> /\ pc[a] = "del_row"
      BY <1>6 DEF DeleteFindRow
    <2>2. CASE row[digest[a]] = ref[a]
      BY <1>6, <2>1, <2>2, GotoKeeps DEF DeleteFindRow, Cleaning
    <2>3. CASE row[digest[a]] # ref[a]
      <3>1. End(a) /\ \A d \in Digests : ~Cleans(a, d) /\ ~Writes(a, d)
        BY <1>6, <2>1, <2>3 DEF DeleteFindRow, Cleans, Writes
      <3> QED
        BY <2>1, <3>1, EndKeeps
    <2> QED
      BY <2>2, <2>3
  <1>7. CASE DeleteCount(a)
    <2>1. UNCHANGED <<file, row, artifact>> /\ pc[a] = "del_count"
      BY <1>7 DEF DeleteCount
    <2>2. CASE Unreferenced(ref[a])
      BY <1>7, <2>1, <2>2, GotoKeeps DEF DeleteCount, Cleaning
    <2>3. CASE ~Unreferenced(ref[a])
      <3>1. End(a)
        BY <1>7, <2>3 DEF DeleteCount
      <3>2. \A d \in Digests : ~Writes(a, d) /\ (Cleans(a, d) => Linked(d))
        BY <2>1, <2>3 DEF Writes, Cleans, Linked, Unreferenced, LinkedIds
      <3> QED
        BY <2>1, <3>1, <3>2, EndKeeps
    <2> QED
      BY <2>2, <2>3
  <1>8. CASE Disconnect(a)
    BY <1>8, IdleStoreKeeps DEF Disconnect
  <1> QED
    BY <1>1, <1>2, <1>3, <1>4, <1>5, <1>6, <1>7, <1>8, PutMoveKeeps, PutSaveKeeps,
       CommitKeeps, DeleteMetadataKeeps, DeleteFileKeeps, DeleteRowKeeps

LEMMA NextJInv == JInv /\ [Next]_vars => JInv'
  <1> SUFFICES ASSUME JInv, [Next]_vars PROVE MetIsCut' /\ Answered'
    BY NextIInv DEF JInv
  <1>1. CASE Next
    <2>1. MetIsCut' /\ cut \subseteq cut'
      BY <1>1, NextMetIsCut DEF JInv
    <2> QED
      BY <1>1, <2>1, BeginKeeps, ActorKeeps, CrashKeeps, TruncateKeeps DEF Next
  <1>2. CASE UNCHANGED vars
    BY <1>2, IdleStoreKeeps DEF vars, JInv, MetIsCut
  <1> QED
    BY <1>1, <1>2

\* When no request is under way, no row and no file is left that nobody
\* references, but for what an interrupted or an overwriting request left, a
\* deletion that came after another, or an upload that met a deletion.
THEOREM NothingLeaks == Spec => []NoLeakUnlessCut
  <1>1. Init => JInv
    BY InitIInv, InitAnswered DEF JInv
  <1>2. JInv => NoLeakUnlessCut
    <2> SUFFICES ASSUME JInv, \A a \in Actors : pc[a] = "idle",
                        NEW d \in Digests \ cut, row[d] # 0 \/ file[d] # "none"
                 PROVE  row[d] \in LinkedIds
      BY DEF NoLeakUnlessCut
    <2>1. row[d] # 0
      BY DEF JInv, Answered, FilesAreAnswered, Writes
    <2>2. Linked(d)
      BY <2>1 DEF JInv, Answered, RowsAreAnswered, Cleans, Cleaning
    <2>3. row[d] # NoArtifact
      BY StoreAssumption DEF JInv, IInv, TypeOK
    <2> QED
      BY <2>2, <2>3 DEF Linked, LinkedIds
  <1> QED
    BY <1>1, <1>2, NextJInv, PTL DEF Spec
=============================================================================
