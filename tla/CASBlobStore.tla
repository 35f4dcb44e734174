---------------------------- MODULE CASBlobStore ----------------------------
(***************************************************************************)
(* The content-addressed blob store and the two clients that write and     *)
(* delete through it in a hosted repository:                               *)
(*   internal/storage/cas_blob_store.go      PutContext, DeleteContext     *)
(*   internal/core/runtime/upload_session.go HostedUploadSession           *)
(*   internal/core/runtime/hosted.go         DeleteArtifact                *)
(* over one storage backend, the blobs table, and the artifacts with their *)
(* artifact_blobs rows (internal/service/artifact_service.go SaveBatch,    *)
(* Delete).  A database statement, a database transaction and a file       *)
(* operation are one step each, and requests interleave between them in    *)
(* every order: uploads and deletions of one content or one key, too.      *)
(***************************************************************************)
EXTENDS Naturals

CONSTANTS
    Actors,         \* goroutines serving requests
    Digests,        \* SHA-256 digests of uploaded contents
    Keys,           \* identity keys of one repository
    NoArtifact,     \* the key holds no artifact
    AllowOverwrite, \* the repository's overwrite policy
    MayDisconnect,  \* whether a client may go away, cancelling its context
    MayCrash,       \* whether the process may crash and restart
    MaxBlobId       \* bound: rows ever inserted into blobs

Nothing == "no content"

ASSUME StoreAssumption ==
    /\ {AllowOverwrite, MayDisconnect, MayCrash} \subseteq BOOLEAN
    /\ MaxBlobId \in Nat
    /\ NoArtifact \notin Nat
    /\ Digests # {} /\ Keys # {} /\ Nothing \notin Digests

VARIABLES
    file,       \* per digest, the file at its CAS path
    row,        \* per digest, the id of its blobs row, 0 when there is none
    digestOf,   \* per blob id given out, the digest of its row (history)
    lastId,     \* the last id the blobs table gave out (AUTOINCREMENT)
    artifact,   \* per key, the blob id artifact_blobs links it to
    pc,         \* per actor, the statement it is about to execute
    digest,     \* per actor, the digest it works on
    key,        \* per actor, the identity key it works on
    ref,        \* per actor, the blob id it holds, 0 for none
    cancelled,  \* per actor, whether its request context is cancelled
    met,        \* uploads that met a deletion of their digest (history)
    atRisk,     \* keys whose artifact such an upload committed (history)
    cut         \* digests with an operation cut short, or met (history)

store == <<file, row, digestOf, lastId, artifact>>
request == <<digest, key, ref>>
history == <<met, atRisk, cut>>
vars == <<store, pc, request, cancelled, history>>

\* A put that is past its SELECT, up to the commit of its session.
Holding == {"put_check", "put_move", "put_save", "stored"}

Putting == {"put_find"} \cup Holding
Deleting == {"del_meta", "del_row", "del_count", "del_file", "del_blob"}

TypeOK ==
    /\ file \in [Digests -> {"none", "good", "bad"}]
    /\ row \in [Digests -> 0..MaxBlobId]
    /\ digestOf \in [1..MaxBlobId -> Digests \cup {Nothing}]
    /\ lastId \in 0..MaxBlobId
    /\ artifact \in [Keys -> (1..MaxBlobId) \cup {NoArtifact}]
    /\ pc \in [Actors -> {"idle"} \cup Putting \cup Deleting]
    /\ digest \in [Actors -> Digests \cup {Nothing}]
    /\ key \in [Actors -> Keys \cup {Nothing}]
    /\ \A a \in Actors : pc[a] # "idle" => digest[a] \in Digests /\ key[a] \in Keys
    /\ ref \in [Actors -> 0..MaxBlobId]
    /\ cancelled \in [Actors -> BOOLEAN]
    /\ met \subseteq Actors
    /\ atRisk \subseteq Keys
    /\ cut \subseteq Digests

Init ==
    /\ file = [d \in Digests |-> "none"]
    /\ row = [d \in Digests |-> 0]
    /\ digestOf = [id \in 1..MaxBlobId |-> Nothing]
    /\ lastId = 0
    /\ artifact = [k \in Keys |-> NoArtifact]
    /\ pc = [a \in Actors |-> "idle"]
    /\ digest = [a \in Actors |-> Nothing]
    /\ key = [a \in Actors |-> Nothing]
    /\ ref = [a \in Actors |-> 0]
    /\ cancelled = [a \in Actors |-> FALSE]
    /\ met = {} /\ atRisk = {} /\ cut = {}

-----------------------------------------------------------------------------

At(a, here) == pc[a] = here
Goto(a, there) == pc' = [pc EXCEPT ![a] = there]

\* The request is over; what it held is forgotten.
End(a) ==
    /\ Goto(a, "idle")
    /\ digest' = [digest EXCEPT ![a] = Nothing]
    /\ key' = [key EXCEPT ![a] = Nothing]
    /\ ref' = [ref EXCEPT ![a] = 0]
    /\ cancelled' = [cancelled EXCEPT ![a] = FALSE]
    /\ met' = met \ {a}

\* A statement under a cancelled context fails; its caller gives up.
GiveUp(a) ==
    /\ End(a)
    /\ cut' = cut \cup {digest[a]}
    /\ UNCHANGED <<store, atRisk>>

\* A deletion of d that nothing stops any more: it has found no reference, or
\* is about to count those of a row that is gone.
Condemned(d) ==
    \E b \in Actors :
        /\ digest[b] = d
        /\ \/ pc[b] \in {"del_file", "del_blob"}
           \/ pc[b] = "del_count" /\ row[d] # ref[b]

\* The uploads in A meet such a deletion.
Meet(A) ==
    /\ met' = met \cup A
    /\ cut' = cut \cup {digest[b] : b \in A}

LinkedIds == {artifact[k] : k \in Keys} \ {NoArtifact}

-----------------------------------------------------------------------------
(* PutContext, called by HostedUploadSession.PutBlob.                      *)

\* The content is in a temporary file nobody else sees; its digest is known.
BeginUpload(a, k, d) ==
    /\ At(a, "idle")
    /\ lastId < MaxBlobId
    /\ digest' = [digest EXCEPT ![a] = d]
    /\ key' = [key EXCEPT ![a] = k]
    /\ Goto(a, "put_find")
    /\ UNCHANGED <<store, ref, cancelled, history>>

\* SELECT from blobs; any error, a cancelled context too, counts as not found.
PutFind(a) ==
    /\ At(a, "put_find")
    /\ IF row[digest[a]] # 0 /\ ~cancelled[a]
       THEN Goto(a, "put_check") /\ ref' = [ref EXCEPT ![a] = row[digest[a]]]
       ELSE Goto(a, "put_move") /\ UNCHANGED ref
    /\ Meet({b \in {a} : Condemned(digest[b])})
    /\ UNCHANGED <<store, digest, key, cancelled, atRisk>>

\* blobFileMatches: the registered file is reused only if it is there and has
\* the registered size.  The mutant only asks whether it is there.
ReusableIfPresent(d) == file[d] # "none"

Reusable(d) == file[d] = "good"

PutCheck(a) ==
    /\ At(a, "put_check")
    /\ Goto(a, IF Reusable(digest[a]) THEN "stored" ELSE "put_move")
    /\ UNCHANGED <<store, request, cancelled, history>>

\* Move replaces whatever file is at the CAS path.
PutMove(a) ==
    /\ At(a, "put_move")
    /\ file' = [file EXCEPT ![digest[a]] = "good"]
    /\ Goto(a, "put_save")
    /\ UNCHANGED <<row, digestOf, lastId, artifact, request, cancelled, history>>

\* Save: an UPDATE of the row found earlier, which re-inserts it under its old
\* id should it be gone, or an INSERT with a fresh id; both are refused when
\* the digest has another row by now (unique index idx_blob_digest).  The
\* mutant uses the id of the row it looked for, found or not.
SavedIdOfFound(a) == ref[a]

SavedId(a) == IF ref[a] # 0 THEN ref[a] ELSE lastId + 1

PutSave(a) ==
    LET d == digest[a]
        id == SavedId(a)
    IN
    /\ At(a, "put_save")
    /\ ~cancelled[a]
    /\ id <= MaxBlobId
    /\ row[d] \in {0, id}
    /\ row' = [row EXCEPT ![d] = id]
    /\ digestOf' = [digestOf EXCEPT ![id] = d]
    /\ lastId' = IF ref[a] # 0 THEN lastId ELSE lastId + 1
    /\ ref' = [ref EXCEPT ![a] = id]
    /\ Goto(a, "stored")
    /\ UNCHANGED <<file, artifact, digest, key, cancelled, history>>

\* PutBlob fails; the session holds no reference it could clean up.
PutSaveConflicts(a) ==
    /\ At(a, "put_save")
    /\ ~cancelled[a]
    /\ row[digest[a]] \notin {0, SavedId(a)}
    /\ End(a)
    /\ UNCHANGED <<store, atRisk, cut>>

PutSaveCancelled(a) ==
    /\ At(a, "put_save")
    /\ cancelled[a]
    /\ GiveUp(a)

-----------------------------------------------------------------------------
(* Commit and Abort of the session.                                        *)

\* SaveBatch in one transaction: rejectOverwrite is checked inside it.  The
\* mutant does not check it.
MayCommitAlways(k) == TRUE

MayCommit(k) == AllowOverwrite \/ artifact[k] = NoArtifact

\* The digest whose row loses a link that the request, holding the blob id
\* kept, knows nothing of, and so will not clean up.
Orphaned(k, kept) == {d \in Digests : row[d] = artifact[k] /\ row[d] # kept}

Commit(a) ==
    /\ At(a, "stored")
    /\ ~cancelled[a]
    /\ MayCommit(key[a])
    /\ artifact' = [artifact EXCEPT ![key[a]] = ref[a]]
    /\ cut' = cut \cup Orphaned(key[a], ref[a])
    /\ atRisk' = IF a \in met THEN atRisk \cup {key[a]} ELSE atRisk \ {key[a]}
    /\ End(a)
    /\ UNCHANGED <<file, row, digestOf, lastId>>

\* ErrOverwriteNotAllowed, or a plugin that found the upload invalid: Abort,
\* whose DeleteContext runs under the same request context.
Abort(a) ==
    /\ At(a, "stored")
    /\ Goto(a, "del_row")
    /\ UNCHANGED <<store, request, cancelled, history>>

-----------------------------------------------------------------------------
(* HostedRuntime.DeleteArtifact, and DeleteContext for both callers.       *)

\* MetadataStore.Get: the artifact and its blob reference.
BeginDelete(a, k) ==
    /\ At(a, "idle")
    /\ artifact[k] # NoArtifact
    /\ digest' = [digest EXCEPT ![a] = digestOf[artifact[k]]]
    /\ key' = [key EXCEPT ![a] = k]
    /\ ref' = [ref EXCEPT ![a] = artifact[k]]
    /\ Goto(a, "del_meta")
    /\ UNCHANGED <<store, cancelled, history>>

\* MetadataStore.Delete in one transaction: whatever artifact is under the key
\* by now goes, and its link.
DeleteMetadata(a) ==
    /\ At(a, "del_meta")
    /\ ~cancelled[a]
    /\ IF artifact[key[a]] = NoArtifact
       THEN End(a) /\ UNCHANGED <<artifact, atRisk, cut>>
       ELSE /\ artifact' = [artifact EXCEPT ![key[a]] = NoArtifact]
            /\ atRisk' = atRisk \ {key[a]}
            /\ cut' = cut \cup Orphaned(key[a], ref[a])
            /\ Goto(a, "del_row")
            /\ UNCHANGED <<request, cancelled, met>>
    /\ UNCHANGED <<file, row, digestOf, lastId>>

\* SELECT the blob row by id; nothing to do when it is gone.
DeleteFindRow(a) ==
    /\ At(a, "del_row")
    /\ ~cancelled[a]
    /\ IF row[digest[a]] = ref[a]
       THEN Goto(a, "del_count") /\ UNCHANGED <<request, cancelled, met>>
       ELSE End(a)
    /\ UNCHANGED <<store, atRisk, cut>>

\* SELECT count(*) from artifact_blobs: a referenced blob stays.  The first
\* mutant does not count, the second keeps a blob whose count is zero, too.
UnreferencedAlways(id) == TRUE
UnreferencedNever(id) == FALSE

Unreferenced(id) == id \notin LinkedIds

DeleteCount(a) ==
    /\ At(a, "del_count")
    /\ ~cancelled[a]
    /\ IF Unreferenced(ref[a])
       THEN /\ Goto(a, "del_file")
            /\ Meet({b \in Actors : pc[b] \in Holding /\ digest[b] = digest[a]})
            /\ UNCHANGED <<request, cancelled>>
       ELSE End(a) /\ UNCHANGED cut
    /\ UNCHANGED <<store, atRisk>>

\* A file operation: the context is not consulted.
DeleteFile(a) ==
    /\ At(a, "del_file")
    /\ file' = [file EXCEPT ![digest[a]] = "none"]
    /\ Goto(a, "del_blob")
    /\ UNCHANGED <<row, digestOf, lastId, artifact, request, cancelled, history>>

DeleteRow(a) ==
    /\ At(a, "del_blob")
    /\ ~cancelled[a]
    /\ row' = [row EXCEPT ![digest[a]] = IF @ = ref[a] THEN 0 ELSE @]
    /\ End(a)
    /\ UNCHANGED <<file, digestOf, lastId, artifact, atRisk, cut>>

\* Any of these statements, or Commit's transaction followed by Abort's
\* DeleteContext, under a cancelled context.
StatementCancelled(a) ==
    /\ pc[a] \in {"stored", "del_meta", "del_row", "del_count", "del_blob"}
    /\ cancelled[a]
    /\ GiveUp(a)

-----------------------------------------------------------------------------
(* The environment.                                                        *)

Disconnect(a) ==
    /\ MayDisconnect
    /\ ~At(a, "idle")
    /\ ~cancelled[a]
    /\ cancelled' = [cancelled EXCEPT ![a] = TRUE]
    /\ UNCHANGED <<store, pc, request, history>>

Crash ==
    /\ MayCrash
    /\ \E a \in Actors : ~At(a, "idle")
    /\ pc' = [a \in Actors |-> "idle"]
    /\ digest' = [a \in Actors |-> Nothing]
    /\ key' = [a \in Actors |-> Nothing]
    /\ ref' = [a \in Actors |-> 0]
    /\ cancelled' = [a \in Actors |-> FALSE]
    /\ met' = {}
    /\ cut' = cut \cup {digest[a] : a \in {b \in Actors : ~At(b, "idle")}}
    /\ UNCHANGED <<store, atRisk>>

\* A full disk or an unclean shutdown truncates a file nobody is writing.
Truncate(d) ==
    /\ file[d] = "good"
    /\ \A a \in Actors : pc[a] \in Putting => digest[a] # d
    /\ file' = [file EXCEPT ![d] = "bad"]
    /\ UNCHANGED <<row, digestOf, lastId, artifact, pc, request, cancelled, history>>

Next ==
    \/ \E a \in Actors, k \in Keys, d \in Digests : BeginUpload(a, k, d)
    \/ \E a \in Actors, k \in Keys : BeginDelete(a, k)
    \/ \E a \in Actors :
          \/ PutFind(a) \/ PutCheck(a) \/ PutMove(a)
          \/ PutSave(a) \/ PutSaveConflicts(a) \/ PutSaveCancelled(a)
          \/ Commit(a) \/ Abort(a)
          \/ DeleteMetadata(a) \/ DeleteFindRow(a) \/ DeleteCount(a)
          \/ DeleteFile(a) \/ DeleteRow(a) \/ StatementCancelled(a)
          \/ Disconnect(a)
    \/ Crash
    \/ \E d \in Digests : Truncate(d)

Spec == Init /\ [][Next]_vars

-----------------------------------------------------------------------------
(* Properties.                                                             *)

Stored(k) == \E d \in Digests : row[d] = artifact[k] /\ file[d] # "none"

\* Every committed artifact has its content: the blob row it links to exists
\* and so does that row's file, whatever uploads, deletions of other artifacts
\* with the same content, aborts, crashes and disconnections come in between.
\* Only an artifact whose own upload met a deletion that nothing stopped any
\* more may be without.
ArtifactsKeepContent ==
    \A k \in Keys \ atRisk : artifact[k] # NoArtifact => Stored(k)

\* The same without the exception: deletions do race with uploads.
RacesKeepContent ==
    \A k \in Keys : artifact[k] # NoArtifact => Stored(k)

\* When PutBlob returns a reference, the file behind it is complete, whatever
\* truncated file, left-over row or lost content the put has found: a
\* re-upload heals, unless it meets a deletion itself.
PutHeals ==
    [][\A a \in Actors \ met :
          pc[a] \in {"put_check", "put_save"} /\ pc'[a] = "stored" =>
              row'[digest[a]] = ref'[a] /\ file'[digest[a]] = "good"]_vars

\* A blob nobody references is cleaned up by the request that stored it or
\* unlinked it, unless that request was cut short by a crash or a cancelled
\* context, took the link of another blob away than the one it knew of (an
\* overwriting commit, a deletion that came after another), or an upload met a
\* deletion.
NoLeakUnlessCut ==
    (\A a \in Actors : At(a, "idle")) =>
        \A d \in Digests \ cut :
            row[d] # 0 \/ file[d] # "none" => row[d] \in LinkedIds

\* The store implements its abstraction: an artifact's content is what was
\* committed under its key, and requests for it are answered as OpenContext
\* finds the row and a file of the row's size.
content == [k \in Keys |-> IF artifact[k] = NoArtifact THEN Nothing ELSE digestOf[artifact[k]]]

OpenContext(d, id) ==
    CASE row[d] # id \/ file[d] = "none" -> "missing"
      [] row[d] = id /\ file[d] = "bad"  -> "corrupt"
      [] row[d] = id /\ file[d] = "good" -> "content"

answer == [k \in Keys |-> IF artifact[k] = NoArtifact THEN "not found"
                          ELSE OpenContext(content[k], artifact[k])]

Abstract == INSTANCE ArtifactStore WITH NoContent <- Nothing

ImplementsArtifactStore == Abstract!Spec
=============================================================================
