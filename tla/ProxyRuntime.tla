---------------------------- MODULE ProxyRuntime ----------------------------
(***************************************************************************)
(* GetArtifact of a proxy repository (internal/core/runtime/proxy.go) for  *)
(* one downloadable artifact: the in-memory and the negative cache, the    *)
(* shared load (doFlight) every missing request joins, the refresh of      *)
(* stale metadata, the download, the healing of lost files, the warm-up    *)
(* the health check starts, and the sweep of metadata never downloaded     *)
(* (internal/service/proxy_cache_gc.go).  Keys do not interact.            *)
(*                                                                         *)
(* A content of the artifact is a version, 0 is none.  A call upstream, a  *)
(* database transaction and a cache operation are separate steps, save     *)
(* that an entry is deleted and its caches are updated in one.             *)
(***************************************************************************)
EXTENDS Naturals

CONSTANTS
    Requests,       \* concurrent callers of GetArtifact
    MaxVersion,     \* bound: contents upstream ever publishes
    MaxLosses,      \* bound: files ever lost or damaged on disk
    MayWarmUp,      \* whether the warm-up runs
    MayWithdraw,    \* whether upstream may withdraw what it published
    MaySweep,       \* whether the metadata cache is swept
    None            \* no metadata row, no cached artifact

Version == 1..MaxVersion

ASSUME ProxyAssumption ==
    /\ MaxVersion \in Nat \ {0}
    /\ MaxLosses \in Nat
    /\ {MayWarmUp, MayWithdraw, MaySweep} \subseteq BOOLEAN
    /\ None \notin [digest : 0..MaxVersion, blob : 0..MaxVersion, stale : BOOLEAN]
    /\ None \notin [digest : 0..MaxVersion, blob : 0..MaxVersion, warming : BOOLEAN]

VARIABLES
    version,    \* what upstream publishes now, 0: nothing
    reachable,  \* whether upstream answers
    intact,     \* versions whose file is in the blob store, complete
    losses,     \* files lost or damaged so far
    row,        \* the metadata row: remote_digest, linked blob, past its TTL
    located,    \* which of "attach", "sweep" has this row's id in hand
    memory,     \* the cached artifact; "warming": the warm-up holds it, too
    negative,   \* the negative cache: none, absent upstream, failed refresh
    flight,     \* the shared load: where it is, its artifact, hadBlob
    warm,       \* the warm-up of this artifact
    request     \* per caller: where it is, or how it was answered; its blob

upstream == <<version, reachable>>
disk == <<intact, losses>>
vars == <<upstream, disk, row, located, memory, negative, flight, warm, request>>

Off == [pc |-> "off", digest |-> 0, blob |-> 0, had |-> FALSE]
WarmOff == [pc |-> "off", digest |-> 0]

TypeOK ==
    /\ version \in 0..MaxVersion
    /\ reachable \in BOOLEAN
    /\ intact \subseteq Version
    /\ losses \in 0..MaxLosses
    /\ row \in [digest : Version, blob : 0..MaxVersion, stale : BOOLEAN] \cup {None}
    /\ located \subseteq {"attach", "sweep"}
    /\ memory \in [digest : Version, blob : 0..MaxVersion, warming : BOOLEAN] \cup {None}
    /\ negative \in {"none", "absent", "failure"}
    /\ flight \in [pc : {"off", "check", "get", "refresh", "gone", "put", "ensure",
                         "fetch", "vanished", "attach", "link", "save", "downloaded",
                         "publish", "meta", "create"},
                   digest : 0..MaxVersion, blob : 0..MaxVersion, had : BOOLEAN]
    /\ warm \in [pc : {"off", "refresh", "gone", "put"}, digest : 0..MaxVersion]
    /\ request \in [Requests -> [pc : {"idle", "wait", "open", "refused", "content"},
                                 blob : 0..MaxVersion]]

Idle == [pc |-> "idle", blob |-> 0]
Waiting == [pc |-> "wait", blob |-> 0]
Opening(blob) == [pc |-> "open", blob |-> blob]
Refusal == [pc |-> "refused", blob |-> 0]       \* 404 or 5xx
Content(blob) == [pc |-> "content", blob |-> blob]

Init ==
    /\ version \in 0..MaxVersion
    /\ reachable \in BOOLEAN
    /\ intact = {}
    /\ losses = 0
    /\ row = None
    /\ located = {}
    /\ memory = None
    /\ negative = "none"
    /\ flight = Off
    /\ warm = WarmOff
    /\ request = [r \in Requests |-> Idle]

-----------------------------------------------------------------------------
(* GetArtifact, the caller's part.                                         *)

Becomes(r, new) == request' = [request EXCEPT ![r] = new]

\* The negative cache answers before anything else is looked at.  A caller
\* that finds nothing in memory starts the load or joins the one under way.
Begin(r) ==
    /\ request[r].pc \in {"idle", "refused", "content"}
    /\ CASE negative # "none" -> Becomes(r, Refusal) /\ UNCHANGED flight
         [] negative = "none" /\ memory # None ->
                Becomes(r, Opening(memory.blob)) /\ UNCHANGED flight
         [] OTHER ->
                /\ Becomes(r, Waiting)
                /\ flight' = IF flight.pc = "off" THEN [Off EXCEPT !.pc = "check"]
                             ELSE flight
    /\ UNCHANGED <<upstream, disk, row, located, memory, negative, warm>>

\* The caller's context ends; the load goes on without it.
Cancel(r) ==
    /\ request[r] = Waiting
    /\ Becomes(r, Idle)
    /\ UNCHANGED <<upstream, disk, row, located, memory, negative, flight, warm>>

\* openArtifactContent and healMissingBlob: a missing or damaged file drops
\* both cache entries.  An artifact without a blob reference opens nothing
\* and is answered without content.
Open(r) ==
    LET blob == request[r].blob IN
    /\ request[r].pc = "open"
    /\ IF blob \in intact \cup {0}
       THEN /\ Becomes(r, Content(blob))
            /\ UNCHANGED <<memory, negative>>
       ELSE /\ Becomes(r, Refusal)
            /\ memory' = None
            /\ negative' = "none"
    /\ UNCHANGED <<upstream, disk, row, located, flight, warm>>

-----------------------------------------------------------------------------
(* loadArtifact, inside the shared load.                                   *)

At(here) == flight.pc = here
Goto(there) == flight' = [flight EXCEPT !.pc = there]

\* Every caller still waiting receives the result.  The mutant ends the load
\* without sharing out its result.
DeliverToNobody(result) == UNCHANGED request

Deliver(result) ==
    request' = [r \in Requests |-> IF request[r] = Waiting THEN result ELSE request[r]]

Finish(result) == flight' = Off /\ Deliver(result)

\* The caches are looked at again, now alone.
FlightCheck ==
    /\ At("check")
    /\ CASE negative # "none" -> Finish(Refusal)
         [] negative = "none" /\ memory # None -> Finish(Opening(memory.blob))
         [] OTHER -> Goto("get") /\ UNCHANGED request
    /\ UNCHANGED <<upstream, disk, row, located, memory, negative, warm>>

\* MetadataStore.Get
FlightGet ==
    /\ At("get")
    /\ flight' = IF row = None THEN [flight EXCEPT !.pc = "meta"]
                 ELSE [flight EXCEPT !.pc = IF row.stale THEN "refresh" ELSE "ensure",
                                     !.digest = row.digest, !.blob = row.blob]
    /\ UNCHANGED <<upstream, disk, row, located, memory, negative, warm, request>>

\* refreshStaleMetadata: its FetchMetadata and what follows from the answer.
FlightRefresh ==
    /\ At("refresh")
    /\ flight' =
           CASE ~reachable \/ version = flight.digest -> [flight EXCEPT !.pc = "ensure"]
             [] reachable /\ version = 0 -> [flight EXCEPT !.pc = "gone"]
             [] OTHER -> [flight EXCEPT !.pc = "put", !.digest = version, !.blob = 0]
    /\ negative' = IF reachable THEN negative ELSE "failure"
    /\ UNCHANGED <<upstream, disk, row, located, memory, warm, request>>

\* A deleted row; should there be one again, it has another id.
Drop ==
    /\ row' = None
    /\ located' = {}

\* Absent upstream: the row, the cached entries, and a negative entry instead.
Forget ==
    /\ Drop
    /\ memory' = None
    /\ negative' = "absent"

FlightGone ==
    /\ At("gone")
    /\ Forget
    /\ Finish(Refusal)
    /\ UNCHANGED <<upstream, disk, warm>>

\* A row that is inserted gets upstream's modification date and may be stale
\* at once; an update sets its updated_at to now.
Store(digest, blob) ==
    row' \in [digest : {digest}, blob : {blob},
             stale : IF row = None THEN BOOLEAN ELSE {FALSE}]

\* MetadataStore.Put of an artifact without blob references: syncBlobRefs
\* leaves the existing links alone.  The mutant removes them.
PutUnlinking(digest) == Store(digest, 0)

Put(digest) == Store(digest, IF row = None THEN 0 ELSE row.blob)

FlightPut ==
    /\ At("put")
    /\ Put(flight.digest)
    /\ Goto("ensure")
    /\ UNCHANGED <<upstream, disk, located, memory, negative, warm, request>>

\* ensureArtifactBlob: RefsExist knows a damaged file from a good one.  The
\* mutant takes the reference on trust.
RefsExistUnchecked(blob) == blob # 0

RefsExist(blob) == blob \in intact

FlightEnsure ==
    /\ At("ensure")
    /\ flight' = IF RefsExist(flight.blob) THEN [flight EXCEPT !.pc = "publish"]
                 ELSE [flight EXCEPT !.pc = "fetch", !.blob = 0, !.had = flight.blob # 0]
    /\ UNCHANGED <<upstream, disk, row, located, memory, negative, warm, request>>

\* A load that had a blob reference is answered all the same, although by now
\* the reference was cleared.
EnsureFails == IF flight.had THEN Finish(Opening(flight.blob)) ELSE Finish(Refusal)

\* FetchBlob into BlobStore.PutContext, which replaces a damaged file.
FlightFetch ==
    /\ At("fetch")
    /\ reachable /\ version # 0
    /\ intact' = intact \cup {version}
    /\ flight' = [flight EXCEPT !.pc = "attach", !.blob = version]
    /\ UNCHANGED <<upstream, losses, row, located, memory, negative, warm, request>>

FlightFetchFails ==
    /\ At("fetch")
    /\ ~reachable
    /\ EnsureFails
    /\ UNCHANGED <<upstream, disk, row, located, memory, negative, warm>>

FlightFetchAbsent ==
    /\ At("fetch")
    /\ reachable /\ version = 0
    /\ Goto("vanished")
    /\ UNCHANGED <<upstream, disk, row, located, memory, negative, warm, request>>

FlightVanished ==
    /\ At("vanished")
    /\ Drop
    /\ negative' = "absent"
    /\ EnsureFails
    /\ UNCHANGED <<upstream, disk, memory, warm>>

\* AttachBlob looks the row up outside its transaction ...
FlightAttach ==
    /\ At("attach")
    /\ IF row = None THEN Goto("save") /\ UNCHANGED located
       ELSE Goto("link") /\ located' = located \cup {"attach"}
    /\ UNCHANGED <<upstream, disk, row, memory, negative, warm, request>>

\* ... and links the blob under the id it found.  When that row was deleted
\* meanwhile the UPDATE hits nothing, the link belongs to nobody, and the load
\* goes on.
FlightLink ==
    /\ At("link")
    /\ IF "attach" \in located THEN Store(row.digest, flight.blob) ELSE UNCHANGED row
    /\ located' = located \ {"attach"}
    /\ Goto("downloaded")
    /\ UNCHANGED <<upstream, disk, memory, negative, warm, request>>

\* A row that was not there is saved anew.
FlightSave ==
    /\ At("save")
    /\ Store(flight.digest, flight.blob)
    /\ Goto("downloaded")
    /\ UNCHANGED <<upstream, disk, located, memory, negative, warm, request>>

\* The two caches, and the result for everyone waiting.  Only a download
\* clears the negative entry.
FlightPublish ==
    /\ flight.pc \in {"publish", "downloaded"}
    /\ negative' = IF At("downloaded") THEN "none" ELSE negative
    /\ memory' = [digest |-> flight.digest, blob |-> flight.blob, warming |-> FALSE]
    /\ Finish(Opening(flight.blob))
    /\ UNCHANGED <<upstream, disk, row, located, warm>>

\* No row: the metadata of an artifact never seen before.  The mutant does not
\* ask whether the artifact exists upstream.
FlightMetaUnchecked ==
    /\ At("meta")
    /\ reachable
    /\ flight' = [flight EXCEPT !.pc = "create", !.digest = version, !.blob = 0]
    /\ UNCHANGED <<upstream, disk, row, located, memory, negative, warm, request>>

FlightMeta ==
    /\ At("meta")
    /\ CASE ~reachable -> Finish(Refusal) /\ UNCHANGED negative
         [] reachable /\ version = 0 -> Finish(Refusal) /\ negative' = "absent"
         [] OTHER ->
                /\ flight' = [flight EXCEPT !.pc = "create", !.digest = version, !.blob = 0]
                /\ UNCHANGED <<negative, request>>
    /\ UNCHANGED <<upstream, disk, row, located, memory, warm>>

\* The row of an artifact never seen before.  The mutant publishes it without
\* its content, which the next load would download.
CreateWithoutContent ==
    /\ At("create")
    /\ Put(flight.digest)
    /\ Goto("publish")
    /\ UNCHANGED <<upstream, disk, located, memory, negative, warm, request>>

FlightCreate ==
    /\ At("create")
    /\ Put(flight.digest)
    /\ Goto("fetch")
    /\ UNCHANGED <<upstream, disk, located, memory, negative, warm, request>>

Flight ==
    \/ FlightCheck \/ FlightGet \/ FlightRefresh \/ FlightGone \/ FlightPut
    \/ FlightEnsure \/ FlightFetch \/ FlightFetchFails \/ FlightFetchAbsent
    \/ FlightVanished \/ FlightAttach \/ FlightLink \/ FlightSave \/ FlightPublish
    \/ FlightMeta \/ FlightCreate

-----------------------------------------------------------------------------
(* WarmUp: refreshStaleMetadata in the background, on the cached object    *)
(* itself and without ensureArtifactBlob after it.                         *)

NotWarming == IF memory = None THEN None ELSE [memory EXCEPT !.warming = FALSE]

WarmStart ==
    /\ MayWarmUp
    /\ warm.pc = "off"
    /\ memory # None
    /\ warm' = [pc |-> "refresh", digest |-> memory.digest]
    /\ memory' = [memory EXCEPT !.warming = TRUE]
    /\ UNCHANGED <<upstream, disk, row, located, negative, flight, request>>

WarmUnchanged ==
    /\ warm.pc = "refresh"
    /\ ~reachable \/ version = warm.digest
    /\ negative' = IF reachable THEN negative ELSE "failure"
    /\ memory' = NotWarming
    /\ warm' = WarmOff
    /\ UNCHANGED <<upstream, disk, row, located, flight, request>>

\* The reference is cleared in the object the cache still hands out.
WarmChanged ==
    /\ warm.pc = "refresh"
    /\ reachable /\ version \notin {0, warm.digest}
    /\ memory' = IF memory # None /\ memory.warming
                 THEN [memory EXCEPT !.digest = version, !.blob = 0] ELSE memory
    /\ warm' = [pc |-> "put", digest |-> version]
    /\ UNCHANGED <<upstream, disk, row, located, negative, flight, request>>

WarmPut ==
    /\ warm.pc = "put"
    /\ Put(warm.digest)
    /\ memory' = NotWarming
    /\ warm' = WarmOff
    /\ UNCHANGED <<upstream, disk, located, negative, flight, request>>

WarmAbsent ==
    /\ warm.pc = "refresh"
    /\ reachable /\ version = 0
    /\ warm' = [warm EXCEPT !.pc = "gone"]
    /\ UNCHANGED <<upstream, disk, row, located, memory, negative, flight, request>>

WarmGone ==
    /\ warm.pc = "gone"
    /\ Forget
    /\ warm' = WarmOff
    /\ UNCHANGED <<upstream, disk, flight, request>>

Warm == WarmUnchanged \/ WarmChanged \/ WarmPut \/ WarmAbsent \/ WarmGone

-----------------------------------------------------------------------------
(* ProxyMetadataCacheGC: the ids of old rows without a blob, then BatchDelete. *)

\* A row is only that old when it is past its TTL.
Swept == row # None /\ row.stale /\ row.blob = 0

SweepList ==
    /\ MaySweep
    /\ Swept
    /\ located' = located \cup {"sweep"}
    /\ UNCHANGED <<upstream, disk, row, memory, negative, flight, warm, request>>

\* By id, whatever the row has become since.
SweepDelete ==
    /\ "sweep" \in located
    /\ Drop
    /\ UNCHANGED <<upstream, disk, memory, negative, flight, warm, request>>

SweepFails ==
    /\ "sweep" \in located
    /\ located' = located \ {"sweep"}
    /\ UNCHANGED <<upstream, disk, row, memory, negative, flight, warm, request>>

-----------------------------------------------------------------------------
(* Time and the environment.                                               *)

\* Entries leave the memory cache by TTL, by LRU or through the admin API.
MemoryExpires ==
    /\ memory # None
    /\ memory' = None
    /\ UNCHANGED <<upstream, disk, row, located, negative, flight, warm, request>>

NegativeExpires ==
    /\ negative # "none"
    /\ negative' = "none"
    /\ UNCHANGED <<upstream, disk, row, located, memory, flight, warm, request>>

RowAges ==
    /\ row # None
    /\ ~row.stale
    /\ row' = [row EXCEPT !.stale = TRUE]
    /\ UNCHANGED <<upstream, disk, located, memory, negative, flight, warm, request>>

\* A content is replaced by a later one, or withdrawn; after that, anything
\* may be published.
UpstreamChanges ==
    /\ version' \in (IF MayWithdraw THEN {0} ELSE {}) \cup version..MaxVersion
    /\ reachable' \in BOOLEAN
    /\ UNCHANGED <<disk, row, located, memory, negative, flight, warm, request>>

LoseFile(v) ==
    /\ losses < MaxLosses
    /\ v \in intact
    /\ intact' = intact \ {v}
    /\ losses' = losses + 1
    /\ UNCHANGED <<upstream, row, located, memory, negative, flight, warm, request>>

Next ==
    \/ \E r \in Requests : Begin(r) \/ Cancel(r) \/ Open(r)
    \/ Flight
    \/ WarmStart \/ Warm
    \/ SweepList \/ SweepDelete \/ SweepFails
    \/ MemoryExpires \/ NegativeExpires \/ RowAges
    \/ UpstreamChanges
    \/ \E v \in Version : LoseFile(v)

\* Requests keep coming and goroutines run; calls upstream and statements
\* carry timeouts; time passes, so entries expire.  Nothing makes a caller
\* go away, upstream change, a file get lost or a warm-up start.
Fairness ==
    /\ \A r \in Requests : WF_vars(Begin(r)) /\ WF_vars(Open(r))
    /\ WF_vars(Flight)
    /\ WF_vars(Warm)
    /\ WF_vars(MemoryExpires)
    /\ WF_vars(NegativeExpires)
    /\ WF_vars(RowAges)

Spec == Init /\ [][Next]_vars /\ Fairness

-----------------------------------------------------------------------------
(* Properties.                                                             *)

\* A refresh that found new content and cannot download it leaves the old
\* content linked: a row never loses its blob other than by being deleted.
RefreshKeepsOldContent ==
    [][row # None /\ row' # None /\ row.blob # 0 => row'.blob # 0]_row

\* However loads fail, end or are abandoned, a caller that waits is answered.
RequestsAreAnswered ==
    \A r \in Requests : request[r] = Waiting ~> request[r] # Waiting

Refused(r) == request[r] \in {Refusal, Content(0)}

Settled(v) == reachable /\ version = v

\* Once upstream settles on a content, no caller is refused or answered
\* without content any more: negative entries, lost and damaged files,
\* artifacts deleted upstream, swept rows and failed refreshes all heal.
ServesForGood ==
    \A v \in Version : <>[]Settled(v) => <>[](\A r \in Requests : ~Refused(r))

\* "Go on serving the locally cached data" (proxy.go:1079) when upstream cannot
\* be reached for a refresh: with the load over, the next caller is not turned away
\* while the artifact and its file are there.
FailedRefreshTurnsNobodyAway ==
    ~(negative = "failure" /\ At("off") /\ row # None /\ RefsExist(row.blob))

\* "Never touches a cache that has content" (proxy_cache_gc.go:17): what the
\* sweep deletes has no blob.
SweepSparesContent == [][SweepDelete => row.blob = 0]_vars

\* A content changed upstream is downloaded again (proxy.go:1104): once
\* upstream settles, its content is what callers end up with.
CatchesUp ==
    \A v \in Version : <>[]Settled(v) =>
        <>[](\A r \in Requests : request[r].pc = "content" => request[r] = Content(v))
=============================================================================
