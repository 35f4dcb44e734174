-------------------------- MODULE RepositoryManager --------------------------
(***************************************************************************)
(* DefaultRepositoryManager (internal/core/runtime/manager.go): the cache  *)
(* of repository runtimes, loaded on demand by the factory of              *)
(* cmd/registry/runtime_init.go and invalidated by RepositoryService       *)
(* (internal/service/repository_service.go) after a change.                *)
(*                                                                         *)
(* Two repositories are enough for their interplay: a virtual one, Group,  *)
(* whose runtime holds the runtime of a member, and that Member, loaded by *)
(* a Get of its own.  A configuration is a version number; a runtime is    *)
(* the version it was built from and the version of the member it holds.   *)
(* Every sync.Map operation, channel operation and query is a step.        *)
(***************************************************************************)
EXTENDS Naturals

CONSTANTS
    Callers,        \* goroutines that call Get
    Group, Member,  \* the two repositories
    MaxChanges,     \* bound: changes ever made to the repositories
    None            \* no runtime

Names == {Group, Member}

\* The configuration of a row is the number of the change that wrote it.
Version == 1..(MaxChanges + 1)

\* held = 0: a runtime that holds no member's.
Runtime == [own : Version, held : 0..(MaxChanges + 1)]

ASSUME ManagerAssumption ==
    /\ Group # Member
    /\ MaxChanges \in Nat
    /\ None \notin Runtime \cup [repo : Runtime, expired : BOOLEAN]

VARIABLES
    row,        \* the repository's row: its configuration, 0: none
    changes,    \* changes made so far
    joined,     \* whether the Member is listed in the Group
    repos,      \* m.repos
    loading,    \* m.loading and its channel: none, open, full, or sent and empty
    caller,     \* per goroutine: where in Get it is
    admin,      \* RepositoryService's change under way
    newest      \* history: the latest configuration ever cached

database == <<row, changes, joined>>
vars == <<database, repos, loading, caller, admin, newest>>

\* inner: a Get of the Member called by a load of the Group, which keeps in own
\* and snap what it read of the two rows; result: what the load is to return.
Idle == [pc |-> "idle", name |-> Group, inner |-> FALSE, own |-> 0, snap |-> 0,
         result |-> None]

Resting == [pc |-> "rest", name |-> Group]

TypeOK ==
    /\ row \in [Names -> 0..(MaxChanges + 1)]
    /\ changes \in 0..MaxChanges
    /\ joined \in BOOLEAN
    /\ repos \in [Names -> [repo : Runtime, expired : BOOLEAN] \cup {None}]
    /\ loading \in [Names -> {"none", "open", "full", "empty"}]
    /\ caller \in [Callers ->
           [pc : {"idle", "expired", "load", "wait", "lost", "read", "members",
                  "register", "store", "send", "clear"},
            name : Names, inner : BOOLEAN,
            own : 0..(MaxChanges + 1), snap : 0..(MaxChanges + 1),
            result : Runtime \cup {None}]]
    /\ admin \in [pc : {"rest", "create", "own", "parents"}, name : Names]
    /\ newest \in [Names -> 0..(MaxChanges + 1)]

\* The process starts with any configuration and empty caches.
Init ==
    /\ row \in [Names -> {0, 1}]
    /\ changes = 0
    /\ joined \in BOOLEAN
    /\ repos = [n \in Names |-> None]
    /\ loading = [n \in Names |-> "none"]
    /\ caller = [c \in Callers |-> Idle]
    /\ admin = Resting
    /\ newest = [n \in Names |-> 0]

-----------------------------------------------------------------------------
(* Get.                                                                    *)

At(c, pc) == caller[c].pc = pc
Goto(c, pc) == caller' = [caller EXCEPT ![c].pc = pc]

\* Where Get goes that did not find a runtime it can return.
Miss(n) == IF repos[n] = None THEN "load" ELSE "expired"

\* The mutant serves what is past its TTL.
FreshForever(n) == repos[n] # None

Fresh(n) == repos[n] # None /\ ~repos[n].expired

\* What becomes of a goroutine c whose Get returns the runtime.  Called by a
\* Group's load it goes on: a member without a runtime is built and registered
\* from what the load itself had read of it.
Returns(c, runtime) ==
    IF caller[c].inner
    THEN IF runtime = None
         THEN [Idle EXCEPT !.pc = "register",
                           !.result = [own |-> caller[c].own,
                                       held |-> caller[c].snap]]
         ELSE [Idle EXCEPT !.pc = "store",
                           !.result = [own |-> caller[c].own, held |-> runtime.own]]
    ELSE Idle

\* What becomes of one that waits on a channel into which nothing more is sent.
Lost == [Idle EXCEPT !.pc = "lost"]

\* A Get that finds a runtime returns it and changes nothing.
Get(c, n) ==
    /\ At(c, "idle")
    /\ ~Fresh(n)
    /\ caller' = [caller EXCEPT ![c] = [Idle EXCEPT !.pc = Miss(n), !.name = n]]
    /\ UNCHANGED <<database, repos, loading, admin, newest>>

\* The expired entry goes, or whatever took its place meanwhile.
DropExpired(c) ==
    /\ At(c, "expired")
    /\ repos' = [repos EXCEPT ![caller[c].name] = None]
    /\ Goto(c, "load")
    /\ UNCHANGED <<database, loading, admin, newest>>

\* LoadOrStore: the first one loads, the others wait on its channel.
Lead(c) ==
    LET n == caller[c].name IN
    /\ At(c, "load")
    /\ loading[n] = "none"
    /\ loading' = [loading EXCEPT ![n] = "open"]
    /\ Goto(c, "read")
    /\ UNCHANGED <<database, repos, admin, newest>>

\* The result left in the channel is that of the leader about to delete it.
Follow(c) ==
    LET n == caller[c].name IN
    /\ At(c, "load")
    /\ loading[n] # "none"
    /\ CASE loading[n] = "open" -> Goto(c, "wait") /\ UNCHANGED loading
         [] loading[n] = "empty" ->
                caller' = [caller EXCEPT ![c] = Lost] /\ UNCHANGED loading
         [] loading[n] = "full" ->
                \E l \in Callers :
                    /\ At(l, "clear") /\ caller[l].name = n
                    /\ caller' = [caller EXCEPT ![c] = Returns(c, caller[l].result)]
                    /\ loading' = [loading EXCEPT ![n] = "empty"]
    /\ UNCHANGED <<database, repos, admin, newest>>

-----------------------------------------------------------------------------
(* The factory, run by the leader.                                         *)

\* FindByName.  A missing row, like a failed query, is an error: nothing is
\* cached, but nil is sent to those waiting.
Read(c) ==
    LET n == caller[c].name IN
    /\ At(c, "read")
    /\ IF row[n] = 0 THEN Goto(c, "send")
       ELSE caller' = [caller EXCEPT
                ![c].pc = IF n = Group THEN "members" ELSE "store",
                ![c].result = [own |-> row[n], held |-> 0]]
    /\ UNCHANGED <<database, repos, loading, admin, newest>>

\* The mutant returns without sending anything or deleting the entry.
ReadFailsAndReturns(c) ==
    /\ caller[c].pc \in {"read", "members"}
    /\ caller' = [caller EXCEPT ![c] = Returns(c, None)]
    /\ UNCHANGED <<database, repos, loading, admin, newest>>

ReadFails(c) ==
    /\ caller[c].pc \in {"read", "members"}
    /\ caller' = [caller EXCEPT ![c].pc = "send", ![c].result = None]
    /\ UNCHANGED <<database, repos, loading, admin, newest>>

\* A membership outlives its member, which then reads as an empty row.  The
\* mutant builds a runtime for that, too.
BuiltAnyway(member) == FALSE

Skipped(member) == member = 0

\* createGroupRuntime queries the Group again, with its members, and then
\* Gets each of them.
ReadMembers(c) ==
    LET snap == row[Member] IN
    /\ At(c, "members")
    /\ row[Group] # 0
    /\ caller' = [caller EXCEPT ![c] =
           CASE ~joined \/ Skipped(snap) -> [@ EXCEPT !.pc = "store"]
             [] joined /\ ~Skipped(snap) /\ Fresh(Member) ->
                    [@ EXCEPT !.pc = "store", !.result.held = repos[Member].repo.own]
             [] OTHER ->
                    [pc |-> Miss(Member), name |-> Member, inner |-> TRUE,
                     own |-> caller[c].result.own, snap |-> snap, result |-> None]]
    /\ UNCHANGED <<database, repos, loading, admin, newest>>

Cache(n, runtime) ==
    /\ repos' = [repos EXCEPT ![n] = [repo |-> runtime, expired |-> FALSE]]
    /\ newest' = [newest EXCEPT ![n] = IF runtime.own > @ THEN runtime.own ELSE @]

\* manager.Set of the member a Group's load had to build itself.
Register(c) ==
    /\ At(c, "register")
    /\ Cache(Member, [own |-> caller[c].result.held, held |-> 0])
    /\ Goto(c, "store")
    /\ UNCHANGED <<database, loading, admin>>

\* The mutant lets go of the loading entry before the result is stored.
StoreLast(c) ==
    /\ At(c, "store")
    /\ IF loading[caller[c].name] = "open"
       THEN /\ loading' = [loading EXCEPT ![caller[c].name] = "none"]
            /\ UNCHANGED <<repos, newest, caller>>
       ELSE /\ Cache(caller[c].name, caller[c].result)
            /\ Goto(c, "send")
            /\ UNCHANGED loading
    /\ UNCHANGED <<database, admin>>

Store(c) ==
    /\ At(c, "store")
    /\ Cache(caller[c].name, caller[c].result)
    /\ Goto(c, "send")
    /\ UNCHANGED <<database, loading, admin>>

\* The one send into the channel: one of those waiting receives it, or it
\* stays in the buffer.  Nothing else is ever sent to the others.
Send(c) ==
    LET n == caller[c].name
        waiting == {w \in Callers : At(w, "wait") /\ caller[w].name = n} IN
    /\ At(c, "send")
    /\ IF waiting = {}
       THEN /\ Goto(c, "clear")
            /\ loading' = [loading EXCEPT ![n] = "full"]
       ELSE \E w \in waiting :
                /\ caller' = [d \in Callers |->
                       CASE d = c -> [caller[c] EXCEPT !.pc = "clear"]
                         [] d = w -> Returns(w, caller[c].result)
                         [] d \in waiting \ {w} -> Lost
                         [] OTHER -> caller[d]]
                /\ loading' = [loading EXCEPT ![n] = "empty"]
    /\ UNCHANGED <<database, repos, admin, newest>>

\* loading.Delete, and the leader's Get returns.
Clear(c) ==
    /\ At(c, "clear")
    /\ loading' = [loading EXCEPT ![caller[c].name] = "none"]
    /\ caller' = [caller EXCEPT ![c] = Returns(c, caller[c].result)]
    /\ UNCHANGED <<database, repos, admin, newest>>

Step(c) ==
    \/ DropExpired(c) \/ Lead(c) \/ Follow(c)
    \/ Read(c) \/ ReadFails(c) \/ ReadMembers(c)
    \/ Register(c) \/ Store(c) \/ Send(c) \/ Clear(c)

\* The TTL passes.
Expire(n) ==
    /\ Fresh(n)
    /\ repos' = [repos EXCEPT ![n].expired = TRUE]
    /\ UNCHANGED <<database, loading, caller, admin, newest>>

-----------------------------------------------------------------------------
(* RepositoryService, one change at a time.                                *)

Change ==
    /\ changes < MaxChanges
    /\ changes' = changes + 1

Configure(n) == row' = [row EXCEPT ![n] = changes + 2]

Update(n) ==
    /\ admin.pc = "rest"
    /\ row[n] # 0
    /\ Change
    /\ Configure(n)
    /\ admin' = [pc |-> "own", name |-> n]
    /\ UNCHANGED <<joined, repos, loading, caller, newest>>

Delete(n) ==
    /\ admin.pc = "rest"
    /\ row[n] # 0
    /\ Change
    /\ row' = [row EXCEPT ![n] = 0]
    /\ admin' = [pc |-> "own", name |-> n]
    /\ UNCHANGED <<joined, repos, loading, caller, newest>>

\* AddMember, RemoveMember and Update of the members: no parents to cascade to.
ChangeMembers ==
    /\ admin.pc = "rest"
    /\ row[Group] # 0
    /\ joined \/ row[Member] # 0
    /\ Change
    /\ joined' = ~joined
    /\ admin' = [pc |-> "own", name |-> Group]
    /\ UNCHANGED <<row, repos, loading, caller, newest>>

\* Create invalidates everything, still inside its transaction ...
Create(n) ==
    /\ admin.pc = "rest"
    /\ row[n] = 0
    /\ changes < MaxChanges
    /\ repos' = [m \in Names |-> None]
    /\ admin' = [pc |-> "create", name |-> n]
    /\ UNCHANGED <<database, loading, caller, newest>>

\* ... which then commits: a new id, and so a member of nothing.
Commit ==
    /\ admin.pc = "create"
    /\ Change
    /\ Configure(admin.name)
    /\ joined' \in IF admin.name = Group THEN {FALSE, row[Member] # 0} ELSE {FALSE}
    /\ admin' = Resting
    /\ UNCHANGED <<repos, loading, caller, newest>>

InvalidateOwn ==
    /\ admin.pc = "own"
    /\ repos' = [repos EXCEPT ![admin.name] = None]
    /\ admin' = [admin EXCEPT !.pc = "parents"]
    /\ UNCHANGED <<database, loading, caller, newest>>

\* cascadeInvalidateParents looks the repository up by name to find its
\* parents; one just deleted is not found.
Parents(n) == IF n = Member /\ row[n] # 0 /\ joined THEN {Group} ELSE {}

InvalidateParents ==
    /\ admin.pc = "parents"
    /\ repos' = [n \in Names |-> IF n \in Parents(admin.name) THEN None ELSE repos[n]]
    /\ admin' = Resting
    /\ UNCHANGED <<database, loading, caller, newest>>

Next ==
    \/ \E c \in Callers, n \in Names : Get(c, n)
    \/ \E c \in Callers : Step(c)
    \/ \E n \in Names : Expire(n)
    \/ \E n \in Names : Update(n) \/ Delete(n) \/ Create(n)
    \/ ChangeMembers \/ Commit
    \/ InvalidateOwn \/ InvalidateParents

\* Goroutines run, queries return and time passes.  Nobody has to ask for a
\* repository or to change one.
Fairness ==
    /\ \A c \in Callers : WF_vars(Step(c))
    /\ \A n \in Names : WF_vars(Expire(n))

Spec == Init /\ [][Next]_vars /\ Fairness

-----------------------------------------------------------------------------
(* Properties.                                                             *)

\* Concurrent loads of one repository share one load and its result
\* ("singleflight", manager.go:64): every Get that waits for it returns.
GetsReturn == \A c \in Callers : At(c, "wait") ~> ~(At(c, "wait") \/ At(c, "lost"))

\* The load of a repository without members always ends, with its loading
\* entry deleted, whatever fails on the way and whoever stopped waiting.
LoadsEnd == loading[Member] # "none" ~> loading[Member] = "none"

\* A load never replaces a runtime by one of an earlier configuration,
\* however long its queries took: its loading entry kept others from loading.
StoresNothingOlder ==
    [][\A c \in Callers : Store(c) =>
           caller[c].result.own >= newest[caller[c].name]]_vars

Current(n) ==
    [own |-> row[n], held |-> IF n = Group /\ joined THEN row[Member] ELSE 0]

\* The TTL makes up for every invalidation that came too early, was overtaken
\* by a load or did not reach the parents (manager.go:43): when configurations
\* stop changing, stale runtimes stop being served.
RuntimesCatchUp ==
    <>[][UNCHANGED database]_vars =>
        <>[](\A n \in Names : Fresh(n) => repos[n].repo = Current(n))

\* "When a member is deleted, the virtual repositories that contain it are
\* invalidated as well" (repository_service.go:357): after Delete is through, with
\* no load under way, no cached Group still holds the deleted Member.
DeletedMembersAreDropped ==
    admin.pc = "rest" /\ (\A c \in Callers : At(c, "idle")) /\ row[Member] = 0
        => ~(Fresh(Group) /\ repos[Group].repo.held # 0)
=============================================================================
