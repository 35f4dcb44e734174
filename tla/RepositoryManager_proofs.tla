---------------------- MODULE RepositoryManager_proofs ----------------------
(***************************************************************************)
(* A load of a repository never puts an older configuration over a newer   *)
(* one, for any number of callers and of changes: the entry in m.loading   *)
(* keeps a second load of the same repository away, and a member that a    *)
(* Group's load registers by itself was read before any load of the member *)
(* that could still store.                                                 *)
(***************************************************************************)
EXTENDS RepositoryManager, TLAPS

Configurations == 0..(MaxChanges + 1)
Entries == [repo : Runtime, expired : BOOLEAN]
Gets == [pc : {"idle", "expired", "load", "wait", "lost", "read", "members",
               "register", "store", "send", "clear"},
         name : Names, inner : BOOLEAN, own : Configurations, snap : Configurations,
         result : Runtime \cup {None}]

\* TypeOK with names for its records.
Typed ==
    /\ row \in [Names -> Configurations] /\ changes \in 0..MaxChanges /\ joined \in BOOLEAN
    /\ repos \in [Names -> Entries \cup {None}]
    /\ loading \in [Names -> {"none", "open", "full", "empty"}]
    /\ caller \in [Callers -> Gets]
    /\ admin \in [pc : {"rest", "create", "own", "parents"}, name : Names]
    /\ newest \in [Names -> Configurations]

\* A Get x that runs the factory of n: by itself, or below it a member's Get.
Works == {"read", "members", "register", "store", "send", "clear"}
Leads(x, n) == (x.name = n /\ x.pc \in Works) \/ (n = Group /\ x.inner)

\* What x has read, and is yet to store: a configuration of the Group ...
HasGroup(x) == x.inner \/ (x.name = Group /\ x.pc \in {"members", "register", "store"})
Own(x) == IF x.inner THEN x.own ELSE x.result.own

\* ... one of the Member, to be registered if its Get gives none ...
HasSnap(x) == x.inner \/ x.pc = "register"
Snap(x) == IF x.inner THEN x.snap ELSE x.result.held

\* ... or one of the Member, to be stored.
HasMember(x) == x.name = Member /\ x.pc = "store"

Shape(x) ==
    /\ x.inner => x.name = Member /\ x.pc \in {"expired", "load", "wait", "read", "store", "send", "clear"}
    /\ x.pc \in {"members", "register"} => x.name = Group /\ ~x.inner
    /\ x.pc \in {"members", "register", "store"} => x.result \in Runtime

\* What was read of n is not newer than what its row says, if there is one.
Past(v, n) == v \in Version /\ v <= changes + 1 /\ (row[n] # 0 => v <= row[n])

Good(x) ==
    /\ Shape(x)
    /\ HasGroup(x) => Past(Own(x), Group) /\ Own(x) >= newest[Group]
    /\ HasSnap(x) => Past(Snap(x), Member)
    /\ HasMember(x) => Past(x.result.own, Member) /\ x.result.own >= newest[Member]

\* The rows, and what was ever cached of them.
Rows == \A n \in Names : /\ row[n] <= changes + 1
                         /\ newest[n] # 0 => Past(newest[n], n)

\* One load of each repository, and its entry is there.
Exclusive == \A n \in Names, c, d \in Callers :
                 Leads(caller[c], n) /\ Leads(caller[d], n) => c = d
Locked == \A n \in Names, c \in Callers : Leads(caller[c], n) => loading[n] # "none"

\* A member about to be registered is not newer than one about to be stored.
Apart == \A g, c \in Callers :
             caller[g].pc = "register" /\ HasMember(caller[c]) =>
                 caller[g].result.held <= caller[c].result.own

IInv == Typed /\ Rows /\ (\A c \in Callers : Good(caller[c])) /\ Exclusive /\ Locked /\ Apart

------------------------------------------------------------------------------
LEMMA Numbers ==
    /\ MaxChanges \in Nat /\ 0 \in Configurations /\ Version \subseteq Configurations
    /\ \A v \in Configurations : v \in Nat /\ (v # 0 => v \in Version)
    /\ Group \in Names /\ Member \in Names /\ Group # Member
BY ManagerAssumption DEF Configurations, Version, Names

LEMMA NoneIsNothing == None \notin Runtime /\ None \notin Entries
BY ManagerAssumption DEF Entries

LEMMA IdleIsGood ==
    /\ Idle \in Gets /\ Idle.pc = "idle" /\ ~Idle.inner
    /\ \A n \in Names, p \in {"expired", "load"} :
           LET x == [Idle EXCEPT !.pc = p, !.name = n]
           IN x \in Gets /\ x.pc = p /\ ~x.inner
    /\ Lost \in Gets /\ Lost.pc = "lost" /\ ~Lost.inner
BY Numbers DEF Idle, Lost, Gets

LEMMA RestIsGood ==
    ASSUME NEW x \in Gets, ~x.inner, x.pc \in {"idle", "lost", "expired", "load", "wait"}
    PROVE  Good(x) /\ \A n \in Names : ~Leads(x, n)
BY DEF Good, Shape, HasGroup, HasSnap, HasMember, Leads, Works

LEMMA InitHolds == Init => IInv
<1> SUFFICES ASSUME Init PROVE IInv
    OBVIOUS
<1>1. row \in [Names -> Configurations]
    BY ManagerAssumption DEF Init, Configurations
<1>a. Resting \in [pc : {"rest", "create", "own", "parents"}, name : Names]
    BY Numbers DEF Resting
<1>b. caller \in [Callers -> Gets]
    BY IdleIsGood DEF Init
<1>c. newest \in [Names -> Configurations] /\ changes \in 0..MaxChanges
    BY Numbers DEF Init
<1>2. Typed
    BY <1>1, <1>a, <1>b, <1>c DEF Init, Typed
<1>3. Rows
    BY ManagerAssumption DEF Init, Rows
<1>4. \A c \in Callers : caller[c] = Idle
    BY DEF Init
<1>5. \A c \in Callers : Good(caller[c]) /\ \A n \in Names : ~Leads(caller[c], n)
    BY <1>4, IdleIsGood, RestIsGood
<1>6. \A c \in Callers : caller[c].pc # "register"
    BY <1>4, IdleIsGood
<1> QED
    BY <1>2, <1>3, <1>5, <1>6 DEF IInv, Exclusive, Locked, Apart

------------------------------------------------------------------------------
\* A step of one Get, which becomes x.  It may take up the lead where there
\* is no entry, and may remove the entry where it leads.
LEMMA OneKeeps ==
    ASSUME IInv, NEW c \in Callers, NEW x \in Gets, Good(x),
           caller' = [caller EXCEPT ![c] = x],
           repos' \in [Names -> Entries \cup {None}],
           loading' \in [Names -> {"none", "open", "full", "empty"}],
           UNCHANGED <<row, changes, joined, admin, newest>>,
           \A n \in Names : Leads(x, n) =>
               loading'[n] # "none" /\ (Leads(caller[c], n) \/ loading[n] = "none"),
           \A n \in Names : Leads(caller[c], n) \/ loading[n] = "none" \/ loading'[n] # "none",
           x.pc = "register" => Leads(caller[c], Member) \/ \A d \in Callers : ~HasMember(caller[d]),
           HasMember(x) => \A g \in Callers : caller[g].pc = "register" =>
                               caller[g].result.held <= x.result.own
    PROVE  IInv'
<1> USE DEF IInv
<1>1. caller' \in [Callers -> Gets] /\ caller'[c] = x
      /\ \A d \in Callers : d # c => caller'[d] = caller[d]
    BY DEF Typed
<1>2. Typed' /\ Rows'
    BY <1>1 DEF Typed, Rows, Past
<1>3. \A d \in Callers : Good(caller'[d])
    BY <1>1
<1>4. \A d \in Callers : Good(caller[d])'
    BY <1>3 DEF Good, Past
<1>5. Exclusive'
    <2> SUFFICES ASSUME NEW n \in Names, NEW d \in Callers, NEW e \in Callers, d # e,
                        Leads(caller'[d], n), Leads(caller'[e], n)
                 PROVE  FALSE
        BY DEF Exclusive, Leads
    <2>1. \A q \in Callers : q # c /\ Leads(caller'[q], n) => Leads(caller[q], n) /\ loading[n] # "none"
        BY <1>1 DEF Locked
    <2>2. CASE d # c /\ e # c
        BY <2>1, <2>2 DEF Exclusive
    <2>3. CASE d = c
        BY <1>1, <2>1, <2>3 DEF Exclusive
    <2>4. CASE e = c
        BY <1>1, <2>1, <2>4 DEF Exclusive
    <2> QED
        BY <2>2, <2>3, <2>4
<1>6. Locked'
    <2> SUFFICES ASSUME NEW n \in Names, NEW d \in Callers, Leads(caller'[d], n)
                 PROVE  loading'[n] # "none"
        BY DEF Locked, Leads
    <2>1. CASE d = c
        BY <1>1, <2>1
    <2>2. CASE d # c
        BY <1>1, <2>2 DEF Locked, Exclusive
    <2> QED
        BY <2>1, <2>2
<1>7. Apart'
    <2> SUFFICES ASSUME NEW g \in Callers, NEW d \in Callers,
                        caller'[g].pc = "register", HasMember(caller'[d])
                 PROVE  caller'[g].result.held <= caller'[d].result.own
        BY DEF Apart, HasMember
    <2>1. CASE g = c
        <3>1. d # c
            BY <1>1, <2>1 DEF HasMember
        <3>2. HasMember(caller[d]) /\ Leads(caller[d], Member)
            BY <1>1, <3>1 DEF HasMember, Leads, Works
        <3> QED
            BY <1>1, <2>1, <3>1, <3>2, Numbers DEF Exclusive
    <2>2. CASE g # c
        BY <1>1, <2>2 DEF Apart
    <2> QED
        BY <2>1, <2>2
<1> QED
    BY <1>2, <1>4, <1>5, <1>6, <1>7

\* A member's Get below a Group's load gives its result to that load.
LEMMA ReturnsIsGood ==
    ASSUME IInv, NEW c \in Callers, NEW runtime \in Runtime \cup {None},
           caller[c].pc \in {"load", "wait", "clear"}
    PROVE  LET x == Returns(c, runtime)
           IN /\ x \in Gets /\ Good(x) /\ ~HasMember(x)
              /\ \A n \in Names : Leads(x, n) => n = Group /\ Leads(caller[c], Group)
              /\ x.pc = "register" => caller[c].name = Member
<1> DEFINE x == Returns(c, runtime)
           y == caller[c]
<1>0. y \in Gets /\ Good(y)
    BY DEF IInv, Typed
<1>1. CASE ~y.inner
    <2>1. x = Idle
        BY <1>1 DEF Returns
    <2> QED
        BY <2>1, IdleIsGood, RestIsGood DEF HasMember
<1>2. CASE y.inner
    <2>1. /\ Past(y.own, Group) /\ y.own >= newest[Group] /\ Past(y.snap, Member)
          /\ y.name = Member /\ Leads(y, Group)
        BY <1>0, <1>2 DEF Good, Shape, HasGroup, HasSnap, Own, Snap, Leads
    <2>2. y.own \in Version /\ y.snap \in Version
        BY <2>1 DEF Past
    <2>3. CASE runtime = None
        <3> DEFINE r == [own |-> y.own, held |-> y.snap]
        <3>1. r \in Runtime /\ r.own = y.own /\ r.held = y.snap
            BY <2>2, Numbers DEF Runtime, Configurations
        <3>2. x = [Idle EXCEPT !.pc = "register", !.result = r]
            BY <1>2, <2>3 DEF Returns
        <3> HIDE DEF r
        <3>3. x \in Gets /\ x.pc = "register" /\ x.name = Group /\ ~x.inner /\ x.result = r
            BY <3>1, <3>2, Numbers DEF Idle, Gets
        <3> HIDE DEF x
        <3>4. Good(x)
            BY <2>1, <3>1, <3>3, Numbers
            DEF Good, Shape, HasGroup, HasSnap, HasMember, Own, Snap
        <3>5. ~HasMember(x) /\ \A n \in Names : Leads(x, n) => n = Group
            BY <3>3 DEF HasMember, Leads
        <3> QED
            BY <2>1, <3>3, <3>4, <3>5 DEF x
    <2>4. CASE runtime # None
        <3> DEFINE r == [own |-> y.own, held |-> runtime.own]
        <3>1. r \in Runtime /\ r.own = y.own
            BY <2>2, <2>4, Numbers DEF Runtime, Configurations
        <3>2. x = [Idle EXCEPT !.pc = "store", !.result = r]
            BY <1>2, <2>4 DEF Returns
        <3> HIDE DEF r
        <3>3. x \in Gets /\ x.pc = "store" /\ x.name = Group /\ ~x.inner /\ x.result = r
            BY <3>1, <3>2, Numbers DEF Idle, Gets
        <3> HIDE DEF x
        <3>4. Good(x)
            BY <2>1, <3>1, <3>3, Numbers
            DEF Good, Shape, HasGroup, HasSnap, HasMember, Own, Snap
        <3>5. ~HasMember(x) /\ \A n \in Names : Leads(x, n) => n = Group
            BY <3>3, Numbers DEF HasMember, Leads
        <3> QED
            BY <2>1, <3>3, <3>4, <3>5 DEF x
    <2> QED
        BY <2>3, <2>4
<1> QED
    BY <1>1, <1>2

------------------------------------------------------------------------------
\* Get.
LEMMA GetKeeps == ASSUME IInv, NEW c \in Callers, NEW n \in Names, Get(c, n) PROVE IInv'
<1> DEFINE x == [Idle EXCEPT !.pc = Miss(n), !.name = n]
<1>1. x \in Gets /\ x.pc \in {"expired", "load"} /\ ~x.inner
    BY IdleIsGood DEF Miss
<1>2. caller' = [caller EXCEPT ![c] = x]
      /\ UNCHANGED <<row, changes, joined, repos, loading, admin, newest>>
    BY DEF Get, database
<1>3. \A m \in Names : ~Leads(caller[c], m)
    BY DEF Get, At, IInv, Typed, Good, Shape, Leads, Works
<1> HIDE DEF x
<1>4. Good(x) /\ (\A m \in Names : ~Leads(x, m)) /\ ~HasMember(x) /\ x.pc # "register"
    BY <1>1, RestIsGood DEF HasMember
<1>5. repos' \in [Names -> Entries \cup {None}] /\ loading' \in [Names -> {"none", "open", "full", "empty"}]
      /\ \A m \in Names : loading[m] = "none" \/ loading'[m] # "none"
    BY <1>2 DEF IInv, Typed
<1> QED
    BY <1>1, <1>2, <1>4, <1>5, OneKeeps

\* A step that only changes where c is, between places that read nothing.
LEMMA MovesIsGood ==
    ASSUME IInv, NEW c \in Callers, NEW x \in Gets,
           caller[c].pc \in {"expired", "load", "read", "members", "store", "send"},
           x.pc \in {"load", "wait", "read", "send", "clear"}, x.name = caller[c].name,
           x.inner = caller[c].inner, x.own = caller[c].own, x.snap = caller[c].snap
    PROVE  Good(x) /\ ~HasMember(x)
<1>1. Good(caller[c])
    BY DEF IInv
<1> QED
    BY <1>1 DEF Good, Shape, HasGroup, HasSnap, HasMember, Own, Snap

LEMMA GotoIsGood ==
    ASSUME IInv, NEW c \in Callers, NEW p \in {"load", "wait", "read", "send", "clear"},
           caller[c].pc \in {"expired", "load", "read", "members", "store", "send"}, Goto(c, p)
    PROVE  \E x \in Gets : /\ caller' = [caller EXCEPT ![c] = x]
                           /\ x.pc = p /\ x.name = caller[c].name /\ Good(x)
                           /\ ~HasMember(x) /\ x.inner = caller[c].inner
<1> DEFINE y == caller[c]
           x == [y EXCEPT !.pc = p, !.result = y.result]
<1>1. y \in Gets /\ y.result \in Runtime \cup {None}
    BY DEF IInv, Typed, Gets
<1>2. caller' = [caller EXCEPT ![c] = x]
    <2>1. [y EXCEPT !.pc = p] = x
        BY <1>1 DEF Gets
    <2>2. caller' = [caller EXCEPT ![c] = [y EXCEPT !.pc = p]]
        BY DEF Goto
    <2> QED
        BY <2>1, <2>2
<1>3. x \in Gets /\ x.pc = p /\ x.name = y.name /\ x.inner = y.inner /\ x.own = y.own /\ x.snap = y.snap
    BY <1>1 DEF Gets
<1> HIDE DEF x
<1>4. Good(x) /\ ~HasMember(x)
    BY <1>3, MovesIsGood
<1> QED
    BY <1>2, <1>3, <1>4

LEMMA DropExpiredKeeps == ASSUME IInv, NEW c \in Callers, DropExpired(c) PROVE IInv'
<1>1. caller[c].pc = "expired" /\ Goto(c, "load") /\ UNCHANGED <<row, changes, joined, loading, admin, newest>>
    BY DEF DropExpired, At, database
<1>2. PICK x \in Gets : /\ caller' = [caller EXCEPT ![c] = x]
                        /\ x.pc = "load" /\ x.name = caller[c].name /\ Good(x)
                        /\ ~HasMember(x) /\ x.inner = caller[c].inner
    BY <1>1, GotoIsGood
<1>3. repos' \in [Names -> Entries \cup {None}] /\ loading' \in [Names -> {"none", "open", "full", "empty"}]
    BY <1>1 DEF DropExpired, IInv, Typed
<1>4. \A n \in Names : Leads(x, n) => Leads(caller[c], n) /\ loading[n] # "none"
    BY <1>2 DEF IInv, Locked, Leads, Works
<1> QED
    BY <1>1, <1>2, <1>3, <1>4, OneKeeps

LEMMA LeadKeeps == ASSUME IInv, NEW c \in Callers, Lead(c) PROVE IInv'
<1> DEFINE n == caller[c].name
<1>1. /\ caller[c].pc = "load" /\ loading[n] = "none" /\ Goto(c, "read") /\ n \in Names
      /\ loading' = [loading EXCEPT ![n] = "open"] /\ UNCHANGED <<row, changes, joined, repos, admin, newest>>
    BY DEF Lead, At, database, IInv, Typed, Gets
<1>2. PICK x \in Gets : /\ caller' = [caller EXCEPT ![c] = x]
                        /\ x.pc = "read" /\ x.name = n /\ Good(x)
                        /\ ~HasMember(x) /\ x.inner = caller[c].inner
    BY <1>1, GotoIsGood
<1> HIDE DEF n
<1>3. repos' \in [Names -> Entries \cup {None}] /\ loading' \in [Names -> {"none", "open", "full", "empty"}]
      /\ loading'[n] = "open" /\ \A m \in Names : m # n => loading'[m] = loading[m]
    BY <1>1 DEF IInv, Typed
<1>4. \A m \in Names : Leads(x, m) => m = n \/ Leads(caller[c], m)
    BY <1>2 DEF Leads
<1>5. \A m \in Names : Leads(x, m) => loading'[m] # "none" /\ (Leads(caller[c], m) \/ loading[m] = "none")
    BY <1>1, <1>3, <1>4 DEF IInv, Locked
<1>6. \A m \in Names : Leads(caller[c], m) \/ loading[m] = "none" \/ loading'[m] # "none"
    BY <1>3
<1> QED
    BY <1>1, <1>2, <1>3, <1>5, <1>6, OneKeeps

\* Only the leader of n is at clear with n.
LEMMA NoStoreBeside ==
    ASSUME IInv, NEW l \in Callers, caller[l].pc \in {"send", "clear"}, caller[l].name = Member
    PROVE  \A d \in Callers : ~HasMember(caller[d])
BY Numbers DEF IInv, Exclusive, Leads, Works, HasMember

LEMMA FollowKeeps == ASSUME IInv, NEW c \in Callers, Follow(c) PROVE IInv'
<1> DEFINE n == caller[c].name
<1>1. /\ caller[c].pc = "load" /\ loading[n] # "none" /\ n \in Names
      /\ UNCHANGED <<row, changes, joined, repos, admin, newest>>
      /\ loading[n] \in {"open", "full", "empty"}
    BY DEF Follow, At, database, IInv, Typed, Gets
<1>2. CASE loading[n] = "open"
    <2>1. Goto(c, "wait") /\ loading' = loading
        BY <1>2 DEF Follow
    <2>2. PICK x \in Gets : /\ caller' = [caller EXCEPT ![c] = x]
                            /\ x.pc = "wait" /\ x.name = n /\ Good(x)
                            /\ ~HasMember(x) /\ x.inner = caller[c].inner
        BY <1>1, <2>1, GotoIsGood
    <2> HIDE DEF n
    <2>3. repos' \in [Names -> Entries \cup {None}] /\ loading' \in [Names -> {"none", "open", "full", "empty"}]
        BY <1>1, <2>1 DEF IInv, Typed
    <2>4. \A m \in Names : Leads(x, m) => Leads(caller[c], m) /\ loading'[m] # "none"
        BY <2>1, <2>2 DEF IInv, Locked, Leads, Works
    <2> QED
        BY <1>1, <2>1, <2>2, <2>3, <2>4, OneKeeps
<1>3. CASE loading[n] = "empty"
    <2>1. caller' = [caller EXCEPT ![c] = Lost] /\ loading' = loading
        BY <1>3 DEF Follow
    <2>2. Lost \in Gets /\ Lost.pc = "lost" /\ Good(Lost) /\ (\A m \in Names : ~Leads(Lost, m)) /\ ~HasMember(Lost)
        BY IdleIsGood, RestIsGood DEF HasMember
    <2>3. repos' \in [Names -> Entries \cup {None}] /\ loading' \in [Names -> {"none", "open", "full", "empty"}]
        BY <1>1, <2>1 DEF IInv, Typed
    <2> DEFINE x == Lost
    <2>4. x \in Gets /\ x.pc # "register" /\ Good(x) /\ (\A m \in Names : ~Leads(x, m)) /\ ~HasMember(x)
          /\ caller' = [caller EXCEPT ![c] = x]
        BY <2>1, <2>2
    <2> HIDE DEF n, x
    <2> QED
        BY <1>1, <2>1, <2>3, <2>4, OneKeeps
<1>4. CASE loading[n] = "full"
    <2>1. PICK l \in Callers : /\ caller[l].pc = "clear" /\ caller[l].name = n
                               /\ caller' = [caller EXCEPT ![c] = Returns(c, caller[l].result)]
                               /\ loading' = [loading EXCEPT ![n] = "empty"]
        BY <1>4 DEF Follow, At
    <2> DEFINE x == Returns(c, caller[l].result)
    <2>2. caller[l].result \in Runtime \cup {None}
        BY DEF IInv, Typed, Gets
    <2>3. /\ x \in Gets /\ Good(x) /\ ~HasMember(x)
          /\ \A m \in Names : Leads(x, m) => m = Group /\ Leads(caller[c], Group)
          /\ x.pc = "register" => n = Member
        BY <1>1, <2>2, ReturnsIsGood
    <2> HIDE DEF n, x
    <2>4. repos' \in [Names -> Entries \cup {None}] /\ loading' \in [Names -> {"none", "open", "full", "empty"}]
          /\ loading'[n] = "empty" /\ \A m \in Names : m # n => loading'[m] = loading[m]
        BY <1>1, <2>1 DEF IInv, Typed
    <2>5. \A m \in Names : Leads(x, m) => loading'[m] # "none" /\ Leads(caller[c], m)
        BY <2>3, <2>4 DEF IInv, Locked
    <2>6. x.pc = "register" => \A d \in Callers : ~HasMember(caller[d])
        BY <2>1, <2>3, NoStoreBeside
    <2>7. caller' = [caller EXCEPT ![c] = x]
        BY <2>1 DEF x
    <2>8. \A m \in Names : Leads(caller[c], m) \/ loading[m] = "none" \/ loading'[m] # "none"
        BY <2>4
    <2> QED
        BY <1>1, <2>3, <2>4, <2>5, <2>6, <2>7, <2>8, OneKeeps
<1> QED
    BY <1>1, <1>2, <1>3, <1>4

\* The leader is done: nobody else is, so the entry may go.
LEMMA ClearKeeps == ASSUME IInv, NEW c \in Callers, Clear(c) PROVE IInv'
<1> DEFINE n == caller[c].name
           x == Returns(c, caller[c].result)
<1>1. /\ caller[c].pc = "clear" /\ n \in Names /\ caller[c].result \in Runtime \cup {None}
      /\ loading' = [loading EXCEPT ![n] = "none"] /\ caller' = [caller EXCEPT ![c] = x]
      /\ UNCHANGED <<row, changes, joined, repos, admin, newest>>
    BY DEF Clear, At, database, IInv, Typed, Gets
<1>2. /\ x \in Gets /\ Good(x) /\ ~HasMember(x)
      /\ \A m \in Names : Leads(x, m) => m = Group /\ Leads(caller[c], Group)
      /\ x.pc = "register" => n = Member
    BY <1>1, ReturnsIsGood
<1>3. n = Group => ~Leads(x, Group)
    <2>1. ~caller[c].inner \/ n = Member
        BY DEF IInv, Good, Shape
    <2>2. CASE n = Group
        <3>1. ~caller[c].inner
            BY <2>1, <2>2, Numbers
        <3>2. x = Idle
            BY <3>1 DEF Returns
        <3> QED
            BY <3>2, IdleIsGood, RestIsGood, Numbers
    <2> QED
        BY <2>2
<1>4. x.pc = "register" => \A d \in Callers : ~HasMember(caller[d])
    BY <1>1, <1>2, NoStoreBeside
<1>5. Leads(caller[c], n)
    BY <1>1 DEF Leads, Works
<1> HIDE DEF n, x
<1>6. repos' \in [Names -> Entries \cup {None}] /\ loading' \in [Names -> {"none", "open", "full", "empty"}]
      /\ \A m \in Names : m # n => loading'[m] = loading[m]
    BY <1>1 DEF IInv, Typed
<1>7. \A m \in Names : Leads(x, m) => loading'[m] # "none" /\ Leads(caller[c], m)
    BY <1>2, <1>3, <1>6 DEF IInv, Locked
<1>8. \A m \in Names : Leads(caller[c], m) \/ loading[m] = "none" \/ loading'[m] # "none"
    BY <1>5, <1>6
<1> QED
    BY <1>1, <1>2, <1>4, <1>6, <1>7, <1>8, OneKeeps

------------------------------------------------------------------------------
\* The factory.
LEMMA ReadKeeps == ASSUME IInv, NEW c \in Callers, Read(c) PROVE IInv'
<1> DEFINE n == caller[c].name
           y == caller[c]
<1>1. /\ y.pc = "read" /\ n \in Names /\ y \in Gets /\ Good(y) /\ Leads(y, n)
      /\ UNCHANGED <<row, changes, joined, repos, loading, admin, newest>>
    BY DEF Read, At, database, IInv, Typed, Gets, Leads, Works
<1>2. repos' \in [Names -> Entries \cup {None}] /\ loading' \in [Names -> {"none", "open", "full", "empty"}]
    BY <1>1 DEF IInv, Typed
<1>3. CASE row[n] = 0
    <2>1. Goto(c, "send")
        BY <1>3 DEF Read
    <2>2. PICK x \in Gets : /\ caller' = [caller EXCEPT ![c] = x]
                            /\ x.pc = "send" /\ x.name = n /\ Good(x)
                            /\ ~HasMember(x) /\ x.inner = y.inner
        BY <1>1, <2>1, GotoIsGood
    <2>3. \A m \in Names : Leads(x, m) => Leads(caller[c], m) /\ loading'[m] # "none"
        BY <1>1, <2>2 DEF IInv, Locked, Leads, Works
    <2> QED
        BY <1>1, <1>2, <2>2, <2>3, OneKeeps
<1>4. CASE row[n] # 0
    <2> DEFINE r == [own |-> row[n], held |-> 0]
               p == IF n = Group THEN "members" ELSE "store"
               x == [y EXCEPT !.pc = p, !.result = r]
    <2>1. row[n] \in Version /\ row[n] <= changes + 1 /\ row[n] >= newest[n]
        BY <1>1, <1>4, Numbers DEF IInv, Typed, Rows, Past
    <2>2. Past(row[n], n)
        BY <2>1, Numbers DEF Past
    <2>3. r \in Runtime /\ r.own = row[n]
        BY <2>1, Numbers DEF Runtime, Configurations
    <2>4. caller' = [caller EXCEPT ![c] = x]
        BY <1>4 DEF Read
    <2>5. p \in {"members", "store"} /\ (p = "members" <=> n = Group) /\ (n # Group => n = Member)
        BY <1>1 DEF Names
    <2> HIDE DEF r, p
    <2>6. x \in Gets /\ x.pc = p /\ x.name = n /\ x.inner = y.inner /\ x.own = y.own
          /\ x.snap = y.snap /\ x.result = r
        BY <1>1, <2>3, <2>5 DEF Gets
    <2> HIDE DEF x
    <2>7. y.inner => n = Member /\ Past(y.own, Group) /\ y.own >= newest[Group] /\ Past(y.snap, Member)
        BY <1>1 DEF Good, Shape, HasGroup, HasSnap, Own, Snap
    <2>8. Good(x)
        <3>1. Shape(x)
            BY <2>3, <2>5, <2>6, <2>7, Numbers DEF Shape
        <3>2. HasGroup(x) => Past(Own(x), Group) /\ Own(x) >= newest[Group]
            BY <2>1, <2>2, <2>3, <2>5, <2>6, <2>7, Numbers DEF HasGroup, Own
        <3>3. HasSnap(x) => Past(Snap(x), Member)
            BY <2>5, <2>6, <2>7 DEF HasSnap, Snap
        <3>4. HasMember(x) => Past(x.result.own, Member) /\ x.result.own >= newest[Member]
            BY <2>1, <2>2, <2>3, <2>5, <2>6 DEF HasMember
        <3> QED
            BY <3>1, <3>2, <3>3, <3>4 DEF Good
    <2>9. \A m \in Names : Leads(x, m) => Leads(y, m) /\ loading'[m] # "none"
        BY <1>1, <2>5, <2>6 DEF IInv, Locked, Leads, Works
    <2>10. HasMember(x) => \A g \in Callers : caller[g].pc = "register" =>
                               caller[g].result.held <= x.result.own
        <3> SUFFICES ASSUME HasMember(x), NEW g \in Callers, caller[g].pc = "register"
                     PROVE  caller[g].result.held <= x.result.own
            OBVIOUS
        <3>1. Good(caller[g])
            BY DEF IInv
        <3>2. Past(caller[g].result.held, Member)
            BY <3>1 DEF Good, Shape, HasSnap, Snap
        <3> QED
            BY <1>4, <2>3, <2>6, <3>2 DEF Past, HasMember
    <2>11. x.pc # "register"
        BY <2>5, <2>6
    <2> HIDE DEF n, y
    <2> QED
        BY <1>1, <1>2, <2>4, <2>6, <2>8, <2>9, <2>10, <2>11, OneKeeps DEF y
<1> QED
    BY <1>3, <1>4

LEMMA ReadFailsKeeps == ASSUME IInv, NEW c \in Callers, ReadFails(c) PROVE IInv'
<1> DEFINE x == [caller[c] EXCEPT !.pc = "send", !.result = None]
<1>1. /\ caller[c].pc \in {"read", "members"} /\ caller' = [caller EXCEPT ![c] = x]
      /\ UNCHANGED <<row, changes, joined, repos, loading, admin, newest>>
    BY DEF ReadFails, database
<1>a. caller[c] \in Gets
    BY DEF IInv, Typed
<1>b. x \in Gets /\ x.pc = "send" /\ x.name = caller[c].name /\ x.inner = caller[c].inner
      /\ x.own = caller[c].own /\ x.snap = caller[c].snap
    BY <1>a DEF Gets
<1> HIDE DEF x
<1>2. Good(x) /\ ~HasMember(x)
    BY <1>1, <1>b, MovesIsGood
<1>3. \A m \in Names : Leads(x, m) => Leads(caller[c], m) /\ loading'[m] # "none"
    BY <1>1, <1>b DEF IInv, Locked, Leads, Works
<1>4. repos' \in [Names -> Entries \cup {None}] /\ loading' \in [Names -> {"none", "open", "full", "empty"}]
    BY <1>1 DEF IInv, Typed
<1> QED
    BY <1>1, <1>b, <1>2, <1>3, <1>4, OneKeeps

LEMMA ReadMembersKeeps == ASSUME IInv, NEW c \in Callers, ReadMembers(c) PROVE IInv'
<1> DEFINE y == caller[c]
           snap == row[Member]
<1>1. /\ y.pc = "members" /\ y \in Gets /\ Good(y)
      /\ UNCHANGED <<row, changes, joined, repos, loading, admin, newest>>
    BY DEF ReadMembers, At, database, IInv, Typed
<1>2. /\ y.name = Group /\ ~y.inner /\ y.result \in Runtime /\ Leads(y, Group)
      /\ Past(y.result.own, Group) /\ y.result.own >= newest[Group]
    BY <1>1 DEF Good, Shape, HasGroup, Own, Leads, Works
<1>3. repos' \in [Names -> Entries \cup {None}] /\ loading' \in [Names -> {"none", "open", "full", "empty"}]
      /\ loading'[Group] # "none"
    BY <1>1, <1>2, Numbers DEF IInv, Typed, Locked
<1>4. CASE ~joined \/ Skipped(snap) \/ Fresh(Member)
    <2>1. PICK r \in Runtime : r.own = y.result.own /\ caller' = [caller EXCEPT ![c] = [y EXCEPT !.pc = "store", !.result = r]]
        <3>1. CASE ~joined \/ Skipped(snap)
            <4>1. [y EXCEPT !.pc = "store"] = [y EXCEPT !.pc = "store", !.result = y.result]
                BY <1>1 DEF Gets
            <4>2. caller' = [caller EXCEPT ![c] = [y EXCEPT !.pc = "store"]]
                BY <3>1 DEF ReadMembers
            <4> QED
                BY <1>2, <4>1, <4>2
        <3>2. CASE joined /\ ~Skipped(snap) /\ Fresh(Member)
            <4> DEFINE r == [y.result EXCEPT !.held = repos[Member].repo.own]
            <4>1. repos[Member].repo \in Runtime
                BY <3>2, Numbers DEF Fresh, IInv, Typed, Entries
            <4>2. r \in Runtime /\ r.own = y.result.own
                BY <1>2, <4>1, Numbers DEF Runtime, Configurations
            <4>3. caller' = [caller EXCEPT ![c] = [y EXCEPT !.pc = "store", !.result.held = repos[Member].repo.own]]
                BY <3>2 DEF ReadMembers
            <4>4. [y EXCEPT !.pc = "store", !.result.held = repos[Member].repo.own]
                    = [y EXCEPT !.pc = "store", !.result = r]
                BY <1>1 DEF Gets
            <4> QED
                BY <4>2, <4>3, <4>4
        <3> QED
            BY <1>4, <3>1, <3>2
    <2> DEFINE x == [y EXCEPT !.pc = "store", !.result = r]
    <2>2. x \in Gets /\ x.pc = "store" /\ x.name = Group /\ ~x.inner /\ x.result = r
        BY <1>1, <1>2 DEF Gets
    <2>3. caller' = [caller EXCEPT ![c] = x]
        BY <2>1
    <2> HIDE DEF x
    <2>4. Good(x) /\ ~HasMember(x)
        BY <1>2, <2>1, <2>2, Numbers DEF Good, Shape, HasGroup, HasSnap, HasMember, Own
    <2>5. \A m \in Names : Leads(x, m) => Leads(y, m) /\ loading'[m] # "none"
        BY <1>2, <1>3, <2>2 DEF Leads
    <2> HIDE DEF y, snap
    <2> QED
        BY <1>1, <1>3, <2>2, <2>3, <2>4, <2>5, OneKeeps DEF y
<1>5. CASE joined /\ ~Skipped(snap) /\ ~Fresh(Member)
    <2> DEFINE x == [pc |-> Miss(Member), name |-> Member, inner |-> TRUE,
                     own |-> y.result.own, snap |-> snap, result |-> None]
    <2>1. caller' = [caller EXCEPT ![c] = x]
        BY <1>5 DEF ReadMembers
    <2>2. snap \in Version /\ Past(snap, Member)
        BY <1>5, Numbers DEF Skipped, IInv, Typed, Rows, Past
    <2>3. y.result.own \in Configurations
        BY <1>2, Numbers DEF Past
    <2>4. Miss(Member) \in {"load", "expired"}
        BY DEF Miss
    <2>5. /\ x \in Gets /\ x.pc \in {"load", "expired"} /\ x.name = Member /\ x.inner
          /\ x.own = y.result.own /\ x.snap = snap
        BY <2>2, <2>3, <2>4, Numbers DEF Gets
    <2> HIDE DEF x
    <2>6. Good(x) /\ ~HasMember(x)
        BY <1>2, <2>2, <2>5, Numbers DEF Good, Shape, HasGroup, HasSnap, HasMember, Own, Snap
    <2>7. \A m \in Names : Leads(x, m) => Leads(y, m) /\ loading'[m] # "none"
        BY <1>2, <1>3, <2>5 DEF Leads, Works
    <2> HIDE DEF y, snap
    <2> QED
        BY <1>1, <1>3, <2>1, <2>5, <2>6, <2>7, OneKeeps DEF y
<1> QED
    BY <1>4, <1>5

------------------------------------------------------------------------------
\* What is cached is the newest by then, and the property itself.
LEMMA CacheKeeps ==
    ASSUME IInv, NEW n \in Names, NEW r \in Runtime, Past(r.own, n), Cache(n, r)
    PROVE  /\ repos' \in [Names -> Entries \cup {None}]
           /\ newest' \in [Names -> Configurations]
           /\ newest'[n] = (IF r.own > newest[n] THEN r.own ELSE newest[n])
           /\ \A m \in Names : m # n => newest'[m] = newest[m]
           /\ newest'[n] # 0 => Past(newest'[n], n)
<1>1. [repo |-> r, expired |-> FALSE] \in Entries
    BY DEF Entries
<1>2. repos' \in [Names -> Entries \cup {None}]
    BY <1>1 DEF Cache, IInv, Typed
<1>3. r.own \in Configurations
    BY Numbers DEF Past
<1>4. newest \in [Names -> Configurations]
      /\ newest' = [newest EXCEPT ![n] = IF r.own > newest[n] THEN r.own ELSE newest[n]]
    BY DEF Cache, IInv, Typed
<1>5. newest[n] # 0 => Past(newest[n], n)
    BY DEF IInv, Rows
<1> QED
    BY <1>2, <1>3, <1>4, <1>5

\* A step of the Get c that caches r for n and goes on as x.
LEMMA CachingKeeps ==
    ASSUME IInv, NEW c \in Callers, NEW n \in Names, NEW r \in Runtime, Past(r.own, n), Cache(n, r),
           NEW x \in Gets, caller' = [caller EXCEPT ![c] = x],
           UNCHANGED <<row, changes, joined, admin, loading>>,
           x.pc # "register", ~HasMember(x), \A m \in Names : Leads(x, m) => Leads(caller[c], m),
           Good(x)', \A d \in Callers : d # c => Good(caller[d])'
    PROVE  IInv'
<1> USE DEF IInv
<1>1. caller' \in [Callers -> Gets] /\ caller'[c] = x
      /\ \A d \in Callers : d # c => caller'[d] = caller[d]
    BY DEF Typed
<1>2. Typed' /\ Rows'
    <2>1. Typed'
        BY <1>1, CacheKeeps DEF Typed
    <2>2. Rows'
        BY CacheKeeps DEF Rows, Past
    <2> QED
        BY <2>1, <2>2
<1>3. \A d \in Callers : Good(caller[d])'
    BY <1>1 DEF Good, Past
<1>4. Exclusive' /\ Locked'
    BY <1>1 DEF Exclusive, Locked, Leads
<1>5. Apart'
    BY <1>1 DEF Apart, HasMember
<1> QED
    BY <1>2, <1>3, <1>4, <1>5

LEMMA RegisterKeeps == ASSUME IInv, NEW c \in Callers, Register(c) PROVE IInv'
<1> DEFINE y == caller[c]
           r == [own |-> y.result.held, held |-> 0]
<1>1. /\ y.pc = "register" /\ y \in Gets /\ Good(y) /\ Cache(Member, r)
      /\ UNCHANGED <<row, changes, joined, loading, admin>>
    BY DEF Register, At, database, IInv, Typed
<1>2. /\ y.name = Group /\ ~y.inner /\ y.result \in Runtime /\ Past(y.result.held, Member)
      /\ Leads(y, Group)
    BY <1>1 DEF Good, Shape, HasSnap, Snap, Leads, Works
<1>3. r \in Runtime /\ r.own = y.result.held
    BY <1>2, Numbers DEF Past, Runtime, Configurations
<1>4. Past(y.result.own, Group) /\ y.result.own >= newest[Group]
    BY <1>1, <1>2 DEF Good, HasGroup, Own
<1>5. PICK x \in Gets : /\ caller' = [caller EXCEPT ![c] = x] /\ x.pc = "store" /\ x.name = Group
                        /\ ~x.inner /\ x.result = y.result
    <2> DEFINE z == [y EXCEPT !.pc = "store"]
    <2>1. z \in Gets /\ z.pc = "store" /\ z.name = Group /\ ~z.inner /\ z.result = y.result
        BY <1>1, <1>2 DEF Gets
    <2>2. caller' = [caller EXCEPT ![c] = z]
        BY DEF Register, Goto
    <2> QED
        BY <2>1, <2>2
<1> HIDE DEF r
<1>6. /\ newest'[Group] = newest[Group]
      /\ newest'[Member] = IF r.own > newest[Member] THEN r.own ELSE newest[Member]
    BY <1>1, <1>2, <1>3, Numbers, CacheKeeps
<1>7. x.pc # "register" /\ ~HasMember(x) /\ \A m \in Names : Leads(x, m) => Leads(y, m)
    BY <1>2, <1>5, Numbers DEF HasMember, Leads
<1>8. Good(x)'
    <2>1. Shape(x) /\ Own(x) = y.result.own /\ ~HasSnap(x) /\ ~HasMember(x)
        BY <1>2, <1>5, <1>7, Numbers DEF Shape, Own, HasSnap
    <2> QED
        BY <1>1, <1>4, <1>6, <2>1 DEF Good, Past, Shape, HasGroup, HasSnap, HasMember, Own, Snap
<1>9. ASSUME NEW d \in Callers, d # c PROVE Good(caller[d])'
    <2>1. caller'[d] = caller[d] /\ Good(caller[d])
        BY <1>5, <1>9 DEF IInv, Typed
    <2>2. HasMember(caller[d]) => caller[d].result.own >= newest'[Member]
        <3> SUFFICES ASSUME HasMember(caller[d]) PROVE caller[d].result.own >= newest'[Member]
            OBVIOUS
        <3>1. r.own <= caller[d].result.own
            BY <1>1, <1>3 DEF IInv, Apart
        <3>2. caller[d].result.own >= newest[Member] /\ Past(caller[d].result.own, Member)
            BY <2>1 DEF Good
        <3>3. r.own \in Nat /\ caller[d].result.own \in Nat /\ newest[Member] \in Nat
            BY <1>2, <1>3, <3>2, Numbers DEF Past, IInv, Typed
        <3> QED
            BY <1>6, <3>1, <3>2, <3>3
    <2> QED
        BY <1>1, <1>6, <2>1, <2>2 DEF Good, Past
<1>10. Past(r.own, Member)
    BY <1>2, <1>3
<1> HIDE DEF y
<1> QED
    BY <1>1, <1>3, <1>5, <1>7, <1>8, <1>9, <1>10, Numbers, CachingKeeps DEF y

\* What a load is about to store.
LEMMA StoreIsNewest ==
    ASSUME IInv, NEW c \in Callers, caller[c].pc = "store"
    PROVE  LET n == caller[c].name
           IN /\ n \in Names /\ caller[c].result \in Runtime /\ Leads(caller[c], n)
              /\ Past(caller[c].result.own, n) /\ caller[c].result.own >= newest[n]
<1>1. Good(caller[c]) /\ caller[c].name \in Names
    BY DEF IInv, Typed, Gets
<1>2. caller[c].name = Group \/ caller[c].name = Member
    BY <1>1 DEF Names
<1> QED
    BY <1>1, <1>2, Numbers DEF Good, Shape, HasGroup, HasMember, Own, Leads, Works

LEMMA StoreKeeps == ASSUME IInv, NEW c \in Callers, Store(c) PROVE IInv'
<1> DEFINE y == caller[c]
           n == y.name
           r == y.result
<1>1. /\ y.pc = "store" /\ y \in Gets /\ Good(y) /\ Cache(n, r) /\ Goto(c, "send")
      /\ UNCHANGED <<row, changes, joined, loading, admin>>
    BY DEF Store, At, database, IInv, Typed
<1>2. n \in Names /\ r \in Runtime /\ Leads(y, n) /\ Past(r.own, n)
    BY <1>1, StoreIsNewest
<1>3. PICK x \in Gets : /\ caller' = [caller EXCEPT ![c] = x]
                        /\ x.pc = "send" /\ x.name = n /\ Good(x) /\ ~HasMember(x) /\ x.inner = y.inner
    BY <1>1, GotoIsGood
<1>4. \A m \in Names : m # n => newest'[m] = newest[m]
    BY <1>1, <1>2, CacheKeeps
<1>5. x.pc # "register" /\ \A m \in Names : Leads(x, m) => Leads(y, m)
    BY <1>1, <1>3 DEF Leads, Works
<1>6. Good(x)'
    <2>1. HasGroup(x) => newest'[Group] = newest[Group]
        BY <1>1, <1>3, <1>4, Numbers DEF HasGroup, Good, Shape
    <2> QED
        BY <1>1, <1>3, <2>1 DEF Good, Past
<1>7. ASSUME NEW d \in Callers, d # c PROVE Good(caller[d])'
    <2>1. caller'[d] = caller[d] /\ Good(caller[d])
        BY <1>3, <1>7 DEF IInv, Typed
    <2>2. HasGroup(caller[d]) => newest'[Group] = newest[Group]
        BY <1>2, <1>4, <1>7, Numbers DEF IInv, Exclusive, HasGroup, Leads, Works
    <2>3. HasMember(caller[d]) => newest'[Member] = newest[Member]
        BY <1>2, <1>4, <1>7, Numbers DEF IInv, Exclusive, HasMember, Leads, Works
    <2> QED
        BY <1>1, <2>1, <2>2, <2>3 DEF Good, Past
<1> HIDE DEF y, n, r
<1> QED
    BY <1>1, <1>2, <1>3, <1>5, <1>6, <1>7, CachingKeeps DEF y

------------------------------------------------------------------------------
\* Of those waiting one gets the result and the others nothing.
LEMMA SendKeeps == ASSUME IInv, NEW c \in Callers, Send(c) PROVE IInv'
<1> DEFINE y == caller[c]
           n == y.name
           waiting == {w \in Callers : At(w, "wait") /\ caller[w].name = n}
<1>1. /\ y.pc = "send" /\ y \in Gets /\ Good(y) /\ n \in Names /\ Leads(y, n)
      /\ UNCHANGED <<row, changes, joined, repos, admin, newest>> /\ y.result \in Runtime \cup {None}
    BY DEF Send, At, database, IInv, Typed, Gets, Leads, Works
<1>2. CASE waiting = {}
    <2>1. Goto(c, "clear") /\ loading' = [loading EXCEPT ![n] = "full"]
        BY <1>2 DEF Send
    <2>2. PICK x \in Gets : /\ caller' = [caller EXCEPT ![c] = x] /\ x.pc = "clear" /\ x.name = n
                            /\ Good(x) /\ ~HasMember(x) /\ x.inner = y.inner
        BY <1>1, <2>1, GotoIsGood
    <2>3. repos' \in [Names -> Entries \cup {None}] /\ loading' \in [Names -> {"none", "open", "full", "empty"}]
          /\ loading'[n] = "full" /\ \A m \in Names : m # n => loading'[m] = loading[m]
        BY <1>1, <2>1 DEF IInv, Typed
    <2>4. \A m \in Names : Leads(x, m) => Leads(y, m) /\ loading'[m] # "none"
        BY <1>1, <2>2, <2>3 DEF IInv, Locked, Leads, Works
    <2>5. \A m \in Names : Leads(y, m) \/ loading[m] = "none" \/ loading'[m] # "none"
        BY <1>1, <2>3
    <2>6. x.pc # "register"
        BY <2>2
    <2> HIDE DEF y, n
    <2> QED
        BY <1>1, <2>2, <2>3, <2>4, <2>5, <2>6, OneKeeps DEF y
<1>3. CASE waiting # {}
    <2>1. PICK w \in waiting :
              /\ caller' = [d \in Callers |->
                       CASE d = c -> [y EXCEPT !.pc = "clear"]
                         [] d = w -> Returns(w, y.result)
                         [] d \in waiting \ {w} -> Lost
                         [] OTHER -> caller[d]]
              /\ loading' = [loading EXCEPT ![n] = "empty"]
        BY <1>3 DEF Send
    <2>2. w \in Callers /\ w # c /\ caller[w].pc = "wait" /\ caller[w].name = n
        BY <1>1 DEF At
    <2>3. c \notin waiting
        BY <1>1 DEF At
    <2> DEFINE x == [y EXCEPT !.pc = "clear"]
               z == Returns(w, y.result)
    <2>4. /\ z \in Gets /\ Good(z) /\ ~HasMember(z)
          /\ \A m \in Names : Leads(z, m) => m = Group /\ Leads(caller[w], Group)
          /\ z.pc = "register" => n = Member
        BY <1>1, <2>2, ReturnsIsGood
    <2>5. x \in Gets /\ x.pc = "clear" /\ x.name = n /\ x.inner = y.inner /\ x.own = y.own /\ x.snap = y.snap
        BY <1>1 DEF Gets
    <2>6. caller'[c] = x /\ caller'[w] = z
          /\ \A d \in Callers : d \in {c, w} \/ caller'[d] = Lost \/ caller'[d] = caller[d]
        BY <2>1, <2>2, <2>3
    <2>7. caller' = [d \in Callers |-> caller'[d]]
        BY <2>1
    <2> HIDE DEF x, z
    <2>8. Good(x) /\ ~HasMember(x)
        BY <1>1, <2>5, MovesIsGood
    <2>9. Lost \in Gets /\ Lost.pc = "lost" /\ Good(Lost) /\ (\A m \in Names : ~Leads(Lost, m)) /\ ~HasMember(Lost)
        BY IdleIsGood, RestIsGood DEF HasMember
    \* Each goes on as it was, or gives up what it had.
    <2>10. \A d \in Callers : /\ caller'[d] \in Gets /\ Good(caller'[d])
                              /\ \A m \in Names : Leads(caller'[d], m) => Leads(caller[d], m)
                              /\ HasMember(caller'[d]) => caller'[d] = caller[d]
        <3> SUFFICES ASSUME NEW d \in Callers
                     PROVE  /\ caller'[d] \in Gets /\ Good(caller'[d])
                            /\ \A m \in Names : Leads(caller'[d], m) => Leads(caller[d], m)
                            /\ HasMember(caller'[d]) => caller'[d] = caller[d]
            OBVIOUS
        <3>1. CASE d = c
            BY <1>1, <2>5, <2>6, <2>8, <3>1 DEF Leads, Works
        <3>2. CASE d = w
            BY <2>4, <2>6, <3>2
        <3>3. CASE caller'[d] = Lost
            BY <2>9, <3>3
        <3>4. CASE caller'[d] = caller[d]
            BY <3>4 DEF IInv, Typed
        <3> QED
            BY <2>6, <3>1, <3>2, <3>3, <3>4
    <2>11. loading' \in [Names -> {"none", "open", "full", "empty"}]
           /\ loading'[n] = "empty" /\ \A m \in Names : m # n => loading'[m] = loading[m]
        BY <1>1, <2>1 DEF IInv, Typed
    <2>12. caller' \in [Callers -> Gets]
        BY <2>7, <2>10
    <2>13. Typed' /\ Rows'
        BY <1>1, <2>11, <2>12 DEF IInv, Typed, Rows, Past
    <2>14. \A d \in Callers : Good(caller[d])'
        BY <1>1, <2>10 DEF Good, Past
    <2>15. Exclusive' /\ Locked'
        BY <2>10, <2>11 DEF IInv, Exclusive, Locked, Leads
    <2>16. Apart'
        <3> SUFFICES ASSUME NEW g \in Callers, NEW d \in Callers,
                            caller'[g].pc = "register", HasMember(caller'[d])
                     PROVE  caller'[g].result.held <= caller'[d].result.own
            BY DEF Apart, HasMember
        <3>1. caller'[d] = caller[d]
            BY <2>10
        <3>2. CASE caller'[g] = caller[g]
            BY <3>1, <3>2 DEF IInv, Apart
        <3>3. CASE g = w
            BY <1>1, <2>4, <2>6, <3>1, <3>3, NoStoreBeside
        <3>4. g # c /\ caller'[g] # Lost
            BY <2>5, <2>6, <2>9
        <3> QED
            BY <2>6, <3>2, <3>3, <3>4
    <2> QED
        BY <2>13, <2>14, <2>15, <2>16 DEF IInv
<1> QED
    BY <1>2, <1>3

------------------------------------------------------------------------------
\* The changes.  A new configuration is newer than all there were.
LEMMA Later ==
    ASSUME NEW v \in Nat, NEW a \in Nat, NEW b \in Nat, v <= a + 1, b >= a
    PROVE  v <= b + 1 /\ v <= a + 2
OBVIOUS

LEMMA ChangesKeep ==
    ASSUME IInv, UNCHANGED <<loading, caller, newest>>,
           repos' \in [Names -> Entries \cup {None}], joined' \in BOOLEAN,
           admin' \in [pc : {"rest", "create", "own", "parents"}, name : Names],
           \/ UNCHANGED <<row, changes>>
           \/ /\ changes' = changes + 1 /\ changes' \in 0..MaxChanges
              /\ \/ UNCHANGED row
                 \/ \E n \in Names, v \in {0, changes + 2} : row' = [row EXCEPT ![n] = v]
    PROVE  IInv'
<1> USE DEF IInv
<1>1. changes \in Nat /\ row \in [Names -> Configurations]
    BY Numbers DEF Typed
<1>2. row' \in [Names -> Configurations]
    BY <1>1, Numbers DEF Configurations
<1>3. changes' \in 0..MaxChanges /\ changes' >= changes
    BY <1>1 DEF Typed
<1>4. Typed'
    BY <1>2, <1>3 DEF Typed
<1>5. \A n \in Names : row'[n] = row[n] \/ row'[n] = 0
           \/ (row'[n] = changes + 2 /\ changes' = changes + 1)
    BY <1>1
<1>6. \A v \in Version, n \in Names : Past(v, n) => Past(v, n)'
    <2> SUFFICES ASSUME NEW v \in Version, NEW n \in Names, v <= changes + 1, row[n] # 0 => v <= row[n]
                 PROVE  v <= changes' + 1 /\ (row'[n] # 0 => v <= row'[n])
        BY DEF Past
    <2>1. v \in Nat /\ changes' \in Nat /\ changes \in Nat
        BY <1>1, <1>3, Numbers
    <2>2. v <= changes' + 1 /\ v <= changes + 2
        BY <1>3, <2>1, Later
    <2>3. CASE row'[n] = row[n]
        BY <2>2, <2>3
    <2>4. CASE row'[n] = 0
        BY <2>2, <2>4
    <2>5. CASE row'[n] = changes + 2
        BY <2>2, <2>5, Zenon
    <2> QED
        BY <1>5, <2>3, <2>4, <2>5
<1>7. Rows'
    <2> SUFFICES ASSUME NEW n \in Names
                 PROVE  row'[n] <= changes' + 1 /\ (newest[n] # 0 => Past(newest[n], n)')
        BY DEF Rows, Past
    <2>1. row[n] <= changes + 1 /\ row[n] \in Nat /\ changes' \in Nat
        BY <1>1, <1>3, Numbers DEF Rows
    <2>2. row'[n] <= changes' + 1
        BY <1>1, <1>3, <1>5, <2>1
    <2>3. newest[n] # 0 => newest[n] \in Version /\ Past(newest[n], n)
        BY DEF Rows, Past
    <2> QED
        BY <1>6, <2>2, <2>3
<1>8. ASSUME NEW d \in Callers PROVE Good(caller[d])'
    <2>1. Good(caller[d])
        OBVIOUS
    <2>2. \A v, n : n \in Names /\ Past(v, n) => Past(v, n)'
        BY <1>6 DEF Past
    <2> QED
        BY <2>1, <2>2, Numbers DEF Good, Shape, HasGroup, HasSnap, HasMember, Own, Snap
<1> QED
    BY <1>4, <1>7, <1>8 DEF Exclusive, Locked, Apart, Leads, HasMember

Administration ==
    \/ \E n \in Names : Expire(n) \/ Update(n) \/ Delete(n) \/ Create(n)
    \/ ChangeMembers \/ Commit \/ InvalidateOwn \/ InvalidateParents

LEMMA AdministrationKeeps == IInv /\ Administration => IInv'
<1> SUFFICES ASSUME IInv, Administration PROVE IInv'
    OBVIOUS
<1> USE Numbers
<1>0. /\ repos \in [Names -> Entries \cup {None}] /\ joined \in BOOLEAN /\ changes \in 0..MaxChanges
      /\ admin \in [pc : {"rest", "create", "own", "parents"}, name : Names]
    BY DEF IInv, Typed
<1>a. Change => changes' = changes + 1 /\ changes' \in 0..MaxChanges
    BY <1>0 DEF Change
<1>b. Resting \in [pc : {"rest", "create", "own", "parents"}, name : Names]
      /\ \A n \in Names, p \in {"rest", "create", "own", "parents"} :
             [pc |-> p, name |-> n] \in [pc : {"rest", "create", "own", "parents"}, name : Names]
    BY DEF Resting
<1>1. ASSUME NEW n \in Names, Expire(n) PROVE IInv'
    <2>1. repos[n] \in Entries
        BY <1>0, <1>1 DEF Fresh, Expire
    <2>2. repos' \in [Names -> Entries \cup {None}]
        BY <1>0, <1>1, <2>1 DEF Expire, Entries
    <2> QED
        BY <1>0, <1>1, <2>2, ChangesKeep DEF Expire, database
<1>2. ASSUME NEW n \in Names, Update(n) PROVE IInv'
    <2>1. row' = [row EXCEPT ![n] = changes + 2]
        BY <1>2 DEF Update, Configure
    <2> QED
        BY <1>0, <1>2, <1>a, <1>b, <2>1, ChangesKeep DEF Update
<1>3. ASSUME NEW n \in Names, Delete(n) PROVE IInv'
    BY <1>0, <1>3, <1>a, <1>b, ChangesKeep DEF Delete
<1>4. ASSUME NEW n \in Names, Create(n) PROVE IInv'
    BY <1>0, <1>4, <1>b, ChangesKeep DEF Create, database
<1>5. CASE ChangeMembers
    BY <1>0, <1>5, <1>a, <1>b, ChangesKeep DEF ChangeMembers
<1>6. CASE Commit
    <2>1. row' = [row EXCEPT ![admin.name] = changes + 2] /\ admin.name \in Names
        BY <1>0, <1>6 DEF Commit, Configure
    <2>2. joined' \in BOOLEAN
        BY <1>6 DEF Commit
    <2> QED
        BY <1>0, <1>6, <1>a, <1>b, <2>1, <2>2, ChangesKeep DEF Commit
<1>7. CASE InvalidateOwn
    <2>1. admin' \in [pc : {"rest", "create", "own", "parents"}, name : Names]
        BY <1>0, <1>7 DEF InvalidateOwn
    <2> QED
        BY <1>0, <1>7, <2>1, ChangesKeep DEF InvalidateOwn, database
<1>8. CASE InvalidateParents
    BY <1>0, <1>8, <1>b, ChangesKeep DEF InvalidateParents, database
<1> QED
    BY <1>1, <1>2, <1>3, <1>4, <1>5, <1>6, <1>7, <1>8 DEF Administration

------------------------------------------------------------------------------
LEMMA Inductive == Spec => []IInv
<1>1. IInv /\ [Next]_vars => IInv'
    <2> SUFFICES ASSUME IInv, [Next]_vars PROVE IInv'
        OBVIOUS
    <2>1. ASSUME NEW c \in Callers, Step(c) PROVE IInv'
        BY <2>1, DropExpiredKeeps, LeadKeeps, FollowKeeps, ReadKeeps, ReadFailsKeeps, ReadMembersKeeps,
           RegisterKeeps, StoreKeeps, SendKeeps, ClearKeeps DEF Step
    <2>2. CASE Next
        BY <2>1, <2>2, GetKeeps, AdministrationKeeps DEF Next, Administration
    <2>3. CASE UNCHANGED vars
        <3>1. UNCHANGED <<row, changes, joined, repos, loading, caller, admin, newest>>
            BY <2>3 DEF vars, database
        <3>2. repos' \in [Names -> Entries \cup {None}] /\ joined' \in BOOLEAN
              /\ admin' \in [pc : {"rest", "create", "own", "parents"}, name : Names]
            BY <3>1 DEF IInv, Typed
        <3> QED
            BY <3>1, <3>2, ChangesKeep
    <2> QED
        BY <2>2, <2>3
<1> QED
    BY <1>1, InitHolds, PTL DEF Spec

\* The cache of runtimes, its loading entries, every Get and the service's
\* change under way keep their types.
THEOREM TypeCorrect == Spec => []TypeOK
<1>1. IInv => TypeOK
    BY DEF IInv, Typed, TypeOK, Configurations, Entries, Gets
<1> QED
    BY <1>1, Inductive, PTL

\* However long its queries took, no load replaces a runtime by one of an
\* earlier configuration.
THEOREM NothingOlderIsStored == Spec => StoresNothingOlder
<1>1. IInv => \A c \in Callers : Store(c) => caller[c].result.own >= newest[caller[c].name]
    BY StoreIsNewest DEF Store, At
<1>2. IInv /\ [Next]_vars =>
          [\A c \in Callers : Store(c) => caller[c].result.own >= newest[caller[c].name]]_vars
    BY <1>1
<1> QED
    BY <1>2, Inductive, PTL DEF Spec, StoresNothingOlder

\* A repository never has two loads, and one that is under way has its entry.
THEOREM OneLoadEach == Spec => [](Exclusive /\ Locked)
<1>1. IInv => Exclusive /\ Locked
    BY DEF IInv
<1> QED
    BY <1>1, Inductive, PTL
==============================================================================
