------------------------------- MODULE Session -------------------------------
(***************************************************************************)
(* Who is logged in, and which page the console shows.                     *)
(*                                                                         *)
(* The token lives twice: in localStorage, which every request and the     *)
(* router's guard read, and in the auth store, which also has the user.    *)
(* Logins, logouts, profile requests and the 401 interceptor write them    *)
(* when their answers come, in any order; each of them also moves the      *)
(* router, whose guard may itself wait for the profile, and whose latest   *)
(* navigation replaces the one before it.                                  *)
(*                                                                         *)
(* Of the routes, one stands for all that behave alike: a public page, the *)
(* login page, an admin page without a permission, one that needs one.     *)
(***************************************************************************)
EXTENDS Naturals, FiniteSets

CONSTANTS
    Permitted,    \* users whose roles grant the permission
    Others,       \* users whose roles do not
    Tokens,       \* tokens the server can issue; a bound
    None,
    MaxMoves,     \* bound: what the user does
    MaxCalls,     \* bound: requests in flight
    MaxFaults     \* bound: requests and page chunks that fail, expiries

ASSUME TokensAreNumbers == Tokens \subseteq Nat \ {0}
ASSUME SessionAssumption ==
    /\ None \notin Permitted \cup Others /\ None \notin Tokens
    /\ None \notin {"Public", "Login", "Dashboard", "Guarded"}
    /\ MaxMoves \in Nat /\ MaxFaults \in Nat

VARIABLES
    stored,       \* localStorage 'token'; None when absent
    memory,       \* the store's token
    user,         \* the store's user
    here,         \* the location in the address bar
    before,       \* the page the back button leads to
    shown,        \* the page rendered; None while the document loads
    going,        \* the router's pending navigation
    calls,        \* requests in flight
    owner,        \* the server: whose token it is; None if not issued
    valid,        \* the server: tokens it accepts
    moves, faults,
    met           \* users the store has held in this document (history)

sessionVars == <<stored, memory, user, here, before, shown, going, calls, owner,
                 valid, moves, faults, met>>

Users == Permitted \cup Others
Admin == {"Dashboard", "Guarded"}
Pages == {"Public", "Login"} \cup Admin

\* A login page remembers where to go after it, and may carry a CAS ticket.
At(p) == [page |-> p, redirect |-> None, ticket |-> FALSE]
LoginFor(l) == [At("Login") EXCEPT !.redirect = l.page]
Locations == [page : Pages, redirect : Admin \cup {None}, ticket : BOOLEAN]

\* A navigation runs the guard, may wait in it for the profile, and then
\* loads the page's chunk.
Phases == {"guard", "profile", "load"}
Still == [to |-> At("Public"), phase |-> "still"]
Towards(l) == [to |-> l, phase |-> "guard"]
Moving == going.phase # "still"
Push(l) == going' = Towards(l)

Call(k, t) == [kind |-> k, token |-> t]
CallKinds == {"login", "cas", "logout", "profile", "guard", "page"}

Issued(t) == owner[t] # None
Oldest(t) == \A s \in Tokens : t <= s

\* A document is opened, by somebody new or by somebody whose last visit left
\* a token, which the server may have stopped to accept.
SessionInit ==
    /\ \/ stored = None /\ owner = [t \in Tokens |-> None] /\ valid = {} /\ calls = {}
       \/ \E t \in Tokens : \E u \in Users :
            /\ Oldest(t)
            /\ stored = t /\ owner = [s \in Tokens |-> IF s = t THEN u ELSE None]
            /\ valid \in {{}, {t}}
            /\ calls = {Call("profile", t)}
    /\ memory = stored /\ user = None
    /\ \E p \in Pages : here = At(p) /\ going = Towards(At(p))
    /\ before = None /\ shown = None
    /\ moves = 0 /\ faults = 0
    /\ met = {}

------------------------------------------------------------------------------
\* The router.

\* The mutants: the guard asks for a token on the public page too; and for
\* the permission on every admin page.
UnauthenticatedAnywhere(l) == l.page # "Login" /\ stored = None
ForbiddenEverywhere(l) == l.page \in Admin /\ user \notin Permitted

\* beforeEach, up to its answer: redirect, wait for the profile, or pass.
Unauthenticated(l) == l.page \in Admin /\ stored = None
AlreadyIn(l) == l.page = "Login" /\ stored # None
NeedsProfile(l) == l.page = "Guarded" /\ user = None
Forbidden(l) == l.page = "Guarded" /\ user \notin Permitted

\* A profile that a replaced navigation waited for: nobody waits any more.
Outdone(c) == IF c.kind = "guard" THEN [c EXCEPT !.kind = "profile"] ELSE c

Guard ==
    /\ going.phase = "guard"
    /\ LET l == going.to
       IN IF Unauthenticated(l)
          THEN Push(LoginFor(l)) /\ UNCHANGED calls
          ELSE IF AlreadyIn(l)
          THEN Push(At("Dashboard")) /\ UNCHANGED calls
          ELSE IF NeedsProfile(l)
          THEN /\ going' = [going EXCEPT !.phase = "profile"]
               /\ calls' = {Outdone(c) : c \in calls} \cup {Call("guard", stored)}
          ELSE IF Forbidden(l)
          THEN Push(At("Dashboard")) /\ UNCHANGED calls
          ELSE going' = [going EXCEPT !.phase = "load"] /\ UNCHANGED calls
    /\ UNCHANGED <<stored, memory, user, here, before, shown, owner, valid, moves, faults, met>>

\* Promise callbacks run before the next click or answer: the guard is
\* never interrupted except while it waits.
Idle == going.phase # "guard"

\* The chunk is there: the address changes and the page is rendered.  A
\* login page that is mounted with a ticket redeems it.
Arrive ==
    /\ going.phase = "load"
    /\ here' = going.to
    /\ before' = IF shown = None \/ here.page = going.to.page THEN before ELSE here.page
    /\ shown' = going.to.page
    /\ going' = Still
    /\ calls' = IF going.to.page = "Login" /\ going.to.ticket /\ shown # "Login"
                THEN calls \cup {Call("cas", stored)} ELSE calls
    /\ UNCHANGED <<stored, memory, user, owner, valid, moves, faults, met>>

\* The chunk cannot be loaded: the router stays where it is.
ChunkFails ==
    /\ going.phase = "load" /\ shown # None /\ faults < MaxFaults
    /\ going' = Still
    /\ faults' = faults + 1
    /\ UNCHANGED <<stored, memory, user, here, before, shown, calls, owner, valid, moves, met>>

------------------------------------------------------------------------------
\* The user.

CanSend == Cardinality(calls) < MaxCalls
Moves == Idle /\ moves < MaxMoves /\ moves' = moves + 1

\* The links of the public header, of the login page, and of the admin layout,
\* whose menu leaves out what the user may not read.
HasPermission == user \in Permitted
MenuEntries == Admin
MenuShows(p) == p = "Guarded" => HasPermission
Links ==
    CASE shown = "Public" -> {"Public", "Login"}
      [] shown = "Login" -> {"Public"}
      [] shown \in Admin -> {"Public", "Dashboard"} \cup {p \in MenuEntries : MenuShows(p)}
      [] OTHER -> {}

Visit(p) ==
    /\ Moves /\ p \in Links \ {here.page}
    /\ Push(At(p))
    /\ UNCHANGED <<stored, memory, user, here, before, shown, calls, owner, valid, faults, met>>

\* The back button.
Back ==
    /\ Moves /\ shown # None /\ before # None
    /\ Push(At(before))
    /\ UNCHANGED <<stored, memory, user, here, before, shown, calls, owner, valid, faults, met>>

\* handleLogin: the button is disabled while it runs, the Enter key is not.
Submit ==
    /\ Moves /\ CanSend /\ shown = "Login"
    /\ calls' = calls \cup {Call("login", stored)}
    /\ UNCHANGED <<stored, memory, user, here, before, shown, going, owner, valid, faults, met>>

Logout ==
    /\ Moves /\ CanSend /\ shown \in Admin
    /\ calls' = calls \cup {Call("logout", stored)}
    /\ UNCHANGED <<stored, memory, user, here, before, shown, going, owner, valid, faults, met>>

\* Whatever else the page or its layout asks of the server.
PageAsks ==
    /\ Moves /\ CanSend /\ shown \in Admin \cup {"Public"}
    /\ calls' = calls \cup {Call("page", stored)}
    /\ UNCHANGED <<stored, memory, user, here, before, shown, going, owner, valid, faults, met>>

\* A new document, because of a reload or a typed address: the store starts from localStorage, and asks for the
\* profile at once if there is a token.
Document(l) ==
    /\ memory' = stored
    /\ user' = None
    /\ met' = {}
    /\ here' = l
    /\ before' = IF l.page = here.page THEN before ELSE here.page
    /\ shown' = None
    /\ calls' = IF stored # None THEN {Call("profile", stored)} ELSE {}
    /\ Push(l)
    /\ UNCHANGED <<stored, owner, valid, faults>>

Open(p) == Moves /\ shown # None /\ Document(At(p))

\* The user leaves for the CAS server, which sends the browser back with a
\* ticket.
CasReturns == Moves /\ shown = "Login" /\ Document([here EXCEPT !.ticket = TRUE])

------------------------------------------------------------------------------
\* The answers.

\* The interceptor of api/request.ts forgets the token, whichever it is by
\* now, and leaves an admin page; a handler that leaves too has the last word.
Unauthorized == here.page \in Admin

Profile(c, u) ==
    /\ user' = u
    /\ met' = met \cup {u}
    /\ UNCHANGED <<stored, memory>>

\* The mutant: only the store forgets it.
NoProfileInMemory ==
    /\ memory' = None
    /\ UNCHANGED <<stored, user, met>>

\* fetchProfile swallows every failure and forgets the token, not the user.
NoProfile ==
    /\ stored' = None
    /\ memory' = None
    /\ UNCHANGED <<user, met>>

\* The guard that waited goes on, unless another navigation replaced it: its
\* token is not looked at again.
GuardWaits == going.phase = "profile"
GuardResumesUnlessForbidden(u) ==     \* the mutant: no user, no refusal
    going' = IF u \in Permitted \cup {None} THEN [going EXCEPT !.phase = "load"]
             ELSE Towards(At("Dashboard"))
GuardResumes(u) ==
    going' = IF u \in Permitted THEN [going EXCEPT !.phase = "load"]
             ELSE Towards(At("Dashboard"))

ProfileAnswered(c) ==
    /\ c.kind \in {"profile", "guard"}
    /\ c.token \in valid
    /\ Profile(c, owner[c.token])
    /\ IF c.kind = "guard" /\ GuardWaits THEN GuardResumes(owner[c.token])
       ELSE UNCHANGED going
    /\ UNCHANGED <<here, before, shown, owner, valid, faults>>

ProfileRejected(c) ==
    /\ c.kind \in {"profile", "guard"}
    /\ c.token \notin valid
    /\ NoProfile
    /\ IF Unauthorized THEN Push(At("Login"))
       ELSE IF c.kind = "guard" /\ GuardWaits THEN GuardResumes(user)
       ELSE UNCHANGED going
    /\ UNCHANGED <<here, before, shown, owner, valid, faults>>

ProfileLost(c) ==
    /\ c.kind \in {"profile", "guard"}
    /\ faults < MaxFaults /\ faults' = faults + 1
    /\ NoProfile
    /\ IF c.kind = "guard" /\ GuardWaits THEN GuardResumes(user) ELSE UNCHANGED going
    /\ UNCHANGED <<here, before, shown, owner, valid>>

\* login and casLogin: the new token goes to both places, and the router to
\* where the address that is current by now says.
LoggedIn(c) ==
    /\ c.kind \in {"login", "cas"}
    /\ \E u \in Users : \E t \in {t \in Tokens : ~Issued(t)} :
         /\ \A s \in Tokens : ~Issued(s) => t <= s
         /\ owner' = [owner EXCEPT ![t] = u]
         /\ valid' = valid \cup {t}
         /\ stored' = t /\ memory' = t
         /\ user' = u
         /\ met' = met \cup {u}
    /\ Push(At(IF here.redirect = None THEN "Dashboard" ELSE here.redirect))
    /\ UNCHANGED <<here, before, shown, faults>>

LoginRefused(c) ==
    /\ c.kind \in {"login", "cas"}
    /\ faults < MaxFaults /\ faults' = faults + 1
    /\ \E denied \in BOOLEAN :      \* 401, or no answer
         /\ stored' = IF denied THEN None ELSE stored
         /\ IF c.kind = "cas" THEN Push([here EXCEPT !.page = "Login", !.ticket = FALSE])
            ELSE IF denied /\ Unauthorized THEN Push(At("Login"))
            ELSE UNCHANGED going
    /\ UNCHANGED <<memory, user, here, before, shown, owner, valid, met>>

\* logout forgets everything in its finally block; only a success leaves the
\* page by itself.
LoggedOut(c) ==
    /\ c.kind = "logout"
    /\ stored' = None /\ memory' = None /\ user' = None
    /\ \/ /\ c.token \in valid
          /\ valid' = valid \ {c.token}
          /\ Push(At("Login"))
          /\ UNCHANGED faults
       \/ /\ c.token \notin valid
          /\ IF Unauthorized THEN Push(At("Login")) ELSE UNCHANGED going
          /\ UNCHANGED <<valid, faults>>
       \/ /\ faults < MaxFaults /\ faults' = faults + 1
          /\ UNCHANGED <<valid, going>>
    /\ UNCHANGED <<here, before, shown, owner, met>>

PageAnswered(c) ==
    /\ c.kind = "page"
    /\ IF c.token \in valid THEN UNCHANGED <<stored, going>>
       ELSE /\ stored' = None
            /\ IF Unauthorized THEN Push(At("Login")) ELSE UNCHANGED going
    /\ UNCHANGED <<memory, user, here, before, shown, owner, valid, faults, met>>

Answer(c) ==
    /\ Idle
    /\ calls' = calls \ {c}
    /\ UNCHANGED moves
    /\ \/ ProfileAnswered(c) \/ ProfileRejected(c) \/ ProfileLost(c)
       \/ LoggedIn(c) \/ LoginRefused(c) \/ LoggedOut(c) \/ PageAnswered(c)

\* A token's time is over, or an administrator locks its owner.
Expire(t) ==
    /\ Idle /\ faults < MaxFaults /\ faults' = faults + 1
    /\ valid' = valid \ {t}
    /\ UNCHANGED <<stored, memory, user, here, before, shown, going, calls, owner, moves, met>>

Router == Guard \/ Arrive \/ ChunkFails
User == (\E p \in Pages : Visit(p)) \/ Back \/ Submit \/ Logout \/ PageAsks \/ (\E p \in Pages : Open(p)) \/ CasReturns
SessionNext ==
    Router \/ User \/ (\E c \in calls : Answer(c)) \/ (\E t \in valid : Expire(t))

\* Promise callbacks run, chunks load or fail, and every request ends: at
\* the latest after the 30 s of api/request.ts.
SessionFairness ==
    /\ WF_sessionVars(Guard)
    /\ WF_sessionVars(Arrive)
    /\ WF_sessionVars(\E c \in calls : Answer(c))
==============================================================================
