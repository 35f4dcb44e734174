---------------------------- MODULE Shell_proofs -----------------------------
(***************************************************************************)
(* The session and the assistant, for any number of users and tokens and   *)
(* however long the console is used: requests are sent in one name, pages  *)
(* need their permission, and answers stay under their questions.          *)
(***************************************************************************)
EXTENDS Shell, TLAPS

Records == [kind : CallKinds, token : Tokens \cup {None}]
Navigations == [to : Locations, phase : Phases \cup {"still"}]

\* The session's part of TypeOK, with what it rests on: an accepted token
\* has an owner.
SessionTypes ==
    /\ stored \in Tokens \cup {None} /\ memory \in Tokens \cup {None}
    /\ user \in Users \cup {None} /\ met \subseteq Users
    /\ here \in Locations /\ before \in Pages \cup {None}
    /\ shown \in Pages \cup {None}
    /\ going \in Navigations
    /\ calls \subseteq Records
    /\ owner \in [Tokens -> Users \cup {None}] /\ valid \subseteq Tokens
    /\ \A t \in valid : owner[t] # None
    /\ moves \in 0..MaxMoves /\ faults \in 0..MaxFaults

\* Why a guarded page is permitted when it is rendered: it was when the guard
\* let it pass, and the document that remembers it has not been replaced.
Cleared ==
    /\ user # None => user \in met
    /\ going.phase = "load" /\ going.to.page = "Guarded" => met \cap Permitted # {}
    /\ GuardedOnlyAfterPermission

SInv == SessionTypes /\ StoredIsTheStores /\ Cleared

LEMMA Locate ==
    /\ \A p \in Pages : At(p) \in Locations
    /\ \A l \in Locations : /\ l.page \in Pages /\ l.redirect \in Admin \cup {None}
                            /\ l.page \in Admin => LoginFor(l) \in Locations
                            /\ Towards(l) \in Navigations
                            /\ Towards(l).phase = "guard"
    /\ Still \in Navigations /\ Still.phase = "still"
BY DEF At, LoginFor, Locations, Towards, Still, Navigations, Phases, Pages, Admin

LEMMA InitSession == SessionInit => SInv
<1> SUFFICES ASSUME SessionInit PROVE SInv
    OBVIOUS
<1> USE SessionAssumption
<1>1. PICK p \in Pages : here = At(p) /\ going = Towards(At(p))
    BY DEF SessionInit
<1>2. here \in Locations /\ going \in Navigations /\ going.phase = "guard"
    BY <1>1, Locate
<1>3. stored \in Tokens \cup {None} /\ memory = stored /\ user = None /\ shown = None /\ before = None /\ met = {}
      /\ moves = 0 /\ faults = 0
    BY DEF SessionInit
<1>4. \/ owner = [t \in Tokens |-> None] /\ valid = {}
      \/ \E t \in Tokens, u \in Users : owner = [s \in Tokens |-> IF s = t THEN u ELSE None]
                                        /\ valid \in {{}, {t}}
    BY DEF SessionInit
<1>a. \A u \in Users : u # None
    BY DEF Users
<1>b. owner \in [Tokens -> Users \cup {None}] /\ valid \subseteq Tokens
    BY <1>4
<1>c. \A t \in valid : owner[t] # None
    BY <1>4, <1>a
<1>5. calls \subseteq Records
    BY DEF SessionInit, Call, Records, CallKinds
<1>6. SessionTypes
    BY <1>2, <1>3, <1>b, <1>c, <1>5 DEF SessionTypes
<1>7. None # "Guarded"
    OBVIOUS
<1>8. StoredIsTheStores /\ Cleared
    BY <1>2, <1>3, <1>7 DEF StoredIsTheStores, Cleared, GuardedOnlyAfterPermission
<1> QED
    BY <1>6, <1>8 DEF SInv


------------------------------------------------------------------------------
\* The router.
LEMMA GuardKeeps == SInv /\ Guard => SInv'
<1> SUFFICES ASSUME SInv, Guard PROVE SInv'
    OBVIOUS
<1> DEFINE l == going.to
<1>1. l \in Locations /\ going \in Navigations /\ going = [to |-> l, phase |-> "guard"]
    BY DEF SInv, SessionTypes, Navigations, Guard
<1>2. \/ \E m \in Locations : Push(m) /\ calls' = calls
      \/ going' = [to |-> l, phase |-> "profile"] /\ calls' = {Outdone(c) : c \in calls} \cup {Call("guard", stored)}
      \/ going' = [to |-> l, phase |-> "load"] /\ calls' = calls /\ (l.page = "Guarded" => user \in Permitted)
    <2>1. At("Dashboard") \in Locations /\ (l.page \in Admin => LoginFor(l) \in Locations)
        BY <1>1, Locate DEF Pages, Admin
    <2>2. Forbidden(l) \/ (l.page = "Guarded" => user \in Permitted)
        BY DEF Forbidden
    <2>3. [going EXCEPT !.phase = "profile"] = [to |-> l, phase |-> "profile"]
          /\ [going EXCEPT !.phase = "load"] = [to |-> l, phase |-> "load"]
        BY <1>1
    <2> QED
        BY <2>1, <2>2, <2>3 DEF Guard, Unauthenticated
<1>3. going' \in Navigations /\ (going'.phase = "load" /\ going'.to.page = "Guarded" => user \in Permitted)
    BY <1>1, <1>2, Locate DEF Push, Navigations, Phases, Towards
<1>4. calls' \subseteq Records
    BY <1>2 DEF SInv, SessionTypes, Outdone, Call, Records, CallKinds
<1> QED
    BY <1>3, <1>4, SessionAssumption
    DEF SInv, SessionTypes, StoredIsTheStores, Cleared, GuardedOnlyAfterPermission, Guard, Users

LEMMA ArriveKeeps == SInv /\ Arrive => SInv'
<1> SUFFICES ASSUME SInv, Arrive PROVE SInv'
    OBVIOUS
<1> USE DEF SInv, SessionTypes
<1>1. here' \in Locations /\ going' \in Navigations /\ going'.phase = "still"
    BY Locate DEF Arrive, Navigations
<1>2. shown' \in Pages /\ before' \in Pages \cup {None} /\ here.page \in Pages
    BY Locate DEF Arrive, Navigations
<1>3. calls' \subseteq Records
    BY DEF Arrive, Call, Records, CallKinds
<1>4. shown' = "Guarded" => met \cap Permitted # {}
    BY DEF Arrive, Cleared
<1>5. SessionTypes'
    BY <1>1, <1>2, <1>3 DEF Arrive
<1> QED
    BY <1>1, <1>4, <1>5 DEF Arrive, StoredIsTheStores, Cleared, GuardedOnlyAfterPermission

LEMMA ChunkFailsKeeps == SInv /\ ChunkFails => SInv'
BY Locate, SessionAssumption
DEF SInv, SessionTypes, ChunkFails, StoredIsTheStores, Cleared, GuardedOnlyAfterPermission

------------------------------------------------------------------------------
\* The user.
LEMMA PushKeeps ==
    ASSUME SInv, NEW l \in Locations, Push(l), moves' \in 0..MaxMoves,
           UNCHANGED <<stored, memory, user, here, before, shown, calls, owner, valid, faults, met>>
    PROVE  SInv'
BY Locate DEF Push, SInv, SessionTypes, StoredIsTheStores, Cleared, GuardedOnlyAfterPermission

LEMMA AskKeeps ==
    ASSUME SInv, NEW k \in CallKinds, calls' = calls \cup {Call(k, stored)}, moves' \in 0..MaxMoves,
           UNCHANGED <<stored, memory, user, here, before, shown, going, owner, valid, faults, met>>
    PROVE  SInv'
<1>1. calls' \subseteq Records
    BY DEF SInv, SessionTypes, Call, Records
<1> QED
    BY <1>1 DEF SInv, SessionTypes, StoredIsTheStores, Cleared, GuardedOnlyAfterPermission

LEMMA DocumentKeeps ==
    ASSUME SInv, NEW l \in Locations, Document(l), moves' \in 0..MaxMoves
    PROVE  SInv'
<1>1. calls' \subseteq Records
    BY DEF SInv, SessionTypes, Document, Call, Records, CallKinds
<1>2. going' \in Navigations /\ going'.phase = "guard" /\ before' \in Pages \cup {None}
    BY Locate DEF Document, Push, SInv, SessionTypes
<1>3. None # "Guarded"
    BY SessionAssumption
<1> QED
    BY <1>1, <1>2, <1>3
    DEF Document, SInv, SessionTypes, StoredIsTheStores, Cleared, GuardedOnlyAfterPermission

LEMMA UserKeeps == SInv /\ User => SInv'
<1> SUFFICES ASSUME SInv, User PROVE SInv'
    OBVIOUS
<1>0. Moves => moves' \in 0..MaxMoves
    BY SessionAssumption DEF Moves, SInv, SessionTypes
<1>1. ASSUME NEW p \in Pages, Visit(p) PROVE SInv'
    BY <1>0, <1>1, Locate, PushKeeps DEF Visit
<1>2. CASE Back
    <2>1. before \in Pages
        BY <1>2 DEF Back, SInv, SessionTypes
    <2> QED
        BY <1>0, <1>2, <2>1, Locate, PushKeeps DEF Back
<1>3. CASE Submit
    BY <1>0, <1>3, AskKeeps DEF Submit, CallKinds
<1>4. CASE Logout
    BY <1>0, <1>4, AskKeeps DEF Logout, CallKinds
<1>5. CASE PageAsks
    BY <1>0, <1>5, AskKeeps DEF PageAsks, CallKinds
<1>6. ASSUME NEW p \in Pages, Open(p) PROVE SInv'
    BY <1>0, <1>6, Locate, DocumentKeeps DEF Open
<1>7. CASE CasReturns
    <2>1. [here EXCEPT !.ticket = TRUE] \in Locations
        BY DEF SInv, SessionTypes, Locations
    <2> QED
        BY <1>0, <1>7, <2>1, DocumentKeeps DEF CasReturns
<1> QED
    BY <1>1, <1>2, <1>3, <1>4, <1>5, <1>6, <1>7 DEF User

------------------------------------------------------------------------------
\* The answers.  An answer may push a location, let the guard go on if the
\* user it has found is permitted, or leave the navigation alone.
Onward(u) ==
    \/ \E l \in Locations : Push(l)
    \/ u \in Permitted /\ going' = [going EXCEPT !.phase = "load"]
    \/ going' = going

LEMMA OnwardIsSafe ==
    ASSUME SInv, NEW u, Onward(u), met \subseteq met', u \in Permitted => u \in met'
    PROVE  /\ going' \in Navigations
           /\ going'.phase = "load" /\ going'.to.page = "Guarded" => met' \cap Permitted # {}
BY Locate DEF Onward, Push, SInv, SessionTypes, Cleared, Navigations, Phases

LEMMA ResumeIsOnward ==
    ASSUME SInv, NEW u, GuardResumes(u) PROVE Onward(u)
BY Locate DEF GuardResumes, Onward, Push, Pages, Admin

LEMMA LoginIsALocation == At("Login") \in Locations
BY Locate DEF Pages

\* What every answer preserves.
LEMMA AnswerKeeps ==
    ASSUME SInv, NEW u, Onward(u), met \subseteq met', met' \subseteq Users, u \in Permitted => u \in met',
           calls' \subseteq calls, UNCHANGED <<here, before, shown, moves>>,
           stored' \in Tokens \cup {None}, memory' \in Tokens \cup {None}, StoredIsTheStores',
           user' \in Users \cup {None}, user' # None => user' \in met',
           owner' \in [Tokens -> Users \cup {None}], valid' \subseteq Tokens,
           \A t \in valid' : owner'[t] # None, faults' \in 0..MaxFaults
    PROVE  SInv'
<1>1. SessionTypes'
    BY OnwardIsSafe DEF SInv, SessionTypes
<1>2. Cleared'
    BY OnwardIsSafe DEF SInv, Cleared, GuardedOnlyAfterPermission
<1> QED
    BY <1>1, <1>2 DEF SInv

LEMMA AnswersKeep == ASSUME SInv, NEW c \in calls, Answer(c) PROVE SInv'
<1> USE SessionAssumption
<1>0. calls' \subseteq calls /\ moves' = moves /\ c \in Records
    BY DEF Answer, SInv, SessionTypes
<1>a. faults \in 0..MaxFaults /\ (faults < MaxFaults => faults + 1 \in 0..MaxFaults)
    BY DEF SInv, SessionTypes
<1>b. /\ stored \in Tokens \cup {None} /\ memory \in Tokens \cup {None} /\ StoredIsTheStores
      /\ user \in Users \cup {None} /\ met \subseteq Users /\ (user # None => user \in met)
      /\ owner \in [Tokens -> Users \cup {None}] /\ valid \subseteq Tokens
      /\ \A t \in valid : owner[t] # None
      /\ None \notin Users
    BY DEF SInv, SessionTypes, Cleared, Users
<1>c. user \in Permitted => user \in met
    BY <1>b DEF Users
<1>1. CASE ProfileAnswered(c)
    <2> DEFINE u == owner[c.token]
    <2>1. u \in Users
        BY <1>1, <1>b DEF ProfileAnswered
    <2>2. user' = u /\ met' = met \cup {u} /\ UNCHANGED <<stored, memory, here, before, shown, owner, valid, faults>>
        BY <1>1 DEF ProfileAnswered, Profile
    <2>3. Onward(u)
        BY <1>1, ResumeIsOnward DEF ProfileAnswered, Onward
    <2> HIDE DEF u
    <2> QED
        BY <1>0, <1>a, <1>b, <2>1, <2>2, <2>3, AnswerKeeps DEF StoredIsTheStores
<1>2. CASE ProfileRejected(c)
    <2>1. Onward(user)
        BY <1>2, ResumeIsOnward, LoginIsALocation DEF ProfileRejected, Onward
    <2>2. stored' = None /\ memory' = None /\ UNCHANGED <<user, met, here, before, shown, owner, valid, faults>>
        BY <1>2 DEF ProfileRejected, NoProfile
    <2> QED
        BY <1>0, <1>a, <1>b, <1>c, <2>1, <2>2, AnswerKeeps DEF StoredIsTheStores
<1>3. CASE ProfileLost(c)
    <2>1. Onward(user)
        BY <1>3, ResumeIsOnward DEF ProfileLost, Onward
    <2>2. stored' = None /\ memory' = None /\ faults' \in 0..MaxFaults
          /\ UNCHANGED <<user, met, here, before, shown, owner, valid>>
        BY <1>3, <1>a DEF ProfileLost, NoProfile
    <2> QED
        BY <1>0, <1>b, <1>c, <2>1, <2>2, AnswerKeeps DEF StoredIsTheStores
<1>4. CASE LoggedIn(c)
    <2>1. PICK u \in Users, t \in Tokens :
              /\ owner' = [owner EXCEPT ![t] = u] /\ valid' = valid \cup {t}
              /\ stored' = t /\ memory' = t /\ user' = u /\ met' = met \cup {u}
        BY <1>4 DEF LoggedIn
    <2>2. UNCHANGED <<here, before, shown, faults>>
        BY <1>4 DEF LoggedIn
    <2>3. At(IF here.redirect = None THEN "Dashboard" ELSE here.redirect) \in Locations
        BY Locate DEF SInv, SessionTypes, Pages, Admin
    <2>4. Onward(u)
        BY <1>4, <2>3 DEF LoggedIn, Onward
    <2> QED
        BY <1>0, <1>a, <1>b, <2>1, <2>2, <2>4, AnswerKeeps DEF StoredIsTheStores
<1>5. CASE LoginRefused(c)
    <2>1. [here EXCEPT !.page = "Login", !.ticket = FALSE] \in Locations
        BY DEF SInv, SessionTypes, Locations, Pages
    <2>2. Onward(None)
        BY <1>5, <2>1, LoginIsALocation DEF LoginRefused, Onward
    <2>3. stored' \in {stored, None} /\ faults' \in 0..MaxFaults
          /\ UNCHANGED <<memory, user, here, before, shown, owner, valid, met>>
        BY <1>5, <1>a DEF LoginRefused
    <2>4. StoredIsTheStores'
        BY <1>b, <2>3 DEF StoredIsTheStores
    <2> QED
        BY <1>0, <1>b, <2>2, <2>3, <2>4, AnswerKeeps
<1>6. CASE LoggedOut(c)
    <2>1. Onward(None)
        BY <1>6, LoginIsALocation DEF LoggedOut, Onward
    <2>2. /\ stored' = None /\ memory' = None /\ user' = None
          /\ valid' \subseteq valid /\ faults' \in 0..MaxFaults
          /\ UNCHANGED <<here, before, shown, owner, met>>
        BY <1>6, <1>a DEF LoggedOut
    <2> QED
        BY <1>0, <1>b, <2>1, <2>2, AnswerKeeps DEF StoredIsTheStores
<1>7. CASE PageAnswered(c)
    <2>1. Onward(None)
        BY <1>7, LoginIsALocation DEF PageAnswered, Onward
    <2>2. stored' \in {stored, None} /\ UNCHANGED <<memory, user, here, before, shown, owner, valid, faults, met>>
        BY <1>7 DEF PageAnswered
    <2>3. StoredIsTheStores'
        BY <1>b, <2>2 DEF StoredIsTheStores
    <2> QED
        BY <1>0, <1>a, <1>b, <2>1, <2>2, <2>3, AnswerKeeps
<1> QED
    BY <1>1, <1>2, <1>3, <1>4, <1>5, <1>6, <1>7 DEF Answer

LEMMA ExpireKeeps == ASSUME SInv, NEW t \in valid, Expire(t) PROVE SInv'
BY SessionAssumption
DEF Expire, SInv, SessionTypes, StoredIsTheStores, Cleared, GuardedOnlyAfterPermission

LEMMA SessionKeeps == SInv /\ [SessionNext]_sessionVars => SInv'
<1> SUFFICES ASSUME SInv, [SessionNext]_sessionVars PROVE SInv'
    OBVIOUS
<1>1. CASE SessionNext
    BY <1>1, GuardKeeps, ArriveKeeps, ChunkFailsKeeps, UserKeeps, AnswersKeep, ExpireKeeps
    DEF SessionNext, Router
<1>2. CASE UNCHANGED sessionVars
    BY <1>2 DEF sessionVars, SInv, SessionTypes, StoredIsTheStores, Cleared, GuardedOnlyAfterPermission
<1> QED
    BY <1>1, <1>2

------------------------------------------------------------------------------
\* The assistant.  Unless the conversation was cleared under it, the stream
\* writes to an answer that stands right below its question.
Messages == [role : Roles, about : Nat \cup {Nothing}, session : Sessions]

ChatTypes ==
    /\ messages \in Seq(Messages) /\ sessionId \in Sessions
    /\ loading \in BOOLEAN /\ muddled \in BOOLEAN /\ asked \in Nat
    /\ stream \in [at : Nat, about : Nat] \cup {Nothing}

InPlace ==
    ~muddled /\ isStreaming =>
        /\ stream.at \in 2..Len(messages)
        /\ messages[stream.at].role = "assistant"
        /\ messages[stream.at - 1].role = "user"
        /\ messages[stream.at - 1].about = stream.about

CInv == ChatTypes /\ InPlace /\ LoadingHasStream /\ AnswersFollowQuestions

LEMMA EmptyConversation == <<>> \in Seq(Messages) /\ Len(<<>>) = 0 /\ DOMAIN <<>> = {}
<1>1. <<>> \in Seq(Messages)
    OBVIOUS
<1>2. Len(<<>>) = 0
    OBVIOUS
<1>3. \A k \in DOMAIN <<>> : FALSE
    BY <1>1, <1>2
<1> QED
    BY <1>1, <1>2, <1>3

LEMMA TwoMore ==
    ASSUME NEW S, NEW s \in Seq(S), NEW q \in S, NEW b \in S, NEW t, t = s \o <<q, b>>
    PROVE  /\ t \in Seq(S) /\ Len(t) = Len(s) + 2
           /\ \A k \in 1..Len(s) : t[k] = s[k]
           /\ t[Len(s) + 1] = q /\ t[Len(s) + 2] = b
OBVIOUS

LEMMA OneMore ==
    ASSUME NEW S, NEW s \in Seq(S), NEW q \in S, NEW t, t = Append(s, q)
    PROVE  /\ t \in Seq(S) /\ Len(t) = Len(s) + 1
           /\ \A k \in 1..Len(s) : t[k] = s[k]
           /\ t[Len(s) + 1] = q
OBVIOUS

LEMMA OneLess ==
    ASSUME NEW S, NEW s \in Seq(S), NEW i \in 1..Len(s)
    PROVE  /\ RemoveAt(s, i) \in Seq(S) /\ Len(RemoveAt(s, i)) = Len(s) - 1
           /\ \A k \in 1..(Len(s) - 1) : RemoveAt(s, i)[k] = IF k < i THEN s[k] ELSE s[k + 1]
<1> DEFINE a == SubSeq(s, 1, i - 1)
           b == SubSeq(s, i + 1, Len(s))
<1>0. Len(s) \in Nat /\ i \in Nat
    OBVIOUS
<1>1. a \in Seq(S) /\ Len(a) = i - 1 /\ \A k \in 1..(i - 1) : a[k] = s[k]
    OBVIOUS
<1>2. b \in Seq(S) /\ Len(b) = Len(s) - i /\ \A k \in 1..(Len(s) - i) : b[k] = s[k + i]
    OBVIOUS
<1>3. RemoveAt(s, i) = a \o b
    BY DEF RemoveAt
<1> HIDE DEF a, b
<1>a. a \in Seq(S) /\ b \in Seq(S)
    BY <1>1, <1>2
<1>b. a \o b \in Seq(S) /\ Len(a \o b) = Len(a) + Len(b)
    BY <1>a
<1>c. \A k \in 1..(Len(a) + Len(b)) : (a \o b)[k] = IF k <= Len(a) THEN a[k] ELSE b[k - Len(a)]
    BY <1>a
<1>4. a \o b \in Seq(S) /\ Len(a \o b) = Len(s) - 1
    BY <1>0, <1>1, <1>2, <1>b
<1>5. ASSUME NEW k \in 1..(Len(s) - 1)
      PROVE  (a \o b)[k] = IF k < i THEN s[k] ELSE s[k + 1]
    <2>1. (a \o b)[k] = IF k <= Len(a) THEN a[k] ELSE b[k - Len(a)]
        BY <1>0, <1>1, <1>2, <1>c
    <2>2. CASE k < i
        BY <1>0, <1>1, <2>1, <2>2
    <2>3. CASE k >= i
        <3> DEFINE j == k - i + 1
        <3>1. k - Len(a) = j /\ j \in 1..(Len(s) - i) /\ j + i = k + 1 /\ ~(k <= Len(a)) /\ ~(k < i)
            BY <1>0, <1>1, <2>3
        <3> HIDE DEF j
        <3>2. b[j] = s[j + i]
            BY <1>2, <3>1
        <3>3. (a \o b)[k] = b[j]
            BY <2>1, <3>1
        <3> QED
            BY <3>1, <3>2, <3>3
    <2>4. k < i \/ k >= i
        BY <1>0
    <2> QED
        BY <2>2, <2>3, <2>4, Zenon
<1> QED
    BY <1>3, <1>4, <1>5

LEMMA EmptyKeeps ==
    ASSUME messages' = <<>>, sessionId' = "", loading' \in BOOLEAN, loading' => isStreaming',
           muddled' = isStreaming', asked' \in Nat, stream' \in [at : Nat, about : Nat] \cup {Nothing}
    PROVE  CInv'
<1>1. messages' \in Seq(Messages) /\ Len(messages') = 0 /\ DOMAIN messages' = {}
    BY EmptyConversation
<1>2. muddled' \in BOOLEAN /\ sessionId' \in Sessions
    BY DEF isStreaming, Sessions
<1> QED
    BY <1>1, <1>2 DEF CInv, ChatTypes, InPlace, LoadingHasStream, AnswersFollowQuestions

LEMMA InitChat == AssistantInit => CInv
<1> SUFFICES ASSUME AssistantInit PROVE CInv
    OBVIOUS
<1>1. messages \in Seq(Messages) /\ Len(messages) = 0 /\ DOMAIN messages = {}
    BY EmptyConversation DEF AssistantInit
<1> QED
    BY <1>1
    DEF AssistantInit, CInv, ChatTypes, InPlace, LoadingHasStream, AnswersFollowQuestions, isStreaming, Sessions

LEMMA UnmountedKeeps == CInv /\ Unmounted => CInv'
<1> SUFFICES ASSUME CInv, Unmounted PROVE CInv'
    OBVIOUS
<1>1. ~loading' /\ ~isStreaming' /\ ~muddled' /\ asked' \in Nat
    BY DEF Unmounted, isStreaming, CInv, ChatTypes
<1>2. stream' = Nothing /\ messages' = <<>> /\ sessionId' = "" /\ loading' \in BOOLEAN
    BY DEF Unmounted
<1>3. muddled' = isStreaming'
    BY DEF Unmounted, isStreaming
<1> QED
    BY <1>1, <1>2, <1>3, EmptyKeeps

LEMMA ClearKeeps == CInv /\ Clear => CInv'
<1> SUFFICES ASSUME CInv, Clear PROVE CInv'
    OBVIOUS
<1>1. loading' \in BOOLEAN /\ asked' \in Nat /\ stream' \in [at : Nat, about : Nat] \cup {Nothing}
    BY DEF Clear, CInv, ChatTypes
<1>2. muddled' = isStreaming' /\ (loading' => isStreaming')
    BY DEF Clear, CInv, LoadingHasStream, isStreaming
<1> QED
    BY <1>1, <1>2, EmptyKeeps DEF Clear

\* What is appended is no answer yet, and leaves what is there alone.
LEMMA AppendKeeps ==
    ASSUME CInv, NEW q \in Messages, NEW b \in Messages,
           messages' = messages \o <<q, b>> \/ messages' = Append(messages, q),
           q.role # "assistant", b.about = Nothing, UNCHANGED <<sessionId, muddled>>,
           loading' \in BOOLEAN, loading' => isStreaming', asked' \in Nat,
           \/ UNCHANGED stream
           \/ /\ messages' = messages \o <<q, b>>
              /\ q.role = "user" /\ b.role = "assistant" /\ q.about \in Nat
              /\ stream' = [at |-> Len(messages) + 2, about |-> q.about]
    PROVE  CInv'
<1> USE DEF CInv
<1>1. messages \in Seq(Messages) /\ Len(messages) \in Nat
    BY DEF ChatTypes
<1>a. /\ messages' \in Seq(Messages)
      /\ \/ Len(messages') = Len(messages) + 1
         \/ Len(messages') = Len(messages) + 2 /\ messages'[Len(messages) + 2] = b
      /\ \A k \in 1..Len(messages) : messages'[k] = messages[k]
      /\ messages'[Len(messages) + 1] = q
    BY <1>1, OneMore, TwoMore
<1>2. messages' \in Seq(Messages) /\ Len(messages') \in {Len(messages) + 1, Len(messages) + 2}
    BY <1>a
<1>3. \A k \in 1..Len(messages) : messages'[k] = messages[k]
    BY <1>a
<1>4. messages'[Len(messages) + 1] = q
    BY <1>a
<1>5. Len(messages') = Len(messages) + 2 => messages'[Len(messages) + 2] = b
    BY <1>1, <1>a
<1>6. stream' \in [at : Nat, about : Nat] \cup {Nothing}
    BY <1>1 DEF ChatTypes
<1>7. ChatTypes'
    BY <1>2, <1>6 DEF ChatTypes
<1>8. InPlace'
    <2>1. CASE UNCHANGED stream
        <3>1. ASSUME ~muddled, isStreaming
              PROVE stream.at \in 2..Len(messages) /\ stream.at - 1 \in 1..Len(messages)
                    /\ stream.at \in 1..Len(messages)
            BY <3>1, <1>1 DEF InPlace
        <3> QED
            BY <1>2, <1>3, <2>1, <3>1, <1>1 DEF InPlace, isStreaming
    <2>2. CASE stream' = [at |-> Len(messages) + 2, about |-> q.about]
               /\ messages' = messages \o <<q, b>> /\ q.role = "user" /\ b.role = "assistant"
        <3>1. Len(messages') = Len(messages) + 2
            BY <1>1, <2>2
        <3>2. stream'.at = Len(messages) + 2 /\ stream'.about = q.about /\ stream'.at - 1 = Len(messages) + 1
            BY <1>1, <2>2
        <3> QED
            BY <1>1, <1>4, <1>5, <2>2, <3>1, <3>2 DEF InPlace
    <2> QED
        BY <2>1, <2>2
<1>9. AnswersFollowQuestions'
    <2> SUFFICES ASSUME ~muddled', NEW k \in DOMAIN messages',
                        messages'[k].role = "assistant", messages'[k].about # Nothing
                 PROVE  k > 1 /\ messages'[k - 1].role = "user" /\ messages'[k - 1].about = messages'[k].about
        BY DEF AnswersFollowQuestions
    <2>1. k \in 1..Len(messages)
        BY <1>1, <1>2, <1>4, <1>5
    <2>2. k > 1 /\ messages[k - 1].role = "user" /\ messages[k - 1].about = messages[k].about
        BY <1>1, <1>3, <2>1 DEF AnswersFollowQuestions
    <2>3. k - 1 \in 1..Len(messages)
        BY <1>1, <2>1, <2>2
    <2> QED
        BY <1>3, <2>1, <2>2, <2>3
<1> QED
    BY <1>7, <1>8, <1>9 DEF LoadingHasStream

LEMMA AskingKeeps == CInv /\ Asking => CInv'
<1> SUFFICES ASSUME CInv, Asking PROVE CInv'
    OBVIOUS
<1>0. sessionId \in Sessions /\ asked \in Nat /\ Len(messages) \in Nat
    BY DEF CInv, ChatTypes
<1>a. \A q \in Nat : Question(q) \in Messages /\ Question(q).role = "user" /\ Question(q).about = q
    BY <1>0 DEF Question, Messages, Roles
<1>b. /\ \A q \in Nat : Blank(q) \in Messages /\ Blank(q).role = "assistant" /\ Blank(q).about = Nothing
      /\ Help \in Messages /\ Help.role # "assistant" /\ Help.about = Nothing
    BY <1>0 DEF Blank, Help, Messages, Roles
<1>1. CASE Send
    <2>1. asked' \in Nat /\ messages' = messages \o <<Question(asked'), Blank(asked')>>
          /\ UNCHANGED <<sessionId, muddled>>
        BY <1>0, <1>1 DEF Send
    <2>2. \/ loading' = FALSE /\ UNCHANGED stream
          \/ loading' = TRUE /\ stream' = [at |-> Len(messages) + 2, about |-> asked']
        BY <1>1 DEF Send
    <2>3. [at |-> Len(messages) + 2, about |-> asked'] # Nothing
        BY <1>0, <2>1, ChatAssumption
    <2>4. loading' \in BOOLEAN /\ (loading' => isStreaming')
        BY <2>2, <2>3 DEF isStreaming
    <2> DEFINE q == Question(asked')
               b == Blank(asked')
    <2>5. q \in Messages /\ q.role = "user" /\ q.about = asked' /\ b \in Messages /\ b.role = "assistant"
          /\ b.about = Nothing
        BY <1>a, <1>b, <2>1
    <2>6. messages' = messages \o <<q, b>>
        BY <2>1
    <2> HIDE DEF q, b
    <2> QED
        BY <2>1, <2>2, <2>4, <2>5, <2>6, AppendKeeps
<1>2. CASE SendHelp
    <2>1. messages' = Append(messages, Help) /\ UNCHANGED <<sessionId, loading, stream, asked, muddled>>
        BY <1>2 DEF SendHelp
    <2>2. loading' \in BOOLEAN /\ (loading' => isStreaming') /\ asked' \in Nat
        BY <2>1 DEF CInv, ChatTypes, LoadingHasStream, isStreaming
    <2> DEFINE h == Help
    <2>3. h \in Messages /\ h.role # "assistant" /\ h.about = Nothing /\ messages' = Append(messages, h)
        BY <1>b, <2>1
    <2> HIDE DEF h
    <2> QED
        BY <2>1, <2>2, <2>3, AppendKeeps
<1> QED
    BY <1>1, <1>2 DEF Asking, SendTyped, SendSuggestion, SendOptimize

LEMMA PieceKeeps == CInv /\ Piece => CInv'
<1> SUFFICES ASSUME CInv, Piece PROVE CInv'
    OBVIOUS
<1>1. messages \in Seq(Messages) /\ stream \in [at : Nat, about : Nat] /\ stream.at \in 1..Len(messages)
    BY DEF CInv, ChatTypes, Piece, isStreaming
<1> DEFINE i == stream.at
           m == [messages[i] EXCEPT !.about = stream.about]
<1>2. messages[i] \in Messages
    BY <1>1
<1>3. m \in Messages /\ m.role = messages[i].role /\ m.about = stream.about
    BY <1>1, <1>2 DEF Messages
<1>4. messages' = [messages EXCEPT ![i] = m]
    BY DEF Piece
<1> HIDE DEF m
<1>5. messages' \in Seq(Messages) /\ Len(messages') = Len(messages) /\ DOMAIN messages' = DOMAIN messages
      /\ messages'[i] = m /\ \A k \in 1..Len(messages) : k # i => messages'[k] = messages[k]
    BY <1>1, <1>3, <1>4
<1>6. UNCHANGED <<sessionId, loading, stream, asked, muddled>>
    BY DEF Piece
<1>7. ChatTypes'
    BY <1>5, <1>6 DEF CInv, ChatTypes
<1>8. ~muddled => i \in 2..Len(messages) /\ messages[i].role = "assistant"
                  /\ messages[i - 1].role = "user" /\ messages[i - 1].about = stream.about
    BY DEF CInv, InPlace, Piece
<1>9. InPlace'
    BY <1>1, <1>3, <1>5, <1>6, <1>8 DEF InPlace
<1>10. AnswersFollowQuestions'
    <2> SUFFICES ASSUME ~muddled', NEW k \in DOMAIN messages',
                        messages'[k].role = "assistant", messages'[k].about # Nothing
                 PROVE  k > 1 /\ messages'[k - 1].role = "user" /\ messages'[k - 1].about = messages'[k].about
        BY DEF AnswersFollowQuestions
    <2>0. k \in 1..Len(messages) /\ Len(messages) \in Nat
        BY <1>1, <1>5
    <2>1. CASE k = i
        BY <1>1, <1>3, <1>5, <1>6, <1>8, <2>1
    <2>2. CASE k # i
        <3>1. k > 1 /\ messages[k - 1].role = "user" /\ messages[k - 1].about = messages[k].about
            BY <1>5, <1>6, <2>0, <2>2 DEF CInv, AnswersFollowQuestions
        <3>2. k - 1 # i /\ k - 1 \in 1..Len(messages)
            BY <1>6, <1>8, <2>0, <3>1
        <3> QED
            BY <1>5, <2>0, <2>2, <3>1, <3>2
    <2> QED
        BY <2>1, <2>2
<1> QED
    BY <1>6, <1>7, <1>9, <1>10 DEF CInv, LoadingHasStream, isStreaming

\* The answer at hand may be removed: what follows it is no answer to it.
LEMMA GiveUpKeeps == CInv /\ isStreaming /\ GiveUp => CInv'
<1> SUFFICES ASSUME CInv, isStreaming, GiveUp PROVE CInv'
    OBVIOUS
<1>1. messages \in Seq(Messages) /\ stream \in [at : Nat, about : Nat] /\ Len(messages) \in Nat
    BY DEF CInv, ChatTypes, isStreaming
<1>2. stream' = Nothing /\ ~loading' /\ loading' \in BOOLEAN /\ UNCHANGED <<sessionId, asked, muddled>>
    BY DEF GiveUp, Over
<1>3. CASE stream.at \notin DOMAIN messages
    <2>1. messages' = messages
        BY <1>3 DEF GiveUp
    <2> QED
        BY <1>2, <2>1 DEF CInv, ChatTypes, InPlace, LoadingHasStream, AnswersFollowQuestions, isStreaming
<1>4. CASE stream.at \in DOMAIN messages
    <2> DEFINE i == stream.at
    <2>0. i \in 1..Len(messages)
        BY <1>1, <1>4
    <2>1. messages' = RemoveAt(messages, i)
        BY <1>4 DEF GiveUp
    <2> HIDE DEF i
    <2>2. /\ messages' \in Seq(Messages) /\ Len(messages') = Len(messages) - 1
          /\ \A k \in 1..(Len(messages) - 1) : messages'[k] = IF k < i THEN messages[k] ELSE messages[k + 1]
        BY <1>1, <2>0, <2>1, OneLess
    <2>3. ~muddled => messages[i].role = "assistant"
        BY DEF CInv, InPlace, i
    <2>4. ASSUME ~muddled', NEW k \in DOMAIN messages',
                 messages'[k].role = "assistant", messages'[k].about # Nothing
          PROVE  k > 1 /\ messages'[k - 1].role = "user" /\ messages'[k - 1].about = messages'[k].about
        <3>0. k \in 1..(Len(messages) - 1) /\ ~muddled
            BY <1>1, <1>2, <2>2, <2>4
        <3> DEFINE j == IF k < i THEN k ELSE k + 1
        <3>1. messages'[k] = messages[j] /\ j \in 1..Len(messages)
            BY <1>1, <2>0, <2>2, <3>0
        <3>2. j > 1 /\ messages[j - 1].role = "user" /\ messages[j - 1].about = messages[j].about
            BY <1>1, <2>4, <3>0, <3>1 DEF CInv, AnswersFollowQuestions
        <3>3. j - 1 # i
            BY <2>3, <3>0, <3>2
        <3>4. k > 1 /\ k - 1 \in 1..(Len(messages) - 1)
            BY <1>1, <2>0, <3>0, <3>2, <3>3
        <3>5. messages'[k - 1] = messages[j - 1]
            BY <1>1, <2>0, <2>2, <3>0, <3>3, <3>4
        <3> QED
            BY <3>1, <3>2, <3>4, <3>5
    <2>5. AnswersFollowQuestions'
        BY <2>4 DEF AnswersFollowQuestions
    <2> QED
        BY <1>2, <2>2, <2>5 DEF CInv, ChatTypes, InPlace, LoadingHasStream, isStreaming
<1> QED
    BY <1>3, <1>4

LEMMA DoneKeeps == CInv /\ Done => CInv'
<1> SUFFICES ASSUME CInv, Done PROVE CInv'
    OBVIOUS
<1>0. messages \in Seq(Messages) /\ stream.at \in DOMAIN messages /\ sessionId \in Sessions
    BY DEF CInv, ChatTypes, Done
<1>1. messages[stream.at] \in Messages /\ sessionId \in Sessions
    BY <1>0
<1>2. sessionId' \in Sessions
    BY <1>1 DEF Done, Messages
<1> QED
    BY <1>2 DEF Done, Over, CInv, ChatTypes, InPlace, LoadingHasStream, AnswersFollowQuestions, isStreaming

LEMMA ChatKeeps == CInv /\ (Asking \/ Clear \/ Stream) => CInv'
BY AskingKeeps, ClearKeeps, PieceKeeps, GiveUpKeeps, DoneKeeps
DEF Stream, PieceWithoutPlace, StreamFails

------------------------------------------------------------------------------
\* The two together: a step of one leaves the other alone, or unmounts it.
LEMMA Inductive == Spec => [](SInv /\ CInv)
<1>1. Init => SInv /\ CInv
    BY InitSession, InitChat DEF Init
<1>2. SInv /\ CInv /\ [Next]_vars => (SInv /\ CInv)'
    <2> SUFFICES ASSUME SInv, CInv, [Next]_vars PROVE SInv' /\ CInv'
        OBVIOUS
    <2>1. CASE SessionStep
        <3>1. SInv'
            BY <2>1, SessionKeeps DEF SessionStep
        <3>2. CASE Unmounted
            BY <3>1, <3>2, UnmountedKeeps
        <3>3. CASE UNCHANGED chatVars
            BY <3>1, <3>3 DEF chatVars, CInv, ChatTypes, InPlace, LoadingHasStream, AnswersFollowQuestions, isStreaming
        <3> QED
            BY <2>1, <3>2, <3>3 DEF SessionStep
    <2>2. CASE ChatStep
        BY <2>2, SessionKeeps, ChatKeeps DEF ChatStep
    <2>3. CASE UNCHANGED vars
        <3>1. UNCHANGED sessionVars /\ UNCHANGED chatVars
            BY <2>3 DEF vars
        <3>2. SInv'
            BY <3>1, SessionKeeps
        <3> QED
            BY <3>1, <3>2 DEF chatVars, CInv, ChatTypes, InPlace, LoadingHasStream, AnswersFollowQuestions, isStreaming
    <2> QED
        BY <2>1, <2>2, <2>3 DEF Next
<1> QED
    BY <1>1, <1>2, PTL DEF Spec

\* The session, the router's navigation, the requests in flight and the
\* conversation keep their types.
THEOREM TypeCorrect == Spec => []TypeOK
<1>1. SInv /\ CInv => TypeOK
    <2> SUFFICES ASSUME SInv, CInv PROVE TypeOK
        OBVIOUS
    <2>0. messages \in Seq(Messages)
        BY DEF CInv, ChatTypes
    <2>a. \A k \in DOMAIN messages : messages[k] \in Messages
        BY <2>0
    <2>1. \A k \in DOMAIN messages : messages[k].role \in Roles
        BY <2>a DEF Messages
    <2> QED
        BY <2>1 DEF TypeOK, SInv, SessionTypes, Navigations, Records, CInv, ChatTypes
<1> QED
    BY <1>1, Inductive, PTL

\* Whatever logins, logouts, profiles and 401s cross, the token of the
\* requests is never another than the page's.
THEOREM OneSession == Spec => []StoredIsTheStores
<1>1. SInv => StoredIsTheStores
    BY DEF SInv
<1> QED
    BY <1>1, Inductive, PTL

\* A page that needs a permission is rendered only in a document that has
\* held a user with it.
THEOREM PermissionComesFirst == Spec => []GuardedOnlyAfterPermission
<1>1. SInv => GuardedOnlyAfterPermission
    BY DEF SInv, Cleared
<1> QED
    BY <1>1, Inductive, PTL

\* A text stays under the question it answers, unless the conversation is
\* cleared while it streams.
THEOREM AnswersStayInPlace == Spec => []AnswersFollowQuestions
<1>1. CInv => AnswersFollowQuestions
    BY DEF CInv
<1> QED
    BY <1>1, Inductive, PTL

\* While the input box is disabled, there is a stream to enable it again.
THEOREM LoadingEnds == Spec => []LoadingHasStream
<1>1. CInv => LoadingHasStream
    BY DEF CInv
<1> QED
    BY <1>1, Inductive, PTL
==============================================================================
