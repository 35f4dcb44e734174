------------------------------- MODULE Shell ---------------------------------
(***************************************************************************)
(* The console around its pages: the session with the router, and the      *)
(* assistant, which lives in the layout of the admin pages and in that of  *)
(* the public ones, and dies with it.                                     *)
(***************************************************************************)
EXTENDS Session, Assistant

vars == <<sessionVars, chatVars>>

Init == SessionInit /\ AssistantInit

Layout(p) ==
    CASE p \in Admin -> "Layout" [] p = "Public" -> "PublicLayout" [] OTHER -> None

SessionStep ==
    /\ SessionNext
    /\ IF Layout(shown) # Layout(shown') THEN Unmounted ELSE UNCHANGED chatVars

ChatStep ==
    /\ Idle /\ Layout(shown) # None
    /\ Asking \/ Clear \/ Stream
    /\ UNCHANGED sessionVars

Next == SessionStep \/ ChatStep

Spec == Init /\ [][Next]_vars /\ SessionFairness

------------------------------------------------------------------------------
\* Every variable has its type.
TypeOK ==
    /\ stored \in Tokens \cup {None} /\ memory \in Tokens \cup {None}
    /\ user \in Users \cup {None} /\ met \subseteq Users
    /\ here \in Locations /\ before \in Pages \cup {None}
    /\ shown \in Pages \cup {None}
    /\ going \in [to : Locations, phase : Phases \cup {"still"}]
    /\ calls \subseteq [kind : CallKinds, token : Tokens \cup {None}]
    /\ owner \in [Tokens -> Users \cup {None}] /\ valid \subseteq Tokens
    /\ moves \in 0..MaxMoves /\ faults \in 0..MaxFaults
    /\ sessionId \in Sessions /\ loading \in BOOLEAN /\ muddled \in BOOLEAN
    /\ \A k \in DOMAIN messages : messages[k].role \in Roles

\* The token lives in localStorage, which requests and the guard read, and in
\* the store, which isLoggedIn reads.  Whatever answers of logins, logouts,
\* profile requests and 401s cross, the two never name two sessions: requests
\* are not sent in the name of another login than the page's.
StoredIsTheStores == stored # None => memory = stored

\* The guard of router/index.ts waits for a profile, redirects and is
\* overtaken by other navigations, whose profile may come in its place; and
\* the page's chunk comes later still.  All the same a page that needs a
\* permission is only rendered in a document whose store has held a user with
\* that permission.
GuardedOnlyAfterPermission == shown = "Guarded" => met \cap Permitted # {}

\* Every navigation ends: the redirects of the guard (to the login page without
\* a token, away from it with one, to the dashboard without the permission)
\* never chase each other, and a guard that waits for a profile is let go on
\* whatever becomes of it.
NavigationSettles == Moving ~> ~Moving

\* The pieces of a streamed answer are written by index.  Failures remove
\* messages, /help adds one, other questions come in between: a text is still
\* under the question it answers, unless the conversation was cleared while
\* an answer streamed (then the next question can get the rest of it).
AnswersFollowQuestions ==
    ~muddled => \A k \in DOMAIN messages :
        messages[k].role = "assistant" /\ messages[k].about # Nothing =>
            k > 1 /\ messages[k - 1].role = "user" /\ messages[k - 1].about = messages[k].about

\* The input box is never left disabled: while loading is set there is a stream
\* whose end resets it, though a second question, a clear or a failing callback
\* may have come in between.
LoadingHasStream == loading => isStreaming
==============================================================================
