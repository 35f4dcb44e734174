------------------------------ MODULE Assistant ------------------------------
(***************************************************************************)
(* The chat of the admin layout (components/ai): questions and streamed    *)
(* answers.  A question appends two messages, itself and an empty answer,  *)
(* and remembers where the answer is by its index; the pieces of the       *)
(* stream then write to whatever message is at that index.  Meanwhile the  *)
(* user can clear the conversation, and ask again: only the input box is   *)
(* disabled, not the suggestions or the optimise buttons of an answer.     *)
(*                                                                         *)
(* Of an answer, only the question it belongs to is kept.                  *)
(***************************************************************************)
EXTENDS Naturals, Sequences, SequencesExt

CONSTANTS
    Nothing,
    MaxQuestions,  \* bound: questions asked
    MaxMessages    \* bound: messages in the window

ASSUME ChatAssumption == Nothing \notin Nat /\ Nothing \notin [at : Nat, about : Nat]

VARIABLES
    messages,      \* the conversation
    sessionId,     \* the server's name for it; "" until known
    loading,       \* the ref behind the spinner
    stream,        \* the answer being read; Nothing if none
    asked,         \* questions so far
    muddled        \* the conversation was cleared under a stream (history)

chatVars == <<messages, sessionId, loading, stream, asked, muddled>>

Question(q) == [role |-> "user", about |-> q, session |-> sessionId]
Blank(q) == [role |-> "assistant", about |-> Nothing, session |-> sessionId]
Help == [role |-> "help", about |-> Nothing, session |-> sessionId]
Roles == {"user", "assistant", "help"}
Sessions == {"", "given"}

AssistantInit ==
    /\ messages = <<>> /\ sessionId = "" /\ loading = FALSE
    /\ stream = Nothing /\ asked = 0 /\ muddled = FALSE

isStreaming == stream # Nothing

\* handleSend up to streamChat's first await.  While another answer streams,
\* streamChat returns at once, and the finally block ends the loading.
Send ==
    /\ asked < MaxQuestions /\ Len(messages) + 2 <= MaxMessages
    /\ asked' = asked + 1
    /\ messages' = messages \o <<Question(asked'), Blank(asked')>>
    /\ IF isStreaming
       THEN loading' = FALSE /\ UNCHANGED stream
       ELSE /\ loading' = TRUE
            /\ stream' = [at |-> Len(messages) + 2, about |-> asked']
    /\ UNCHANGED <<sessionId, muddled>>

\* The input box, Ctrl+Enter included, works only when nothing is under way.
SendTyped == ~loading /\ ~isStreaming /\ Send
SendSuggestion == messages = <<>> /\ Send
SendOptimize ==
    /\ \E k \in DOMAIN messages : messages[k].role = "assistant" /\ messages[k].about # Nothing
    /\ Send

\* /help is answered at once, and by nobody.
SendHelp ==
    /\ ~loading /\ ~isStreaming /\ Len(messages) < MaxMessages
    /\ messages' = Append(messages, Help)
    /\ UNCHANGED <<sessionId, loading, stream, asked, muddled>>

\* handleClearSession empties the window; the stream goes on.  loadHistorySession,
\* which would put an older conversation in its place, finds none: they are
\* saved under a session id, and sessionId is never set.
Clear ==
    /\ messages # <<>>
    /\ messages' = <<>>
    /\ sessionId' = ""
    /\ muddled' = isStreaming
    /\ UNCHANGED <<loading, stream, asked>>

------------------------------------------------------------------------------
\* The stream.

\* The mutant: the stream is over, the spinner stays.
OverForStream ==
    /\ stream' = Nothing
    /\ UNCHANGED loading

\* The finally blocks of streamChat and of handleSend.
Over ==
    /\ stream' = Nothing
    /\ loading' = FALSE

\* The catch block of handleSend removes what is at the index by then.
GiveUp ==
    /\ messages' = IF stream.at \in DOMAIN messages THEN RemoveAt(messages, stream.at)
                   ELSE messages
    /\ Over
    /\ UNCHANGED <<sessionId, asked, muddled>>

\* The mutant: a piece goes to the last message.
PieceAtEnd ==
    /\ isStreaming /\ stream.at \in DOMAIN messages
    /\ messages' = [messages EXCEPT ![Len(messages)].about = stream.about]
    /\ UNCHANGED <<sessionId, loading, stream, asked, muddled>>

\* A piece of the text, or a tool call.
Piece ==
    /\ isStreaming /\ stream.at \in DOMAIN messages
    /\ messages' = [messages EXCEPT ![stream.at].about = stream.about]
    /\ UNCHANGED <<sessionId, loading, stream, asked, muddled>>

\* There is no message at the index any more: the callback throws, and
\* streamChat passes on what is not a parse error.
PieceWithoutPlace ==
    /\ isStreaming /\ stream.at \notin DOMAIN messages
    /\ GiveUp

\* The end of the answer.  The callback takes the session from the message,
\* which had it from sessionId.
Done ==
    /\ isStreaming /\ stream.at \in DOMAIN messages
    /\ LET s == messages[stream.at].session
       IN sessionId' = IF s = "" THEN sessionId ELSE s
    /\ Over
    /\ UNCHANGED <<messages, asked, muddled>>

\* The server refuses or reports an error, the connection breaks, or an event
\* is cut in two by the network (an "Unterminated string" is passed on).
StreamFails == isStreaming /\ GiveUp

Stream == Piece \/ PieceWithoutPlace \/ Done \/ StreamFails

Asking == SendTyped \/ SendSuggestion \/ SendOptimize \/ SendHelp

\* The layout is left: the window and its refs go, the stream is read on by
\* nobody.
Unmounted ==
    /\ messages' = <<>> /\ sessionId' = "" /\ loading' = FALSE
    /\ stream' = Nothing /\ muddled' = FALSE
    /\ UNCHANGED asked
==============================================================================
