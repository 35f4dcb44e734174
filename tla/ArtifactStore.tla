---------------------------- MODULE ArtifactStore ---------------------------
(***************************************************************************)
(* What a hosted repository promises its clients.  An artifact has the     *)
(* content it was published with until it is deleted or, where the         *)
(* repository allows it, published over; a request for it is answered with *)
(* that content or with an error, never with another content.  The answer  *)
(* is "corrupt" only after a disk fault, which hits every artifact with    *)
(* that content, and "missing" only when the publication raced with a      *)
(* deletion of the same content.  Uploading the content again may repair   *)
(* either.  CASBlobStore implements this with files, rows and sessions.    *)
(***************************************************************************)
CONSTANTS Keys, Digests, NoContent, AllowOverwrite

VARIABLES
    content,    \* what each identity key is published with
    answer,     \* what a request for each key is answered with
    atRisk      \* the keys published while their content was being deleted

vars == <<content, answer, atRisk>>

Init ==
    /\ content = [k \in Keys |-> NoContent]
    /\ answer = [k \in Keys |-> "not found"]
    /\ atRisk = {}

Having(d) == {k \in Keys : content[k] = d}

\* The keys in K are answered with this from now on.
Answers(K, this) == answer' = [k \in Keys |-> IF k \in K THEN this ELSE answer[k]]

Publish(k, d) ==
    /\ AllowOverwrite \/ content[k] = NoContent
    /\ content' = [content EXCEPT ![k] = d]

\* What is published in peace can be read.
PublishSafely(k, d) ==
    /\ Publish(k, d)
    /\ Answers({k}, "content")
    /\ atRisk' = atRisk \ {k}

PublishAtRisk(k, d) ==
    /\ Publish(k, d)
    /\ Answers({k}, "content") \/ Answers({k}, "missing")
    /\ atRisk' = atRisk \cup {k}

Remove(k) ==
    /\ content[k] # NoContent
    /\ content' = [content EXCEPT ![k] = NoContent]
    /\ Answers({k}, "not found")
    /\ atRisk' = atRisk \ {k}

Damage(d) ==
    /\ Answers({k \in Having(d) : answer[k] = "content"}, "corrupt")
    /\ UNCHANGED <<content, atRisk>>

Lose(d) ==
    /\ \E K \in SUBSET (Having(d) \cap atRisk) : Answers(K, "missing")
    /\ UNCHANGED <<content, atRisk>>

Repair(d) ==
    /\ \E K \in SUBSET Having(d) : Answers(K, "content")
    /\ UNCHANGED <<content, atRisk>>

Next ==
    \/ \E k \in Keys, d \in Digests : PublishSafely(k, d) \/ PublishAtRisk(k, d)
    \/ \E k \in Keys : Remove(k)
    \/ \E d \in Digests : Damage(d) \/ Lose(d) \/ Repair(d)

Spec == Init /\ [][Next]_vars
=============================================================================
