---------------------------- MODULE EditorSession ----------------------------
(* What an editor may expect of a language server: requests are answered once *)
(* and in the order they were made, from the text the editor had sent before  *)
(* the request, or as cancelled if it asked for that.  The server leaves none *)
(* open when it ends, unless its analysis broke.                              *)
EXTENDS Naturals, Sequences

CONSTANTS Requests,  \* identities of requests, in the order they are made
          Texts      \* what a document can hold; 0 for none

VARIABLES asked,    \* requests, each with the text it is about
          cancels,  \* requests that the editor no longer wants answered
          answers,
          broken,   \* the analysis died
          over      \* the server has ended

vars == <<asked, cancels, answers, broken, over>>

Init == /\ asked = {} /\ cancels = {} /\ answers = <<>>
        /\ broken = FALSE /\ over = FALSE

\* The editor does not wait for answers, and may cancel what it has sent.
Ask == /\ \E k \in Requests, text \in Texts :
             /\ \A r \in asked : r.id < k
             /\ asked' = asked \cup {[id |-> k, text |-> text]}
       /\ UNCHANGED <<cancels, answers, broken, over>>

Cancel == /\ \E r \in asked : cancels' = cancels \cup {r.id}
          /\ UNCHANGED <<asked, answers, broken, over>>

Answered == {answers[i].id : i \in DOMAIN answers}
Waiting == {r \in asked : r.id \notin Answered}

\* The oldest request that waits is answered.
Answer == /\ ~over
          /\ \E r \in Waiting :
                /\ \A q \in Waiting : r.id <= q.id
                /\ \/ answers' = Append(answers, r)
                   \/ r.id \in cancels /\ answers' = Append(answers, [r EXCEPT !.text = 0])
          /\ UNCHANGED <<asked, cancels, broken, over>>

Break == broken' = TRUE /\ UNCHANGED <<asked, cancels, answers, over>>

End == /\ Waiting = {} \/ broken
       /\ over' = TRUE
       /\ UNCHANGED <<asked, cancels, answers, broken>>

Next == Ask \/ Cancel \/ Answer \/ Break \/ End

Spec == Init /\ [][Next]_vars /\ WF_vars(Answer)
=============================================================================
