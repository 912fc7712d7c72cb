--------------------------- MODULE WriteOnceStore ---------------------------
(* What a package store promises: a digest names nothing or one release, and  *)
(* never another; whoever is told "Installed" is the one who put it there,    *)
(* and whoever is told anything else has put nothing there.  Only a power     *)
(* loss takes an entry away.                                                  *)
CONSTANTS Installers, Releases, DigestOf, NoRelease
VARIABLES entries, calls

vars == <<entries, calls>>

Digests == {DigestOf[r] : r \in Releases}
NoCall == [at |-> "idle", release |-> NoRelease, answer |-> "none"]

Init == /\ entries = [d \in Digests |-> NoRelease]
        /\ calls = [i \in Installers |-> NoCall]

Ask(i, r) ==
    /\ calls[i].at \in {"idle", "answered"}
    /\ calls' = [calls EXCEPT ![i] = [at |-> "asked", release |-> r, answer |-> "none"]]
    /\ UNCHANGED entries

Entry(i) == entries[DigestOf[calls[i].release]]

Publish(i) ==
    /\ calls[i].at = "asked"
    /\ Entry(i) = NoRelease
    /\ entries' = [entries EXCEPT ![DigestOf[calls[i].release]] = calls[i].release]
    /\ calls' = [calls EXCEPT ![i].at = "published"]

Answer(i, answer) ==
    /\ CASE answer = "Installed" -> calls[i].at = "published"
         [] answer = "AlreadyPresent" -> calls[i].at = "asked" /\ Entry(i) = calls[i].release
         [] answer = "Refused" -> calls[i].at = "asked"
                                    /\ Entry(i) \notin {NoRelease, calls[i].release}
         [] answer = "Failed" -> calls[i].at = "asked"
    /\ calls' = [calls EXCEPT ![i].at = "answered", ![i].answer = answer]
    /\ UNCHANGED entries

Kill(dead) ==
    /\ calls' = [i \in Installers |-> IF i \in dead THEN NoCall ELSE calls[i]]
    /\ UNCHANGED entries

PowerLoss(lost) ==
    /\ entries' = [d \in Digests |-> IF d \in lost THEN NoRelease ELSE entries[d]]
    /\ calls' = [i \in Installers |-> NoCall]

Next ==
    \/ \E i \in Installers :
          \/ \E r \in Releases : Ask(i, r)
          \/ Publish(i)
          \/ \E answer \in {"Installed", "AlreadyPresent", "Refused", "Failed"} :
                Answer(i, answer)
    \/ \E dead \in SUBSET Installers : Kill(dead)
    \/ \E lost \in SUBSET Digests : PowerLoss(lost)

Spec == Init /\ [][Next]_vars
=============================================================================
