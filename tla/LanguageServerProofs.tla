------------------------ MODULE LanguageServerProofs ------------------------
(* Proofs for LanguageServer, for any number of documents, folders, messages  *)
(* and changes of the disk: what the server answers and shows is of the texts *)
(* that the editor sent, and every session is one of EditorSession.           *)
EXTENDS LanguageServer, SequenceTheorems, FiniteSetTheorems, WellFoundedInduction, TLAPS

-----------------------------------------------------------------------------
(* Types                                                                    *)

Views == UNION {[S -> Nat] : S \in SUBSET Docs}
Believes == [texts : [Docs -> Nat], roots : SUBSET Roots]
Mail == [kind : Kinds, doc : Docs, roots : SUBSET Roots, target : Nat, after : Believes]
Projects == [indexed : BOOLEAN, paths : SUBSET Docs]
Workspaces == [present : BOOLEAN, package : BOOLEAN, files : Views]
Jobs == [group : Groups, version : Nat, documents : Views, project : Projects]
Results == [group : Groups, version : Nat, called : BOOLEAN, workspace : Workspaces]
Stages == [kind : {"idle", "schedule", "settle", "drain", "exit", "left", "closed", "failed"},
           message : Nat, groups : SUBSET Groups, refresh : BOOLEAN]
Crews == [stage : {"waiting", "woken", "analyzing", "read", "plain", "dead"},
          batch : SUBSET Jobs, pass : {1, 2}, found : Views]
Replies == [id : Nat, text : Nat, view : [package : BOOLEAN, files : Views]]
Panels == [text : Nat, package : BOOLEAN, files : Views]

-----------------------------------------------------------------------------
(* The invariant                                                            *)

\* What the editor believes after its first k messages.
At(k) == IF k = 0 THEN [texts |-> [d \in Docs |-> 0], roots |-> session.roots]
         ELSE sent[k].after

\* What the editor has sent: each message moves its belief on by itself, and
\* shutdown and exit end the session.
Sound(k) ==
    /\ \A d \in Docs : sent[k].after.texts[d] = IF d = sent[k].doc
                                                THEN TextAfter(sent[k], k, At(k - 1).texts[d])
                                                ELSE At(k - 1).texts[d]
    /\ sent[k].after.roots = IF sent[k].kind = "folders" THEN sent[k].roots
                             ELSE At(k - 1).roots
    /\ \A d \in Docs : sent[k].after.texts[d] \in 0..k
Ordered(j, k) == /\ sent[j].kind = "shutdown" => sent[k].kind = "exit"
                 /\ sent[j].kind # "exit"
History ==
    /\ session \in Sessions
    /\ sent \in Seq(Mail) /\ Len(sent) <= session.messages
    /\ \A k \in 1..Len(sent) : Sound(k)
    /\ \A j, k \in 1..Len(sent) : j < k => Ordered(j, k)

Ground == /\ disk \in [Roots -> Disks] /\ diskChanges \in Nat
          /\ roots \subseteq Roots /\ watching \in BOOLEAN
          /\ projects \in [Roots -> Projects]
          /\ \A r \in Roots : projects[r].indexed => r \in roots

\* What the server has made of the messages it has handled, and of those it
\* keeps: in between there are only cancellations, which change nothing.
Current == [texts |-> documents, roots |-> roots]
Before(i) == IF i = 1 THEN Current ELSE At(buffered[i - 1])
Turn ==
    /\ documents \in [Docs -> Nat] /\ \A d \in Docs : documents[d] <= taken
    /\ taken \in 0..Len(sent) /\ buffered \in Seq(Nat)
    /\ inputClosed \in BOOLEAN /\ closed \in BOOLEAN
    /\ inputClosed => closed /\ taken = Len(sent)
    /\ \A i \in 1..Len(buffered) : buffered[i] \in 1..taken
    /\ \A i, j \in 1..Len(buffered) : i < j => buffered[i] < buffered[j]
    /\ \A i \in 1..Len(buffered) : At(buffered[i] - 1) = Before(i)
    /\ At(taken) = Before(Len(buffered) + 1)

\* The message that the server is at.
Busy == stage.kind \in {"settle", "drain"}
Engaged ==
    /\ stage \in Stages
    /\ stage.kind # "schedule" => stage.groups = {}
    /\ stage.kind = "schedule" => stage.groups # {}
    /\ stage.refresh => stage.groups \subseteq roots
    /\ Busy => /\ stage.message \in 1..taken /\ At(stage.message) = Current
               /\ \A i \in 1..Len(buffered) : stage.message < buffered[i]
    /\ stage.kind = "settle" => sent[stage.message].kind = "request"
    /\ stage.kind = "drain" => sent[stage.message].kind = "shutdown"
    /\ stage.kind = "exit" => \E k \in 1..taken : /\ sent[k].kind = "shutdown"
                                                  /\ \A i \in 1..Len(buffered) : k < buffered[i]

\* Requests are answered in their turn, and none before.
Kept == {buffered[i] : i \in 1..Len(buffered)}
Told == {answers[i].id : i \in 1..Len(answers)}
Answered ==
    /\ answers \in Seq(Replies)
    /\ Told \subseteq 1..taken
    /\ Running => \A k \in 1..taken :
          k \in Told <=> IsAsked(k) /\ k \notin Kept /\ ~(Busy /\ k = stage.message)

\* Versions are given to one group each, and a group never waits for one that
\* was called off.
Plan ==
    /\ version \in Nat /\ wake \in BOOLEAN
    /\ pending \in [Groups -> Nat] /\ \A g \in Groups : pending[g] <= version
    /\ cancelled \subseteq 1..version
    /\ \A g \in Groups : pending[g] \notin cancelled
    /\ \A g, h \in Groups : g # h /\ pending[g] = pending[h] => pending[g] = 0

\* Jobs, at every place they pass through: each has a version that was given
\* out, and those of a package are of a folder.
Issued(j) == j.version \in 1..version /\ (j.project.indexed => j.group \in Roots)
Pool ==
    /\ queued \in [Groups -> Jobs \cup {NoJob}]
    /\ \A g \in Groups : queued[g] # NoJob => queued[g].group = g /\ Issued(queued[g])
    /\ worker \in Crews
    /\ worker.stage \in {"analyzing", "read", "plain"} <=> worker.batch # {}
    /\ \A j \in worker.batch : Issued(j)
    /\ worker.stage = "read" => Job.project.indexed
    /\ completed \in Seq(Results)
    /\ \A i \in 1..Len(completed) :
          /\ completed[i].version \in 1..version
          /\ completed[i].called => completed[i].version \in cancelled

\* An analysis of a group is of the texts of its open documents: of all that are
\* modules, or of those that a package has.
Apt(w, g) == /\ \A e \in OpenIn(g) : e \in DOMAIN w.files => w.files[e] = documents[e]
             /\ w.package \/ DOMAIN w.files = {e \in OpenIn(g) : IsModule(e, g)}
Indexed(g) == g \in roots /\ projects[g].indexed
ApplyTo(j) == /\ j.documents = [d \in OpenIn(j.group) |-> documents[d]]
              /\ j.project.indexed => Indexed(j.group)
Awaits(j) == pending[j.group] = j.version
Fitting ==
    /\ \A g \in Groups : queued[g] # NoJob /\ Awaits(queued[g]) => ApplyTo(queued[g])
    /\ \A j \in worker.batch : Awaits(j) => ApplyTo(j)
    /\ \A i \in 1..Len(completed) :
          LET c == completed[i] IN
          Awaits(c) /\ ~c.called => /\ Apt(c.workspace, c.group)
                                    /\ c.workspace.package => Indexed(c.group)

\* What was accepted, and what is shown of it.
Still(g) == pending[g] = 0 /\ (stage.refresh \/ g \notin stage.groups)
Accepted ==
    /\ workspaces \in [Groups -> Workspaces]
    /\ \A g \in Groups : workspaces[g].package => g \in roots
    /\ Running => \A g \in Groups : Still(g) => Apt(workspaces[g], g)
View ==
    /\ shown \in [Docs -> Panels]
    /\ Running => \A d \in Docs :
          IF documents[d] = 0 THEN shown[d] = Cleared
          ELSE Still(GroupOf(d, roots)) =>
                  /\ shown[d].text = documents[d]
                  /\ Faithful(shown[d].files, shown[d].package, d, documents, roots)
Served ==
    \A i \in 1..Len(answers) : LET m == sent[answers[i].id] IN
        answers[i].text # 0 =>
            Faithful(answers[i].view.files, answers[i].view.package, m.doc, m.after.texts,
                     m.after.roots)

Inv == /\ History /\ Ground /\ Turn /\ Engaged /\ Answered /\ Plan /\ Pool /\ Fitting
       /\ Accepted /\ View /\ Served

-----------------------------------------------------------------------------
(* Lemmas about the operators                                               *)

\* A set of naturals has a least element.
LEMMA MinIn ==
    ASSUME NEW S \in SUBSET Nat, S # {}
    PROVE  Min(S) \in S /\ \A x \in S : Min(S) <= x
<1>1. PICK x \in S : \A y \in S : <<y, x>> \notin OpToRel(<, Nat)
    BY WFMin, NatLessThanWellFounded
<1>2. x \in Nat /\ \A y \in S : y \in Nat /\ ~(y < x)
    BY <1>1 DEF OpToRel
<1>3. \A y \in S : x <= y
    BY <1>2
<1> QED
    BY <1>3 DEF Min

\* A document is in one group, be it a folder or itself.
LEMMA GroupOfIn ==
    ASSUME NEW d \in Docs, NEW declared
    PROVE  GroupOf(d, declared) \in Groups
<1> DEFINE holding == {i \in DOMAIN Path[d] : Path[d][i] \in declared}
<1>1. Path[d] \in Seq(Roots)
    BY EditorAssumption
<1>2. DOMAIN Path[d] = 1..Len(Path[d]) /\ Len(Path[d]) \in Nat
    BY <1>1, LenProperties
<1>3. holding \in SUBSET Nat
    BY <1>2
<1>4. CASE holding = {}
    BY <1>4 DEF GroupOf, Groups
<1>5. CASE holding # {}
    <2>1. Min(holding) \in holding
        BY <1>3, <1>5, MinIn
    <2>2. Path[d][Min(holding)] \in Roots
        BY <1>1, <1>2, <2>1, ElementOfSeq
    <2> HIDE DEF holding
    <2> QED
        BY <1>5, <2>2 DEF GroupOf, Groups, holding
<1> QED
    BY <1>4, <1>5

\* Groups are in a sequence, so there is a first one of any of them.
LEMMA FirstIn ==
    ASSUME NEW S \in SUBSET Groups, S # {}
    PROVE  First(S) \in S
<1> DEFINE places == {i \in DOMAIN GroupOrder : GroupOrder[i] \in S}
<1>1. GroupOrder \in Seq(Groups) /\ ToSet(GroupOrder) = Groups
    BY EditorAssumption
<1>2. places \in SUBSET Nat
    BY <1>1, LenProperties
<1>3. places # {}
    BY <1>1 DEF ToSet
<1>4. Min(places) \in places
    BY <1>2, <1>3, MinIn
<1> HIDE DEF places
<1> QED
    BY <1>4 DEF First, places

\* The first job of some is one of them.
LEMMA FirstJobIn ==
    ASSUME NEW jobs, jobs # {}, \A j \in jobs : j.group \in Groups
    PROVE  FirstJob(jobs) \in jobs
<1>1. First({j.group : j \in jobs}) \in {j.group : j \in jobs}
    BY FirstIn
<1> QED
    BY <1>1 DEF FirstJob

\* There are finitely many folders.
LEMMA SomeRoots ==
    ASSUME NEW S \in SUBSET Roots
    PROVE  Cardinality(S) \in Nat
<1>1. GroupOrder \in Seq(Groups) /\ ToSet(GroupOrder) = Groups
    BY EditorAssumption
<1>2. PICK n \in Nat : DOMAIN GroupOrder = 1..n
    BY <1>1, LenProperties
<1>3. IsFiniteSet(1..n)
    BY <1>2, FS_Interval
<1>4. GroupOrder \in Surjection(1..n, Groups)
    BY <1>1, <1>2, LenProperties DEF Surjection, ToSet
<1>5. IsFiniteSet(Groups)
    BY <1>3, <1>4, FS_Surjection
<1>6. IsFiniteSet(S)
    BY <1>5, FS_Subset DEF Groups
<1> QED
    BY <1>6, FS_CardinalityType

\* A sequence without one of its elements.
LEMMA RemoveAtIs ==
    ASSUME NEW S, NEW s \in Seq(S), NEW i \in 1..Len(s)
    PROVE  /\ RemoveAt(s, i) \in Seq(S)
           /\ Len(RemoveAt(s, i)) = Len(s) - 1
           /\ \A j \in 1..(Len(s) - 1) : RemoveAt(s, i)[j] = IF j < i THEN s[j] ELSE s[j + 1]
<1> DEFINE left == SubSeq(s, 1, i - 1)
           right == SubSeq(s, i + 1, Len(s))
<1>1. PICK n \in Nat : n = Len(s) /\ i \in 1..n
    BY LenProperties
<1>2. \A j \in 1..n : s[j] \in S
    BY <1>1, ElementOfSeq
<1>3. \A j \in 1..(i - 1) : s[j] \in S
    BY <1>1, <1>2
<1>4. /\ left \in Seq(S) /\ Len(left) = i - 1
      /\ \A j \in 1..(i - 1) : left[j] = s[j]
    <2>1. 1 \in Int /\ i - 1 \in Int /\ (1 <= i - 1 \/ i - 1 = 0)
        BY <1>1
    <2>2. /\ left \in Seq(S)
          /\ Len(left) = IF 1 <= i - 1 THEN (i - 1) - 1 + 1 ELSE 0
          /\ \A j \in 1..((i - 1) - 1 + 1) : left[j] = s[1 + j - 1]
        BY <1>3, <2>1, SubSeqProperties
    <2>3. Len(left) = i - 1
        BY <1>1, <2>1, <2>2
    <2>4. \A j \in 1..(i - 1) : j \in 1..((i - 1) - 1 + 1) /\ 1 + j - 1 = j
        BY <1>1
    <2> QED
        BY <2>2, <2>3, <2>4
<1>5. /\ right \in Seq(S) /\ Len(right) = n - i
      /\ \A j \in 1..(n - i) : right[j] = s[i + j]
    <2>1. i + 1 \in Int /\ n \in Int /\ \A j \in (i + 1)..n : s[j] \in S
        BY <1>1, <1>2
    <2>2. /\ right \in Seq(S)
          /\ Len(right) = IF i + 1 <= n THEN n - (i + 1) + 1 ELSE 0
          /\ \A j \in 1..(n - (i + 1) + 1) : right[j] = s[i + 1 + j - 1]
        BY <1>1, <2>1, SubSeqProperties
    <2>3. Len(right) = n - i
        BY <1>1, <2>2
    <2>4. \A j \in 1..(n - i) : j \in 1..(n - (i + 1) + 1) /\ i + 1 + j - 1 = i + j
        BY <1>1
    <2> QED
        BY <2>2, <2>3, <2>4
<1> HIDE DEF left, right
<1>6. /\ left \o right \in Seq(S)
      /\ Len(left \o right) = Len(left) + Len(right)
      /\ \A j \in 1..(Len(left) + Len(right)) :
            (left \o right)[j] = IF j <= Len(left) THEN left[j] ELSE right[j - Len(left)]
    BY <1>4, <1>5, ConcatProperties
<1>7. Len(left) + Len(right) = n - 1
    BY <1>1, <1>4, <1>5
<1>8. ASSUME NEW j \in 1..(n - 1)
      PROVE  (left \o right)[j] = IF j < i THEN s[j] ELSE s[j + 1]
    <2>1. CASE j < i
        <3>1. j \in 1..(i - 1) /\ j <= i - 1
            BY <1>1, <1>8, <2>1
        <3> QED
            BY <1>4, <1>6, <1>7, <1>8, <2>1, <3>1
    <2>2. CASE ~(j < i)
        <3>1. j - (i - 1) \in 1..(n - i) /\ ~(j <= i - 1) /\ i + (j - (i - 1)) = j + 1
            BY <1>1, <1>8, <2>2
        <3> QED
            BY <1>4, <1>5, <1>6, <1>7, <1>8, <2>2, <3>1
    <2> QED
        BY <2>1, <2>2
<1> QED
    BY <1>1, <1>6, <1>7, <1>8 DEF RemoveAt, left, right

-----------------------------------------------------------------------------
(* A part of the invariant holds while its variables stand                  *)

\* A session sends no other messages when none is sent.
LEMMA HistoryFrame ==
    ASSUME History, UNCHANGED <<session, sent>>
    PROVE  History'
BY DEF History, Sound, Ordered, At, TextAfter

\* The folders are as they are until someone writes to them or declares others.
LEMMA GroundFrame ==
    ASSUME Ground, UNCHANGED <<ground, roots, watching, projects>>
    PROVE  Ground'
BY DEF Ground, ground

\* Nothing is taken, kept or made of a message when none is handled.
LEMMA TurnFrame ==
    ASSUME Turn, UNCHANGED <<session, sent, closed, input, documents, roots>>
    PROVE  Turn'
BY DEF Turn, Before, Current, At, input

\* The server stays at what it is at.
LEMMA EngagedFrame ==
    ASSUME Engaged, UNCHANGED <<session, sent, taken, buffered, stage, documents, roots>>
    PROVE  Engaged'
BY DEF Engaged, Busy, Current, At

\* What was answered stays answered.
LEMMA AnsweredFrame ==
    ASSUME Answered, UNCHANGED <<sent, taken, buffered, stage, answers>>
    PROVE  Answered'
BY DEF Answered, Told, Kept, Busy, IsAsked, Running

\* Versions are given out by the schedule.
LEMMA PlanFrame ==
    ASSUME Plan, UNCHANGED <<pending, version, cancelled, wake>>
    PROVE  Plan'
BY DEF Plan

\* Jobs are where they are.
LEMMA PoolFrame ==
    ASSUME Pool, UNCHANGED <<queued, worker, completed, version, cancelled>>
    PROVE  Pool'
BY DEF Pool, Issued, Job, FirstJob

\* The texts of a group are those it had.
LEMMA FittingFrame ==
    ASSUME Fitting, UNCHANGED <<queued, worker, completed, pending, documents, roots, projects>>
    PROVE  Fitting'
BY DEF Fitting, Awaits, ApplyTo, Apt, OpenIn, Indexed

\* What was accepted stays.
LEMMA AcceptedFrame ==
    ASSUME Accepted, UNCHANGED <<workspaces, roots, stage, pending, documents>>
    PROVE  Accepted'
BY DEF Accepted, Running, Still, Apt, OpenIn

\* What is shown stays.
LEMMA ViewFrame ==
    ASSUME View, UNCHANGED <<shown, documents, roots, pending, stage>>
    PROVE  View'
BY DEF View, Running, Still

\* What an answer was based on stays.
LEMMA ServedFrame ==
    ASSUME Served, UNCHANGED <<answers, sent>>
    PROVE  Served'
BY DEF Served

\* All of the invariant but what follows the messages.
Analyses == Plan /\ Pool /\ Fitting
Display == Accepted /\ View

\* Analyses are of the documents, not of the messages.
LEMMA AnalysesFrame ==
    ASSUME Analyses,
           UNCHANGED <<schedule, worker, completed, documents, roots, projects>>
    PROVE  Analyses'
BY PlanFrame, PoolFrame, FittingFrame DEF Analyses, schedule

\* So is what the server makes of them.
LEMMA DisplayFrame ==
    ASSUME Display, UNCHANGED <<workspaces, shown, documents, roots, pending, stage>>
    PROVE  Display'
BY AcceptedFrame, ViewFrame DEF Display

\* A document has texts of some documents.
LEMMA ViewsHave ==
    /\ \A S \in SUBSET Docs : [S -> Nat] \subseteq Views
    /\ \A f \in Views : /\ DOMAIN f \in SUBSET Docs
                        /\ \A d \in DOMAIN f : f[d] \in Nat
    /\ Nothing \in Views /\ DOMAIN Nothing = {}
<1>1. \A S \in SUBSET Docs : [S -> Nat] \subseteq Views
    BY DEF Views
<1>2. \A f \in Views : DOMAIN f \in SUBSET Docs /\ \A d \in DOMAIN f : f[d] \in Nat
    BY DEF Views
<1>3. Nothing \in [{} -> Nat] /\ DOMAIN Nothing = {}
    BY DEF Nothing
<1> QED
    BY <1>1, <1>2, <1>3

-----------------------------------------------------------------------------
(* The editor                                                               *)

\* A message is added to those that were sent; the others are what they were.
LEMMA SendAdds ==
    ASSUME History, NEW m \in session.vocabulary, Send(m)
    PROVE  /\ sent' \in Seq(Mail) /\ Len(sent') = Len(sent) + 1
           /\ Len(sent) \in Nat /\ Len(sent') <= session.messages
           /\ \A k \in 1..Len(sent) : sent'[k] = sent[k]
           /\ \A k \in 0..Len(sent) : At(k)' = At(k)
           /\ sent'[Len(sent) + 1] = Stamped(sent, m)
           /\ Stamped(sent, m) \in Mail /\ Believed(sent) = At(Len(sent))
           /\ \A d \in Docs : At(Len(sent)).texts[d] \in 0..Len(sent)
<1> DEFINE n == Len(sent)
           x == Stamped(sent, m)
<1>1. /\ session \in Sessions /\ sent \in Seq(Mail) /\ n \in Nat /\ n < session.messages
      /\ session.messages \in Nat
    BY LenProperties, EditorAssumption DEF History, Send
<1>2. m \in Messages
    BY <1>1, EditorAssumption
<1>3. session.roots \subseteq Roots
    BY <1>1, EditorAssumption
<1>4. Believed(sent) = At(n)
    <2>1. CASE sent = <<>>
        BY <2>1, EmptySeq DEF Believed, At
    <2>2. CASE sent # <<>>
        <3>1. n # 0
            BY <1>1, <2>2, EmptySeq
        <3> QED
            BY <2>2, <3>1 DEF Believed, At, Last
    <2> QED
        BY <2>1, <2>2
<1>5. At(n) \in Believes /\ \A d \in Docs : At(n).texts[d] \in 0..n
    <2>1. CASE n = 0
        BY <1>3, <2>1 DEF At, Believes
    <2>2. CASE n # 0
        <3>1. n \in 1..n
            BY <1>1, <2>2
        <3>2. sent[n] \in Mail
            BY <1>1, <3>1, ElementOfSeq
        <3>3. Sound(n)
            BY <3>1 DEF History
        <3> QED
            BY <2>2, <3>2, <3>3 DEF At, Mail, Sound
    <2> QED
        BY <2>1, <2>2
<1>6. \A d \in Docs : /\ TextAfter(m, n + 1, At(n).texts[d]) \in Nat
                      /\ At(n).texts[d] \in Nat
    BY <1>1, <1>5 DEF TextAfter
<1>7. x \in Mail
    <2>1. x.after.texts \in [Docs -> Nat]
        BY <1>4, <1>6 DEF Stamped
    <2>2. x.after.roots \in SUBSET Roots
        BY <1>2, <1>4, <1>5 DEF Stamped, Messages, Believes
    <2>3. x.after \in Believes
        BY <2>1, <2>2 DEF Stamped, Believes
    <2> QED
        BY <1>2, <2>3 DEF Stamped, Mail, Messages
<1>8. /\ sent' \in Seq(Mail) /\ Len(sent') = n + 1
      /\ \A k \in 1..n : sent'[k] = sent[k]
      /\ sent'[n + 1] = x
    BY <1>1, <1>7, AppendProperties DEF Send
<1>9. \A k \in 0..n : At(k)' = At(k)
    <2>1. session' = session
        BY DEF Send
    <2>2. \A k \in 0..n : k # 0 => k \in 1..n
        BY <1>1
    <2> QED
        BY <1>8, <2>1, <2>2 DEF At
<1>10. Len(sent') <= session.messages
    BY <1>1, <1>8
<1> QED
    BY <1>1, <1>4, <1>5, <1>7, <1>8, <1>9, <1>10

-----------------------------------------------------------------------------
(* The start                                                                *)

\* A session begins with the documents that it opens, each once.
LEMMA InitOpens ==
    ASSUME Init
    PROVE  /\ session \in Sessions /\ session.roots \subseteq Roots
           /\ session.disk \in [Roots -> Disks]
           /\ sent \in Seq(Mail) /\ Len(sent) <= session.messages
           /\ \A k \in 1..Len(sent) : Sound(k) /\ sent[k].kind = "open"
<1> DEFINE o == session.opening
           n == Len(o)
           T(k, d) == At(k).texts[d]
<1>1. /\ session \in Sessions /\ session.roots \subseteq Roots
      /\ session.disk \in [Roots -> Disks]
    BY EditorAssumption DEF Init
<1>2. /\ o \in Seq(Docs) /\ n <= session.messages
      /\ \A i, j \in DOMAIN o : o[i] = o[j] => i = j
    BY <1>1, EditorAssumption
<1>3. /\ n \in Nat /\ DOMAIN o = 1..n /\ \A i \in 1..n : o[i] \in Docs
    BY <1>2, LenProperties, ElementOfSeq
<1>4. sent = [k \in 1..n |-> Opening(k)]
    BY <1>3 DEF Init
<1>5. ASSUME NEW k \in 1..n
      PROVE  /\ Opening(k).kind = "open" /\ Opening(k).doc = o[k] /\ Opening(k).roots = {}
             /\ Opening(k).target = 0 /\ Opening(k).after.roots = session.roots
             /\ \A j \in 1..k : Opening(k).after.texts[o[j]] = j
             /\ \A d \in Docs : (\A j \in 1..k : o[j] # d) => Opening(k).after.texts[d] = 0
             /\ Opening(k).after.texts \in [Docs -> 0..k]
    <2> DEFINE t == [d \in Docs |-> IF \E j \in 1..k : o[j] = d
                                    THEN CHOOSE j \in 1..k : o[j] = d
                                    ELSE 0]
    <2>1. k \in Nat /\ \A j \in 1..k : j \in 1..n /\ j \in 0..k
        BY <1>3, <1>5
    <2>2. \A j \in 1..k : o[j] \in Docs /\ t[o[j]] = j
        BY <1>2, <1>3, <2>1
    <2>3. \A d \in Docs : (\A j \in 1..k : o[j] # d) => t[d] = 0
        OBVIOUS
    <2>4. t \in [Docs -> 0..k]
        BY <2>1
    <2>5. Opening(k) = [kind |-> "open", doc |-> o[k], roots |-> {}, target |-> 0,
                        after |-> [texts |-> t, roots |-> session.roots]]
        BY DEF Opening
    <2> HIDE DEF t
    <2> QED
        BY <2>2, <2>3, <2>4, <2>5
<1>6. ASSUME NEW k \in 1..n PROVE sent[k] \in Mail /\ sent[k] = Opening(k)
    <2>1. Opening(k).after.texts \in [Docs -> Nat]
        BY <1>3, <1>5, <1>6
    <2>2. Opening(k) = [kind |-> "open", doc |-> o[k], roots |-> {}, target |-> 0,
                        after |-> [texts |-> Opening(k).after.texts, roots |-> session.roots]]
        BY DEF Opening
    <2>3. o[k] \in Docs /\ "open" \in Kinds
        BY <1>3, <1>6 DEF Kinds
    <2> QED
        BY <1>1, <1>4, <2>1, <2>2, <2>3 DEF Mail, Believes
<1>7. sent \in [1..n -> Mail]
    BY <1>4, <1>6
<1>8. sent \in Seq(Mail)
    BY <1>3, <1>7, SeqDef
<1>9. Len(sent) = n
    BY <1>3, <1>4, <1>8, LenProperties
<1>10. ASSUME NEW k \in 0..n
       PROVE  /\ \A j \in 1..k : T(k, o[j]) = j
              /\ \A d \in Docs : (\A j \in 1..k : o[j] # d) => T(k, d) = 0
              /\ At(k).roots = session.roots
    <2>1. CASE k = 0
        BY <1>3, <2>1 DEF At
    <2>2. CASE k # 0
        <3>1. k \in 1..n
            BY <1>3, <1>10, <2>2
        <3> QED
            BY <1>5, <1>6, <2>2, <3>1 DEF At
    <2> QED
        BY <2>1, <2>2
<1>11. ASSUME NEW k \in 1..n PROVE Sound(k)
    <2>1. /\ k - 1 \in 0..n /\ k \in 0..n /\ k \in Nat /\ k \in 1..k
          /\ \A j \in 1..(k - 1) : j \in 1..k /\ j # k /\ j \in 1..n
          /\ \A j \in 1..k : j = k \/ j \in 1..(k - 1)
        BY <1>3, <1>11
    <2>2. sent[k].doc = o[k] /\ sent[k].kind = "open" /\ sent[k].after = Opening(k).after
        BY <1>5, <1>6, <1>11
    <2>3. T(k - 1, o[k]) = 0
        <3>1. \A j \in 1..(k - 1) : o[j] # o[k]
            BY <1>2, <1>3, <1>11, <2>1
        <3> QED
            BY <1>3, <1>10, <1>11, <2>1, <3>1
    <2>4. Opening(k).after.texts[o[k]] = k
        BY <1>5, <2>1
    <2>5. ASSUME NEW d \in Docs, d # o[k] PROVE Opening(k).after.texts[d] = T(k - 1, d)
        <3>1. CASE \E j \in 1..(k - 1) : o[j] = d
            <4>1. PICK j \in 1..(k - 1) : o[j] = d
                BY <3>1
            <4>2. T(k - 1, d) = j
                BY <1>10, <2>1, <4>1
            <4>3. Opening(k).after.texts[d] = j
                BY <1>5, <2>1, <4>1
            <4> QED
                BY <4>2, <4>3
        <3>2. CASE \A j \in 1..(k - 1) : o[j] # d
            <4>1. \A j \in 1..k : o[j] # d
                BY <2>1, <2>5, <3>2
            <4>2. T(k - 1, d) = 0
                BY <1>10, <2>1, <3>2
            <4>3. Opening(k).after.texts[d] = 0
                BY <1>5, <4>1
            <4> QED
                BY <4>2, <4>3
        <3> QED
            BY <3>1, <3>2
    <2>6. \A d \in Docs : Opening(k).after.texts[d] \in 0..k
        BY <1>5
    <2>7. Opening(k).after.roots = At(k - 1).roots
        BY <1>5, <1>10, <2>1
    <2>8. TextAfter(sent[k], k, At(k - 1).texts[sent[k].doc]) = k
        BY <2>2, <2>3 DEF TextAfter
    <2>9. sent[k].after.roots = IF sent[k].kind = "folders" THEN sent[k].roots
                                ELSE At(k - 1).roots
        BY <2>2, <2>7
    <2>10. \A d \in Docs : sent[k].after.texts[d] = IF d = sent[k].doc
                                     THEN TextAfter(sent[k], k, At(k - 1).texts[d])
                                     ELSE At(k - 1).texts[d]
        BY <2>2, <2>4, <2>5, <2>8
    <2> QED
        BY <2>2, <2>6, <2>9, <2>10 DEF Sound
<1>12. \A k \in 1..Len(sent) : Sound(k) /\ sent[k].kind = "open"
    BY <1>5, <1>6, <1>9, <1>11
<1> QED
    BY <1>1, <1>2, <1>8, <1>9, <1>12

\* Packages found at the start are of the folders that were declared.
LEMMA InitGround ==
    ASSUME Init
    PROVE  Ground /\ version \in Nat
<1>1. session.roots \subseteq Roots /\ disk \in [Roots -> Disks]
    BY InitOpens DEF Init
<1>2. \A r \in Roots : disk[r].files \in SUBSET Docs
    BY <1>1, EditorAssumption
<1>3. ASSUME NEW r \in Roots
      PROVE  projects[r] \in Projects /\ (projects[r].indexed => r \in roots)
    <2>1. CASE Loaded(r)
        <3>1. projects[r] = [indexed |-> TRUE, paths |-> disk[r].files] /\ r \in roots
            BY <1>3, <2>1 DEF Init, Loaded
        <3> QED
            BY <1>2, <1>3, <3>1 DEF Projects
    <2>2. CASE ~Loaded(r)
        BY <1>3, <2>2 DEF Init, NoProject, Projects
    <2> QED
        BY <2>1, <2>2
<1>4. projects \in [Roots -> Projects]
    <2>1. projects = [r \in Roots |-> projects[r]]
        BY DEF Init
    <2> QED
        BY <1>3, <2>1
<1>5. version \in Nat
    <2>1. {r \in session.roots : disk[r].manifest} \in SUBSET Roots
        BY <1>1
    <2> QED
        BY <2>1, SomeRoots DEF Init
<1> QED
    BY <1>1, <1>3, <1>4, <1>5 DEF Ground, Init

\* So are the analyses accepted at the start.
LEMMA InitDisplay ==
    ASSUME Init
    PROVE  Display
<1>1. Ground /\ session.roots \subseteq Roots /\ roots = session.roots
    BY InitGround, InitOpens DEF Init
<1>2. \A g \in Groups : OpenIn(g) = {}
    BY DEF OpenIn, Init
<1>3. ASSUME NEW g \in Groups
      PROVE  workspaces[g] \in Workspaces /\ (workspaces[g].package => g \in roots)
    <2>1. CASE g \in Roots /\ Loaded(g)
        <3>1. disk[g].files \in SUBSET Docs
            BY <1>1, <2>1, EditorAssumption DEF Ground
        <3>2. [d \in disk[g].files |-> 0] \in [disk[g].files -> Nat]
            OBVIOUS
        <3>3. [d \in disk[g].files |-> 0] \in Views
            BY <3>1, <3>2, ViewsHave
        <3>4. workspaces[g] = [present |-> TRUE, package |-> TRUE,
                               files |-> [d \in disk[g].files |-> 0]]
            BY <1>3, <2>1 DEF Init
        <3> QED
            BY <1>1, <2>1, <3>3, <3>4 DEF Workspaces, Loaded
    <2>2. CASE ~(g \in Roots /\ Loaded(g))
        BY <1>3, <2>2, ViewsHave DEF Init, NoWorkspace, Workspaces
    <2> QED
        BY <2>1, <2>2
<1>4. workspaces \in [Groups -> Workspaces]
    <2>1. workspaces = [g \in Groups |-> workspaces[g]]
        BY DEF Init
    <2> QED
        BY <1>3, <2>1
<1>5. ASSUME NEW g \in Groups PROVE Apt(workspaces[g], g)
    <2>1. workspaces[g].package \/ DOMAIN workspaces[g].files = {}
        BY ViewsHave DEF Init, NoWorkspace
    <2>2. OpenIn(g) = {}
        BY <1>2
    <2> QED
        BY <2>1, <2>2 DEF Apt
<1>6. Cleared \in Panels
    BY ViewsHave DEF Cleared, Panels
<1>7. shown \in [Docs -> Panels] /\ \A d \in Docs : documents[d] = 0 /\ shown[d] = Cleared
    BY <1>6 DEF Init
<1> QED
    BY <1>3, <1>4, <1>5, <1>7 DEF Display, Accepted, View

\* The invariant holds at the start.
LEMMA InitInv ==
    ASSUME Init
    PROVE  Inv
<1>1. /\ session \in Sessions /\ session.roots \subseteq Roots
      /\ sent \in Seq(Mail) /\ Len(sent) \in Nat
    BY InitOpens, LenProperties
<1>2. History
    BY InitOpens DEF History, Ordered
<1>3. Ground /\ version \in Nat
    BY InitGround
<1>4. Turn
    <2>1. At(0) = [texts |-> documents, roots |-> roots]
        BY DEF At, Init
    <2>2. buffered = <<>> /\ Len(buffered) = 0 /\ buffered \in Seq(Nat) /\ taken = 0
        BY EmptySeq DEF Init
    <2>3. At(taken) = Before(Len(buffered) + 1)
        BY <2>1, <2>2 DEF Before, Current
    <2>4. taken \in 0..Len(sent)
        BY <1>1, <2>2
    <2>5. documents \in [Docs -> Nat] /\ \A d \in Docs : documents[d] <= taken
        BY <2>2 DEF Init
    <2>6. inputClosed = FALSE /\ closed = FALSE
        BY DEF Init
    <2>7. \A i \in 1..Len(buffered) : FALSE
        BY <2>2
    <2> QED
        BY <2>2, <2>3, <2>4, <2>5, <2>6, <2>7 DEF Turn
<1>5. Engaged
    BY DEF Engaged, Busy, Stages, Init, Idle
<1>6. Answered
    BY EmptySeq DEF Answered, Told, Init
<1>7. Plan
    <2>1. wake = FALSE /\ cancelled = {} /\ pending = [g \in Groups |-> 0]
        BY DEF Init
    <2>2. \A g \in Groups : pending[g] = 0 /\ pending[g] <= version
        BY <1>3, <2>1
    <2>3. pending \in [Groups -> Nat] /\ cancelled \subseteq 1..version
        BY <2>1
    <2> QED
        BY <1>3, <2>1, <2>2, <2>3 DEF Plan
<1>8. completed = <<>> /\ Len(completed) = 0 /\ completed \in Seq(Results)
    BY EmptySeq DEF Init
<1>9. Pool
    <2>1. worker \in Crews /\ worker.batch = {} /\ worker.stage = "waiting"
        BY ViewsHave DEF Crews, Init
    <2>2. queued \in [Groups -> Jobs \cup {NoJob}] /\ \A g \in Groups : queued[g] = NoJob
        BY DEF Init
    <2> QED
        BY <1>8, <2>1, <2>2 DEF Pool
<1>10. Fitting
    BY <1>8 DEF Fitting, Init
<1>11. Served
    BY EmptySeq DEF Served, Init
<1> QED
    BY <1>2, <1>3, <1>4, <1>5, <1>6, <1>7, <1>9, <1>10, <1>11, InitDisplay
       DEF Inv, Display

-----------------------------------------------------------------------------
(* What the editor does                                                     *)

\* Kept messages are among those taken, and those among the sent.
LEMMA Numbers ==
    ASSUME History, Turn
    PROVE  /\ sent \in Seq(Mail) /\ Len(sent) \in Nat /\ Len(buffered) \in Nat
           /\ taken \in Nat /\ taken <= Len(sent) /\ taken \in 0..Len(sent)
           /\ \A i \in 1..Len(buffered) : /\ buffered[i] \in Nat /\ buffered[i] \in 1..taken
                                          /\ buffered[i] \in 1..Len(sent)
                                          /\ buffered[i] \in 0..Len(sent)
                                          /\ buffered[i] - 1 \in 0..Len(sent)
           /\ \A k \in 1..taken : k \in 1..Len(sent) /\ k \in 0..Len(sent) /\ k \in Nat
<1>1. /\ sent \in Seq(Mail) /\ Len(sent) \in Nat /\ buffered \in Seq(Nat)
      /\ Len(buffered) \in Nat
    BY LenProperties DEF History, Turn
<1>2. taken \in 0..Len(sent) /\ \A i \in 1..Len(buffered) : buffered[i] \in 1..taken
    BY DEF Turn
<1>3. /\ taken \in Nat /\ taken <= Len(sent)
      /\ \A k \in 1..taken : k \in 1..Len(sent) /\ k \in 0..Len(sent) /\ k - 1 \in 0..Len(sent)
                             /\ k \in Nat
    BY <1>1, <1>2
<1> QED
    BY <1>1, <1>2, <1>3

\* The messages sent are of a session after the next one too: the editor
\* changes what it believes as it says, and says nothing after exit.
LEMMA SendHistory ==
    ASSUME History, NEW m \in session.vocabulary, Send(m)
    PROVE  History'
<1>1. PICK n \in Nat, x \in Mail : n = Len(sent) /\ x = Stamped(sent, m)
    BY SendAdds
<1>2. /\ sent' \in Seq(Mail) /\ Len(sent') = n + 1 /\ n \in Nat /\ n + 1 <= session.messages
      /\ \A k \in 1..n : sent'[k] = sent[k]
      /\ \A k \in 0..n : At(k)' = At(k)
      /\ sent'[n + 1] = x /\ Believed(sent) = At(n)
      /\ \A d \in Docs : At(n).texts[d] \in 0..n
    BY <1>1, SendAdds
<1>3. session' = session /\ session \in Sessions
    BY DEF Send, History
<1>4. ASSUME NEW k \in 1..n PROVE Sound(k)'
    <2>1. k - 1 \in 0..n
        BY <1>2, <1>4
    <2>2. Sound(k) /\ sent'[k] = sent[k] /\ At(k - 1)' = At(k - 1)
        BY <1>1, <1>2, <1>4, <2>1 DEF History
    <2> QED
        BY <2>2 DEF Sound
<1>5. Sound(n + 1)'
    <2>1. (n + 1) - 1 = n /\ n \in 0..n
        BY <1>2
    <2>2. At((n + 1) - 1)' = At(n)
        BY <1>2, <2>1
    <2>3. /\ x.kind = m.kind /\ x.doc = m.doc /\ x.roots = m.roots
          /\ \A d \in Docs : x.after.texts[d] = IF d = m.doc
                                                THEN TextAfter(m, n + 1, At(n).texts[d])
                                                ELSE At(n).texts[d]
          /\ x.after.roots = IF m.kind = "folders" THEN m.roots ELSE At(n).roots
        BY <1>1, <1>2 DEF Stamped
    <2>4. \A k, t : TextAfter(x, k, t) = TextAfter(m, k, t)
        BY <2>3 DEF TextAfter
    <2>5. \A d \in Docs : At(n).texts[d] \in 0..(n + 1) /\ n + 1 \in 0..(n + 1) /\ 0 \in 0..(n + 1)
        BY <1>2
    <2>6. \A d \in Docs : TextAfter(m, n + 1, At(n).texts[d]) \in 0..(n + 1)
        BY <2>5 DEF TextAfter
    <2>7. \A d \in Docs : x.after.texts[d] \in 0..(n + 1)
        BY <2>3, <2>5, <2>6
    <2> QED
        BY <1>2, <2>2, <2>3, <2>4, <2>7 DEF Sound
<1>6. \A k \in 1..(n + 1) : k \in 1..n \/ k = n + 1
    BY <1>2
<1>7. \A k \in 1..Len(sent') : Sound(k)'
    BY <1>2, <1>4, <1>5, <1>6
<1>8. ASSUME NEW j \in 1..(n + 1), NEW k \in 1..(n + 1), j < k PROVE Ordered(j, k)'
    <2>1. j \in 1..n
        BY <1>2, <1>8
    <2>2. CASE k \in 1..n
        BY <1>1, <1>2, <1>8, <2>1, <2>2 DEF History, Ordered
    <2>3. CASE k = n + 1
        <3>1. DOMAIN sent = 1..n /\ MaySend(m)
            BY <1>1, LenProperties DEF History, Send
        <3>2. sent[j].kind # "exit" /\ (sent[j].kind = "shutdown" => m.kind = "exit")
            BY <2>1, <3>1 DEF MaySend, Says
        <3>3. x.kind = m.kind
            BY <1>1 DEF Stamped
        <3> QED
            BY <1>2, <2>1, <2>3, <3>2, <3>3 DEF Ordered
    <2> QED
        BY <1>6, <2>2, <2>3
<1>9. \A j, k \in 1..Len(sent') : j < k => Ordered(j, k)'
    BY <1>2, <1>8
<1> QED
    BY <1>2, <1>3, <1>7, <1>9 DEF History

\* What has been done stands when another message is sent.
LEMMA SendInv ==
    ASSUME Inv, NEW m \in session.vocabulary, Send(m)
    PROVE  Inv'
<1> DEFINE n == Len(sent)
<1>1. /\ Len(sent') = n + 1 /\ n \in Nat
      /\ \A k \in 1..n : sent'[k] = sent[k]
      /\ \A k \in 0..n : At(k)' = At(k)
    BY SendAdds DEF Inv
<1>2. UNCHANGED <<session, closed, input, stage, texts, accepted, schedule, worker, completed,
                  output, ground>> /\ ~closed
    BY DEF Send
<1>3. /\ taken \in Nat /\ taken <= n /\ Len(buffered) \in Nat
      /\ \A i \in 1..Len(buffered) : /\ buffered[i] \in 0..n /\ buffered[i] \in 1..n
                                     /\ buffered[i] - 1 \in 0..n
      /\ \A k \in 1..taken : k \in 1..n /\ k \in 0..n
    BY Numbers DEF Inv
<1>4. UNCHANGED <<taken, buffered, inputClosed, documents, roots, watching, stage, answers>>
    BY <1>2 DEF input, texts, output
<1>5. Turn'
    <2>1. Turn
        BY DEF Inv
    <2>2. \A i \in 1..(Len(buffered) + 1) : i # 1 => i - 1 \in 1..Len(buffered)
        BY <1>3
    <2>3. Current' = Current
        BY <1>4 DEF Current
    <2>4. \A i \in 1..(Len(buffered) + 1) : Before(i)' = Before(i)
        BY <1>1, <1>3, <1>4, <2>2, <2>3 DEF Before
    <2>5. \A i \in 1..Len(buffered) : At(buffered[i] - 1)' = At(buffered[i] - 1)
                                      /\ i \in 1..(Len(buffered) + 1)
        BY <1>1, <1>3, <1>4
    <2>6. \A i \in 1..Len(buffered') : (At(buffered[i] - 1) = Before(i))'
        BY <1>4, <2>1, <2>4, <2>5 DEF Turn
    <2>7. Len(buffered) + 1 \in 1..(Len(buffered) + 1) /\ taken \in 0..n
        BY <1>3
    <2>8. (At(taken) = Before(Len(buffered) + 1))'
        BY <1>1, <1>4, <2>1, <2>4, <2>7 DEF Turn
    <2>9. taken' \in 0..Len(sent')
        BY <1>1, <1>3, <1>4
    <2> QED
        BY <1>2, <1>4, <2>1, <2>6, <2>8, <2>9 DEF Turn
<1>6. Engaged'
    <2>1. Engaged
        BY DEF Inv
    <2>2. Current' = Current /\ (Busy' <=> Busy)
        BY <1>4 DEF Current, Busy
    <2>3. Busy => /\ stage.message \in 0..n /\ At(stage.message)' = At(stage.message)
                  /\ sent'[stage.message] = sent[stage.message]
        BY <1>1, <1>3, <1>4, <2>1 DEF Engaged
    <2>4. \A k \in 1..taken : sent'[k] = sent[k]
        BY <1>1, <1>3
    <2> QED
        BY <1>4, <2>1, <2>2, <2>3, <2>4 DEF Engaged, Busy
<1>7. Answered'
    <2>1. Answered /\ \A k \in 1..taken : sent'[k] = sent[k]
        BY <1>1, <1>3 DEF Inv
    <2>2. \A k \in 1..taken : IsAsked(k)' <=> IsAsked(k)
        BY <2>1 DEF IsAsked
    <2> QED
        BY <1>4, <2>1, <2>2 DEF Answered, Told, Kept, Busy, Running
<1>8. Served'
    <2>1. \A i \in 1..Len(answers) : answers[i].id \in 1..taken
        BY DEF Inv, Answered, Told
    <2>2. \A i \in 1..Len(answers) : sent'[answers[i].id] = sent[answers[i].id]
        BY <1>1, <1>3, <2>1
    <2> QED
        BY <1>4, <2>2 DEF Inv, Served
<1>9. Analyses' /\ Display' /\ Ground'
    BY <1>2, AnalysesFrame, DisplayFrame, GroundFrame
       DEF Inv, Analyses, Display, schedule, texts, accepted, output
<1> QED
    BY <1>5, <1>6, <1>7, <1>8, <1>9, SendHistory DEF Inv, Analyses, Display

\* Closing the connection changes nothing that was received.
LEMMA CloseInv ==
    ASSUME Inv, Close
    PROVE  Inv'
<1>1. closed' = TRUE /\ UNCHANGED <<session, sent, input, stage, texts, accepted, schedule,
                                    worker, completed, output, ground>>
    BY DEF Close
<1>2. UNCHANGED <<taken, buffered, inputClosed, documents, roots, watching, answers, shown,
                  projects, workspaces, pending, version, cancelled, queued, wake>>
    BY <1>1 DEF input, texts, accepted, schedule, output
<1>3. Turn'
    BY <1>1, <1>2 DEF Inv, Turn, Before, Current, At
<1>4. History' /\ Ground' /\ Engaged' /\ Answered' /\ Served'
    BY <1>1, <1>2, HistoryFrame, GroundFrame, EngagedFrame, AnsweredFrame, ServedFrame DEF Inv
<1>5. Analyses' /\ Display'
    BY <1>1, <1>2, AnalysesFrame, DisplayFrame DEF Inv, Analyses, Display
<1> QED
    BY <1>3, <1>4, <1>5 DEF Inv, Analyses, Display

\* Folders stay folders when someone writes to them.
LEMMA ChangeDiskInv ==
    ASSUME Inv, NEW r \in Roots, ChangeDisk(r)
    PROVE  Inv'
<1>1. UNCHANGED <<editor, input, stage, texts, accepted, schedule, worker, completed, output>>
    BY DEF ChangeDisk
<1>2. UNCHANGED <<session, sent, closed, taken, buffered, inputClosed, documents, roots,
                  watching, answers, shown, projects, workspaces, pending, version, cancelled,
                  queued, wake>>
    BY <1>1 DEF editor, input, texts, accepted, schedule, output
<1>3. Ground'
    <2>1. session.writes \subseteq Disks
        BY EditorAssumption DEF Inv, History
    <2>2. disk' \in [Roots -> Disks] /\ diskChanges' \in Nat
        BY <2>1 DEF Inv, Ground, ChangeDisk
    <2> QED
        BY <1>2, <2>2 DEF Inv, Ground
<1>4. History' /\ Turn' /\ Engaged' /\ Answered' /\ Served'
    BY <1>1, <1>2, HistoryFrame, TurnFrame, EngagedFrame, AnsweredFrame, ServedFrame DEF Inv
<1>5. Analyses' /\ Display'
    BY <1>1, <1>2, AnalysesFrame, DisplayFrame DEF Inv, Analyses, Display
<1> QED
    BY <1>3, <1>4, <1>5 DEF Inv, Analyses, Display

-----------------------------------------------------------------------------
(* What the worker does                                                     *)

\* The worker has nothing but the analyses.
LEMMA WorkKeeps ==
    ASSUME Inv, UNCHANGED <<editor, input, stage, texts, accepted, output, ground, pending>>,
           Analyses'
    PROVE  Inv'
<1>1. UNCHANGED <<session, sent, closed, taken, buffered, inputClosed, documents, roots,
                  watching, answers, shown, projects, workspaces>>
    BY DEF editor, input, texts, accepted, output
<1>2. History' /\ Ground' /\ Turn' /\ Engaged' /\ Answered' /\ Served' /\ Display'
    BY <1>1, HistoryFrame, GroundFrame, TurnFrame, EngagedFrame, AnsweredFrame, ServedFrame,
       DisplayFrame DEF Inv, Display
<1> QED
    BY <1>2 DEF Inv, Analyses, Display

\* The job at hand is one of the batch.
LEMMA JobIn ==
    ASSUME Pool, worker.stage \in {"analyzing", "read", "plain"}
    PROVE  /\ Job \in worker.batch /\ Job \in Jobs /\ Issued(Job)
           /\ Job.group \in Groups /\ Job.version \in Nat /\ Job.documents \in Views
           /\ Job.project \in Projects /\ worker.found \in Views
           /\ worker.batch \in SUBSET Jobs
<1>1. worker.batch \in SUBSET Jobs /\ worker.batch # {} /\ worker.found \in Views
    BY DEF Pool, Crews
<1>2. \A j \in worker.batch : j.group \in Groups
    BY <1>1 DEF Jobs
<1>3. Job \in worker.batch
    BY <1>1, <1>2, FirstJobIn DEF Job
<1>4. Job \in Jobs /\ Issued(Job)
    BY <1>1, <1>3 DEF Pool
<1> QED
    BY <1>1, <1>3, <1>4 DEF Jobs

\* A result of a job that is still awaited is of the group's texts.
LEMMA DeliverKeeps ==
    ASSUME Analyses, worker.stage \in {"analyzing", "read", "plain"},
           NEW called \in BOOLEAN, NEW workspace \in Workspaces,
           called => CalledOff,
           ~called /\ Awaits(Job) => /\ Apt(workspace, Job.group)
                                     /\ workspace.package => Indexed(Job.group),
           Deliver(called, workspace),
           UNCHANGED <<documents, roots, projects>>
    PROVE  Analyses'
<1> DEFINE c == [group |-> Job.group, version |-> Job.version,
                 called |-> called, workspace |-> workspace]
           n == Len(completed)
<1>1. /\ Job \in worker.batch /\ Job \in Jobs /\ Issued(Job) /\ Job.group \in Groups
      /\ Job.version \in Nat /\ worker.batch \in SUBSET Jobs
    BY JobIn DEF Analyses
<1>2. Pool /\ Plan /\ Fitting /\ completed \in Seq(Results) /\ n \in Nat
    BY LenProperties DEF Analyses, Pool
<1>3. c \in Results
    BY <1>1 DEF Results
<1>4. /\ completed' = Append(completed, c)
      /\ worker' = [stage |-> IF worker.batch = {Job} THEN "waiting" ELSE "analyzing",
                    batch |-> worker.batch \ {Job}, pass |-> 1, found |-> Nothing]
      /\ UNCHANGED <<pending, version, cancelled, queued, wake>>
    BY DEF Deliver, schedule
<1>5. /\ completed' \in Seq(Results) /\ Len(completed') = n + 1
      /\ \A i \in 1..n : completed'[i] = completed[i]
      /\ completed'[n + 1] = c
    BY <1>2, <1>3, <1>4, AppendProperties
<1>6. \A i \in 1..(n + 1) : i \in 1..n \/ i = n + 1
    BY <1>2
<1>7. /\ worker'.batch = worker.batch \ {Job} /\ worker'.stage \in {"waiting", "analyzing"}
      /\ worker'.stage = "analyzing" <=> worker'.batch # {}
    BY <1>1, <1>4
<1>8. worker' \in Crews
    BY <1>1, <1>4, ViewsHave DEF Crews
<1>9. Plan'
    BY <1>2, <1>4, PlanFrame
<1>10. Pool'
    <2>1. Job.version \in 1..version /\ (called => Job.version \in cancelled)
        BY <1>1 DEF Issued, CalledOff
    <2>2. \A i \in 1..n : /\ completed[i].version \in 1..version
                          /\ completed[i].called => completed[i].version \in cancelled
        BY <1>2 DEF Pool
    <2> HIDE DEF n
    <2>3. \A i \in 1..(n + 1) : /\ completed'[i].version \in 1..version
                                /\ completed'[i].called => completed'[i].version \in cancelled
        BY <1>5, <1>6, <2>1, <2>2
    <2>4. \A j \in worker'.batch : j \in worker.batch
        BY <1>7
    <2> QED
        BY <1>2, <1>4, <1>5, <1>7, <1>8, <2>3, <2>4 DEF Pool, Issued
<1>11. Fitting'
    <2>1. \A j : ApplyTo(j)' <=> ApplyTo(j)
        BY DEF ApplyTo, OpenIn, Indexed
    <2>2. \A w, g : Apt(w, g)' <=> Apt(w, g)
        BY DEF Apt, OpenIn
    <2>3. \A g : Indexed(g)' <=> Indexed(g)
        BY DEF Indexed
    <2>4. \A j : Awaits(j)' <=> Awaits(j)
        BY <1>4 DEF Awaits
    <2>5. \A g \in Groups : queued'[g] # NoJob /\ Awaits(queued'[g]) => ApplyTo(queued'[g])
        BY <1>2, <1>4 DEF Fitting
    <2>6. \A j \in worker'.batch : Awaits(j) => ApplyTo(j)
        BY <1>2, <1>7 DEF Fitting
    <2>7. \A i \in 1..n : Awaits(completed[i]) /\ ~completed[i].called =>
              /\ Apt(completed[i].workspace, completed[i].group)
              /\ completed[i].workspace.package => Indexed(completed[i].group)
        BY <1>2 DEF Fitting
    <2>8. Awaits(c) /\ ~c.called =>
              Apt(c.workspace, c.group) /\ (c.workspace.package => Indexed(c.group))
        BY DEF Awaits
    <2> HIDE DEF n, c
    <2>9. \A i \in 1..Len(completed') : Awaits(completed'[i]) /\ ~completed'[i].called =>
              /\ Apt(completed'[i].workspace, completed'[i].group)
              /\ completed'[i].workspace.package => Indexed(completed'[i].group)
        BY <1>5, <1>6, <2>7, <2>8
    <2> QED
        BY <2>1, <2>2, <2>3, <2>4, <2>5, <2>6, <2>9 DEF Fitting
<1> QED
    BY <1>9, <1>10, <1>11 DEF Analyses

\* While the worker wakes up or dies, the analyses are those that were.
LEMMA WakeOrDie ==
    ASSUME Inv, Wake \/ Die, UNCHANGED texts, UNCHANGED accepted
    PROVE  Analyses' /\ pending' = pending
<1>1. /\ Plan /\ Pool /\ Fitting
      /\ UNCHANGED <<pending, version, cancelled, queued, completed, documents, roots, projects>>
    BY DEF Inv, Wake, Die, texts, accepted, schedule
<1>2. /\ worker \in Crews /\ (worker'.batch = worker.batch \/ worker'.batch = {})
      /\ worker' \in Crews /\ wake' \in BOOLEAN
      /\ worker'.stage \in {"woken", "dead"} /\ worker'.batch = {}
    BY <1>1 DEF Pool, Plan, Crews, Wake, Die, schedule
<1>3. Plan'
    BY <1>1, <1>2 DEF Plan
<1>4. Pool'
    BY <1>1, <1>2 DEF Pool, Issued
<1>5. Fitting'
    BY <1>1, <1>2 DEF Fitting, Awaits, ApplyTo, Apt, OpenIn, Indexed
<1> QED
    BY <1>1, <1>3, <1>4, <1>5 DEF Analyses

\* The jobs of a batch are those that were queued.
LEMMA TakeJobsKeeps ==
    ASSUME Inv, TakeJobs, UNCHANGED texts, UNCHANGED accepted
    PROVE  Analyses' /\ pending' = pending
<1>1. /\ Plan /\ Pool /\ Fitting
      /\ UNCHANGED <<pending, version, cancelled, wake, completed, documents, roots, projects>>
    BY DEF Inv, TakeJobs, texts, accepted
<1>2. /\ worker' = [worker EXCEPT !.batch = QueuedJobs, !.pass = 1,
                            !.stage = IF QueuedJobs = {} THEN "waiting" ELSE "analyzing"]
      /\ queued' = [g \in Groups |-> NoJob]
    BY DEF TakeJobs
<1>3. \A j \in QueuedJobs : \E g \in Groups : j = queued[g] /\ queued[g] # NoJob
    BY DEF QueuedJobs
<1>4. QueuedJobs \in SUBSET Jobs /\ \A j \in QueuedJobs : Issued(j)
    BY <1>1, <1>3 DEF Pool
<1>5. /\ worker' \in Crews /\ worker'.batch = QueuedJobs /\ worker'.stage # "read"
      /\ worker'.stage \in {"analyzing", "read", "plain"} <=> worker'.batch # {}
    BY <1>1, <1>2, <1>4 DEF Pool, Crews
<1>6. \A j \in QueuedJobs : Awaits(j) => ApplyTo(j)
    BY <1>1, <1>3 DEF Fitting
<1>7. Plan'
    BY <1>1, PlanFrame
<1>8. Pool'
    BY <1>1, <1>2, <1>4, <1>5 DEF Pool, Issued
<1>9. Fitting'
    <2>1. \A j : (ApplyTo(j)' <=> ApplyTo(j)) /\ (Awaits(j)' <=> Awaits(j))
        BY <1>1 DEF ApplyTo, OpenIn, Indexed, Awaits
    <2>2. \A w, g : (Apt(w, g)' <=> Apt(w, g)) /\ (Indexed(g)' <=> Indexed(g))
        BY <1>1 DEF Apt, OpenIn, Indexed
    <2>3. \A g \in Groups : queued'[g] = NoJob
        BY <1>2
    <2> QED
        BY <1>1, <1>5, <1>6, <2>1, <2>2, <2>3 DEF Fitting
<1> QED
    BY <1>1, <1>7, <1>8, <1>9 DEF Analyses

\* Reading a package takes nothing from the jobs.
LEMMA ReadPackageKeeps ==
    ASSUME Inv, ReadPackage, UNCHANGED texts, UNCHANGED accepted
    PROVE  Analyses' /\ pending' = pending
<1> DEFINE there == disk[Job.group].files
           known == Job.project.paths \cap DOMAIN Job.documents
           found == [d \in there |-> IF d \in known THEN Job.documents[d] ELSE 0]
<1>1. /\ Plan /\ Pool /\ Fitting /\ Ground
      /\ UNCHANGED <<pending, version, cancelled, queued, wake, completed, documents, roots,
                     projects>>
      /\ worker.stage = "analyzing" /\ Job.project.indexed
    BY DEF Inv, ReadPackage, texts, accepted, schedule
<1>2. /\ Job \in worker.batch /\ Issued(Job) /\ Job.documents \in Views
    BY <1>1, JobIn
<1>3. Job.group \in Roots
    BY <1>1, <1>2 DEF Issued
<1>4. there \in SUBSET Docs
    BY <1>1, <1>3, EditorAssumption DEF Ground
<1>5. \A d \in known : Job.documents[d] \in Nat
    BY <1>2, ViewsHave
<1>6. found \in [there -> Nat]
    BY <1>5
<1>7. found \in Views
    BY <1>4, <1>6, ViewsHave
<1> HIDE DEF known
<1>8. \/ worker' = [worker EXCEPT !.stage = "read", !.found = found]
      \/ worker' = [worker EXCEPT !.stage = "plain"]
    BY DEF ReadPackage, known
<1> HIDE DEF found
<1>9. /\ worker' \in Crews /\ worker'.batch = worker.batch /\ worker'.stage \in {"read", "plain"}
    BY <1>1, <1>7, <1>8 DEF Pool, Crews
<1>10. Job' = Job
    BY <1>9 DEF Job, FirstJob
<1>11. Plan'
    BY <1>1, PlanFrame
<1>12. Pool'
    BY <1>1, <1>2, <1>9, <1>10 DEF Pool, Issued
<1>13. Fitting'
    <2>1. \A j : (ApplyTo(j)' <=> ApplyTo(j)) /\ (Awaits(j)' <=> Awaits(j))
        BY <1>1 DEF ApplyTo, OpenIn, Indexed, Awaits
    <2>2. \A w, g : (Apt(w, g)' <=> Apt(w, g)) /\ (Indexed(g)' <=> Indexed(g))
        BY <1>1 DEF Apt, OpenIn, Indexed
    <2> QED
        BY <1>1, <1>9, <2>1, <2>2 DEF Fitting
<1> QED
    BY <1>1, <1>11, <1>12, <1>13 DEF Analyses

\* A package in which no open text was missed has the group's texts.
LEMMA UsePackageKeeps ==
    ASSUME Inv, UsePackage, UNCHANGED texts, UNCHANGED accepted
    PROVE  Analyses' /\ pending' = pending
<1> DEFINE w == [present |-> TRUE, package |-> TRUE, files |-> worker.found]
           again == [Job EXCEPT !.project.paths = DOMAIN worker.found]
<1>1. /\ Plan /\ Pool /\ Fitting /\ Analyses /\ UNCHANGED <<documents, roots, projects>>
      /\ worker.stage = "read" /\ Job.project.indexed
    BY DEF Inv, Analyses, UsePackage, texts, accepted, Pool
<1>2. /\ Job \in worker.batch /\ Job \in Jobs /\ Issued(Job) /\ Job.documents \in Views
      /\ Job.project \in Projects /\ worker.found \in Views /\ worker.batch \in SUBSET Jobs
      /\ Job.group \in Groups /\ Job.version \in Nat
    BY <1>1, JobIn
<1>3. Awaits(Job) => ApplyTo(Job)
    BY <1>1, <1>2 DEF Fitting
<1>4. CASE ~Missed
    <2>1. w \in Workspaces
        BY <1>2 DEF Workspaces
    <2>2. Deliver(FALSE, w)
        BY <1>4 DEF UsePackage
    <2>3. ASSUME Awaits(Job) PROVE Apt(w, Job.group) /\ (w.package => Indexed(Job.group))
        <3>1. ApplyTo(Job)
            BY <1>3, <2>3
        <3>2. /\ DOMAIN Job.documents = OpenIn(Job.group)
              /\ \A d \in OpenIn(Job.group) : Job.documents[d] = documents[d]
            BY <3>1 DEF ApplyTo
        <3>3. \A d \in OpenIn(Job.group) : d \in DOMAIN worker.found =>
                  worker.found[d] = documents[d]
            BY <1>4, <3>2 DEF Missed
        <3> QED
            BY <1>1, <3>1, <3>3 DEF Apt, ApplyTo
    <2>4. Analyses'
        BY <1>1, <2>1, <2>2, <2>3, DeliverKeeps
    <2>5. pending' = pending
        BY <2>2 DEF Deliver, schedule
    <2> QED
        BY <2>4, <2>5
<1>5. CASE Missed
    <2>1. /\ UNCHANGED <<pending, version, cancelled, queued, wake, completed>>
          /\ worker' = [worker EXCEPT
                  !.stage = IF worker.pass = 2 THEN "plain" ELSE "analyzing",
                  !.pass = 2,
                  !.batch = (@ \ {Job}) \cup {again}]
        BY <1>5 DEF UsePackage, schedule
    <2>2. DOMAIN worker.found \in SUBSET Docs
        BY <1>2, ViewsHave
    <2>3. /\ again.group = Job.group /\ again.version = Job.version
          /\ again.documents = Job.documents /\ again.project.indexed = Job.project.indexed
          /\ again \in Jobs
        <3>1. Job.project \in [indexed : BOOLEAN, paths : SUBSET Docs]
            BY <1>2 DEF Projects
        <3>2. /\ [Job.project EXCEPT !.paths = DOMAIN worker.found] \in Projects
              /\ [Job.project EXCEPT !.paths = DOMAIN worker.found].indexed
                     = Job.project.indexed
            BY <2>2, <3>1 DEF Projects
        <3> QED
            BY <1>2, <3>2 DEF Jobs
    <2> HIDE DEF again
    <2>4. Issued(again)
        BY <1>2, <2>3 DEF Issued
    <2>5. /\ worker'.batch = (worker.batch \ {Job}) \cup {again}
          /\ worker'.stage \in {"plain", "analyzing"} /\ worker' \in Crews
        BY <1>1, <1>2, <2>1, <2>3 DEF Pool, Crews
    <2>6. Awaits(again) => ApplyTo(again)
        BY <1>3, <2>3 DEF Awaits, ApplyTo
    <2>7. Plan'
        BY <1>1, <2>1, PlanFrame
    <2>8. Pool'
        BY <1>1, <2>1, <2>4, <2>5 DEF Pool, Issued
    <2>9. Fitting'
        <3>1. \A j : (ApplyTo(j)' <=> ApplyTo(j)) /\ (Awaits(j)' <=> Awaits(j))
            BY <1>1, <2>1 DEF ApplyTo, OpenIn, Indexed, Awaits
        <3>2. \A v, g : (Apt(v, g)' <=> Apt(v, g)) /\ (Indexed(g)' <=> Indexed(g))
            BY <1>1 DEF Apt, OpenIn, Indexed
        <3> QED
            BY <1>1, <2>1, <2>5, <2>6, <3>1, <3>2 DEF Fitting
    <2> QED
        BY <2>1, <2>7, <2>8, <2>9 DEF Analyses
<1> QED
    BY <1>4, <1>5

\* An analysis without a package is of the open texts; one called off is of none.
LEMMA PlainKeeps ==
    ASSUME Inv, AnalyzePlain \/ AbandonJob, UNCHANGED texts, UNCHANGED accepted
    PROVE  Analyses' /\ pending' = pending
<1> DEFINE units == {d \in DOMAIN Job.documents : IsModule(d, Job.group)}
           open == [present |-> TRUE, package |-> FALSE, files |-> Restrict(Job.documents, units)]
<1>1. /\ Pool /\ Fitting /\ Analyses /\ UNCHANGED <<documents, roots, projects>>
      /\ worker.stage \in {"analyzing", "read", "plain"}
    BY DEF Inv, Analyses, AnalyzePlain, AbandonJob, texts, accepted
<1>2. Job \in worker.batch /\ Job.documents \in Views
    BY <1>1, JobIn
<1>3. open \in Workspaces /\ NoWorkspace \in Workspaces
    <2>1. PICK S \in SUBSET Docs : Job.documents \in [S -> Nat]
        BY <1>2 DEF Views
    <2>2. Restrict(Job.documents, units) \in [units -> Nat] /\ units \in SUBSET Docs
        BY <2>1 DEF Restrict
    <2>3. Restrict(Job.documents, units) \in Views
        BY <2>2, ViewsHave
    <2> QED
        BY <2>3, ViewsHave DEF Workspaces, NoWorkspace
<1>4. CASE AbandonJob
    <2>1. Deliver(TRUE, NoWorkspace) /\ CalledOff
        BY <1>4 DEF AbandonJob
    <2>2. Analyses'
        BY <1>1, <1>3, <2>1, DeliverKeeps
    <2> QED
        BY <2>1, <2>2 DEF Deliver, schedule
<1>5. CASE AnalyzePlain
    <2> DEFINE w == IF units = {} THEN NoWorkspace ELSE open
    <2>1. Deliver(FALSE, w) /\ w \in Workspaces
        BY <1>3, <1>5 DEF AnalyzePlain
    <2>2. ASSUME Awaits(Job) PROVE Apt(w, Job.group) /\ (w.package => Indexed(Job.group))
        <3>1. ApplyTo(Job)
            BY <1>1, <1>2, <2>2 DEF Fitting
        <3>2. /\ DOMAIN Job.documents = OpenIn(Job.group)
              /\ \A d \in OpenIn(Job.group) : Job.documents[d] = documents[d]
            BY <3>1 DEF ApplyTo
        <3>3. units = {e \in OpenIn(Job.group) : IsModule(e, Job.group)}
            BY <3>2
        <3>4. DOMAIN w.files = units /\ ~w.package
            BY ViewsHave DEF NoWorkspace, Restrict
        <3>5. \A e \in units : w.files[e] = documents[e]
            BY <3>2, <3>3 DEF Restrict
        <3> HIDE DEF w, units
        <3> QED
            BY <3>3, <3>4, <3>5 DEF Apt
    <2> HIDE DEF w
    <2>3. Analyses'
        BY <1>1, <2>1, <2>2, DeliverKeeps
    <2> QED
        BY <2>1, <2>3 DEF Deliver, schedule
<1> QED
    BY <1>4, <1>5

\* The worker keeps the invariant.
LEMMA WorkerInv ==
    ASSUME Inv, Worker(Work) \/ Worker(Die)
    PROVE  Inv'
<1>1. UNCHANGED <<editor, input, stage, texts, accepted, output, ground>>
    BY DEF Worker
<1>2. Wake \/ TakeJobs \/ ReadPackage \/ UsePackage \/ AnalyzePlain \/ AbandonJob \/ Die
    BY DEF Worker, Work
<1>3. Analyses' /\ pending' = pending
    BY <1>1, <1>2, WakeOrDie, TakeJobsKeeps, ReadPackageKeeps, UsePackageKeeps, PlainKeeps
<1> QED
    BY <1>1, <1>3, WorkKeeps

-----------------------------------------------------------------------------
(* Scheduling                                                               *)

\* Documents change only in this group.
OnlyIn(g) == \A d \in Docs : documents'[d] # documents[d] => GroupOf(d, roots) = g

\* Only this group waits for another analysis.
WaitsAnew(g) == /\ pending'[g] # 0
                /\ \A h \in Groups : h # g => pending'[h] = pending[h]

\* Other groups have the documents they had.
LEMMA OthersSame ==
    ASSUME NEW g \in Groups, OnlyIn(g), roots' = roots, NEW h \in Groups, h # g
    PROVE  OpenIn(h)' = OpenIn(h) /\ \A d \in OpenIn(h) : documents'[d] = documents[d]
BY DEF OnlyIn, OpenIn

\* A new analysis of a group is of its documents; those of others stay what
\* they were, and earlier ones of the group are not awaited any more.
LEMMA ScheduleKeeps ==
    ASSUME Analyses, NEW g \in Groups, Schedule(g, documents', roots, projects'),
           OnlyIn(g), roots' = roots, documents' \in [Docs -> Nat],
           projects' \in [Roots -> Projects],
           \A r \in Roots : projects'[r].indexed => r \in roots,
           \A r \in roots : projects[r].indexed => projects'[r].indexed,
           UNCHANGED <<worker, completed>>
    PROVE  Analyses' /\ WaitsAnew(g)
<1>1. PICK v \in Nat : v = version
    BY DEF Analyses, Plan
<1>2. PICK open : open = [d \in OpenIn(g)' |-> documents'[d]]
    OBVIOUS
<1>3. PICK job : job = [group |-> g, version |-> v + 1, documents |-> open,
                        project |-> IF g \in Roots THEN projects'[g] ELSE NoProject]
    OBVIOUS
<1>4. /\ cancelled' = cancelled \cup ({pending[g]} \ {0})
      /\ version' = v + 1
      /\ pending' = [pending EXCEPT ![g] = v + 1]
      /\ queued' = [queued EXCEPT ![g] = job]
      /\ wake' = TRUE
    BY <1>1, <1>2, <1>3 DEF Schedule, OpenIn
<1>5. /\ pending \in [Groups -> Nat] /\ cancelled \subseteq 1..v
      /\ \A h \in Groups : pending[h] \in 0..v /\ pending[h] \notin cancelled
      /\ \A h, k \in Groups : h # k /\ pending[h] = pending[k] => pending[h] = 0
    BY <1>1 DEF Analyses, Plan
<1>6. pending'[g] = v + 1 /\ \A h \in Groups : h # g => pending'[h] = pending[h]
    BY <1>4, <1>5
<1>7. /\ v + 1 # 0 /\ v + 1 \in 1..(v + 1) /\ v + 1 \in Nat
      /\ \A n \in 0..v : n # v + 1 /\ n <= v + 1 /\ (n # 0 => n \in 1..(v + 1))
      /\ \A n \in 1..v : n # v + 1 /\ n # 0 /\ n \in 1..(v + 1)
    OBVIOUS
<1>8. WaitsAnew(g)
    BY <1>6, <1>7 DEF WaitsAnew
<1>9. Plan'
    <2>1. pending' \in [Groups -> Nat] /\ \A h \in Groups : pending'[h] <= v + 1
        BY <1>4, <1>5, <1>6, <1>7
    <2>2. cancelled' \subseteq 1..(v + 1) /\ v + 1 \notin cancelled' /\ 0 \notin cancelled'
        BY <1>4, <1>5, <1>7
    <2>3. \A h \in Groups : pending'[h] \notin cancelled'
        BY <1>4, <1>5, <1>6, <2>2
    <2>4. \A h, k \in Groups : h # k /\ pending'[h] = pending'[k] => pending'[h] = 0
        BY <1>5, <1>6, <1>7
    <2> QED
        BY <1>4, <1>7, <2>1, <2>2, <2>3, <2>4 DEF Plan
<1>10. /\ job \in Jobs /\ Issued(job)' /\ job.group = g /\ job.version = v + 1
       /\ job.documents = open /\ (job.project.indexed => Indexed(g)')
    <2>1. OpenIn(g)' \in SUBSET Docs
        BY DEF OpenIn
    <2>2. open \in [OpenIn(g)' -> Nat]
        BY <1>2, <2>1
    <2>3. open \in Views
        BY <2>1, <2>2, ViewsHave
    <2>4. NoProject \in Projects /\ ~NoProject.indexed
        BY DEF NoProject, Projects
    <2>5. job.project \in Projects /\ (job.project.indexed => g \in Roots /\ Indexed(g)')
        BY <1>3, <2>4 DEF Indexed
    <2> QED
        BY <1>3, <1>4, <1>7, <2>3, <2>5 DEF Jobs, Issued
<1>11. \A j : Issued(j) => Issued(j)'
    BY <1>1, <1>4, <1>7 DEF Issued
<1>12. Pool'
    <2>1. Pool
        BY DEF Analyses
    <2>2. \A h \in Groups : queued'[h] = IF h = g THEN job ELSE queued[h]
        BY <1>4, <2>1 DEF Pool
    <2>3. queued' \in [Groups -> Jobs \cup {NoJob}]
        BY <1>4, <1>10, <2>1 DEF Pool
    <2>4. ASSUME NEW h \in Groups, NEW j, j = queued'[h], j # NoJob
          PROVE  j.group = h /\ Issued(j)'
        <3>1. CASE h = g
            BY <1>10, <2>2, <2>4, <3>1
        <3>2. CASE h # g
            BY <1>11, <2>1, <2>2, <2>4, <3>2 DEF Pool
        <3> QED
            BY <3>1, <3>2
    <2>5. \A h \in Groups : (queued[h] # NoJob => queued[h].group = h /\ Issued(queued[h]))'
        BY <2>4
    <2>6. \A j \in worker.batch : Issued(j)'
        BY <1>11, <2>1 DEF Pool
    <2>7. \A j \in worker'.batch : Issued(j)'
        BY <2>6
    <2>8. \A i \in 1..Len(completed) : /\ completed[i].version \in 1..(v + 1)
                                       /\ completed[i].called => completed[i].version \in cancelled'
        BY <1>1, <1>4, <1>7, <2>1 DEF Pool
    <2>9. Job' = Job
        BY DEF Job, FirstJob
    <2> QED
        BY <1>4, <2>1, <2>3, <2>5, <2>7, <2>8, <2>9 DEF Pool
<1>13. Fitting'
    <2>1. Pool /\ Fitting
        BY DEF Analyses
    <2>2. ASSUME NEW j, ApplyTo(j), j.group \in Groups, j.group # g PROVE ApplyTo(j)'
        <3>1. /\ OpenIn(j.group)' = OpenIn(j.group)
              /\ \A d \in OpenIn(j.group) : documents'[d] = documents[d]
            BY <2>2, OthersSame
        <3>2. Indexed(j.group) => Indexed(j.group)'
            BY DEF Indexed
        <3> QED
            BY <2>2, <3>1, <3>2 DEF ApplyTo
    <2>3. ASSUME NEW w, NEW h \in Groups, h # g, Apt(w, h) PROVE Apt(w, h)'
        <3>1. OpenIn(h)' = OpenIn(h) /\ \A d \in OpenIn(h) : documents'[d] = documents[d]
            BY <2>3, OthersSame
        <3> QED
            BY <2>3, <3>1 DEF Apt
    <2>4. \A h \in Groups : Indexed(h) => Indexed(h)'
        BY DEF Indexed
    <2>5. ASSUME NEW j, j.group \in Groups, j.version \in 1..v, Awaits(j)'
          PROVE  Awaits(j) /\ j.group # g
        BY <1>6, <1>7, <2>5 DEF Awaits
    <2>6. ASSUME NEW h \in Groups, NEW j, j = queued'[h], j # NoJob, Awaits(j)'
          PROVE  ApplyTo(j)'
        <3>1. CASE h = g
            <4>1. j = job
                BY <1>4, <2>1, <2>6, <3>1 DEF Pool
            <4> QED
                BY <1>2, <1>10, <4>1 DEF ApplyTo
        <3>2. CASE h # g
            <4>1. j = queued[h]
                BY <1>4, <2>1, <2>6, <3>2 DEF Pool
            <4>2. j.group = h /\ j.version \in 1..v
                BY <1>1, <2>1, <2>6, <4>1 DEF Pool, Issued
            <4>3. Awaits(j)
                BY <2>5, <2>6, <4>2
            <4>4. ApplyTo(j)
                BY <2>1, <2>6, <4>1, <4>3 DEF Fitting
            <4> QED
                BY <2>2, <3>2, <4>2, <4>4
        <3> QED
            BY <3>1, <3>2
    <2>7. ASSUME NEW j \in worker.batch, Awaits(j)' PROVE ApplyTo(j)'
        <3>1. j \in Jobs /\ j.version \in 1..v
            BY <1>1, <2>1 DEF Pool, Crews, Issued
        <3>2. j.group \in Groups
            BY <3>1 DEF Jobs
        <3>3. Awaits(j) /\ j.group # g
            BY <2>5, <2>7, <3>1, <3>2
        <3> QED
            BY <2>1, <2>2, <3>2, <3>3 DEF Fitting
    <2>8. ASSUME NEW i \in 1..Len(completed), Awaits(completed[i])', ~completed[i].called
          PROVE  /\ Apt(completed[i].workspace, completed[i].group)'
                 /\ completed[i].workspace.package => Indexed(completed[i].group)'
        <3>1. PICK c : c = completed[i]
            OBVIOUS
        <3>2. c \in Results /\ c.version \in 1..v
            BY <1>1, <2>1, <3>1, ElementOfSeq DEF Pool
        <3>3. c.group \in Groups
            BY <3>2 DEF Results
        <3>4. Awaits(c)'
            BY <2>8, <3>1 DEF Awaits
        <3>5. Awaits(c) /\ c.group # g
            BY <2>5, <3>2, <3>3, <3>4
        <3>6. Apt(c.workspace, c.group) /\ (c.workspace.package => Indexed(c.group))
            BY <2>1, <2>8, <3>1, <3>5 DEF Fitting
        <3>7. Apt(c.workspace, c.group)' /\ (c.workspace.package => Indexed(c.group)')
            BY <2>3, <2>4, <3>3, <3>5, <3>6
        <3> QED
            BY <3>1, <3>7 DEF Apt, Indexed
    <2>9. \A h \in Groups : (queued[h] # NoJob /\ Awaits(queued[h]) => ApplyTo(queued[h]))'
        BY <2>6
    <2> QED
        BY <2>7, <2>8, <2>9 DEF Fitting
<1> QED
    BY <1>8, <1>9, <1>12, <1>13 DEF Analyses

\* What was accepted of the other groups, and is shown of them, is still right.
LEMMA ScheduleDisplay ==
    ASSUME Display, NEW g \in Groups, OnlyIn(g), WaitsAnew(g),
           UNCHANGED <<workspaces, roots>>, documents \in [Docs -> Nat],
           Running' => Running,
           \A h \in Groups : h # g /\ Still(h)' => Still(h),
           shown' \in [Docs -> Panels],
           \A d \in Docs : Running' /\ documents'[d] = 0 => shown'[d] = Cleared,
           \A d \in Docs : documents'[d] # 0 => shown'[d] = shown[d]
    PROVE  Display'
<1>1. Accepted /\ View
    BY DEF Display
<1>2. ~(Still(g)')
    BY DEF Still, WaitsAnew
<1>3. Accepted'
    <2>1. ASSUME Running', NEW h \in Groups, Still(h)' PROVE Apt(workspaces[h], h)'
        <3>1. h # g /\ Still(h)
            BY <1>2, <2>1
        <3>2. Apt(workspaces[h], h)
            BY <1>1, <2>1, <3>1 DEF Accepted
        <3>3. OpenIn(h)' = OpenIn(h) /\ \A d \in OpenIn(h) : documents'[d] = documents[d]
            BY <3>1, OthersSame
        <3> QED
            BY <3>2, <3>3 DEF Apt
    <2> QED
        BY <1>1, <2>1 DEF Accepted
<1>4. ASSUME Running', NEW d \in Docs, documents'[d] # 0, Still(GroupOf(d, roots))'
      PROVE  /\ shown'[d].text = documents'[d]
             /\ Faithful(shown'[d].files, shown'[d].package, d, documents', roots)
    <2> DEFINE h == GroupOf(d, roots)
    <2>1. h \in Groups /\ h # g /\ Still(h)
        BY <1>2, <1>4, GroupOfIn
    <2>2. documents'[d] = documents[d] /\ shown'[d] = shown[d]
        BY <1>4, <2>1 DEF OnlyIn
    <2>3. /\ shown[d].text = documents[d]
          /\ Faithful(shown[d].files, shown[d].package, d, documents, roots)
        BY <1>1, <1>4, <2>1, <2>2 DEF View
    <2>4. \A e \in Docs : GroupOf(e, roots) = h => documents'[e] = documents[e]
        BY <2>1 DEF OnlyIn
    <2>5. {e \in Docs : documents'[e] # 0 /\ GroupOf(e, roots) = h}
              = {e \in Docs : documents[e] # 0 /\ GroupOf(e, roots) = h}
        BY <2>4
    <2>6. Faithful(shown[d].files, shown[d].package, d, documents', roots)
        BY <2>3, <2>4, <2>5 DEF Faithful
    <2> QED
        BY <2>2, <2>3, <2>6
<1>5. View'
    BY <1>4 DEF View
<1> QED
    BY <1>3, <1>5 DEF Display

\* The server may turn to another stage while what is shown stands.
LEMMA DisplayStage ==
    ASSUME Display, UNCHANGED <<workspaces, shown, documents, roots, pending>>,
           Running' => Running, \A h \in Groups : Still(h)' => Still(h)
    PROVE  Display'
<1>1. Accepted'
    BY DEF Display, Accepted, Apt, OpenIn
<1>2. \A d \in Docs : Still(GroupOf(d, roots))' => Still(GroupOf(d, roots))
    BY GroupOfIn
<1>3. View'
    BY <1>2 DEF Display, View
<1> QED
    BY <1>1, <1>3 DEF Display

\* At a stage of no message nothing is promised but the groups to schedule.
LEMMA CalmStage ==
    ASSUME stage' \in Stages, stage'.kind \notin {"settle", "drain", "exit"},
           stage'.kind = "schedule" <=> stage'.groups # {},
           stage'.refresh => stage'.groups \subseteq roots'
    PROVE  Engaged' /\ ~Busy'
BY DEF Engaged, Busy

\* The stage at which these groups are to be scheduled, or that of a server
\* that has failed.
Lists(next, S, r) ==
    /\ next \in Stages /\ next.kind \in {"idle", "schedule", "failed"}
    /\ next.kind = "schedule" <=> next.groups # {}
    /\ next.kind # "failed" => next.groups = S
    /\ next.refresh => r
    /\ next.groups \subseteq S
    /\ S # {} /\ next.kind # "failed" => next.refresh = r

\* A stage that is entered without a message.
LEMMA SchedulingIs ==
    ASSUME NEW S \in SUBSET Groups, NEW r \in BOOLEAN, NEW next,
           next = Scheduling(S, r) \/ next = Onward(Scheduling(S, r))
    PROVE  Lists(next, S, r)
<1>1. /\ Idle \in Stages /\ Idle.kind = "idle" /\ Idle.groups = {} /\ ~Idle.refresh
      /\ Stopped("failed") \in Stages /\ Stopped("failed").kind = "failed"
      /\ Stopped("failed").groups = {} /\ ~Stopped("failed").refresh
    BY DEF Idle, Stopped, Stages
<1>2. S # {} => /\ Scheduling(S, r) = [kind |-> "schedule", message |-> 0, groups |-> S,
                                       refresh |-> r]
                /\ Scheduling(S, r) \in Stages
    BY DEF Scheduling, Idle, Stages
<1>3. S = {} => Scheduling(S, r) = Idle
    BY DEF Scheduling
<1>4. next = Scheduling(S, r) \/ next = Stopped("failed")
    BY DEF Onward
<1> QED
    BY <1>1, <1>2, <1>3, <1>4 DEF Lists

\* Requests are answered as before where none is being answered.
LEMMA AnsweredCalm ==
    ASSUME Answered, ~Busy, ~Busy', Running' => Running,
           UNCHANGED <<sent, taken, buffered, answers>>
    PROVE  Answered'
BY DEF Answered, Told, Kept, IsAsked

\* One more of the groups is scheduled, or found to need no analysis.
LEMMA ScheduleNextInv ==
    ASSUME Inv, ScheduleNext
    PROVE  Inv'
<1> DEFINE g == First(stage.groups)
           left == stage.groups \ {g}
           rest == Scheduling(left, stage.refresh)
<1>1. /\ stage \in Stages /\ stage.kind = "schedule" /\ stage.groups # {}
      /\ stage.refresh => stage.groups \subseteq roots
      /\ Analyses /\ Display /\ Ground
    BY DEF Inv, Engaged, ScheduleNext, Analyses, Display
<1>2. stage.groups \in SUBSET Groups /\ stage.refresh \in BOOLEAN
    BY <1>1 DEF Stages
<1>3. g \in stage.groups /\ g \in Groups
    BY <1>1, <1>2, FirstIn
<1>4. /\ UNCHANGED <<session, sent, closed, taken, buffered, inputClosed, documents, roots,
                     watching, workspaces, worker, completed, answers, shown, ground>>
      /\ \/ stage' = rest /\ stage.refresh /\ UNCHANGED <<projects, schedule>>
         \/ /\ projects' = IF stage.refresh THEN [projects EXCEPT ![g].indexed = TRUE]
                           ELSE projects
            /\ Schedule(g, documents, roots, projects')
            /\ stage' = Onward(rest)
    BY DEF ScheduleNext, editor, input, texts, output
<1>5. left \in SUBSET Groups
    BY <1>2
<1> HIDE DEF g
<1>6. stage' = Scheduling(left, stage.refresh) \/ stage' = Onward(Scheduling(left, stage.refresh))
    BY <1>4
<1> HIDE DEF left
<1>7. Lists(stage', left, stage.refresh)
    BY <1>2, <1>5, <1>6, SchedulingIs
<1>8. /\ stage' \in Stages /\ stage'.kind \in {"idle", "schedule", "failed"}
      /\ stage'.kind = "schedule" <=> stage'.groups # {}
      /\ stage'.refresh => stage.refresh
      /\ stage'.groups \subseteq left
      /\ stage'.kind # "failed" => stage'.groups = left
      /\ left # {} /\ stage'.kind # "failed" => stage'.refresh = stage.refresh
    BY <1>7 DEF Lists
<1>9. Engaged' /\ ~Busy'
    BY <1>1, <1>4, <1>8, CalmStage DEF left
<1>10. Running /\ ~Busy
    BY <1>1 DEF Running, Busy
<1>11. ASSUME NEW h \in Groups, h # g, Still(h)', pending'[h] = pending[h],
             stage'.kind # "failed"
      PROVE  Still(h)
    <2>1. stage.refresh \/ h \notin stage.groups
        BY <1>8, <1>11 DEF Still, left
    <2> QED
        BY <1>11, <2>1 DEF Still
<1>12. History' /\ Turn' /\ Answered' /\ Served'
    BY <1>4, <1>9, <1>10, HistoryFrame, TurnFrame, AnsweredCalm, ServedFrame DEF Inv, input
<1>13. CASE stage' = rest /\ stage.refresh /\ UNCHANGED <<projects, schedule>>
    <2>1. Ground' /\ Analyses'
        BY <1>1, <1>4, <1>13, GroundFrame, AnalysesFrame DEF schedule
    <2>2. pending' = pending
        BY <1>13 DEF schedule
    <2>3. \A h \in Groups : Still(h)' => Still(h)
        BY <1>13, <2>2 DEF Still
    <2>4. Display'
        BY <1>1, <1>4, <1>10, <2>2, <2>3, DisplayStage
    <2> QED
        BY <1>9, <1>12, <2>1, <2>4 DEF Inv, Analyses, Display
<1>14. CASE /\ projects' = IF stage.refresh THEN [projects EXCEPT ![g].indexed = TRUE]
                           ELSE projects
            /\ Schedule(g, documents, roots, projects')
            /\ stage' = Onward(rest)
    <2>1. projects' \in [Roots -> Projects] /\ \A r \in Roots : projects'[r].indexed => r \in roots
        <3>1. CASE stage.refresh
            <4>1. g \in roots /\ g \in Roots /\ projects \in [Roots -> Projects]
                BY <1>1, <1>3, <3>1 DEF Ground
            <4>2. projects[g] \in [indexed : BOOLEAN, paths : SUBSET Docs]
                BY <4>1 DEF Projects
            <4>3. [projects[g] EXCEPT !.indexed = TRUE] \in Projects
                BY <4>2 DEF Projects
            <4>4. projects' = [projects EXCEPT ![g] = [projects[g] EXCEPT !.indexed = TRUE]]
                BY <1>14, <3>1
            <4> QED
                BY <1>1, <4>1, <4>3, <4>4 DEF Ground
        <3>2. CASE ~stage.refresh
            BY <1>1, <1>14, <3>2 DEF Ground
        <3> QED
            BY <3>1, <3>2
    <2>2. \A r \in roots : projects[r].indexed => projects'[r].indexed
        BY <1>1, <1>14 DEF Ground, Projects
    <2>3. Ground'
        BY <1>1, <1>4, <2>1 DEF Ground, ground
    <2>4. documents' \in [Docs -> Nat] /\ OnlyIn(g) /\ documents' = documents
        BY <1>4 DEF Inv, Turn, OnlyIn
    <2>5. Schedule(g, documents', roots, projects')
        BY <1>14, <2>4
    <2>6. Analyses' /\ WaitsAnew(g)
        BY <1>1, <1>3, <1>4, <2>1, <2>2, <2>4, <2>5, ScheduleKeeps
    <2>7. Display'
        <3>1. CASE stage'.kind = "failed"
            BY <1>1, <1>4, <3>1 DEF Display, Accepted, View, Running
        <3>2. CASE stage'.kind # "failed"
            <4>1. \A h \in Groups : h # g /\ Still(h)' => Still(h)
                BY <1>11, <2>6, <3>2 DEF WaitsAnew
            <4>2. /\ shown' \in [Docs -> Panels]
                  /\ \A d \in Docs : Running' /\ documents'[d] = 0 => shown'[d] = Cleared
                  /\ \A d \in Docs : documents'[d] # 0 => shown'[d] = shown[d]
                BY <1>1, <1>4, <1>10 DEF Display, View
            <4> QED
                BY <1>1, <1>3, <1>4, <1>10, <2>4, <2>6, <4>1, <4>2, ScheduleDisplay
        <3> QED
            BY <3>1, <3>2
    <2> QED
        BY <1>9, <1>12, <2>3, <2>6, <2>7 DEF Inv, Analyses, Display
<1> QED
    BY <1>4, <1>13, <1>14

-----------------------------------------------------------------------------
(* Messages in their turn                                                   *)

\* The message that is due comes after what the server has made of those before
\* it, and before those it keeps.
LEMMA DueIs ==
    ASSUME History, Turn, Due # 0
    PROVE  /\ Due \in 1..Len(sent) /\ Due \in Nat /\ At(Due - 1) = Current
           /\ \/ /\ buffered # <<>> /\ Len(buffered) \in Nat \ {0} /\ Due = buffered[1]
                 /\ Due \in 1..taken /\ Due = Head(buffered)
              \/ /\ buffered = <<>> /\ Len(buffered) = 0 /\ Due = taken + 1 /\ ~inputClosed
<1>1. /\ buffered \in Seq(Nat) /\ Len(buffered) \in Nat
      /\ taken \in Nat /\ Len(sent) \in Nat
      /\ \A i \in 1..Len(buffered) : buffered[i] \in 1..taken /\ buffered[i] \in 1..Len(sent)
                                     /\ buffered[i] \in Nat
    BY Numbers DEF Turn
<1>2. CASE buffered # <<>>
    <2>1. Len(buffered) \in Nat \ {0} /\ Head(buffered) = buffered[1] /\ Due = Head(buffered)
        BY <1>1, <1>2, EmptySeq DEF Due
    <2>2. 1 \in 1..Len(buffered)
        BY <2>1
    <2>3. At(buffered[1] - 1) = Before(1)
        BY <2>2 DEF Turn
    <2>4. At(Due - 1) = Current
        BY <2>1, <2>3 DEF Before
    <2> QED
        BY <1>1, <1>2, <2>1, <2>2, <2>4
<1>3. CASE buffered = <<>>
    <2>1. Len(buffered) = 0 /\ Due = taken + 1 /\ Arrived
        BY <1>3, EmptySeq DEF Due
    <2>2. taken + 1 \in 1..Len(sent) /\ taken + 1 \in Nat /\ (taken + 1) - 1 = taken /\ ~inputClosed
        BY <1>1, <2>1 DEF Arrived
    <2>3. At(taken) = Before(1)
        BY <2>1 DEF Turn
    <2> QED
        BY <1>3, <2>1, <2>2, <2>3 DEF Before
<1> QED
    BY <1>2, <1>3

\* What the editor believes with the message that is due.
LEMMA AtDue ==
    ASSUME History, Turn, Due # 0
    PROVE  /\ At(Due) = [texts |-> [d \in Docs |-> IF d = sent[Due].doc
                                        THEN TextAfter(sent[Due], Due, documents[d])
                                        ELSE documents[d]],
                         roots |-> IF sent[Due].kind = "folders" THEN sent[Due].roots ELSE roots]
           /\ At(Due) \in Believes /\ \A d \in Docs : At(Due).texts[d] \in 0..Due
           /\ sent[Due] \in Mail
<1>1. PICK k \in 1..Len(sent) : k = Due /\ k \in Nat /\ At(k - 1) = Current /\ k # 0
    BY DueIs
<1>2. Sound(k) /\ sent[k] \in Mail
    BY ElementOfSeq DEF History
<1>3. sent[k].after \in Believes /\ At(k) = sent[k].after
    BY <1>1, <1>2 DEF Mail, At
<1>4. /\ At(k) = [texts |-> At(k).texts, roots |-> At(k).roots]
      /\ At(k).texts = [d \in Docs |-> At(k).texts[d]]
    BY <1>3 DEF Believes
<1>5. Current.texts = documents /\ Current.roots = roots
    BY DEF Current
<1>6. \A d \in Docs : At(k).texts[d] = IF d = sent[k].doc
                                       THEN TextAfter(sent[k], k, documents[d])
                                       ELSE documents[d]
    BY <1>1, <1>2, <1>3, <1>5 DEF Sound
<1>7. At(k).roots = IF sent[k].kind = "folders" THEN sent[k].roots ELSE roots
    BY <1>1, <1>2, <1>3, <1>5 DEF Sound
<1>8. \A d \in Docs : At(k).texts[d] \in 0..k
    BY <1>2, <1>3 DEF Sound
<1>9. At(k).texts = [d \in Docs |-> IF d = sent[k].doc
                                    THEN TextAfter(sent[k], k, documents[d])
                                    ELSE documents[d]]
    BY <1>4, <1>6
<1> QED
    BY <1>1, <1>2, <1>3, <1>4, <1>7, <1>8, <1>9

\* The others stay in their order.
LEMMA TakeDueIs ==
    ASSUME History, Turn, Due # 0, TakeDue
    PROVE  /\ inputClosed' = inputClosed /\ (inputClosed => taken' = taken)
           /\ taken' \in 0..Len(sent) /\ Due \in 1..taken'
           /\ buffered' \in Seq(Nat) /\ Len(buffered') \in Nat
           /\ \/ /\ taken' = taken /\ Len(buffered) = Len(buffered') + 1 /\ Due = buffered[1]
                 /\ \A i \in 1..Len(buffered') : buffered'[i] = buffered[i + 1]
              \/ /\ taken' = taken + 1 /\ Len(buffered') = 0 /\ Due = taken + 1
                 /\ Len(buffered) = 0
<1>1. /\ taken \in Nat /\ Len(sent) \in Nat /\ taken <= Len(sent) /\ buffered \in Seq(Nat)
    BY Numbers DEF Turn
<1>2. CASE /\ buffered # <<>> /\ Len(buffered) \in Nat \ {0} /\ Due = buffered[1]
           /\ Due \in 1..taken /\ Due = Head(buffered)
    <2>1. Due # taken + 1 /\ taken \in 0..Len(sent)
        BY <1>1, <1>2
    <2>2. buffered' = Tail(buffered) /\ UNCHANGED <<taken, inputClosed>>
        BY <2>1 DEF TakeDue
    <2>3. /\ buffered' \in Seq(Nat) /\ Len(buffered') = Len(buffered) - 1
          /\ \A i \in 1..Len(buffered') : buffered'[i] = buffered[i + 1]
        BY <1>1, <1>2, <2>2, HeadTailProperties
    <2>4. Len(buffered') \in Nat /\ Len(buffered) = Len(buffered') + 1
        BY <1>2, <2>3
    <2> QED
        BY <1>2, <2>1, <2>2, <2>3, <2>4
<1>3. CASE buffered = <<>> /\ Len(buffered) = 0 /\ Due = taken + 1 /\ ~inputClosed
    <2>1. taken' = taken + 1 /\ UNCHANGED <<buffered, inputClosed>>
        BY <1>3 DEF TakeDue
    <2>2. taken + 1 \in 1..Len(sent)
        BY <1>3, DueIs
    <2>3. taken + 1 \in 0..Len(sent) /\ taken + 1 \in 1..(taken + 1)
        BY <1>1, <2>2
    <2> QED
        BY <1>1, <1>3, <2>1, <2>3
<1> QED
    BY <1>2, <1>3, DueIs

\* What the server has made of the messages goes on with the one it takes.
LEMMA TurnTaken ==
    ASSUME History, Turn, Due # 0, TakeDue, UNCHANGED editor, Current' = At(Due)
    PROVE  /\ Turn' /\ roots' \subseteq Roots /\ documents' \in [Docs -> Nat]
           /\ \A i \in 1..Len(buffered') : Due < buffered'[i]
           /\ \A k \in 1..taken' : k # Due => k \in 1..taken /\ (k \in Kept' <=> k \in Kept)
           /\ Due \in Kept \/ Due = taken + 1
<1>1. UNCHANGED <<session, sent, closed>>
    BY DEF editor
<1>2. PICK k \in Nat : k = Due
    BY DueIs
<1>3. PICK n \in Nat, t \in Nat, s \in Nat :
          n = Len(buffered) /\ t = taken /\ s = Len(sent) /\ t <= s
    BY Numbers
<1>4. PICK p \in Nat, u \in Nat : p = Len(buffered') /\ u = taken' /\ u <= s /\ k <= u /\ 1 <= k
    BY <1>2, <1>3, TakeDueIs
<1>5. /\ documents' = At(k).texts /\ roots' = At(k).roots
    BY <1>2 DEF Current
<1>6. /\ documents' \in [Docs -> Nat] /\ roots' \subseteq Roots
      /\ \A d \in Docs : documents'[d] \in 0..k
    BY <1>2, <1>5, AtDue DEF Believes
<1>7. \A d \in Docs : documents'[d] <= u
    BY <1>4, <1>6
<1>8. \A j : At(j)' = At(j)
    BY <1>1 DEF At
<1>9. /\ inputClosed' = inputClosed /\ (inputClosed => u = t) /\ taken' \in 0..s
      /\ buffered' \in Seq(Nat)
    BY <1>3, <1>4, TakeDueIs
<1>10. inputClosed' => closed' /\ u = s
    BY <1>1, <1>3, <1>9 DEF Turn
<1>11. /\ \A i \in 1..n : buffered[i] \in 1..t
       /\ \A i, j \in 1..n : i < j => buffered[i] < buffered[j]
       /\ \A i \in 1..n : At(buffered[i] - 1) = Before(i)
       /\ At(t) = Before(n + 1)
    BY <1>3 DEF Turn
<1>12. CASE /\ u = t /\ n = p + 1 /\ k = buffered[1]
            /\ \A i \in 1..p : buffered'[i] = buffered[i + 1]
    <2>1. /\ \A i \in 1..p : i + 1 \in 1..n /\ i + 1 # 1 /\ 1 < i + 1 /\ (i + 1) - 1 = i
          /\ 1 \in 1..n
          /\ \A i \in 1..n : i = 1 \/ (i - 1 \in 1..p /\ (i - 1) + 1 = i)
        BY <1>12
    <2>2. \A i \in 1..p : buffered'[i] \in 1..u /\ k < buffered'[i]
        BY <1>11, <1>12, <2>1
    <2>3. \A i, j \in 1..p : i < j => buffered'[i] < buffered'[j]
        BY <1>11, <1>12, <2>1
    <2>4. ASSUME NEW i \in 1..(p + 1) PROVE Before(i)' = Before(i + 1)
        <3>1. i + 1 # 1 /\ (i + 1) - 1 = i
            BY <2>4
        <3>2. CASE i = 1
            BY <1>2, <1>12, <3>1, <3>2 DEF Before, Current
        <3>3. CASE i # 1
            <4>1. i - 1 \in 1..p /\ (i - 1) + 1 = i
                BY <2>4, <3>3
            <4>2. buffered'[i - 1] = buffered[i]
                BY <1>12, <4>1
            <4>3. Before(i)' = At(buffered[i - 1])'
                BY <3>3 DEF Before
            <4>4. At(buffered[i - 1])' = At(buffered'[i - 1])
                BY <1>1 DEF At
            <4> QED
                BY <3>1, <4>2, <4>3, <4>4 DEF Before
        <3> QED
            BY <3>2, <3>3
    <2>5. ASSUME NEW i \in 1..p PROVE At(buffered[i] - 1)' = Before(i)'
        <3>1. i \in 1..(p + 1) /\ i + 1 \in 1..n
            BY <1>12, <2>5
        <3>2. At(buffered[i] - 1)' = At(buffered'[i] - 1)
            BY <1>1 DEF At
        <3>3. buffered'[i] = buffered[i + 1]
            BY <1>12, <2>5
        <3> QED
            BY <1>11, <2>4, <3>1, <3>2, <3>3
    <2>6. At(taken)' = Before(Len(buffered) + 1)'
        <3>1. p + 1 \in 1..(p + 1) /\ (p + 1) + 1 = n + 1
            BY <1>12
        <3>2. Before(p + 1)' = Before(n + 1)
            BY <2>4, <3>1
        <3>3. Before(Len(buffered) + 1)' = Before(p + 1)'
            BY <1>4 DEF Before, Current, At
        <3>4. At(taken)' = At(t)
            BY <1>1, <1>4, <1>12 DEF At
        <3> QED
            BY <1>11, <3>2, <3>3, <3>4
    <2>7. Turn'
        BY <1>3, <1>4, <1>6, <1>7, <1>9, <1>10, <1>1, <2>2, <2>3, <2>5, <2>6 DEF Turn
    <2>8. k \in Kept
        BY <1>3, <1>12, <2>1 DEF Kept
    <2>9. ASSUME NEW j \in 1..u, j # k PROVE j \in 1..t /\ (j \in Kept' <=> j \in Kept)
        <3>1. Kept = {buffered[i] : i \in 1..n} /\ Kept' = {buffered'[i] : i \in 1..p}
            BY <1>3, <1>4 DEF Kept
        <3>2. ASSUME j \in Kept PROVE j \in Kept'
            <4>1. PICK i \in 1..n : j = buffered[i]
                BY <3>1, <3>2
            <4>2. i - 1 \in 1..p /\ buffered'[i - 1] = buffered[i]
                BY <1>12, <2>1, <2>9, <4>1
            <4> QED
                BY <3>1, <4>1, <4>2
        <3>3. ASSUME j \in Kept' PROVE j \in Kept
            <4>1. PICK i \in 1..p : j = buffered'[i]
                BY <3>1, <3>3
            <4>2. i + 1 \in 1..n /\ j = buffered[i + 1]
                BY <1>12, <2>1, <4>1
            <4> QED
                BY <3>1, <4>2
        <3> QED
            BY <1>12, <2>9, <3>2, <3>3
    <2>10. \A i \in 1..Len(buffered') : Due < buffered'[i]
        BY <1>2, <1>4, <2>2
    <2>11. \A j \in 1..taken' : j # Due => j \in 1..taken /\ (j \in Kept' <=> j \in Kept)
        BY <1>2, <1>3, <1>4, <2>9
    <2> QED
        BY <1>2, <1>6, <2>7, <2>8, <2>10, <2>11
<1>13. CASE u = t + 1 /\ p = 0 /\ k = t + 1 /\ n = 0
    <2>1. \A i \in 1..p : FALSE
        BY <1>13
    <2>2. Before(Len(buffered) + 1)' = Current'
        BY <1>4, <1>13 DEF Before
    <2>3. At(taken)' = At(k)
        BY <1>1, <1>4, <1>13 DEF At
    <2>4. Turn'
        BY <1>1, <1>2, <1>3, <1>4, <1>6, <1>7, <1>9, <1>10, <2>1, <2>2, <2>3 DEF Turn
    <2>5. Kept = {} /\ Kept' = {}
        BY <1>3, <1>4, <1>13 DEF Kept
    <2>6. \A j \in 1..u : j # k => j \in 1..t
        BY <1>13
    <2>7. \A i \in 1..Len(buffered') : Due < buffered'[i]
        BY <1>4, <2>1
    <2>8. \A j \in 1..taken' : j # Due => j \in 1..taken /\ (j \in Kept' <=> j \in Kept)
        BY <1>2, <1>3, <1>4, <2>5, <2>6
    <2>9. Due = taken + 1
        BY <1>2, <1>3, <1>13
    <2> QED
        BY <1>6, <2>4, <2>7, <2>8, <2>9
<1> QED
    BY <1>2, <1>3, <1>4, <1>12, <1>13, TakeDueIs

\* A message that has been handled, and answered or turned to if it asks for
\* an answer.
LEMMA HandleKeeps ==
    ASSUME Inv, Due # 0, TakeDue, ~Busy, Running,
           UNCHANGED <<editor, worker, completed, answers, ground>>,
           Current' = At(Due), Ground', Analyses', Display',
           stage' \in Stages, stage'.kind \notin {"exit"},
           stage'.kind = "schedule" <=> stage'.groups # {},
           stage'.refresh => stage'.groups \subseteq roots',
           Busy' => stage'.message = Due,
           stage'.kind = "settle" => sent[Due].kind = "request",
           stage'.kind = "drain" => sent[Due].kind = "shutdown",
           Running' /\ IsAsked(Due) => Busy'
    PROVE  Inv'
<1>1. UNCHANGED <<session, sent, closed>> /\ History /\ Turn /\ Answered /\ Engaged /\ Served
    BY DEF editor, Inv
<1>2. PICK k \in Nat : k = Due
    BY <1>1, DueIs
<1>3. /\ Turn' /\ \A i \in 1..Len(buffered') : k < buffered'[i]
      /\ \A j \in 1..taken' : j # k => j \in 1..taken /\ (j \in Kept' <=> j \in Kept)
      /\ k \in Kept \/ k = taken + 1
    BY <1>1, <1>2, TurnTaken
<1>4. k \in 1..taken' /\ taken \in Nat /\ taken' \in Nat /\ taken <= taken'
    <2>1. taken \in Nat
        BY <1>1, Numbers
    <2>2. k \in 1..taken' /\ (taken' = taken \/ taken' = taken + 1)
        BY <1>1, <1>2, TakeDueIs
    <2> QED
        BY <2>1, <2>2
<1>5. At(k)' = At(Due)
    BY <1>1, <1>2 DEF At
<1>6. Engaged'
    <2>1. Busy' => stage'.message = k
        BY <1>2
    <2>2. stage'.kind = "settle" => sent'[k].kind = "request"
        BY <1>1, <1>2
    <2>3. stage'.kind = "drain" => sent'[k].kind = "shutdown"
        BY <1>1, <1>2
    <2>4. Busy' => At(stage.message)' = Current'
        BY <1>5, <2>1 DEF At
    <2> QED
        BY <1>3, <1>4, <2>1, <2>2, <2>3, <2>4 DEF Engaged, Busy
<1>7. Answered'
    <2>1. Told' = Told /\ answers' = answers
        BY DEF Told
    <2>2. Told \subseteq 1..taken
        BY <1>1 DEF Answered
    <2>3. k \notin Told
        <3>1. CASE k \in Kept
            <4>1. k \in 1..taken
                BY <1>1, <3>1 DEF Kept, Turn
            <4> QED
                BY <1>1, <3>1, <4>1 DEF Answered
        <3>2. CASE k = taken + 1
            BY <1>4, <2>2, <3>2
        <3> QED
            BY <1>3, <3>1, <3>2
    <2>4. \A j \in 1..taken : j \in 1..taken'
        BY <1>4
    <2>5. \A j : IsAsked(j)' <=> IsAsked(j)
        BY <1>1 DEF IsAsked
    <2>6. ASSUME Running', NEW j \in 1..taken'
          PROVE  j \in Told <=> /\ IsAsked(j) /\ j \notin Kept'
                                /\ ~(Busy' /\ j = stage'.message)
        <3>1. CASE j = k
            BY <1>2, <2>3, <2>6, <3>1
        <3>2. CASE j # k
            <4>1. j \in 1..taken /\ (j \in Kept' <=> j \in Kept) /\ ~(Busy' /\ j = stage'.message)
                BY <1>2, <1>3, <3>2
            <4> QED
                BY <1>1, <4>1 DEF Answered
        <3> QED
            BY <3>1, <3>2
    <2>7. answers' \in Seq(Replies)
        BY <1>1 DEF Answered
    <2>8. Told' \subseteq 1..taken'
        BY <2>1, <2>2, <2>4
    <2>9. Running' => \A j \in 1..taken' :
              j \in Told' <=> /\ IsAsked(j)' /\ j \notin Kept' /\ ~(Busy' /\ j = stage'.message)
        BY <2>1, <2>5, <2>6
    <2> QED
        BY <2>7, <2>8, <2>9 DEF Answered
<1>8. History' /\ Served'
    BY <1>1, HistoryFrame, ServedFrame
<1> QED
    BY <1>3, <1>6, <1>7, <1>8 DEF Inv, Analyses, Display

\* A document of a group is opened, changed or closed.
LEMMA ScheduleText ==
    ASSUME Inv, stage.kind = "idle", NEW d \in Docs, NEW text \in Nat,
           documents' = [documents EXCEPT ![d] = text],
           Schedule(GroupOf(d, roots), documents', roots, projects),
           stage' = Onward(Idle),
           shown' = IF text = 0 /\ stage' = Idle THEN [shown EXCEPT ![d] = Cleared] ELSE shown,
           UNCHANGED <<roots, watching, accepted, worker, completed, ground>>
    PROVE  Ground' /\ Analyses' /\ Display' /\ Lists(stage', {}, FALSE)
<1> DEFINE g == GroupOf(d, roots)
<1>1. /\ Ground /\ Analyses /\ Display /\ Engaged /\ documents \in [Docs -> Nat] /\ g \in Groups
      /\ UNCHANGED <<projects, workspaces>>
    BY GroupOfIn DEF Inv, Analyses, Display, Turn, accepted
<1>2. Ground'
    BY <1>1, GroundFrame
<1>3. Lists(stage', {}, FALSE)
    <2>1. stage' = Onward(Scheduling({}, FALSE))
        BY DEF Scheduling
    <2>2. {} \in SUBSET Groups /\ FALSE \in BOOLEAN
        OBVIOUS
    <2> QED
        BY <2>1, <2>2, SchedulingIs
<1>4. /\ documents' \in [Docs -> Nat]
      /\ \A e \in Docs : documents'[e] = IF e = d THEN text ELSE documents[e]
    BY <1>1
<1>5. OnlyIn(g)
    BY <1>4 DEF OnlyIn
<1>6. Schedule(g, documents', roots, projects')
    BY <1>1
<1>7. /\ projects' \in [Roots -> Projects]
      /\ \A r \in Roots : projects'[r].indexed => r \in roots
      /\ \A r \in roots : projects[r].indexed => projects'[r].indexed
    BY <1>1 DEF Ground
<1> HIDE DEF g
<1>8. Analyses' /\ WaitsAnew(g)
    BY <1>1, <1>4, <1>5, <1>6, <1>7, ScheduleKeeps
<1>9. stage.groups = {} /\ Running
    BY <1>1 DEF Engaged, Running
<1>10. \A h \in Groups : h # g /\ Still(h)' => Still(h)
    BY <1>8, <1>9 DEF Still, WaitsAnew
<1>11. Running' => stage' = Idle
    BY DEF Onward, Running, Stopped, Idle
<1>12. /\ Cleared \in Panels /\ shown \in [Docs -> Panels]
       /\ \A e \in Docs : documents[e] = 0 => shown[e] = Cleared
    BY <1>1, <1>9, ViewsHave DEF Display, View, Cleared, Panels
<1>13. shown' \in [Docs -> Panels]
    BY <1>12
<1>14. \A e \in Docs : Running' /\ documents'[e] = 0 => shown'[e] = Cleared
    BY <1>4, <1>11, <1>12
<1>15. \A e \in Docs : documents'[e] # 0 => shown'[e] = shown[e]
    BY <1>4, <1>12
<1>16. Display'
    BY <1>1, <1>5, <1>8, <1>9, <1>10, <1>13, <1>14, <1>15, ScheduleDisplay
<1> QED
    BY <1>2, <1>3, <1>8, <1>16

\* When folders come and go, all analyses are called off, and every open
\* document's group is to be analyzed.
LEMMA ChangeFoldersKeeps ==
    ASSUME Inv, stage.kind = "idle", NEW declared \in SUBSET Roots, ChangeFolders(declared),
           UNCHANGED <<worker, completed, ground>>
    PROVE  /\ Ground' /\ Analyses' /\ Display' /\ Lists(stage', Regrouped(declared), FALSE)
           /\ roots' = declared /\ documents' = documents
<1>1. /\ Ground /\ Plan /\ Pool /\ Fitting /\ Accepted /\ View /\ documents \in [Docs -> Nat]
      /\ Running
    BY DEF Inv, Turn, Running
<1>2. /\ roots' = declared
      /\ cancelled' = cancelled \cup ({pending[g] : g \in Groups} \ {0})
      /\ pending' = [g \in Groups |-> 0]
      /\ queued' = [g \in Groups |-> NoJob]
      /\ workspaces' = [g \in Groups |-> NoWorkspace]
      /\ watching' = (watching \/ declared # {})
      /\ stage' = Scheduling(Regrouped(declared), FALSE)
      /\ UNCHANGED <<documents, version, wake, shown, disk, diskChanges>>
    BY DEF ChangeFolders, ground
<1>3. Regrouped(declared) \in SUBSET Groups
    BY GroupOfIn DEF Regrouped
<1>4. Lists(stage', Regrouped(declared), FALSE)
    BY <1>2, <1>3, SchedulingIs
<1>5. stage'.groups = Regrouped(declared) /\ ~stage'.refresh
    <2>1. stage'.kind # "failed"
        BY <1>2 DEF Scheduling, Idle
    <2> QED
        BY <1>4, <2>1 DEF Lists
<1>6. Ground'
    <2>1. ASSUME NEW r \in Roots
          PROVE  projects'[r] \in Projects /\ (projects'[r].indexed => r \in declared)
        <3>1. projects'[r] = IF r \notin declared THEN NoProject
                             ELSE IF projects[r].indexed THEN projects[r]
                             ELSE [indexed |-> disk[r].manifest, paths |-> {}]
            BY <2>1 DEF ChangeFolders
        <3>2. disk[r].manifest \in BOOLEAN /\ projects[r] \in Projects
            BY <1>1, <2>1, EditorAssumption DEF Ground
        <3> QED
            BY <3>1, <3>2 DEF NoProject, Projects
    <2>2. projects' = [r \in Roots |-> projects'[r]]
        BY DEF ChangeFolders
    <2>3. projects' \in [Roots -> Projects]
        BY <2>1, <2>2
    <2>4. watching' \in BOOLEAN
        BY <1>1, <1>2 DEF Ground
    <2> QED
        BY <1>1, <1>2, <2>1, <2>3, <2>4 DEF Ground
<1>7. version \in Nat /\ \A g \in Groups : pending[g] \in Nat /\ pending[g] <= version
    BY <1>1 DEF Plan
<1>8. cancelled' \subseteq 1..version /\ cancelled \subseteq cancelled'
    <2>1. \A g \in Groups : pending[g] # 0 => pending[g] \in 1..version
        BY <1>7
    <2> QED
        BY <1>1, <1>2, <2>1 DEF Plan
<1>9. Plan'
    <2>1. \A g \in Groups :
              pending'[g] = 0 /\ pending'[g] \notin cancelled' /\ pending'[g] <= version
        BY <1>2, <1>7, <1>8
    <2> QED
        BY <1>1, <1>2, <1>8, <2>1 DEF Plan
<1>10. Pool'
    BY <1>1, <1>2, <1>8 DEF Pool, Issued, Job, FirstJob
<1>11. \A j, v : v \in 1..version /\ j.version = v /\ j.group \in Groups => ~(Awaits(j)')
    <2>1. 0 \notin 1..version
        BY <1>7
    <2> QED
        BY <1>2, <2>1 DEF Awaits
<1>12. Fitting'
    <2>1. \A g \in Groups : queued'[g] = NoJob
        BY <1>2
    <2>2. ASSUME NEW j \in worker.batch PROVE ~(Awaits(j)')
        <3>1. j \in Jobs /\ j.version \in 1..version
            BY <1>1, <2>2 DEF Pool, Crews, Issued
        <3> QED
            BY <1>11, <3>1 DEF Jobs
    <2>3. ASSUME NEW i \in 1..Len(completed) PROVE ~(Awaits(completed[i])')
        <3>1. PICK c \in Results : c = completed[i] /\ c.version \in 1..version
            BY <1>1, <2>3, ElementOfSeq DEF Pool
        <3>2. ~(Awaits(c)')
            BY <1>11, <3>1 DEF Results
        <3> QED
            BY <3>1, <3>2 DEF Awaits
    <2> QED
        BY <2>1, <2>2, <2>3 DEF Fitting
<1>13. \A d \in Docs : documents[d] # 0 => GroupOf(d, declared) \in stage'.groups
    BY <1>5 DEF Regrouped
<1>14. Accepted'
    <2>1. NoWorkspace \in Workspaces /\ ~NoWorkspace.package
        BY ViewsHave DEF NoWorkspace, Workspaces
    <2>2. \A g \in Groups : Still(g)' => OpenIn(g)' = {}
        BY <1>2, <1>5, <1>13 DEF Still, OpenIn
    <2>3. ASSUME NEW g \in Groups, Still(g)' PROVE Apt(workspaces[g], g)'
        <3>1. workspaces'[g] = NoWorkspace /\ DOMAIN NoWorkspace.files = {}
            BY <1>2, ViewsHave DEF NoWorkspace
        <3>2. OpenIn(g)' = {}
            BY <2>2, <2>3
        <3> QED
            BY <3>1, <3>2 DEF Apt
    <2> QED
        BY <1>2, <2>1, <2>3 DEF Accepted
<1>15. View'
    BY <1>1, <1>2, <1>5, <1>13 DEF View, Still
<1> QED
    BY <1>2, <1>4, <1>6, <1>9, <1>10, <1>12, <1>14, <1>15 DEF Analyses, Display

\* A saved or changed file may make packages of the folders that hold it.
LEMMA RefreshKeeps ==
    ASSUME Inv, stage.kind = "idle", NEW m, Refresh(m),
           UNCHANGED <<worker, completed, ground>>
    PROVE  \E S \in SUBSET Groups :
              /\ Ground' /\ Analyses' /\ Display' /\ Lists(stage', S, TRUE)
              /\ S \subseteq roots /\ UNCHANGED <<roots, documents>>
<1> DEFINE S == {r \in ToSet(Path[m.doc]) :
                     r \in roots /\ (m.kind = "save" => documents[m.doc] # 0)}
<1>1. S \in SUBSET Groups /\ S \subseteq roots
    BY DEF Inv, Ground, Groups
<1>2. stage' = Scheduling(S, TRUE) /\ UNCHANGED <<texts, accepted, schedule, shown>>
    BY DEF Refresh
<1> HIDE DEF S
<1>3. Lists(stage', S, TRUE)
    BY <1>1, <1>2, SchedulingIs
<1>4. UNCHANGED <<documents, roots, watching, projects, workspaces, pending>>
    BY <1>2 DEF texts, accepted, schedule
<1>5. Ground /\ Analyses /\ Display /\ stage.groups = {} /\ Running
    BY DEF Inv, Analyses, Display, Engaged, Running
<1>6. Ground' /\ Analyses'
    BY <1>2, <1>4, <1>5, GroundFrame, AnalysesFrame
<1>7. \A h \in Groups : Still(h)' => Still(h)
    BY <1>4, <1>5 DEF Still
<1>8. Display'
    BY <1>2, <1>4, <1>5, <1>7, DisplayStage
<1> QED
    BY <1>1, <1>3, <1>4, <1>6, <1>8

\* Nothing of the documents changes.
LEMMA UnmovedKeeps ==
    ASSUME Inv, stage.kind = "idle", Unmoved, UNCHANGED <<worker, completed, ground>>,
           stage'.kind \in {"idle", "settle", "drain", "left"}, stage'.groups = {}
    PROVE  Ground' /\ Analyses' /\ Display' /\ UNCHANGED <<roots, documents>>
<1>1. UNCHANGED <<documents, roots, watching, projects, workspaces, pending, schedule, shown>>
    BY DEF Unmoved, texts, accepted, schedule
<1>2. Ground /\ Analyses /\ Display /\ stage.groups = {} /\ Running
    BY DEF Inv, Analyses, Display, Engaged, Running
<1>3. Ground' /\ Analyses'
    BY <1>1, <1>2, GroundFrame, AnalysesFrame
<1>4. \A h \in Groups : Still(h)' => Still(h)
    BY <1>1, <1>2 DEF Still
<1>5. Display'
    BY <1>1, <1>2, <1>4, DisplayStage
<1> QED
    BY <1>1, <1>3, <1>5

\* Every message is handled in its turn.
LEMMA HandleInv ==
    ASSUME Inv, Handle
    PROVE  Inv'
<1> DEFINE m == sent[Due]
<1>1. /\ stage.kind = "idle" /\ Due # 0 /\ TakeDue
      /\ UNCHANGED <<editor, worker, completed, answers, ground>>
    BY DEF Handle
<1>2. /\ History /\ Turn /\ ~Busy /\ Running /\ Due \in Nat
      /\ documents \in [Docs -> Nat]
    BY <1>1, DueIs DEF Inv, Busy, Running, Turn
<1>3. m \in Mail /\ m.doc \in Docs /\ m.roots \in SUBSET Roots
    BY <1>1, <1>2, AtDue DEF Mail
<1>4. At(Due) = [texts |-> [d \in Docs |-> IF d = m.doc THEN TextAfter(m, Due, documents[d])
                                           ELSE documents[d]],
                 roots |-> IF m.kind = "folders" THEN m.roots ELSE roots]
    BY <1>1, <1>2, AtDue
<1> HIDE DEF m
<1>5. documents = [d \in Docs |-> documents[d]]
    BY <1>2
<1>6. ASSUME NEW text \in Nat, documents' = [documents EXCEPT ![m.doc] = text],
             TextAfter(m, Due, documents[m.doc]) = text, m.kind # "folders",
             roots' = roots
      PROVE  Current' = At(Due)
    <2>1. documents' = [d \in Docs |-> IF d = m.doc THEN TextAfter(m, Due, documents[d])
                                       ELSE documents[d]]
        BY <1>2, <1>3, <1>6
    <2> QED
        BY <1>4, <1>6, <2>1 DEF Current
<1>7. ASSUME UNCHANGED documents, TextAfter(m, Due, documents[m.doc]) = documents[m.doc],
             roots' = IF m.kind = "folders" THEN m.roots ELSE roots
      PROVE  Current' = At(Due)
    <2>1. documents' = [d \in Docs |-> IF d = m.doc THEN TextAfter(m, Due, documents[d])
                                       ELSE documents[d]]
        BY <1>5, <1>7
    <2> QED
        BY <1>4, <1>7, <2>1 DEF Current
<1>8. ASSUME Current' = At(Due), Ground', Analyses', Display', NEW S, NEW r,
             Lists(stage', S, r), r => S \subseteq roots', m.kind \notin {"request", "shutdown"}
      PROVE  Inv'
    <2>1. /\ stage' \in Stages /\ stage'.kind \in {"idle", "schedule", "failed"}
          /\ stage'.kind = "schedule" <=> stage'.groups # {}
          /\ stage'.refresh => stage'.groups \subseteq roots'
        BY <1>8 DEF Lists
    <2>2. ~(Busy') /\ ~IsAsked(Due)
        BY <1>8, <2>1 DEF Busy, IsAsked, m
    <2> QED
        BY <1>1, <1>2, <1>8, <2>1, <2>2, HandleKeeps
<1>9. ASSUME Unmoved, NEW kind \in {"idle", "settle", "drain", "left"},
             stage' \in Stages, stage'.kind = kind, stage'.groups = {}, ~stage'.refresh,
             kind \in {"settle", "drain"} => stage'.message = Due,
             kind = "settle" <=> m.kind = "request", kind = "drain" <=> m.kind = "shutdown",
             TextAfter(m, Due, documents[m.doc]) = documents[m.doc],
             m.kind = "folders" => m.roots = roots
      PROVE  Inv'
    <2>1. Ground' /\ Analyses' /\ Display' /\ UNCHANGED <<roots, documents>>
        BY <1>1, <1>9, UnmovedKeeps
    <2>2. Current' = At(Due)
        BY <1>7, <1>9, <2>1
    <2>3. /\ Busy' => stage'.message = Due
          /\ stage'.kind = "settle" => sent[Due].kind = "request"
          /\ stage'.kind = "drain" => sent[Due].kind = "shutdown"
          /\ Running' /\ IsAsked(Due) => Busy'
        BY <1>9 DEF Busy, IsAsked, m
    <2> QED
        BY <1>1, <1>2, <1>9, <2>1, <2>2, <2>3, HandleKeeps
<1>10. CASE m.kind = "open" /\ Open(m.doc)
    <2>1. TextAfter(m, Due, documents[m.doc]) = Due
        BY <1>10 DEF Open, TextAfter
    <2>2. /\ Ground' /\ Analyses' /\ Display' /\ Lists(stage', {}, FALSE)
          /\ documents' = [documents EXCEPT ![m.doc] = Due] /\ roots' = roots
        BY <1>1, <1>2, <1>3, <1>10, ScheduleText DEF Open
    <2>3. Current' = At(Due)
        BY <1>2, <1>6, <1>10, <2>1, <2>2
    <2> QED
        BY <1>8, <1>10, <2>2, <2>3
<1>11. CASE m.kind = "change" /\ Change(m.doc)
    <2>1. TextAfter(m, Due, documents[m.doc]) = Due
        BY <1>11 DEF TextAfter
    <2>2. /\ Ground' /\ Analyses' /\ Display' /\ Lists(stage', {}, FALSE)
          /\ documents' = [documents EXCEPT ![m.doc] = Due] /\ roots' = roots
        BY <1>1, <1>2, <1>3, <1>11, ScheduleText DEF Change
    <2>3. Current' = At(Due)
        BY <1>2, <1>6, <1>11, <2>1, <2>2
    <2> QED
        BY <1>8, <1>11, <2>2, <2>3
<1>12. CASE m.kind = "close" /\ CloseDocument(m.doc)
    <2>1. TextAfter(m, Due, documents[m.doc]) = 0 /\ 0 \in Nat
        BY <1>12 DEF TextAfter
    <2>2. /\ Ground' /\ Analyses' /\ Display' /\ Lists(stage', {}, FALSE)
          /\ documents' = [documents EXCEPT ![m.doc] = 0] /\ roots' = roots
        BY <1>1, <1>2, <1>3, <1>12, ScheduleText DEF CloseDocument
    <2>3. Current' = At(Due)
        BY <1>6, <1>12, <2>1, <2>2
    <2> QED
        BY <1>8, <1>12, <2>2, <2>3
<1>13. CASE m.kind = "folders" /\ ChangeFolders(m.roots)
    <2>1. TextAfter(m, Due, documents[m.doc]) = documents[m.doc]
        BY <1>13 DEF TextAfter
    <2>2. /\ Ground' /\ Analyses' /\ Display' /\ Lists(stage', Regrouped(m.roots), FALSE)
          /\ documents' = documents /\ roots' = m.roots
        BY <1>1, <1>3, <1>13, ChangeFoldersKeeps
    <2>3. Current' = At(Due)
        BY <1>7, <1>13, <2>1, <2>2
    <2> QED
        BY <1>8, <1>13, <2>2, <2>3
<1>14. CASE m.kind \in {"save", "watched"} /\ Refresh(m)
    <2>1. TextAfter(m, Due, documents[m.doc]) = documents[m.doc]
        BY <1>14 DEF TextAfter
    <2>2. PICK S \in SUBSET Groups :
              /\ Ground' /\ Analyses' /\ Display' /\ Lists(stage', S, TRUE)
              /\ S \subseteq roots /\ UNCHANGED <<roots, documents>>
        BY <1>1, <1>14, RefreshKeeps
    <2>3. Current' = At(Due)
        BY <1>7, <1>14, <2>1, <2>2
    <2> QED
        BY <1>8, <1>14, <2>2, <2>3
<1>15. CASE Ignored(m) /\ Unmoved /\ UNCHANGED stage
    <2>1. /\ TextAfter(m, Due, documents[m.doc]) = documents[m.doc]
          /\ m.kind \notin {"request", "shutdown"} /\ (m.kind = "folders" => m.roots = roots)
        BY <1>15 DEF Ignored, TextAfter
    <2>2. stage' \in Stages /\ stage'.kind = "idle" /\ stage'.groups = {}
        BY <1>1, <1>15 DEF Inv, Engaged
    <2>3. Ground' /\ Analyses' /\ Display' /\ UNCHANGED <<roots, documents>>
        BY <1>1, <1>15, <2>2, UnmovedKeeps
    <2>4. Lists(stage', {}, TRUE)
        BY <2>2 DEF Lists
    <2>5. Current' = At(Due)
        BY <1>7, <2>1, <2>3
    <2> QED
        BY <1>8, <2>1, <2>3, <2>4, <2>5
<1>16. CASE m.kind = "request" /\ Unmoved
            /\ stage' = [Idle EXCEPT !.kind = "settle", !.message = Due]
    <2>1. TextAfter(m, Due, documents[m.doc]) = documents[m.doc]
        BY <1>16 DEF TextAfter
    <2>2. /\ stage' \in Stages /\ stage'.kind = "settle" /\ stage'.groups = {}
          /\ ~stage'.refresh /\ stage'.message = Due
        BY <1>2, <1>16 DEF Idle, Stages
    <2> QED
        BY <1>9, <1>16, <2>1, <2>2
<1>17. CASE m.kind = "shutdown" /\ Unmoved
            /\ stage' = [Idle EXCEPT !.kind = "drain", !.message = Due]
    <2>1. TextAfter(m, Due, documents[m.doc]) = documents[m.doc]
        BY <1>17 DEF TextAfter
    <2>2. /\ stage' \in Stages /\ stage'.kind = "drain" /\ stage'.groups = {}
          /\ ~stage'.refresh /\ stage'.message = Due
        BY <1>2, <1>17 DEF Idle, Stages
    <2> QED
        BY <1>9, <1>17, <2>1, <2>2
<1>18. CASE m.kind = "exit" /\ Unmoved /\ stage' = Stopped("left")
    <2>1. TextAfter(m, Due, documents[m.doc]) = documents[m.doc]
        BY <1>18 DEF TextAfter
    <2>2. stage' \in Stages /\ stage'.kind = "left" /\ stage'.groups = {} /\ ~stage'.refresh
        BY <1>18 DEF Idle, Stopped, Stages
    <2> QED
        BY <1>9, <1>18, <2>1, <2>2
<1> QED
    BY <1>10, <1>11, <1>12, <1>13, <1>14, <1>15, <1>16, <1>17, <1>18 DEF Handle, m

-----------------------------------------------------------------------------
(* Answers                                                                  *)

\* A belief is of documents and folders.
LEMMA AtIn ==
    ASSUME History, NEW k \in 0..Len(sent)
    PROVE  At(k) \in Believes
<1>1. session.roots \subseteq Roots /\ sent \in Seq(Mail) /\ Len(sent) \in Nat
    BY EditorAssumption, LenProperties DEF History
<1>2. CASE k = 0
    BY <1>1, <1>2 DEF At, Believes
<1>3. CASE k # 0
    <2>1. k \in 1..Len(sent)
        BY <1>1, <1>3
    <2>2. sent[k] \in Mail
        BY <1>1, <2>1, ElementOfSeq
    <2> QED
        BY <1>3, <2>2 DEF At, Mail
<1> QED
    BY <1>2, <1>3

\* Cancellations and the like change nothing that the editor believes.
LEMMA StandsStill ==
    ASSUME History, NEW k \in 1..Len(sent),
           sent[k].kind \notin {"open", "change", "close", "folders"}
    PROVE  At(k) = At(k - 1)
<1>1. Len(sent) \in Nat /\ Sound(k)
    BY LenProperties DEF History
<1>2. k \in 0..Len(sent) /\ k - 1 \in 0..Len(sent) /\ k # 0
    BY <1>1
<1>3. At(k) \in Believes /\ At(k - 1) \in Believes /\ At(k) = sent[k].after
    BY <1>2, AtIn DEF At
<1>4. \A d \in Docs : At(k).texts[d] = At(k - 1).texts[d]
    BY <1>1, <1>3 DEF Sound, TextAfter
<1>5. At(k).roots = At(k - 1).roots
    BY <1>1, <1>3 DEF Sound
<1>6. At(k).texts = At(k - 1).texts
    BY <1>3, <1>4 DEF Believes
<1> QED
    BY <1>3, <1>5, <1>6 DEF Believes

\* The request at hand is answered, and nothing else is.
LEMMA ReplyKeeps ==
    ASSUME Inv, Busy, ~Busy', NEW text \in Nat,
           NEW view \in [package : BOOLEAN, files : Views],
           Reply(stage.message, text, view), UNCHANGED sent,
           taken' \in Nat, taken <= taken',
           \A j \in 1..taken' : j \notin 1..taken => ~IsAsked(j),
           \A j \in 1..taken : IsAsked(j) => (j \in Kept' <=> j \in Kept)
    PROVE  /\ Answered' /\ Told' = Told \cup {stage.message}
           /\ Len(answers') = Len(answers) + 1 /\ Len(answers) \in Nat
           /\ \A i \in 1..Len(answers) : answers'[i] = answers[i]
           /\ answers'[Len(answers) + 1] = [id |-> stage.message, text |-> text, view |-> view]
<1>1. /\ Answered /\ Turn /\ taken \in Nat /\ Running
      /\ stage.message \in 1..taken /\ IsAsked(stage.message) /\ stage.message \in Nat
      /\ \A i \in 1..Len(buffered) : stage.message < buffered[i]
    BY Numbers DEF Inv, Engaged, Busy, IsAsked, Running
<1>2. PICK k \in Nat : k = stage.message
    BY <1>1
<1>3. PICK r \in Replies : r = [id |-> k, text |-> text, view |-> view]
    BY DEF Replies
<1>4. /\ answers \in Seq(Replies) /\ answers' = Append(answers, r)
    BY <1>1, <1>2, <1>3 DEF Answered, Reply
<1>5. PICK n \in Nat : n = Len(answers)
    BY <1>4, LenProperties
<1>6. /\ answers' \in Seq(Replies) /\ Len(answers') = n + 1
      /\ \A i \in 1..n : answers'[i] = answers[i]
      /\ answers'[n + 1] = r
    BY <1>4, <1>5, AppendProperties
<1>7. Told' = Told \cup {k}
    <2>1. Told' = {answers'[i].id : i \in 1..(n + 1)} /\ Told = {answers[i].id : i \in 1..n}
        BY <1>5, <1>6 DEF Told
    <2>2. \A i \in 1..(n + 1) : i \in 1..n \/ i = n + 1
        OBVIOUS
    <2>3. n + 1 \in 1..(n + 1) /\ \A i \in 1..n : i \in 1..(n + 1)
        OBVIOUS
    <2>4. answers'[n + 1].id = k /\ \A i \in 1..n : answers'[i].id = answers[i].id
        BY <1>3, <1>6
    <2> QED
        BY <2>1, <2>2, <2>3, <2>4
<1>8. \A j \in 1..taken : j \in 1..taken'
    BY <1>1
<1>9. k \notin Kept
    <2>1. \A i \in 1..Len(buffered) : buffered[i] \in Nat /\ k < buffered[i]
        BY <1>1, <1>2, Numbers DEF Inv
    <2> QED
        BY <2>1 DEF Kept
<1>10. \A j : IsAsked(j)' <=> IsAsked(j)
    BY DEF IsAsked
<1>11. ASSUME NEW j \in 1..taken' PROVE j \in Told' <=> IsAsked(j) /\ j \notin Kept'
    <2>1. CASE j = k
        BY <1>1, <1>2, <1>7, <1>9, <2>1
    <2>2. CASE j # k /\ j \in 1..taken
        BY <1>1, <1>2, <1>7, <2>2 DEF Answered
    <2>3. CASE j # k /\ j \notin 1..taken
        BY <1>1, <1>7, <2>3 DEF Answered
    <2> QED
        BY <2>1, <2>2, <2>3
<1>12. Told' \subseteq 1..taken'
    BY <1>1, <1>2, <1>7, <1>8 DEF Answered
<1>13. Answered'
    <2>1. \A j \in 1..taken' : j \in Told' <=> IsAsked(j)' /\ j \notin Kept'
        BY <1>10, <1>11
    <2>2. answers' \in Seq(Replies)
        BY <1>6
    <2> QED
        BY <1>12, <2>1, <2>2 DEF Answered
<1> QED
    BY <1>2, <1>3, <1>5, <1>6, <1>7, <1>13

\* The stage after an answer.
LEMMA AfterReply ==
    ASSUME Inv, Busy, stage' = Idle \/ stage' = [Idle EXCEPT !.kind = "exit"],
           UNCHANGED <<documents, roots, watching, accepted, schedule, worker, completed, shown,
                       ground>>
    PROVE  Display' /\ Analyses' /\ Ground' /\ ~Busy'
<1>1. /\ Display /\ Analyses /\ Ground /\ Running /\ stage.groups = {}
      /\ UNCHANGED <<workspaces, projects, pending>>
    BY DEF Inv, Display, Analyses, Engaged, Busy, Running, accepted, schedule
<1>2. ~Busy'
    BY DEF Busy, Idle
<1>3. \A h \in Groups : Still(h)' => Still(h)
    BY <1>1 DEF Still
<1>4. Display'
    BY <1>1, <1>3, DisplayStage
<1> QED
    BY <1>1, <1>2, <1>4, AnalysesFrame, GroundFrame

\* Where nothing was answered but that the request was cancelled.
LEMMA ServedNothing ==
    ASSUME Inv, UNCHANGED sent, Len(answers') = Len(answers) + 1, Len(answers) \in Nat,
           \A i \in 1..Len(answers) : answers'[i] = answers[i],
           answers'[Len(answers) + 1].text = 0
    PROVE  Served'
<1>1. PICK n \in Nat : n = Len(answers)
    OBVIOUS
<1>2. \A i \in 1..(n + 1) : i \in 1..n \/ i = n + 1
    OBVIOUS
<1>3. \A i \in 1..n : answers'[i] = answers[i]
    BY <1>1
<1>4. Len(answers') = n + 1 /\ answers'[n + 1].text = 0 /\ Served /\ sent' = sent
    BY <1>1 DEF Inv
<1> QED
    BY <1>1, <1>2, <1>3, <1>4 DEF Served

\* The message at a place among those kept is taken out, and it changed nothing.
LEMMA TurnWithout ==
    ASSUME History, Turn, NEW c \in 1..Len(buffered), At(buffered[c]) = At(buffered[c] - 1),
           buffered' = RemoveAt(buffered, c),
           UNCHANGED <<session, sent, closed, taken, inputClosed, documents, roots>>
    PROVE  /\ Turn'
           /\ \A i \in 1..Len(buffered) : i # c => buffered[i] \in Kept'
           /\ Kept' \subseteq Kept
<1>1. PICK n \in Nat : n = Len(buffered) /\ c \in 1..n /\ n # 0
    BY Numbers
<1>2. PICK t \in Nat : t = taken
    BY Numbers
<1>3. /\ buffered \in Seq(Nat)
      /\ \A i \in 1..n : buffered[i] \in 1..t
      /\ \A i, j \in 1..n : i < j => buffered[i] < buffered[j]
      /\ \A i \in 1..n : At(buffered[i] - 1) = Before(i)
      /\ At(t) = Before(n + 1)
    BY <1>1, <1>2 DEF Turn
<1>4. PICK p \in Nat : p = n - 1
    BY <1>1
<1>5. /\ buffered' \in Seq(Nat) /\ Len(buffered') = p
      /\ \A i \in 1..p : buffered'[i] = IF i < c THEN buffered[i] ELSE buffered[i + 1]
    <2>1. /\ RemoveAt(buffered, c) \in Seq(Nat)
          /\ Len(RemoveAt(buffered, c)) = Len(buffered) - 1
          /\ \A i \in 1..(Len(buffered) - 1) :
                RemoveAt(buffered, c)[i] = IF i < c THEN buffered[i] ELSE buffered[i + 1]
        <3>1. buffered \in Seq(Nat) /\ c \in 1..Len(buffered)
            BY <1>3
        <3> QED
            BY <3>1, RemoveAtIs, Zenon
    <2>2. Len(buffered) - 1 = p
        BY <1>1, <1>4
    <2> QED
        BY <2>1, <2>2
<1>6. /\ \A i \in 1..p : i \in 1..n /\ i + 1 \in 1..n
      /\ p + 1 = n
      /\ \A i \in 1..n : i # c => (i \in 1..p /\ i < c)
                                  \/ (i - 1 \in 1..p /\ ~(i - 1 < c) /\ (i - 1) + 1 = i)
    BY <1>1, <1>4
<1>7. Before(c + 1) = Before(c)
    <2>1. c + 1 # 1 /\ (c + 1) - 1 = c
        BY <1>1
    <2>2. Before(c + 1) = At(buffered[c])
        BY <2>1 DEF Before
    <2> QED
        BY <1>1, <1>3, <2>2
<1>8. \A k : At(k)' = At(k)
    BY DEF At
<1>9. Current' = Current
    BY DEF Current
<1>10. ASSUME NEW i \in 1..n PROVE Before(i)' = IF i <= c THEN Before(i) ELSE Before(i + 1)
    <2>1. CASE i = 1
        BY <1>1, <1>9, <2>1 DEF Before
    <2>2. CASE i # 1
        <3>1. /\ i - 1 \in 1..p /\ (i - 1) + 1 = i /\ i + 1 # 1 /\ (i + 1) - 1 = i
              /\ (i - 1 < c <=> i <= c)
            BY <1>1, <1>4, <1>10, <2>2
        <3>2. PICK b : b = buffered'[i - 1]
            OBVIOUS
        <3>3. Before(i)' = At(b)'
            BY <2>2, <3>2 DEF Before, At
        <3>4. b = IF i <= c THEN buffered[i - 1] ELSE buffered[i]
            BY <1>5, <3>1, <3>2
        <3> QED
            BY <1>8, <2>2, <3>1, <3>3, <3>4 DEF Before
    <2> QED
        BY <2>1, <2>2
<1>11. ASSUME NEW i \in 1..p PROVE At(buffered[i] - 1)' = Before(i)'
    <2>1. PICK b : b = buffered'[i]
        OBVIOUS
    <2>2. At(buffered[i] - 1)' = At(b - 1)
        BY <2>1 DEF At
    <2>3. i \in 1..n /\ i + 1 \in 1..n /\ (i < c => i <= c) /\ (~(i < c) /\ i <= c => i = c)
        BY <1>1, <1>6, <1>11
    <2>4. CASE i < c
        <3>1. At(b - 1) = Before(i)
            BY <1>3, <1>5, <1>11, <2>1, <2>3, <2>4
        <3> QED
            BY <1>10, <2>2, <2>3, <2>4, <3>1
    <2>5. CASE ~(i < c)
        <3>1. At(b - 1) = Before(i + 1)
            BY <1>3, <1>5, <1>11, <2>1, <2>3, <2>5
        <3> QED
            BY <1>7, <1>10, <2>2, <2>3, <2>5, <3>1
    <2> QED
        BY <2>4, <2>5
<1>12. At(taken)' = Before(Len(buffered) + 1)'
    <2>1. Before(Len(buffered) + 1)' = Before(n)'
        BY <1>5, <1>6 DEF Before, Current, At
    <2>2. n \in 1..n /\ (n <= c => n = c)
        BY <1>1
    <2>3. At(taken)' = At(t)
        BY <1>2 DEF At
    <2> QED
        BY <1>3, <1>7, <1>10, <2>1, <2>2, <2>3
<1>13. \A i \in 1..p : buffered'[i] \in 1..t
    BY <1>3, <1>5, <1>6
<1>14. \A i, j \in 1..p : i < j => buffered'[i] < buffered'[j]
    <2>1. ASSUME NEW i \in 1..p, NEW j \in 1..p, i < j PROVE buffered'[i] < buffered'[j]
        <3>1. /\ i + 1 < j + 1 /\ i < j + 1 /\ (j < c => i < c)
              /\ i \in 1..n /\ j \in 1..n /\ i + 1 \in 1..n /\ j + 1 \in 1..n
            BY <1>1, <1>6, <2>1
        <3> QED
            BY <1>3, <1>5, <2>1, <3>1
    <2> QED
        BY <2>1
<1>15. Turn'
    BY <1>2, <1>5, <1>11, <1>12, <1>13, <1>14 DEF Turn
<1>16. Kept = {buffered[i] : i \in 1..n} /\ Kept' = {buffered'[i] : i \in 1..p}
    BY <1>1, <1>5 DEF Kept
<1>17. ASSUME NEW i \in 1..n, i # c PROVE buffered[i] \in Kept'
    <2>1. CASE i \in 1..p /\ i < c
        BY <1>5, <1>16, <2>1
    <2>2. CASE i - 1 \in 1..p /\ ~(i - 1 < c) /\ (i - 1) + 1 = i
        <3>1. buffered'[i - 1] = buffered[i]
            BY <1>5, <2>2
        <3> QED
            BY <1>16, <2>2, <3>1
    <2> QED
        BY <1>6, <1>17, <2>1, <2>2
<1>18. Kept' \subseteq Kept
    BY <1>5, <1>6, <1>16
<1> QED
    BY <1>1, <1>15, <1>17, <1>18

\* A cancellation that was kept is found: the request is answered with it.
LEMMA SettleKeptInv ==
    ASSUME Inv, SettleKept
    PROVE  Inv'
<1>1. /\ Settling /\ KeptCancel # {} /\ buffered' = RemoveAt(buffered, Min(KeptCancel))
      /\ Reply(stage.message, 0, NoView) /\ stage' = Idle
      /\ UNCHANGED <<editor, taken, inputClosed, texts, accepted, schedule, worker, completed,
                     shown, ground>>
    BY DEF SettleKept
<1>2. /\ UNCHANGED <<session, sent, closed, documents, roots, watching>> /\ History /\ Turn
      /\ Busy /\ buffered \in Seq(Nat)
    BY <1>1 DEF editor, texts, Inv, Busy, Settling, Turn
<1>3. PICK c \in 1..Len(buffered) : c = Min(KeptCancel) /\ c \in KeptCancel
    <2>1. DOMAIN buffered = 1..Len(buffered) /\ Len(buffered) \in Nat
        BY <1>2, LenProperties
    <2>2. KeptCancel \in SUBSET Nat /\ KeptCancel \subseteq 1..Len(buffered)
        BY <2>1 DEF KeptCancel
    <2>3. Min(KeptCancel) \in KeptCancel
        BY <1>1, <2>2, MinIn
    <2> QED
        BY <2>2, <2>3
<1>4. sent[buffered[c]].kind = "cancel" /\ buffered[c] \in 1..Len(sent)
    BY <1>2, <1>3, Numbers DEF KeptCancel, Cancels
<1>5. At(buffered[c]) = At(buffered[c] - 1)
    BY <1>2, <1>4, StandsStill
<1>6. /\ Turn' /\ \A i \in 1..Len(buffered) : i # c => buffered[i] \in Kept'
      /\ Kept' \subseteq Kept
    BY <1>1, <1>2, <1>3, <1>5, TurnWithout
<1>7. Display' /\ Analyses' /\ Ground' /\ ~Busy'
    BY <1>1, <1>2, AfterReply
<1>8. ASSUME NEW j, IsAsked(j) PROVE j \in Kept' <=> j \in Kept
    <2>1. j # buffered[c]
        BY <1>4, <1>8 DEF IsAsked
    <2> QED
        BY <1>6, <2>1 DEF Kept
<1>9. /\ taken' = taken /\ taken \in Nat /\ taken <= taken /\ 0 \in Nat
      /\ NoView \in [package : BOOLEAN, files : Views]
    BY <1>1, <1>2, Numbers, ViewsHave DEF NoView
<1>10. /\ Answered' /\ Len(answers') = Len(answers) + 1 /\ Len(answers) \in Nat
       /\ \A i \in 1..Len(answers) : answers'[i] = answers[i]
       /\ answers'[Len(answers) + 1] = [id |-> stage.message, text |-> 0, view |-> NoView]
    BY <1>1, <1>2, <1>7, <1>8, <1>9, ReplyKeeps
<1>11. answers'[Len(answers) + 1].text = 0
    BY <1>10
<1>12. Served'
    BY <1>2, <1>10, <1>11, ServedNothing
<1>13. Engaged'
    BY <1>1 DEF Engaged, Busy, Idle, Stages
<1>14. History'
    BY <1>2, HistoryFrame
<1> QED
    BY <1>6, <1>7, <1>10, <1>12, <1>13, <1>14 DEF Inv, Analyses, Display

\* A message that comes in the meantime is kept, unless it is the cancellation.
LEMMA SettleReceiveInv ==
    ASSUME Inv, SettleReceive
    PROVE  Inv'
<1>1. /\ Settling /\ KeptCancel = {} /\ Arrived /\ taken' = taken + 1
      /\ IF Cancels(taken + 1, stage.message)
         THEN Reply(stage.message, 0, NoView) /\ stage' = Idle /\ UNCHANGED buffered
         ELSE buffered' = Append(buffered, taken + 1) /\ UNCHANGED <<stage, answers>>
      /\ UNCHANGED <<editor, inputClosed, texts, accepted, schedule, worker, completed, shown,
                     ground>>
    BY DEF SettleReceive
<1>2. /\ UNCHANGED <<session, sent, closed, documents, roots, watching>> /\ History /\ Turn
      /\ Busy /\ buffered \in Seq(Nat) /\ ~inputClosed /\ ~inputClosed'
    BY <1>1 DEF editor, texts, Inv, Busy, Settling, Turn, Arrived
<1>3. PICK t \in Nat, s \in Nat, n \in Nat : t = taken /\ s = Len(sent) /\ n = Len(buffered)
    BY <1>2, Numbers
<1>4. /\ t + 1 \in 1..s /\ t + 1 \in 0..s /\ t + 1 \in Nat /\ (t + 1) - 1 = t /\ t <= t + 1
      /\ \A j \in 1..(t + 1) : j \notin 1..t => j = t + 1
    BY <1>1, <1>3 DEF Arrived
<1>5. /\ documents \in [Docs -> Nat] /\ \A d \in Docs : documents[d] \in 0..t
      /\ \A i \in 1..n : buffered[i] \in 1..t
      /\ \A i, j \in 1..n : i < j => buffered[i] < buffered[j]
      /\ \A i \in 1..n : At(buffered[i] - 1) = Before(i)
      /\ At(t) = Before(n + 1)
    <2>1. \A d \in Docs : documents[d] \in Nat /\ documents[d] <= t
        BY <1>2, <1>3 DEF Turn
    <2>2. \A d \in Docs : documents[d] \in 0..t
        BY <1>3, <2>1
    <2> QED
        BY <1>2, <1>3, <2>2 DEF Turn
<1>6. \A d \in Docs : documents[d] <= t + 1
    BY <1>3, <1>5
<1>7. (\A k : At(k)' = At(k)) /\ Current' = Current
    BY <1>2 DEF At, Current
<1>8. History'
    BY <1>2, HistoryFrame
<1>9. CASE Cancels(t + 1, stage.message)
    <2>1. Reply(stage.message, 0, NoView) /\ stage' = Idle /\ buffered' = buffered
        BY <1>1, <1>3, <1>9
    <2>2. Display' /\ Analyses' /\ Ground' /\ ~Busy'
        BY <1>1, <1>2, <2>1, AfterReply
    <2>3. At(t + 1) = At(t) /\ ~IsAsked(t + 1)
        <3>1. sent[t + 1].kind = "cancel"
            BY <1>9 DEF Cancels
        <3>2. At(t + 1) = At((t + 1) - 1)
            BY <1>2, <1>3, <1>4, <3>1, StandsStill
        <3> QED
            BY <1>4, <3>1, <3>2 DEF IsAsked
    <2>4. Turn'
        <3>1. \A i \in 1..(n + 1) : Before(i)' = Before(i)
            BY <1>7, <2>1 DEF Before
        <3>2. \A i \in 1..n : i \in 1..(n + 1)
            BY <1>3
        <3>3. ASSUME NEW i \in 1..n PROVE At(buffered[i] - 1)' = Before(i)'
            <4>1. At(buffered[i] - 1)' = At(buffered[i] - 1)
                BY <1>2, <2>1 DEF At
            <4> QED
                BY <1>5, <3>1, <3>2, <4>1
        <3>4. At(taken)' = Before(Len(buffered) + 1)'
            <4>1. n + 1 \in 1..(n + 1)
                BY <1>3
            <4>2. Before(Len(buffered) + 1)' = Before(n + 1)'
                BY <1>3, <2>1 DEF Before, Current, At
            <4>3. At(taken)' = At(t + 1)
                BY <1>1, <1>2, <1>3 DEF At
            <4> QED
                BY <1>5, <2>3, <3>1, <4>1, <4>2, <4>3
        <3>5. \A i \in 1..n : buffered[i] \in 1..(t + 1)
            BY <1>3, <1>5
        <3>6. taken' = t + 1 /\ Len(buffered') = n /\ t + 1 \in 0..Len(sent)
            BY <1>1, <1>3, <1>4, <2>1
        <3>7. inputClosed' = inputClosed /\ inputClosed \in BOOLEAN /\ closed \in BOOLEAN
            BY <1>1, <1>2 DEF Turn
        <3> QED
            BY <1>2, <1>5, <1>6, <2>1, <3>3, <3>4, <3>5, <3>6, <3>7 DEF Turn
    <2>5. Kept' = Kept
        BY <2>1 DEF Kept
    <2>6. 0 \in Nat /\ NoView \in [package : BOOLEAN, files : Views]
        BY ViewsHave DEF NoView
    <2>7. \A j \in 1..taken' : j \notin 1..taken => ~IsAsked(j)
        BY <1>1, <1>3, <1>4, <2>3
    <2>8. taken' \in Nat /\ taken <= taken'
        BY <1>1, <1>3, <1>4
    <2>9. /\ Answered' /\ Len(answers') = Len(answers) + 1 /\ Len(answers) \in Nat
          /\ \A i \in 1..Len(answers) : answers'[i] = answers[i]
          /\ answers'[Len(answers) + 1] = [id |-> stage.message, text |-> 0, view |-> NoView]
        BY <1>2, <2>1, <2>2, <2>5, <2>6, <2>7, <2>8, ReplyKeeps
    <2>10. answers'[Len(answers) + 1].text = 0
        BY <2>9
    <2>11. Served'
        BY <1>2, <2>9, <2>10, ServedNothing
    <2>12. Engaged'
        BY <2>1 DEF Engaged, Busy, Idle, Stages
    <2> QED
        BY <1>8, <2>2, <2>4, <2>9, <2>11, <2>12 DEF Inv, Analyses, Display
<1>10. CASE ~Cancels(t + 1, stage.message)
    <2>1. buffered' = Append(buffered, t + 1) /\ UNCHANGED <<stage, answers>>
        BY <1>1, <1>3, <1>10
    <2>2. /\ buffered' \in Seq(Nat) /\ Len(buffered') = n + 1
          /\ \A i \in 1..n : buffered'[i] = buffered[i]
          /\ buffered'[n + 1] = t + 1
        BY <1>2, <1>3, <1>4, <2>1, AppendProperties
    <2>3. /\ \A i \in 1..(n + 1) : i \in 1..n \/ i = n + 1
          /\ \A i \in 1..n : i \in 1..(n + 1) /\ i # n + 1 /\ ~(n + 1 < i)
          /\ \A i \in 1..t : i < t + 1 /\ i \in 1..(t + 1)
          /\ n + 1 \in 1..(n + 1) /\ t + 1 \in 1..(t + 1) /\ ~(n + 1 < n + 1)
          /\ \A i \in 1..(n + 1) : i = 1 \/ i - 1 \in 1..n
          /\ (n + 1) + 1 # 1 /\ ((n + 1) + 1) - 1 = n + 1
        BY <1>3
    <2>4. \A i \in 1..(n + 1) : buffered'[i] \in 1..(t + 1)
        BY <1>5, <2>2, <2>3
    <2>5. \A i, j \in 1..(n + 1) : i < j => buffered'[i] < buffered'[j]
        BY <1>5, <2>2, <2>3
    <2>6. ASSUME NEW i \in 1..(n + 1) PROVE Before(i)' = Before(i)
        <3>1. CASE i = 1
            BY <1>7, <3>1 DEF Before
        <3>2. CASE i # 1
            <4>1. i - 1 \in 1..n /\ buffered'[i - 1] = buffered[i - 1]
                BY <2>2, <2>3, <3>2
            <4>2. At(buffered[i - 1])' = At(buffered[i - 1])
                BY <1>2, <4>1 DEF At
            <4> QED
                BY <3>2, <4>2 DEF Before
        <3> QED
            BY <3>1, <3>2
    <2>7. ASSUME NEW i \in 1..(n + 1) PROVE At(buffered[i] - 1)' = Before(i)'
        <3>1. At(buffered[i] - 1)' = At(buffered'[i] - 1)
            BY <1>2 DEF At
        <3>2. CASE i \in 1..n
            BY <1>5, <2>2, <2>6, <3>1, <3>2
        <3>3. CASE i = n + 1
            <4>1. Before(i)' = Before(n + 1)
                BY <2>6, <3>3
            <4> QED
                BY <1>4, <1>5, <2>2, <3>1, <3>3, <4>1
        <3> QED
            BY <2>3, <3>2, <3>3
    <2>8. At(taken)' = Before(Len(buffered) + 1)'
        <3>1. PICK b : b = buffered'[n + 1]
            OBVIOUS
        <3>2. PICK l : l = n + 1
            OBVIOUS
        <3>3. Before(Len(buffered) + 1)' = Before(l + 1)'
            BY <2>2, <3>2 DEF Before, Current, At
        <3>4. Before(l + 1)' = At(b)'
            BY <2>3, <3>1, <3>2 DEF Before, At
        <3>5. At(taken)' = At(b)'
            BY <1>1, <1>3, <2>2, <3>1 DEF At
        <3> QED
            BY <3>3, <3>4, <3>5
    <2>9. Turn'
        <3>1. taken' = t + 1 /\ t + 1 \in 0..Len(sent)
            BY <1>1, <1>3, <1>4
        <3>2. inputClosed' = inputClosed /\ inputClosed \in BOOLEAN /\ closed \in BOOLEAN
            BY <1>1, <1>2 DEF Turn
        <3> QED
            BY <1>2, <1>5, <1>6, <2>2, <2>4, <2>5, <2>7, <2>8, <3>1, <3>2 DEF Turn
    <2>10. Kept' = Kept \cup {t + 1}
        <3>1. Kept = {buffered[i] : i \in 1..n} /\ Kept' = {buffered'[i] : i \in 1..(n + 1)}
            BY <1>3, <2>2 DEF Kept
        <3> QED
            BY <2>2, <2>3, <3>1
    <2>11. Engaged /\ Answered /\ stage.message \in 1..t
        BY <1>2, <1>3 DEF Inv, Engaged
    <2>12. \A i \in 1..(n + 1) : stage.message < buffered'[i]
        BY <1>2, <1>3, <2>2, <2>3, <2>11 DEF Engaged
    <2>13. Busy' /\ stage'.kind = "settle" /\ stage' = stage
        BY <1>1, <2>1 DEF Busy, Settling
    <2>14. Engaged'
        <3>1. /\ stage.message \in 1..taken' /\ At(stage.message)' = Current'
              /\ sent'[stage.message].kind = "request"
              /\ \A i \in 1..Len(buffered') : stage.message < buffered'[i]
            <4>1. At(stage.message) = Current /\ sent[stage.message].kind = "request"
                BY <1>1, <1>2, <2>11 DEF Engaged, Settling
            <4>2. At(stage.message)' = At(stage.message)
                BY <1>2, <2>1 DEF At
            <4> QED
                BY <1>1, <1>2, <1>3, <1>7, <2>2, <2>3, <2>11, <2>12, <4>1, <4>2
        <3> QED
            BY <1>2, <2>11, <2>13, <3>1 DEF Engaged
    <2>15. Answered'
        <3>1. /\ Told' = Told /\ (Busy' <=> Busy) /\ (Running' <=> Running)
              /\ \A j : IsAsked(j)' <=> IsAsked(j)
            BY <1>2, <2>1 DEF Told, Busy, Running, IsAsked
        <3>2. Told \subseteq 1..t /\ t + 1 \notin 1..t
            BY <1>3, <2>11 DEF Answered
        <3>3. ASSUME Running, NEW j \in 1..(t + 1)
              PROVE  j \in Told <=> IsAsked(j) /\ j \notin Kept' /\ ~(Busy /\ j = stage.message)
            <4>1. CASE j = t + 1
                BY <2>10, <3>2, <4>1
            <4>2. CASE j # t + 1
                <5>1. j \in 1..t
                    BY <1>4, <3>3, <4>2
                <5> QED
                    BY <1>3, <2>10, <2>11, <3>3, <4>2, <5>1 DEF Answered
            <4> QED
                BY <4>1, <4>2
        <3>4. taken' = t + 1 /\ Told \subseteq 1..(t + 1)
            BY <1>1, <1>3, <2>3, <3>2
        <3>5. Running' => \A j \in 1..taken' :
                  j \in Told' <=> IsAsked(j)' /\ j \notin Kept' /\ ~(Busy' /\ j = stage'.message)
            BY <2>1, <3>1, <3>3, <3>4
        <3>6. answers' \in Seq(Replies) /\ Told' \subseteq 1..taken'
            BY <2>1, <2>11, <3>1, <3>4 DEF Answered
        <3> QED
            BY <3>5, <3>6 DEF Answered
    <2>16. UNCHANGED <<watching, projects, workspaces, pending, schedule, worker, completed,
                       shown, ground>>
        BY <1>1, <1>2 DEF accepted, schedule
    <2>17. Ground' /\ Analyses' /\ Display' /\ Served'
        BY <1>2, <2>1, <2>16, GroundFrame, AnalysesFrame, DisplayFrame, ServedFrame
           DEF Inv, Analyses, Display
    <2> QED
        BY <1>8, <2>9, <2>14, <2>15, <2>17 DEF Inv, Analyses, Display
<1> QED
    BY <1>9, <1>10

\* What a group's accepted analysis says of a document that is open in it.
LEMMA AptIsFaithful ==
    ASSUME NEW d \in Docs, documents[d] # 0, NEW w \in Workspaces,
           Apt(w, GroupOf(d, roots))
    PROVE  LET files == IF d \in DOMAIN w.files THEN w.files ELSE [e \in {d} |-> documents[e]]
           IN Faithful(files, w.package, d, documents, roots)
<1> DEFINE g == GroupOf(d, roots)
           group == {e \in Docs : documents[e] # 0 /\ GroupOf(e, roots) = g}
           files == IF d \in DOMAIN w.files THEN w.files ELSE [e \in {d} |-> documents[e]]
<1>1. OpenIn(g) = group /\ d \in group
    BY DEF OpenIn
<1>2. /\ \A e \in group : e \in DOMAIN w.files => w.files[e] = documents[e]
      /\ w.package \/ DOMAIN w.files = {e \in group : IsModule(e, g)}
    BY <1>1 DEF Apt
<1>3. d \in DOMAIN files
    OBVIOUS
<1>4. \A e \in group \cap DOMAIN files : files[e] = documents[e]
    BY <1>2
<1>5. w.package \/ DOMAIN files = IF IsModule(d, g) THEN {e \in group : IsModule(e, g)} ELSE {d}
    BY <1>1, <1>2
<1> HIDE DEF files
<1> QED
    BY <1>3, <1>4, <1>5 DEF Faithful, files

\* The answer to a request is of the texts that the editor had sent before it.
LEMMA AnswerInv ==
    ASSUME Inv, Answer
    PROVE  Inv'
<1> DEFINE d == sent[stage.message].doc
           g == GroupOf(d, roots)
           view == IF documents[d] = 0 THEN NoView ELSE Resolved(d)
<1>1. /\ Settling /\ Awaited = 0 /\ Reply(stage.message, documents[d], view) /\ stage' = Idle
      /\ UNCHANGED <<editor, input, texts, accepted, schedule, worker, completed, shown, ground>>
    BY DEF Answer
<1>2. /\ UNCHANGED <<session, sent, closed, taken, buffered, inputClosed, documents, roots,
                     watching>>
      /\ History /\ Turn /\ Accepted /\ Engaged /\ Busy /\ Running
    BY <1>1 DEF editor, input, texts, Inv, Busy, Settling, Running
<1>3. /\ stage.message \in 1..taken /\ stage.message \in 1..Len(sent)
      /\ stage.message # 0 /\ At(stage.message) = Current /\ stage.groups = {}
    <2>1. stage.message \in 1..taken /\ At(stage.message) = Current /\ stage.groups = {}
        BY <1>1, <1>2 DEF Engaged, Settling
    <2>2. stage.message \in 1..Len(sent) /\ stage.message \in Nat
        BY <1>2, <2>1, Numbers
    <2>3. stage.message # 0
        BY <2>1
    <2> QED
        BY <2>1, <2>2, <2>3
<1>4. sent[stage.message] \in Mail /\ d \in Docs
    <2>1. sent \in Seq(Mail)
        BY <1>2 DEF History
    <2>2. sent[stage.message] \in Mail
        BY <1>3, <2>1, ElementOfSeq
    <2> QED
        BY <2>2 DEF Mail
<1>5. sent[stage.message].after.texts = documents /\ sent[stage.message].after.roots = roots
    BY <1>3 DEF At, Current
<1>6. documents[d] \in Nat /\ g \in Groups /\ pending[g] = 0 /\ workspaces[g] \in Workspaces
    BY <1>1, <1>2, <1>4, GroupOfIn DEF Turn, Accepted, Awaited
<1>7. Apt(workspaces[g], g)
    BY <1>2, <1>3, <1>6 DEF Accepted, Still
<1>8. documents[d] # 0 =>
          view = [package |-> workspaces[g].package,
                  files |-> IF d \in DOMAIN workspaces[g].files THEN workspaces[g].files
                            ELSE [e \in {d} |-> documents[e]]]
    BY <1>6 DEF Resolved
<1>9. view \in [package : BOOLEAN, files : Views]
    <2>1. NoView \in [package : BOOLEAN, files : Views]
        BY ViewsHave DEF NoView
    <2>2. [e \in {d} |-> documents[e]] \in [{d} -> Nat] /\ {d} \in SUBSET Docs
        BY <1>4, <1>6
    <2>3. [e \in {d} |-> documents[e]] \in Views
        BY <2>2, ViewsHave
    <2>4. workspaces[g].package \in BOOLEAN /\ workspaces[g].files \in Views
        BY <1>6 DEF Workspaces
    <2>5. CASE documents[d] = 0
        BY <2>1, <2>5
    <2>6. CASE documents[d] # 0
        <3> HIDE DEF view, g, d
        <3> QED
            BY <1>8, <2>3, <2>4, <2>6
    <2> QED
        BY <2>5, <2>6
<1>10. documents[d] # 0 =>
           Faithful(view.files, view.package, d, sent[stage.message].after.texts,
                    sent[stage.message].after.roots)
    <2>1. SUFFICES ASSUME documents[d] # 0
                   PROVE  Faithful(view.files, view.package, d, documents, roots)
        BY <1>5
    <2>2. LET files == IF d \in DOMAIN workspaces[g].files THEN workspaces[g].files
                       ELSE [e \in {d} |-> documents[e]]
          IN Faithful(files, workspaces[g].package, d, documents, roots)
        BY <1>4, <1>6, <1>7, <2>1, AptIsFaithful
    <2>3. /\ view.package = workspaces[g].package
          /\ view.files = IF d \in DOMAIN workspaces[g].files THEN workspaces[g].files
                          ELSE [e \in {d} |-> documents[e]]
        BY <1>8, <2>1
    <2> HIDE DEF view, g, d
    <2> QED
        BY <2>2, <2>3
<1> HIDE DEF view, g
<1>11. Display' /\ Analyses' /\ Ground' /\ ~Busy'
    BY <1>1, <1>2, AfterReply
<1>12. Kept' = Kept
    BY <1>2 DEF Kept
<1>13. taken' = taken /\ taken \in Nat /\ taken <= taken
    BY <1>2, Numbers
<1>14. /\ Answered' /\ Len(answers') = Len(answers) + 1 /\ Len(answers) \in Nat
       /\ \A i \in 1..Len(answers) : answers'[i] = answers[i]
       /\ answers'[Len(answers) + 1] = [id |-> stage.message, text |-> documents[d],
                                        view |-> view]
    BY <1>1, <1>2, <1>6, <1>9, <1>11, <1>12, <1>13, ReplyKeeps
<1>15. Served'
    <2>1. PICK n \in Nat : n = Len(answers)
        BY <1>14
    <2>2. \A i \in 1..(n + 1) : i \in 1..n \/ i = n + 1
        OBVIOUS
    <2>3. \A i \in 1..n : answers'[i] = answers[i]
        BY <1>14, <2>1
    <2>4. /\ answers'[n + 1].id = stage.message /\ answers'[n + 1].text = documents[d]
          /\ answers'[n + 1].view = view /\ Len(answers') = n + 1
        BY <1>14, <2>1
    <2>5. Served /\ sent' = sent
        BY <1>2 DEF Inv
    <2>6. \A i \in 1..n : LET m == sent[answers'[i].id] IN
              answers'[i].text # 0 =>
                  Faithful(answers'[i].view.files, answers'[i].view.package, m.doc,
                           m.after.texts, m.after.roots)
        BY <2>1, <2>3, <2>5 DEF Served
    <2>7. LET m == sent[answers'[n + 1].id] IN
              answers'[n + 1].text # 0 =>
                  Faithful(answers'[n + 1].view.files, answers'[n + 1].view.package, m.doc,
                           m.after.texts, m.after.roots)
        BY <1>10, <2>4
    <2>8. \A i \in 1..Len(answers') : LET m == sent[answers'[i].id] IN
              answers'[i].text # 0 =>
                  Faithful(answers'[i].view.files, answers'[i].view.package, m.doc,
                           m.after.texts, m.after.roots)
        BY <2>2, <2>4, <2>6, <2>7
    <2> QED
        BY <2>5, <2>8 DEF Served
<1>16. Engaged'
    BY <1>1 DEF Engaged, Busy, Idle, Stages
<1>17. History' /\ Turn'
    BY <1>2, HistoryFrame, TurnFrame DEF input
<1> QED
    BY <1>11, <1>14, <1>15, <1>16, <1>17 DEF Inv, Analyses, Display

\* The answer to shutdown.
LEMMA ShutDownInv ==
    ASSUME Inv, ShutDown
    PROVE  Inv'
<1>1. /\ stage.kind = "drain" /\ Reply(stage.message, 0, NoView)
      /\ stage' = [Idle EXCEPT !.kind = "exit"]
      /\ UNCHANGED <<editor, input, texts, accepted, schedule, worker, completed, shown, ground>>
    BY DEF ShutDown
<1>2. /\ UNCHANGED <<session, sent, closed, taken, buffered, inputClosed, documents, roots,
                     watching>>
      /\ History /\ Turn /\ Engaged /\ Busy
    BY <1>1 DEF editor, input, texts, Inv, Busy
<1>3. Display' /\ Analyses' /\ Ground' /\ ~Busy'
    BY <1>1, <1>2, AfterReply
<1>4. /\ Kept' = Kept /\ taken' = taken /\ taken \in Nat /\ taken <= taken /\ 0 \in Nat
      /\ NoView \in [package : BOOLEAN, files : Views]
    BY <1>2, Numbers, ViewsHave DEF Kept, NoView
<1>5. /\ Answered' /\ Len(answers') = Len(answers) + 1 /\ Len(answers) \in Nat
      /\ \A i \in 1..Len(answers) : answers'[i] = answers[i]
      /\ answers'[Len(answers) + 1] = [id |-> stage.message, text |-> 0, view |-> NoView]
    BY <1>1, <1>2, <1>3, <1>4, ReplyKeeps
<1>6. answers'[Len(answers) + 1].text = 0
    BY <1>5
<1>7. Served'
    BY <1>2, <1>5, <1>6, ServedNothing
<1>8. Engaged'
    <2>1. stage' \in Stages /\ stage'.kind = "exit" /\ stage'.groups = {} /\ ~stage'.refresh
        BY <1>1 DEF Idle, Stages
    <2>2. /\ stage.message \in 1..taken' /\ sent'[stage.message].kind = "shutdown"
          /\ \A i \in 1..Len(buffered') : stage.message < buffered'[i]
        BY <1>1, <1>2 DEF Engaged
    <2> QED
        BY <2>1, <2>2 DEF Engaged, Busy
<1>9. History' /\ Turn'
    BY <1>2, HistoryFrame, TurnFrame DEF input
<1> QED
    BY <1>3, <1>5, <1>7, <1>8, <1>9 DEF Inv, Analyses, Display

-----------------------------------------------------------------------------
(* The end                                                                  *)

\* A server that has ended does nothing more.
LEMMA StopInv ==
    ASSUME Inv, NEW how \in {"left", "closed", "failed"}, stage' = Stopped(how),
           UNCHANGED <<editor, input, texts, accepted, schedule, worker, completed, output,
                       ground>>
    PROVE  Inv'
<1>1. UNCHANGED <<session, sent, closed, taken, buffered, inputClosed, documents, roots,
                  watching, projects, workspaces, pending, shown, answers>>
    BY DEF editor, input, texts, accepted, schedule, output
<1>2. stage' \in Stages /\ stage'.kind = how /\ stage'.groups = {} /\ ~stage'.refresh
    BY DEF Stopped, Idle, Stages
<1>3. Engaged' /\ ~Busy'
    BY <1>2, CalmStage
<1>4. ~Running'
    BY <1>2 DEF Running
<1>5. Answered'
    BY <1>1, <1>4 DEF Inv, Answered, Told
<1>6. Display'
    BY <1>1, <1>4 DEF Inv, Display, Accepted, View
<1>7. History' /\ Ground' /\ Turn' /\ Served' /\ Analyses'
    BY <1>1, HistoryFrame, GroundFrame, TurnFrame, ServedFrame, AnalysesFrame DEF Inv, Analyses
<1> QED
    BY <1>3, <1>5, <1>6, <1>7 DEF Inv, Analyses, Display

\* After shutdown nothing but exit comes.
LEMMA ExitInv ==
    ASSUME Inv, Exit
    PROVE  Inv'
<1>1. /\ stage.kind = "exit" /\ Due # 0 /\ TakeDue
      /\ UNCHANGED <<editor, texts, accepted, schedule, worker, completed, output, ground>>
    BY DEF Exit
<1>2. PICK how \in {"left", "failed"} : stage' = Stopped(how)
    BY DEF Exit
<1>3. /\ UNCHANGED <<session, sent, closed, documents, roots, watching, projects, workspaces,
                     pending, shown, answers>>
      /\ History /\ Turn /\ Engaged
    BY <1>1 DEF editor, texts, accepted, schedule, output, Inv
<1>4. PICK k \in 1..taken : /\ sent[k].kind = "shutdown"
                            /\ \A i \in 1..Len(buffered) : k < buffered[i]
    BY <1>1, <1>3 DEF Engaged
<1>5. PICK u \in 1..Len(sent) : u = Due /\ At(u - 1) = Current
    BY <1>1, <1>3, DueIs
<1>6. k < u /\ k \in 1..Len(sent)
    <2>1. k \in 1..Len(sent) /\ taken \in Nat /\ k <= taken /\ k < taken + 1
        BY <1>3, Numbers
    <2>2. CASE Due = taken + 1
        BY <1>5, <2>1, <2>2
    <2>3. CASE /\ Len(buffered) \in Nat \ {0} /\ Due = buffered[1]
        <3>1. 1 \in 1..Len(buffered)
            BY <2>3
        <3> QED
            BY <1>4, <1>5, <2>1, <2>3, <3>1
    <2> QED
        BY <1>1, <1>3, <2>2, <2>3, DueIs
<1>7. sent[u].kind = "exit"
    BY <1>3, <1>4, <1>6 DEF History, Ordered
<1>8. At(u) = Current
    BY <1>3, <1>5, <1>7, StandsStill
<1>9. Current' = At(Due)
    BY <1>3, <1>5, <1>8 DEF Current
<1>10. Turn'
    BY <1>1, <1>3, <1>9, TurnTaken
<1>11. stage' \in Stages /\ stage'.kind = how /\ stage'.groups = {} /\ ~stage'.refresh
    BY <1>2 DEF Stopped, Idle, Stages
<1>12. Engaged' /\ ~Busy'
    BY <1>11, CalmStage
<1>13. ~Running'
    BY <1>11 DEF Running
<1>14. Answered'
    <2>1. taken \in Nat /\ (taken' = taken \/ taken' = taken + 1)
        BY <1>1, <1>3, Numbers, TakeDueIs
    <2>2. \A j \in 1..taken : j \in 1..taken'
        BY <2>1
    <2> QED
        BY <1>3, <1>13, <2>2 DEF Inv, Answered, Told
<1>15. Display'
    BY <1>3, <1>13 DEF Inv, Display, Accepted, View
<1>16. History' /\ Ground' /\ Served' /\ Analyses'
    BY <1>1, <1>3, HistoryFrame, GroundFrame, ServedFrame, AnalysesFrame DEF Inv, Analyses
<1> QED
    BY <1>10, <1>12, <1>14, <1>15, <1>16 DEF Inv, Analyses, Display

\* The connection is found closed when everything has been received.
LEMMA NoticeClosedInv ==
    ASSUME Inv, NoticeClosed
    PROVE  Inv'
<1>1. /\ closed /\ taken = Len(sent) /\ inputClosed' = TRUE
      /\ UNCHANGED <<editor, taken, buffered, stage, texts, accepted, schedule, worker, completed,
                     output, ground>>
    BY DEF NoticeClosed
<1>2. UNCHANGED <<session, sent, closed, documents, roots, watching, projects, workspaces,
                  pending, shown, answers>>
    BY <1>1 DEF editor, texts, accepted, schedule, output
<1>3. Turn'
    BY <1>1, <1>2 DEF Inv, Turn, Before, Current, At
<1>4. History' /\ Ground' /\ Engaged' /\ Answered' /\ Served' /\ Analyses' /\ Display'
    BY <1>1, <1>2, HistoryFrame, GroundFrame, EngagedFrame, AnsweredFrame, ServedFrame,
       AnalysesFrame, DisplayFrame DEF Inv, Analyses, Display
<1> QED
    BY <1>3, <1>4 DEF Inv, Analyses, Display

-----------------------------------------------------------------------------
(* Completed analyses                                                       *)

\* An analysis that is accepted is of the group's texts, and so is what is
\* shown of it.
LEMMA ApplyCompletedInv ==
    ASSUME Inv, ApplyCompleted
    PROVE  Inv' /\ stage' = stage
<1> DEFINE c == Head(completed)
           g == c.group
<1>1. /\ Listening /\ completed # <<>> /\ completed' = Tail(completed)
      /\ UNCHANGED <<editor, input, texts, version, cancelled, queued, wake, worker, answers,
                     ground>>
      /\ IF IsCurrent(c) THEN Accept(c) ELSE UNCHANGED <<pending, stage, accepted, shown>>
    BY DEF ApplyCompleted
<1>2. /\ UNCHANGED <<session, sent, closed, taken, buffered, inputClosed, documents, roots,
                     watching>>
      /\ History /\ Ground /\ Turn /\ Engaged /\ Plan /\ Pool /\ Fitting /\ Accepted /\ View
      /\ completed \in Seq(Results)
    BY <1>1 DEF editor, input, texts, Inv, Pool
<1>3. PICK n \in Nat : n = Len(completed) /\ 1 \in 1..n
    <2>1. Len(completed) \in Nat \ {0}
        BY <1>1, <1>2, EmptySeq
    <2>2. 1 \in 1..Len(completed)
        BY <2>1
    <2> QED
        BY <2>1, <2>2
<1>4. c = completed[1] /\ c \in Results
    BY <1>1, <1>2, <1>3, HeadTailProperties
<1> HIDE DEF c
<1>5. /\ g \in Groups /\ c.version \in Nat /\ c.workspace \in Workspaces
      /\ c.called \in BOOLEAN
    BY <1>4 DEF Results
<1>6. PICK p \in Nat :
          /\ p = n - 1 /\ completed' \in Seq(Results) /\ Len(completed') = p
          /\ \A i \in 1..p : completed'[i] = completed[i + 1] /\ i + 1 \in 1..n
    <2>1. /\ completed' \in Seq(Results) /\ Len(completed') = n - 1
          /\ \A i \in 1..Len(completed') : completed'[i] = completed[i + 1]
        BY <1>1, <1>2, <1>3, HeadTailProperties
    <2>2. n - 1 \in Nat /\ \A i \in 1..(n - 1) : i + 1 \in 1..n
        BY <1>3
    <2> QED
        BY <2>1, <2>2
<1>7. Pool'
    <2>1. \A i \in 1..p : /\ completed'[i].version \in 1..version
                          /\ completed'[i].called => completed'[i].version \in cancelled
        BY <1>2, <1>3, <1>6 DEF Pool
    <2>2. UNCHANGED <<version, cancelled, queued, worker>>
        BY <1>1
    <2> QED
        BY <1>2, <1>6, <2>1, <2>2 DEF Pool, Issued, Job, FirstJob
<1>8. stage.groups = {} /\ Running
    BY <1>1, <1>2 DEF Listening, Settling, Engaged, Running
<1>9. History' /\ Turn' /\ Served'
    BY <1>1, <1>2, HistoryFrame, TurnFrame, ServedFrame DEF Inv
<1>10. CASE ~IsCurrent(c)
    <2>1. UNCHANGED <<pending, stage, accepted, shown, projects, workspaces>>
        BY <1>1, <1>10 DEF accepted
    <2>2. Plan' /\ Ground' /\ Engaged' /\ Answered' /\ Display'
        BY <1>1, <1>2, <2>1, PlanFrame, GroundFrame, EngagedFrame, AnsweredFrame, DisplayFrame
           DEF Inv, Display
    <2>3. Fitting'
        <3>1. \A j : (ApplyTo(j)' <=> ApplyTo(j)) /\ (Awaits(j)' <=> Awaits(j))
            BY <1>2, <2>1 DEF ApplyTo, OpenIn, Indexed, Awaits
        <3>2. \A w, h : (Apt(w, h)' <=> Apt(w, h)) /\ (Indexed(h)' <=> Indexed(h))
            BY <1>2, <2>1 DEF Apt, OpenIn, Indexed
        <3>3. UNCHANGED <<queued, worker>>
            BY <1>1
        <3>4. ASSUME NEW i \in 1..p, NEW q, q = completed'[i], Awaits(q), ~q.called
              PROVE  Apt(q.workspace, q.group) /\ (q.workspace.package => Indexed(q.group))
            BY <1>2, <1>3, <1>6, <3>4 DEF Fitting
        <3>5. \A i \in 1..Len(completed') :
                  (LET q == completed[i] IN
                   Awaits(q) /\ ~q.called => /\ Apt(q.workspace, q.group)
                                             /\ q.workspace.package => Indexed(q.group))'
            BY <1>6, <3>1, <3>2, <3>4
        <3> QED
            BY <1>2, <3>1, <3>3, <3>5 DEF Fitting
    <2> QED
        BY <1>7, <1>9, <2>1, <2>2, <2>3 DEF Inv, Display
<1>11. CASE IsCurrent(c)
    <2>1. pending[g] = c.version /\ c.version # 0
        BY <1>11 DEF IsCurrent
    <2>2. ~c.called
        BY <1>2, <1>3, <1>4, <1>5, <2>1 DEF Plan, Pool
    <2>3. Apt(c.workspace, g) /\ (c.workspace.package => Indexed(g))
        BY <1>2, <1>3, <1>4, <2>1, <2>2 DEF Fitting, Awaits
    <2>4. (g \in Roots /\ g \in roots) \/ ~c.workspace.package
        BY <1>2, <2>3 DEF Indexed, Ground
    <2>5. /\ pending' = [pending EXCEPT ![g] = 0]
          /\ stage' = stage
          /\ projects' = IF c.workspace.package
                         THEN [projects EXCEPT ![g].paths = DOMAIN c.workspace.files]
                         ELSE projects
          /\ workspaces' = [workspaces EXCEPT ![g] = c.workspace]
          /\ Publish(g, c.workspace)
        BY <1>1, <1>11, <2>2, <2>3 DEF Accept, Indexed
    <2>6. /\ pending \in [Groups -> Nat]
          /\ \A h \in Groups : pending'[h] = IF h = g THEN 0 ELSE pending[h]
        BY <1>2, <1>5, <2>5 DEF Plan
    <2>7. Ground'
        <3>1. /\ projects' \in [Roots -> Projects]
              /\ \A r \in Roots : projects'[r].indexed = projects[r].indexed
            <4>1. CASE c.workspace.package
                <5>1. DOMAIN c.workspace.files \in SUBSET Docs
                    BY <1>5, ViewsHave DEF Workspaces
                <5>2. g \in Roots /\ projects \in [Roots -> Projects]
                    BY <1>2, <2>4, <4>1 DEF Ground
                <5>3. projects[g] \in [indexed : BOOLEAN, paths : SUBSET Docs]
                    BY <5>2 DEF Projects
                <5>4. PICK x : x = [projects[g] EXCEPT !.paths = DOMAIN c.workspace.files]
                    OBVIOUS
                <5>5. x \in Projects /\ x.indexed = projects[g].indexed
                    BY <5>1, <5>3, <5>4 DEF Projects
                <5>6. projects' = [projects EXCEPT ![g] = x]
                    BY <2>5, <4>1, <5>4
                <5> QED
                    BY <5>2, <5>5, <5>6
            <4>2. CASE ~c.workspace.package
                BY <1>2, <2>5, <4>2 DEF Ground
            <4> QED
                BY <4>1, <4>2
        <3> QED
            BY <1>1, <1>2, <3>1 DEF Ground, ground
    <2>8. \A h : Indexed(h) /\ h \in Roots => Indexed(h)'
        <3>1. ASSUME NEW r \in Roots, projects[r].indexed PROVE projects'[r].indexed
            <4>1. projects \in [Roots -> Projects] /\ projects[r] \in Projects
                BY <1>2, <3>1 DEF Ground
            <4> QED
                BY <2>5, <3>1, <4>1 DEF Projects
        <3> QED
            BY <1>2, <3>1 DEF Indexed
    <2>9. Plan'
        <3>1. 0 \notin cancelled /\ version \in Nat
            BY <1>2 DEF Plan
        <3>2. \A h \in Groups : pending'[h] \notin cancelled /\ pending'[h] <= version
            BY <1>2, <2>6, <3>1 DEF Plan
        <3>3. \A h, k \in Groups : h # k /\ pending'[h] = pending'[k] => pending'[h] = 0
            BY <1>2, <2>6 DEF Plan
        <3>4. pending' \in [Groups -> Nat]
            BY <2>5, <2>6
        <3> QED
            BY <1>1, <1>2, <3>1, <3>2, <3>3, <3>4 DEF Plan
    <2>10. (\A h : OpenIn(h)' = OpenIn(h)) /\ (\A w, h : Apt(w, h)' <=> Apt(w, h))
        BY <1>2 DEF Apt, OpenIn
    <2>11. Fitting'
        <3>1. ASSUME NEW j, j.group \in Groups, j.version \in 1..version, Awaits(j)'
              PROVE  Awaits(j)
            <4>1. j.version # 0
                BY <1>2, <3>1 DEF Plan
            <4> QED
                BY <2>6, <3>1, <4>1 DEF Awaits
        <3>2. \A h : Indexed(h) => Indexed(h)'
            BY <1>2, <2>8 DEF Indexed, Ground
        <3>3. \A j : ApplyTo(j) => ApplyTo(j)'
            BY <1>2, <2>10, <3>2 DEF ApplyTo
        <3>4. UNCHANGED <<queued, worker>>
            BY <1>1
        <3>5. ASSUME NEW h \in Groups, NEW j, j = queued[h], j # NoJob, Awaits(j)'
              PROVE  ApplyTo(j)'
            <4>1. j.group \in Groups /\ j.version \in 1..version
                BY <1>2, <3>5 DEF Pool, Issued
            <4> QED
                BY <1>2, <3>1, <3>3, <3>5, <4>1 DEF Fitting
        <3>6. ASSUME NEW j \in worker.batch, Awaits(j)' PROVE ApplyTo(j)'
            <4>1. j \in Jobs /\ j.version \in 1..version
                BY <1>2, <3>6 DEF Pool, Crews, Issued
            <4>2. j.group \in Groups
                BY <4>1 DEF Jobs
            <4> QED
                BY <1>2, <3>1, <3>3, <3>6, <4>1, <4>2 DEF Fitting
        <3>7. ASSUME NEW i \in 1..p, NEW q, q = completed'[i], Awaits(q)', ~q.called
              PROVE  Apt(q.workspace, q.group)' /\ (q.workspace.package => Indexed(q.group)')
            <4>1. q = completed[i + 1] /\ i + 1 \in 1..Len(completed)
                BY <1>3, <1>6, <3>7
            <4>2. q \in Results /\ q.version \in 1..version
                BY <1>2, <4>1, ElementOfSeq DEF Pool
            <4>3. q.group \in Groups
                BY <4>2 DEF Results
            <4>4. Awaits(q)
                BY <3>1, <3>7, <4>2, <4>3
            <4>5. Apt(q.workspace, q.group) /\ (q.workspace.package => Indexed(q.group))
                BY <1>2, <3>7, <4>1, <4>4 DEF Fitting
            <4> QED
                BY <2>10, <3>2, <4>5
        <3>8. \A h \in Groups : (queued[h] # NoJob /\ Awaits(queued[h]) => ApplyTo(queued[h]))'
            BY <3>4, <3>5
        <3>9. \A j \in worker'.batch : Awaits(j)' => ApplyTo(j)'
            BY <3>4, <3>6
        <3>10. \A i \in 1..Len(completed') :
                  (LET q == completed[i] IN
                   Awaits(q) /\ ~q.called => /\ Apt(q.workspace, q.group)
                                             /\ q.workspace.package => Indexed(q.group))'
            BY <1>6, <3>7
        <3> QED
            BY <3>8, <3>9, <3>10 DEF Fitting
    <2>12. \A h \in Groups : h # g /\ Still(h)' => Still(h)
        BY <2>5, <2>6 DEF Still
    <2>13. Accepted'
        <3>1. \A h \in Groups : workspaces'[h] = IF h = g THEN c.workspace ELSE workspaces[h]
            BY <1>2, <1>5, <2>5 DEF Accepted
        <3>2. workspaces' \in [Groups -> Workspaces]
            BY <1>2, <1>5, <2>5 DEF Accepted
        <3>3. \A h \in Groups : workspaces'[h].package => h \in roots
            BY <1>2, <2>3, <3>1 DEF Accepted, Indexed
        <3>4. \A h \in Groups : Still(h)' => Apt(workspaces'[h], h)
            BY <1>2, <1>8, <2>3, <2>12, <3>1 DEF Accepted
        <3>5. \A h \in Groups : Still(h)' => Apt(workspaces[h], h)'
            <4>1. ASSUME NEW h \in Groups, Still(h)' PROVE Apt(workspaces[h], h)'
                <5>1. PICK w : w = workspaces'[h]
                    OBVIOUS
                <5>2. Apt(w, h)'
                    BY <2>10, <3>4, <4>1, <5>1
                <5> QED
                    BY <5>1, <5>2 DEF Apt
            <4> QED
                BY <4>1
        <3> QED
            BY <1>2, <3>2, <3>3, <3>5 DEF Accepted
    <2>14. View'
        <3>1. /\ shown \in [Docs -> Panels] /\ documents \in [Docs -> Nat]
              /\ c.workspace.package \in BOOLEAN /\ c.workspace.files \in Views
            BY <1>2, <1>5 DEF View, Turn, Workspaces
        <3>2. shown' = [d \in Docs |->
                  IF d \notin OpenIn(g) THEN shown[d]
                  ELSE [text |-> documents[d], package |-> c.workspace.package,
                        files |-> IF d \in DOMAIN c.workspace.files THEN c.workspace.files
                                  ELSE [e \in {d} |-> documents[e]]]]
            BY <2>5 DEF Publish
        <3>3. ASSUME NEW d \in Docs, d \in OpenIn(g)
              PROVE  /\ documents[d] # 0 /\ GroupOf(d, roots) = g
                     /\ shown'[d].text = documents[d] /\ shown'[d] \in Panels
                     /\ Faithful(shown'[d].files, shown'[d].package, d, documents, roots)
            <4>1. documents[d] # 0 /\ GroupOf(d, roots) = g /\ documents[d] \in Nat
                BY <3>1, <3>3 DEF OpenIn
            <4>2. PICK files : files = IF d \in DOMAIN c.workspace.files THEN c.workspace.files
                                       ELSE [e \in {d} |-> documents[e]]
                OBVIOUS
            <4>3. shown'[d] = [text |-> documents[d], package |-> c.workspace.package,
                               files |-> files]
                BY <3>2, <3>3, <4>2
            <4>4. Faithful(files, c.workspace.package, d, documents, roots)
                BY <1>5, <2>3, <4>1, <4>2, AptIsFaithful
            <4>5. files \in Views
                <5>1. [e \in {d} |-> documents[e]] \in [{d} -> Nat] /\ {d} \in SUBSET Docs
                    BY <4>1
                <5>2. [e \in {d} |-> documents[e]] \in Views
                    BY <5>1, ViewsHave
                <5> QED
                    BY <3>1, <4>2, <5>2
            <4> QED
                BY <3>1, <4>1, <4>3, <4>4, <4>5 DEF Panels
        <3>4. \A d \in Docs : d \notin OpenIn(g) => shown'[d] = shown[d]
            BY <3>2
        <3>5. \A d \in Docs : shown'[d] \in Panels
            BY <3>1, <3>3, <3>4
        <3>6. shown' \in [Docs -> Panels]
            BY <3>2, <3>5
        <3>7. ASSUME NEW d \in Docs
              PROVE  IF documents[d] = 0 THEN shown'[d] = Cleared
                     ELSE Still(GroupOf(d, roots))' =>
                          /\ shown'[d].text = documents[d]
                          /\ Faithful(shown'[d].files, shown'[d].package, d, documents, roots)
            <4>1. CASE d \in OpenIn(g)
                BY <3>3, <4>1
            <4>2. CASE d \notin OpenIn(g)
                <5>1. documents[d] # 0 => GroupOf(d, roots) # g /\ GroupOf(d, roots) \in Groups
                    BY <4>2, GroupOfIn DEF OpenIn
                <5>2. PICK h : h = GroupOf(d, roots)
                    OBVIOUS
                <5>3. documents[d] # 0 /\ Still(h)' => Still(h)
                    BY <1>2, <1>8, <2>12, <5>1, <5>2
                <5>4. Still(GroupOf(d, roots))' => Still(h)'
                    BY <1>2, <5>2 DEF Still
                <5> QED
                    BY <1>2, <1>8, <2>12, <3>4, <4>2, <5>2, <5>3, <5>4 DEF View
            <4> QED
                BY <4>1, <4>2
        <3> QED
            BY <1>2, <3>6, <3>7 DEF View
    <2>15. Engaged' /\ Answered'
        BY <1>1, <1>2, <2>5, EngagedFrame, AnsweredFrame DEF Inv
    <2> QED
        BY <1>7, <1>9, <2>5, <2>7, <2>9, <2>11, <2>13, <2>14, <2>15 DEF Inv
<1> QED
    BY <1>10, <1>11

-----------------------------------------------------------------------------
(* The specification                                                        *)

\* The server's side keeps the invariant.
LEMMA ServerInv ==
    ASSUME Inv, Server
    PROVE  Inv'
<1>1. CASE GiveUp \/ WorkerGone
    BY <1>1, StopInv DEF GiveUp, WorkerGone
<1>2. CASE LeaveClosed
    BY <1>2, StopInv DEF LeaveClosed
<1>3. CASE Handle
    BY <1>3, HandleInv
<1>4. CASE ScheduleNext
    BY <1>4, ScheduleNextInv
<1>5. CASE SettleKept
    BY <1>5, SettleKeptInv
<1>6. CASE SettleReceive
    BY <1>6, SettleReceiveInv
<1>7. CASE Answer
    BY <1>7, AnswerInv
<1>8. CASE ShutDown
    BY <1>8, ShutDownInv
<1>9. CASE Exit
    BY <1>9, ExitInv
<1>10. CASE NoticeClosed
    BY <1>10, NoticeClosedInv
<1>11. CASE ApplyCompleted
    BY <1>11, ApplyCompletedInv
<1> QED
    BY <1>1, <1>2, <1>3, <1>4, <1>5, <1>6, <1>7, <1>8, <1>9, <1>10, <1>11 DEF Server

\* So does what leaves everything alone.
LEMMA StutterInv ==
    ASSUME Inv, UNCHANGED vars
    PROVE  Inv'
<1>1. UNCHANGED <<editor, input, stage, texts, accepted, schedule, worker, completed, output,
                  ground>>
    BY DEF vars
<1>2. UNCHANGED <<session, sent, closed, taken, buffered, inputClosed, documents, roots,
                  watching, projects, workspaces, pending, version, cancelled, queued, wake,
                  shown, answers, disk, diskChanges>>
    BY <1>1 DEF editor, input, texts, accepted, schedule, output, ground
<1>3. History' /\ Ground' /\ Turn'
    BY <1>1, <1>2, HistoryFrame, GroundFrame, TurnFrame DEF Inv
<1>4. Engaged' /\ Answered' /\ Plan'
    BY <1>1, <1>2, EngagedFrame, AnsweredFrame, PlanFrame DEF Inv
<1>5. Pool' /\ Fitting' /\ Accepted'
    BY <1>1, <1>2, PoolFrame, FittingFrame, AcceptedFrame DEF Inv
<1>6. View' /\ Served'
    BY <1>1, <1>2, ViewFrame, ServedFrame DEF Inv
<1> QED
    BY <1>3, <1>4, <1>5, <1>6 DEF Inv

\* Every step keeps the invariant.
LEMMA NextInv ==
    ASSUME Inv, [Next]_vars
    PROVE  Inv'
<1>1. CASE UNCHANGED vars
    BY <1>1, StutterInv
<1>2. CASE Server
    BY <1>2, ServerInv
<1>3. CASE Worker(Work) \/ Worker(Die)
    BY <1>3, WorkerInv
<1>4. CASE Editor
    BY <1>4, SendInv, CloseInv, ChangeDiskInv DEF Editor
<1> QED
    BY <1>1, <1>2, <1>3, <1>4 DEF Next

\* The invariant holds in every state of every session.
THEOREM InvTheorem == Spec => []Inv
<1>1. Init => Inv
    BY InitInv
<1>2. Inv /\ [Next]_vars => Inv'
    BY NextInv
<1> QED
    BY <1>1, <1>2, PTL DEF Spec

\* Messages are taken once and in order, and the server never panics over the
\* project of an accepted analysis (protocol.rs:278).
THEOREM TypeTheorem == Spec => []TypeOK
<1>1. ASSUME Inv PROVE TypeOK
    <2>1. /\ taken \in 0..Len(sent) /\ buffered \in Seq(Nat) /\ documents \in [Docs -> Nat]
          /\ \A i, j \in 1..Len(buffered) : i < j => buffered[i] < buffered[j]
          /\ \A i \in 1..Len(buffered) : buffered[i] \in 1..taken
          /\ \A d \in Docs : documents[d] <= taken
        BY <1>1 DEF Inv, Turn
    <2>2. DOMAIN buffered = 1..Len(buffered)
        BY <2>1
    <2>3. \A d \in Docs : documents[d] \in 0..taken
        <3>1. \A d \in Docs : documents[d] \in Nat /\ taken \in Nat
            BY <1>1, <2>1, Numbers DEF Inv
        <3> QED
            BY <2>1, <3>1
    <2>4. stage.kind \in {"idle", "schedule", "settle", "drain", "exit", "left", "closed",
                          "failed"}
        BY <1>1 DEF Inv, Engaged, Stages
    <2>5. /\ roots \subseteq Roots /\ watching \in BOOLEAN
          /\ \A r \in Roots : projects[r].indexed => r \in roots
        BY <1>1 DEF Inv, Ground
    <2>6. /\ cancelled \subseteq 1..version /\ wake \in BOOLEAN /\ version \in Nat
          /\ \A g \in Groups : pending[g] \in 0..version
        BY <1>1 DEF Inv, Plan
    <2>7. \A g \in Groups : queued[g].version \in 0..version
        <3>1. ASSUME NEW g \in Groups PROVE queued[g].version \in 0..version
            <4>1. queued[g] # NoJob => queued[g].version \in 1..version
                BY <1>1 DEF Inv, Pool, Issued
            <4>2. NoJob.version = 0
                BY DEF NoJob
            <4> QED
                BY <2>6, <4>1, <4>2
        <3> QED
            BY <3>1
    <2>8. \A g \in Groups : workspaces[g].package => g \in roots
        BY <1>1 DEF Inv, Accepted
    <2>9. /\ worker.stage \in {"waiting", "woken", "analyzing", "read", "plain", "dead"}
          /\ worker.stage \in {"analyzing", "read", "plain"} <=> worker.batch # {}
        BY <1>1 DEF Inv, Pool, Crews
    <2> QED
        BY <2>1, <2>2, <2>3, <2>4, <2>5, <2>6, <2>7, <2>8, <2>9 DEF TypeOK
<1> QED
    BY <1>1, InvTheorem, PTL

\* An answer about an open document is of what the editor had sent when it asked,
\* of that document and of the others of its group, whatever it sent since and
\* whatever was being analyzed.
THEOREM AnswersTheorem == Spec => []AnswersWhole
<1>1. ASSUME Inv PROVE AnswersWhole
    <2>1. DOMAIN answers = 1..Len(answers)
        BY <1>1 DEF Inv, Answered
    <2> QED
        BY <1>1, <2>1 DEF Inv, Served, AnswersWhole
<1> QED
    BY <1>1, InvTheorem, PTL

\* The diagnostics of an open document are of its current text and of its
\* group's, unless the group waits for an analysis; a closed document has none.
THEOREM DiagnosticsTheorem == Spec => []DiagnosticsCurrent
<1>1. ASSUME Inv PROVE DiagnosticsCurrent
    BY <1>1 DEF Inv, View, DiagnosticsCurrent, Still
<1> QED
    BY <1>1, InvTheorem, PTL

-----------------------------------------------------------------------------
(* The server implements a session                                          *)

\* What a session makes of the editor's messages and of the answers.
AskedAt(k) == [id |-> k, text |-> IF sent[k].kind = "shutdown" THEN 0
                                  ELSE sent[k].after.texts[sent[k].doc]]
Dropped == {sent[k].target : k \in {j \in DOMAIN sent : sent[j].kind = "cancel"}}
Replied == [i \in DOMAIN answers |-> [id |-> answers[i].id, text |-> answers[i].text]]

\* Requests wait that were sent and are not answered yet.
LEMMA WaitingIs ==
    ASSUME Inv
    PROVE  /\ Asked = {AskedAt(k) : k \in {j \in 1..Len(sent) : IsAsked(j)}}
           /\ Session!Waiting = {r \in Asked : r.id \notin Told}
           /\ \A k \in 1..Len(sent) : AskedAt(k).id = k
<1>1. DOMAIN sent = 1..Len(sent) /\ DOMAIN answers = 1..Len(answers)
    BY DEF Inv, History, Answered
<1>2. Asked = {AskedAt(k) : k \in {j \in 1..Len(sent) : IsAsked(j)}}
    BY <1>1 DEF Asked, AskedAt
<1>3. Session!Answered = Told
    BY <1>1 DEF Session!Answered, Told
<1> QED
    BY <1>2, <1>3 DEF Session!Waiting, AskedAt

\* What a session is made of stays the same when these do.
LEMMA SessionFrame ==
    ASSUME UNCHANGED <<sent, answers>>, (worker'.stage = "dead") = (worker.stage = "dead"),
           Running' = Running
    PROVE  UNCHANGED Session!vars
BY DEF Session!vars, Asked, IsAsked

\* A step of the server that answers nothing goes on, or ends a session that
\* may end.
LEMMA ServesOrEnds ==
    ASSUME Inv, UNCHANGED <<sent, answers, worker>>, Running,
           Running' \/ Session!Waiting = {} \/ worker.stage = "dead"
    PROVE  [Session!Next]_(Session!vars)
<1>1. CASE Running'
    <2>1. Running' = Running
        BY <1>1 DEF Running
    <2> QED
        BY <2>1, SessionFrame
<1>2. CASE ~Running'
    <2>1. Session!End
        BY <1>2 DEF Session!End, Asked, IsAsked
    <2> QED
        BY <2>1 DEF Session!Next
<1> QED
    BY <1>1, <1>2

\* A request that was handled and is neither kept for later nor underway has
\* been answered.
LEMMA NoneWaits ==
    ASSUME Inv, Running,
           \A k \in 1..Len(sent) :
              IsAsked(k) => k \in 1..taken /\ k \notin Kept /\ ~(Busy /\ k = stage.message)
    PROVE  Session!Waiting = {}
<1>1. \A k \in 1..Len(sent) : IsAsked(k) => k \in Told
    BY DEF Inv, Answered
<1> QED
    BY <1>1, WaitingIs

\* Once the server has answered shutdown, nothing is open.
LEMMA ExitWaits ==
    ASSUME Inv, stage.kind = "exit"
    PROVE  Session!Waiting = {}
<1>1. PICK s \in 1..taken : /\ sent[s].kind = "shutdown"
                            /\ \A i \in 1..Len(buffered) : s < buffered[i]
    BY DEF Inv, Engaged
<1>2. /\ s \in 1..Len(sent) /\ s \in Nat /\ taken \in Nat /\ Len(sent) \in Nat
      /\ \A i \in 1..Len(buffered) : buffered[i] \in Nat
    BY <1>1, Numbers DEF Inv
<1>3. Running /\ ~Busy
    BY DEF Running, Busy
<1>4. ASSUME NEW k \in 1..Len(sent), IsAsked(k) PROVE k \in 1..taken /\ k \notin Kept
    <2>1. ~(s < k)
        BY <1>1, <1>2, <1>4 DEF Inv, History, Ordered, IsAsked
    <2>2. k \in 1..taken
        BY <1>2, <1>4, <2>1
    <2>3. \A i \in 1..Len(buffered) : buffered[i] # k
        BY <1>1, <1>2, <1>4, <2>1
    <2> QED
        BY <2>2, <2>3 DEF Kept
<1> QED
    BY <1>3, <1>4, NoneWaits

\* Nor when it takes exit in its turn.
LEMMA LeavingWaits ==
    ASSUME Inv, stage.kind = "idle", Due # 0, sent[Due].kind = "exit"
    PROVE  Session!Waiting = {}
<1>1. History /\ Turn
    BY DEF Inv
<1>2. /\ Due \in 1..Len(sent) /\ Due \in Nat
      /\ \/ /\ Len(buffered) \in Nat \ {0} /\ Due = buffered[1] /\ Due \in 1..taken
         \/ Len(buffered) = 0 /\ Due = taken + 1
    BY <1>1, DueIs
<1>3. /\ taken \in Nat /\ Len(sent) \in Nat
      /\ \A i \in 1..Len(buffered) : buffered[i] \in Nat /\ i \in Nat
    BY <1>1, Numbers
<1>4. \A i \in 1..Len(buffered) : Due <= buffered[i]
    <2>1. ASSUME NEW i \in 1..Len(buffered) PROVE Due <= buffered[i]
        <3>1. Due = buffered[1] /\ 1 \in 1..Len(buffered) /\ i \in Nat
            BY <1>2, <2>1
        <3>2. CASE i = 1
            BY <1>3, <3>1, <3>2
        <3>3. CASE i # 1
            <4>1. buffered[1] < buffered[i]
                BY <1>1, <2>1, <3>1, <3>3 DEF Turn
            <4> QED
                BY <1>2, <1>3, <2>1, <3>1, <4>1
        <3> QED
            BY <3>2, <3>3
    <2> QED
        BY <2>1
<1>5. Running /\ ~Busy
    BY DEF Running, Busy
<1>6. ASSUME NEW k \in 1..Len(sent), IsAsked(k) PROVE k \in 1..taken /\ k \notin Kept
    <2>1. k # Due /\ ~(Due < k)
        BY <1>1, <1>2, <1>6 DEF History, Ordered, IsAsked
    <2>2. k < Due
        BY <1>2, <2>1
    <2>3. k \in 1..taken
        BY <1>2, <1>3, <2>2
    <2>4. \A i \in 1..Len(buffered) : buffered[i] # k
        BY <1>2, <1>3, <1>4, <2>2
    <2> QED
        BY <2>3, <2>4 DEF Kept
<1> QED
    BY <1>5, <1>6, NoneWaits

\* Nor when it finds the connection closed.
LEMMA ClosedWaits ==
    ASSUME Inv, stage.kind = "idle", buffered = <<>>, inputClosed
    PROVE  Session!Waiting = {}
<1>1. taken = Len(sent) /\ Len(buffered) = 0
    BY DEF Inv, Turn
<1>2. Kept = {}
    BY <1>1 DEF Kept
<1>3. Running /\ ~Busy
    BY DEF Running, Busy
<1> QED
    BY <1>1, <1>2, <1>3, NoneWaits

\* One more answer is one more for the session.
LEMMA OneMore ==
    ASSUME NEW x \in Replies, answers \in Seq(Replies), answers' = Append(answers, x)
    PROVE  Replied' = Append(Replied, [id |-> x.id, text |-> x.text])
<1> DEFINE Pairs == [id : Nat, text : Nat]
<1>1. PICK n \in Nat : n = Len(answers)
    OBVIOUS
<1>2. /\ DOMAIN answers = 1..n /\ DOMAIN answers' = 1..(n + 1)
      /\ answers'[n + 1] = x /\ \A i \in 1..n : answers'[i] = answers[i]
    BY <1>1
<1>3. PICK last : last = [id |-> x.id, text |-> x.text]
    OBVIOUS
<1>4. last \in Pairs
    BY <1>3 DEF Replies
<1>5. PICK before : before = Replied
    OBVIOUS
<1>6. /\ before \in [1..n -> Pairs]
      /\ \A i \in 1..n : before[i] = [id |-> answers[i].id, text |-> answers[i].text]
    <2>1. \A i \in 1..n : answers[i] \in Replies
        BY <1>1, ElementOfSeq
    <2> QED
        BY <1>2, <1>5, <2>1 DEF Replied, Replies
<1> HIDE DEF Pairs
<1>7. before \in Seq(Pairs) /\ Len(before) = n
    <2>1. before \in Seq(Pairs)
        BY <1>6, SeqDef
    <2>2. DOMAIN before = 1..n
        BY <1>6
    <2> QED
        BY <2>1, <2>2, LenProperties
<1>8. /\ Append(before, last) = [i \in 1..(n + 1) |-> Append(before, last)[i]]
      /\ \A i \in 1..(n + 1) : Append(before, last)[i] = IF i = n + 1 THEN last ELSE before[i]
    <2>1. Append(before, last) \in Seq(Pairs) /\ Len(Append(before, last)) = n + 1
        BY <1>4, <1>7, AppendProperties
    <2>2. Append(before, last) \in [1..(n + 1) -> Pairs]
        BY <2>1, LenProperties
    <2>3. /\ Append(before, last)[n + 1] = last
          /\ \A i \in 1..n : Append(before, last)[i] = before[i]
        BY <1>4, <1>7, AppendProperties
    <2>4. \A i \in 1..(n + 1) : (i \in 1..n /\ i # n + 1) \/ i = n + 1
        OBVIOUS
    <2> QED
        BY <2>2, <2>3, <2>4
<1>9. Replied' = [i \in 1..(n + 1) |-> [id |-> answers'[i].id, text |-> answers'[i].text]]
    BY <1>2 DEF Replied
<1>10. \A i \in 1..(n + 1) :
          [id |-> answers'[i].id, text |-> answers'[i].text] = Append(before, last)[i]
    BY <1>2, <1>3, <1>6, <1>8
<1> QED
    BY <1>3, <1>5, <1>8, <1>9, <1>10

\* The server answers the oldest request that waits, from the text sent before
\* it or as cancelled.
LEMMA RepliesInTurn ==
    ASSUME Inv, Busy, ~Busy', Running', NEW text \in Nat,
           NEW view \in [package : BOOLEAN, files : Views],
           Reply(stage.message, text, view), UNCHANGED <<sent, worker>>,
           text = AskedAt(stage.message).text \/ (text = 0 /\ stage.message \in Dropped)
    PROVE  Session!Answer
<1>1. PICK k : k = stage.message
    OBVIOUS
<1>2. PICK r : r = AskedAt(k)
    OBVIOUS
<1>3. /\ k \in 1..taken /\ IsAsked(k) /\ Running
      /\ \A i \in 1..Len(buffered) : k < buffered[i]
    BY <1>1 DEF Inv, Engaged, Busy, IsAsked, Running
<1>4. /\ k \in 1..Len(sent) /\ k \in Nat /\ taken \in Nat /\ Len(sent) \in Nat
      /\ \A i \in 1..Len(buffered) : buffered[i] \in Nat
    BY <1>3, Numbers DEF Inv
<1>5. k \notin Told
    BY <1>1, <1>3 DEF Inv, Answered
<1>6. r \in Session!Waiting /\ r.id = k
    BY <1>2, <1>3, <1>4, <1>5, WaitingIs
<1>7. ASSUME NEW j \in 1..Len(sent), IsAsked(j), j \notin Told PROVE k <= j
    <2>1. CASE j \in 1..taken
        <3>1. j \in Kept \/ j = k
            BY <1>1, <1>3, <1>7, <2>1 DEF Inv, Answered
        <3>2. j \in Kept => k < j
            BY <1>3 DEF Kept
        <3> QED
            BY <1>4, <1>7, <3>1, <3>2
    <2>2. CASE j \notin 1..taken
        BY <1>3, <1>4, <1>7, <2>2
    <2> QED
        BY <2>1, <2>2
<1>8. \A q \in Session!Waiting : r.id <= q.id
    BY <1>6, <1>7, WaitingIs
<1>9. PICK x : x = [id |-> k, text |-> text, view |-> view]
    OBVIOUS
<1>10. x \in Replies /\ x.id = k /\ x.text = text
    BY <1>4, <1>9 DEF Replies
<1>11. answers' = Append(answers, x) /\ answers \in Seq(Replies)
    BY <1>1, <1>9 DEF Reply, Inv, Answered
<1>12. Replied' = Append(Replied, [id |-> k, text |-> text])
    BY <1>10, <1>11, OneMore
<1>13. r = [id |-> k, text |-> AskedAt(k).text]
    BY <1>2 DEF AskedAt
<1>14. \/ Replied' = Append(Replied, r)
       \/ k \in Dropped /\ Replied' = Append(Replied, [r EXCEPT !.text = 0])
    <2>1. [r EXCEPT !.text = 0] = [id |-> k, text |-> 0]
        BY <1>13
    <2>2. CASE text = AskedAt(k).text
        BY <1>12, <1>13, <2>2
    <2>3. CASE text = 0 /\ k \in Dropped
        BY <1>12, <2>1, <2>3
    <2> QED
        BY <1>1, <2>2, <2>3
<1>15. Running' = Running /\ Asked' = Asked /\ Dropped' = Dropped
    BY <1>3 DEF Asked, IsAsked, Dropped
<1> QED
    BY <1>3, <1>6, <1>8, <1>14, <1>15 DEF Session!Answer, Replied, Dropped

\* A message of the editor's asks something, cancels it, or is none of the
\* session's business.
LEMMA SendAsks ==
    ASSUME Inv, NEW m \in session.vocabulary, Send(m)
    PROVE  [Session!Next]_(Session!vars)
<1>1. PICK n \in Nat : n = Len(sent)
    BY Numbers DEF Inv
<1>2. /\ sent' \in Seq(Mail) /\ Len(sent') = n + 1 /\ n + 1 <= session.messages
      /\ \A k \in 1..n : sent'[k] = sent[k]
      /\ sent'[n + 1] = Stamped(sent, m) /\ sent \in Seq(Mail)
    BY <1>1, SendAdds DEF Inv, History
<1>3. DOMAIN sent = 1..n /\ DOMAIN sent' = 1..(n + 1)
    BY <1>1, <1>2
<1>4. n + 1 \in 1..(n + 1) /\ 1..(n + 1) = 1..n \cup {n + 1} /\ \A k \in 1..n : k < n + 1
    OBVIOUS
<1>5. UNCHANGED <<answers, worker, stage>> /\ MaySend(m)
    BY DEF Send, output
<1>6. sent'[n + 1].kind = m.kind /\ sent'[n + 1].target = m.target
    BY <1>2 DEF Stamped
<1>7. /\ Running' = Running /\ (worker.stage = "dead")' = (worker.stage = "dead")
      /\ Replied' = Replied
    BY <1>5 DEF Running, Replied
<1>8. CASE m.kind \in {"request", "shutdown"}
    <2>1. PICK text : text = IF sent'[n + 1].kind = "shutdown" THEN 0
                             ELSE sent'[n + 1].after.texts[sent'[n + 1].doc]
        OBVIOUS
    <2>2. MaxMessages \in Nat /\ session.messages \in 0..MaxMessages
        BY EditorAssumption DEF Inv, History
    <2>3. n + 1 \in 1..MaxMessages
        BY <1>2, <2>2
    <2>4. History'
        BY SendHistory DEF Inv
    <2>5. sent'[n + 1] \in Mail
        BY <1>2, <1>4, ElementOfSeq
    <2>6. sent'[n + 1].doc \in Docs
        BY <2>5 DEF Mail
    <2>7. sent'[n + 1].after.texts[sent'[n + 1].doc] \in 0..(n + 1)
        BY <1>2, <1>4, <2>4, <2>6 DEF History, Sound
    <2>8. text \in 0..MaxMessages
        BY <2>1, <2>2, <2>3, <2>7
    <2>9. \A q \in Asked : q.id < n + 1
        BY <1>1, <1>4, WaitingIs
    <2>10. Asked' = Asked \cup {[id |-> n + 1, text |-> text]}
        BY <1>2, <1>3, <1>4, <1>6, <1>8, <2>1 DEF Asked, IsAsked
    <2>11. Dropped' = Dropped
        BY <1>2, <1>3, <1>4, <1>6, <1>8 DEF Dropped
    <2>12. Session!Ask
        BY <1>7, <2>3, <2>8, <2>9, <2>10, <2>11 DEF Session!Ask, Replied, Dropped
    <2> QED
        BY <2>12 DEF Session!Next
<1>9. CASE m.kind \notin {"request", "shutdown"}
    <2>1. Asked' = Asked
        BY <1>2, <1>3, <1>4, <1>6, <1>9 DEF Asked, IsAsked
    <2>2. CASE m.kind = "cancel"
        <3>1. m.target \in 1..n /\ sent[m.target].kind = "request"
            BY <1>3, <1>5, <2>2 DEF MaySend
        <3>2. AskedAt(m.target) \in Asked /\ AskedAt(m.target).id = m.target
            BY <1>1, <3>1, WaitingIs DEF IsAsked
        <3>3. Dropped' = Dropped \cup {m.target}
            BY <1>2, <1>3, <1>4, <1>6, <2>2 DEF Dropped
        <3>4. Session!Cancel
            BY <1>7, <2>1, <3>2, <3>3 DEF Session!Cancel, Replied, Dropped
        <3> QED
            BY <3>4 DEF Session!Next
    <2>3. CASE m.kind # "cancel"
        <3>1. Dropped' = Dropped
            BY <1>2, <1>3, <1>4, <1>6, <2>3 DEF Dropped
        <3> QED
            BY <1>7, <2>1, <3>1 DEF Session!vars, Replied, Dropped
    <2> QED
        BY <2>2, <2>3
<1> QED
    BY <1>8, <1>9

\* Analyses are none of the session's business until one panics.
LEMMA WorksAside ==
    ASSUME Inv, Worker(Work) \/ Worker(Die)
    PROVE  [Session!Next]_(Session!vars)
<1>1. UNCHANGED <<sent, answers, stage>>
    BY DEF Worker, editor, output
<1>2. Running' = Running
    BY <1>1 DEF Running
<1>3. CASE Worker(Die)
    <2>1. worker \in Crews /\ worker'.stage = "dead"
        BY <1>3 DEF Inv, Pool, Crews, Worker, Die
    <2>2. Session!Break
        BY <1>1, <1>2, <2>1 DEF Session!Break, Asked, IsAsked
    <2> QED
        BY <2>2 DEF Session!Next
<1>4. CASE Worker(Work)
    <2>1. Work /\ worker \in Crews
        BY <1>4 DEF Worker, Inv, Pool
    <2>2. worker.stage # "dead"
        BY <2>1 DEF Work, Wake, TakeJobs, ReadPackage, UsePackage, AnalyzePlain, AbandonJob
    <2>3. worker'.stage # "dead"
        <3>1. CASE Wake \/ TakeJobs
            BY <2>1, <3>1 DEF Wake, TakeJobs, Crews
        <3>2. \A called, workspace : Deliver(called, workspace) => worker'.stage # "dead"
            BY DEF Deliver
        <3>3. CASE ReadPackage \/ UsePackage
            BY <2>1, <3>2, <3>3 DEF ReadPackage, UsePackage, Crews
        <3>4. CASE AnalyzePlain \/ AbandonJob
            BY <3>2, <3>4 DEF AnalyzePlain, AbandonJob
        <3> QED
            BY <2>1, <3>1, <3>3, <3>4 DEF Work
    <2> QED
        BY <1>1, <1>2, <2>2, <2>3, SessionFrame
<1> QED
    BY <1>3, <1>4

\* Handling a message answers nothing; the server ends on exit, or when it
\* finds nobody to analyze.
LEMMA HandleServes ==
    ASSUME Inv, Handle
    PROVE  [Session!Next]_(Session!vars)
<1>1. stage.kind = "idle" /\ Due # 0 /\ UNCHANGED <<sent, answers, worker>> /\ Running
    BY DEF Handle, editor, Running
<1>2. PICK m : m = sent[Due]
    OBVIOUS
<1>3. \/ stage' = Onward(Idle)
      \/ \E groups, refresh : stage' = Scheduling(groups, refresh)
      \/ stage' = stage
      \/ \E kind \in {"settle", "drain"} : stage' = [Idle EXCEPT !.kind = kind, !.message = Due]
      \/ m.kind = "exit"
    BY <1>2 DEF Handle, Open, Change, CloseDocument, ChangeFolders, Refresh
<1>4. /\ Onward(Idle).kind = "idle" \/ worker.stage = "dead"
      /\ \A groups, refresh : Scheduling(groups, refresh).kind \in {"idle", "schedule"}
      /\ \A kind : [Idle EXCEPT !.kind = kind, !.message = Due].kind = kind
    BY DEF Onward, Scheduling, Idle
<1>5. stage'.kind \in {"idle", "schedule", "settle", "drain"} \/ worker.stage = "dead"
      \/ m.kind = "exit"
    <2>1. CASE stage' = Onward(Idle)
        BY <1>4, <2>1
    <2>2. CASE \E groups, refresh : stage' = Scheduling(groups, refresh)
        BY <1>4, <2>2
    <2>3. CASE stage' = stage
        BY <1>1, <2>3
    <2>4. CASE \E kind \in {"settle", "drain"} :
                  stage' = [Idle EXCEPT !.kind = kind, !.message = Due]
        BY <1>4, <2>4
    <2> QED
        BY <1>3, <2>1, <2>2, <2>3, <2>4
<1>6. Running' \/ worker.stage = "dead" \/ Session!Waiting = {}
    BY <1>1, <1>2, <1>5, LeavingWaits DEF Running
<1> QED
    BY <1>1, <1>6, ServesOrEnds

\* An answer is what the session expects: to the oldest request, from what was
\* sent before it, or as cancelled.
LEMMA AnswerServes ==
    ASSUME Inv, Inv', Answer
    PROVE  Session!Answer
<1> DEFINE d == sent[stage.message].doc
<1>1. /\ stage.kind = "settle" /\ stage' = Idle /\ UNCHANGED <<sent, worker>>
      /\ Reply(stage.message, documents[d], IF documents[d] = 0 THEN NoView ELSE Resolved(d))
    BY DEF Answer, Settling, editor
<1>2. Busy /\ ~Busy' /\ Running'
    BY <1>1 DEF Busy, Idle, Running
<1>3. /\ stage.message \in 1..taken /\ At(stage.message) = Current
      /\ sent[stage.message].kind = "request"
    BY <1>1, <1>2 DEF Inv, Engaged
<1>4. stage.message # 0 /\ stage.message \in 1..Len(sent)
    BY <1>3, Numbers DEF Inv
<1>5. sent[stage.message].after.texts = documents
    BY <1>3, <1>4 DEF At, Current
<1>6. AskedAt(stage.message).text = documents[d]
    BY <1>3, <1>5 DEF AskedAt
<1>7. PICK view : view = IF documents[d] = 0 THEN NoView ELSE Resolved(d)
    OBVIOUS
<1>8. PICK x : x = [id |-> stage.message, text |-> documents[d], view |-> view]
    OBVIOUS
<1>9. answers \in Seq(Replies) /\ answers' \in Seq(Replies) /\ answers' = Append(answers, x)
    BY <1>1, <1>7, <1>8 DEF Inv, Answered, Reply
<1>10. x \in Replies
    <2>1. /\ Len(answers) \in Nat /\ Len(answers') = Len(answers) + 1
          /\ answers'[Len(answers) + 1] = x
        BY <1>9
    <2>2. Len(answers) + 1 \in 1..Len(answers')
        BY <2>1
    <2> QED
        BY <1>9, <2>1, <2>2, ElementOfSeq
<1>11. x.text = documents[d] /\ x.view = view
    BY <1>8
<1>12. documents[d] \in Nat /\ view \in [package : BOOLEAN, files : Views]
    BY <1>10, <1>11 DEF Replies
<1>13. PICK text \in Nat : text = documents[d]
    BY <1>12
<1>14. Reply(stage.message, text, view) /\ text = AskedAt(stage.message).text
    BY <1>1, <1>6, <1>7, <1>13
<1>15. UNCHANGED <<sent, worker>>
    BY <1>1
<1> QED
    BY <1>2, <1>12, <1>14, <1>15, RepliesInTurn

\* So is the answer to shutdown.
LEMMA ShutDownServes ==
    ASSUME Inv, ShutDown
    PROVE  Session!Answer
<1>1. /\ stage.kind = "drain" /\ stage' = [Idle EXCEPT !.kind = "exit"]
      /\ Reply(stage.message, 0, NoView) /\ UNCHANGED <<sent, worker>>
    BY DEF ShutDown, editor
<1>2. Busy /\ ~Busy' /\ Running'
    BY <1>1 DEF Busy, Idle, Running
<1>3. sent[stage.message].kind = "shutdown"
    BY <1>1 DEF Inv, Engaged
<1>4. AskedAt(stage.message).text = 0
    BY <1>3 DEF AskedAt
<1>5. NoView \in [package : BOOLEAN, files : Views] /\ 0 \in Nat
    BY ViewsHave DEF NoView
<1> QED
    BY <1>1, <1>2, <1>4, <1>5, RepliesInTurn

\* A cancelled request is answered as one that the editor cancelled.
LEMMA SettleServes ==
    ASSUME Inv, SettleKept \/ SettleReceive
    PROVE  [Session!Next]_(Session!vars)
<1>1. /\ stage.kind = "settle" /\ Busy /\ Running /\ UNCHANGED <<sent, worker>>
      /\ History /\ Turn
    BY DEF SettleKept, SettleReceive, Settling, editor, Busy, Running, Inv
<1>2. taken \in Nat /\ Len(sent) \in Nat /\ DOMAIN sent = 1..Len(sent)
    BY <1>1, Numbers
<1>3. NoView \in [package : BOOLEAN, files : Views] /\ 0 \in Nat
    BY ViewsHave DEF NoView
<1>4. ASSUME stage' = Idle, Reply(stage.message, 0, NoView),
             NEW c \in 1..Len(sent), Cancels(c, stage.message)
      PROVE  Session!Answer
    <2>1. ~Busy' /\ Running'
        BY <1>4 DEF Busy, Idle, Running
    <2>2. stage.message \in Dropped
        BY <1>2, <1>4 DEF Cancels, Dropped
    <2> QED
        BY <1>1, <1>3, <1>4, <2>1, <2>2, RepliesInTurn
<1>5. CASE SettleKept
    <2>1. PICK i \in DOMAIN buffered : Cancels(buffered[i], stage.message)
        BY <1>5 DEF SettleKept, KeptCancel
    <2>2. i \in 1..Len(buffered)
        BY <1>1, <2>1 DEF Turn
    <2>3. buffered[i] \in 1..Len(sent)
        BY <1>1, <2>2, Numbers
    <2>4. Session!Answer
        BY <1>4, <1>5, <2>1, <2>3 DEF SettleKept
    <2> QED
        BY <2>4 DEF Session!Next
<1>6. CASE SettleReceive
    <2>1. taken + 1 \in 1..Len(sent)
        BY <1>2, <1>6 DEF SettleReceive, Arrived
    <2>2. CASE Cancels(taken + 1, stage.message)
        <3>1. Session!Answer
            BY <1>4, <1>6, <2>1, <2>2 DEF SettleReceive
        <3> QED
            BY <3>1 DEF Session!Next
    <2>3. CASE ~Cancels(taken + 1, stage.message)
        <3>1. UNCHANGED <<stage, answers>>
            BY <1>6, <2>3 DEF SettleReceive
        <3>2. Running'
            BY <1>1, <3>1 DEF Running
        <3> QED
            BY <1>1, <3>1, <3>2, ServesOrEnds
    <2> QED
        BY <2>2, <2>3
<1> QED
    BY <1>5, <1>6

\* The server stops only when nothing waits, or its analysis broke.
LEMMA StopServes ==
    ASSUME Inv, \/ ScheduleNext \/ Exit \/ GiveUp \/ NoticeClosed \/ LeaveClosed
                \/ ApplyCompleted \/ WorkerGone
    PROVE  [Session!Next]_(Session!vars)
<1>1. UNCHANGED <<sent, answers, worker>>
    BY DEF ScheduleNext, Exit, GiveUp, NoticeClosed, LeaveClosed, ApplyCompleted, WorkerGone,
           editor, output
<1>2. CASE ScheduleNext
    <2>1. Running
        BY <1>2 DEF ScheduleNext, Running
    <2>2. \A groups, refresh : Scheduling(groups, refresh).kind \in {"idle", "schedule"}
        BY DEF Scheduling, Idle
    <2>3. PICK rest : /\ rest.kind \in {"idle", "schedule"}
                      /\ stage' = rest \/ stage' = Onward(rest)
        BY <1>2, <2>2 DEF ScheduleNext
    <2>4. Running' \/ worker.stage = "dead"
        BY <2>3 DEF Running, Onward
    <2> QED
        BY <1>1, <2>1, <2>4, ServesOrEnds
<1>3. CASE Exit \/ GiveUp
    <2>1. stage.kind = "exit"
        BY <1>3 DEF Exit, GiveUp
    <2>2. Running
        BY <2>1 DEF Running
    <2> QED
        BY <1>1, <2>1, <2>2, ExitWaits, ServesOrEnds
<1>4. CASE NoticeClosed
    <2>1. Running /\ Running'
        BY <1>4 DEF NoticeClosed, Settling, Running
    <2> QED
        BY <1>1, <2>1, ServesOrEnds
<1>5. CASE LeaveClosed
    <2>1. stage.kind = "idle" /\ buffered = <<>> /\ inputClosed
        BY <1>5 DEF LeaveClosed
    <2>2. Running
        BY <2>1 DEF Running
    <2> QED
        BY <1>1, <2>1, <2>2, ClosedWaits, ServesOrEnds
<1>6. ASSUME Listening PROVE Running
    BY <1>6 DEF Listening, Settling, Running
<1>7. CASE ApplyCompleted
    <2>1. Running /\ stage' = stage
        BY <1>6, <1>7, ApplyCompletedInv DEF ApplyCompleted
    <2>2. Running'
        BY <2>1 DEF Running
    <2> QED
        BY <1>1, <2>1, <2>2, ServesOrEnds
<1>8. CASE WorkerGone
    BY <1>1, <1>6, <1>8, ServesOrEnds DEF WorkerGone
<1> QED
    BY <1>2, <1>3, <1>4, <1>5, <1>7, <1>8

\* A session begins with nothing asked.
LEMMA SessionStarts ==
    ASSUME Init
    PROVE  Session!Init
<1>1. sent \in Seq(Mail) /\ \A k \in 1..Len(sent) : sent[k].kind = "open"
    BY InitOpens
<1>2. \A k \in DOMAIN sent : sent[k].kind = "open"
    BY <1>1
<1>3. Asked = {} /\ Dropped = {}
    BY <1>2 DEF Asked, IsAsked, Dropped
<1>4. answers = <<>> /\ worker.stage = "waiting" /\ stage.kind = "idle"
    BY DEF Init, Idle
<1>5. Replied = <<>>
    BY <1>4 DEF Replied
<1>6. (worker.stage = "dead") = FALSE /\ (~Running) = FALSE
    BY <1>4 DEF Running
<1> QED
    BY <1>3, <1>5, <1>6 DEF Session!Init, Replied, Dropped

\* The server implements a session: one answer to each request, in order, from
\* the text sent before it, cancelled only if the editor cancelled it; and it
\* does not end before it has answered, unless an analysis panicked.  This is
\* ImplementsSession without its fairness.
THEOREM SessionTheorem == Spec => Session!Init /\ [][Session!Next]_(Session!vars)
<1>1. ASSUME Inv, Inv', [Next]_vars PROVE [Session!Next]_(Session!vars)
    <2>1. CASE UNCHANGED vars
        <3>1. UNCHANGED <<sent, answers, worker, stage>>
            BY <2>1 DEF vars, editor, output
        <3>2. Running' = Running
            BY <3>1 DEF Running
        <3> QED
            BY <3>1, <3>2, SessionFrame
    <2>2. CASE Handle
        BY <1>1, <2>2, HandleServes
    <2>3. CASE SettleKept \/ SettleReceive
        BY <1>1, <2>3, SettleServes
    <2>4. CASE Answer
        BY <1>1, <2>4, AnswerServes DEF Session!Next
    <2>5. CASE ShutDown
        BY <1>1, <2>5, ShutDownServes DEF Session!Next
    <2>6. CASE \/ ScheduleNext \/ Exit \/ GiveUp \/ NoticeClosed \/ LeaveClosed
               \/ ApplyCompleted \/ WorkerGone
        BY <1>1, <2>6, StopServes
    <2>7. CASE Worker(Work) \/ Worker(Die)
        BY <1>1, <2>7, WorksAside
    <2>8. ASSUME NEW m \in session.vocabulary, Send(m) PROVE [Session!Next]_(Session!vars)
        BY <1>1, <2>8, SendAsks
    <2>9. CASE Close \/ \E r \in Roots : ChangeDisk(r)
        <3>1. UNCHANGED <<sent, answers, worker, stage>>
            BY <2>9 DEF Close, ChangeDisk, editor, output
        <3>2. Running' = Running
            BY <3>1 DEF Running
        <3> QED
            BY <3>1, <3>2, SessionFrame
    <2> QED
        BY <1>1, <2>1, <2>2, <2>3, <2>4, <2>5, <2>6, <2>7, <2>8, <2>9
           DEF Next, Server, Editor
<1>2. Init => Session!Init
    BY SessionStarts
<1> QED
    BY <1>1, <1>2, InvTheorem, PTL DEF Spec
=============================================================================
