--------------------------- MODULE LanguageServer ---------------------------
(* eqiora-language-server: one thread reads the editor's messages and answers *)
(* them, another analyzes.  Every change of a group of documents (those under *)
(* one workspace folder, or a document by itself) cancels the analysis of the *)
(* group that is underway and asks for a new one; a request waits for it, and *)
(* messages that come in the meantime are kept for later.                     *)
(*                                                                            *)
(* A text is the place, in the editor's messages, of the one that wrote it;   *)
(* 0 is the file on disk, or no document.                                     *)
EXTENDS Naturals, Sequences, FiniteSets, SequencesExt

CONSTANTS Docs,            \* documents, by URI
          Roots,           \* folders the editor may declare
          Path,            \* Path[d]: the folders that hold d, innermost first
          Named,           \* Named[r]: documents whose path below r names a module
          GroupOrder,      \* folders and documents in URI order
          Disks,           \* what a folder may hold on disk
          Sessions,        \* what the editor does
          MaxMessages      \* bound on the messages of a session

Groups == Roots \cup Docs
Kinds == {"open", "change", "stale", "close", "save", "watched", "folders", "request",
          "cancel", "shutdown", "exit"}
Messages == [kind : Kinds, doc : Docs, roots : SUBSET Roots, target : Nat]

\* What a folder holds: a manifest; whether it can be analyzed as a package, that
\* is, its checks pass and its files have URIs; and the package's files.
\*
\* A session: the folders of the initialize request and what they hold, the
\* documents the editor opens first, the messages it may go on with up to a
\* number, what others write to the folders and how often, and whether an
\* analysis may panic.
ASSUME EditorAssumption ==
    /\ Docs \cap Roots = {} /\ \A d \in Docs : Path[d] \in Seq(Roots)
    /\ Named \in [Roots -> SUBSET Docs]
    /\ GroupOrder \in Seq(Groups) /\ ToSet(GroupOrder) = Groups
    /\ Disks \subseteq [manifest : BOOLEAN, sound : BOOLEAN, files : SUBSET Docs]
    /\ \A there \in Disks : there.sound => there.manifest
    /\ MaxMessages \in Nat
    /\ \A s \in Sessions :
          /\ s.roots \subseteq Roots /\ s.disk \in [Roots -> Disks] /\ s.writes \subseteq Disks
          /\ s.opening \in Seq(Docs) /\ Len(s.opening) <= s.messages
          /\ \A i, j \in DOMAIN s.opening : s.opening[i] = s.opening[j] => i = j
          /\ s.vocabulary \subseteq Messages /\ s.messages \in 0..MaxMessages
          /\ s.diskChanges \in Nat /\ s.panics \in BOOLEAN

VARIABLES
    session,
    sent,        \* what the editor has sent, each with what it then believed
    closed,      \* the editor's end of the connection
    taken,       \* messages the server has received
    buffered,    \* received ahead of their turn
    inputClosed,
    stage,       \* what the server is at
    documents,   \* the text of each open document
    roots,
    watching,    \* file watching has been registered
    projects,    \* package projects, with the paths last admitted
    workspaces,  \* the accepted analysis of each group
    pending,     \* the version of the analysis a group waits for, or 0
    version,     \* next_analysis_version
    cancelled,   \* versions whose analysis was called off
    queued, wake,
    worker,
    completed,
    shown,       \* the diagnostics the editor last got
    answers,
    disk, diskChanges

editor == <<session, sent, closed>>
input == <<taken, buffered, inputClosed>>
schedule == <<pending, version, cancelled, queued, wake>>
texts == <<documents, roots, watching>>
accepted == <<projects, workspaces>>
output == <<shown, answers>>
ground == <<disk, diskChanges>>
vars == <<editor, input, stage, texts, accepted, schedule, worker, completed, output, ground>>

---------------------------------------------------------------------------
(* Groups                                                                   *)

\* The innermost declared folder that holds the document, or its own URI.
GroupOf(d, declared) ==
    LET holding == {i \in DOMAIN Path[d] : Path[d][i] \in declared}
    IN IF holding = {} THEN d ELSE Path[d][Min(holding)]

OpenIn(g) == {d \in Docs : documents[d] # 0 /\ GroupOf(d, roots) = g}

\* The first of these groups, in URI order.
First(S) == GroupOrder[Min({i \in DOMAIN GroupOrder : GroupOrder[i] \in S})]

Nothing == [d \in {} |-> 0]
NoWorkspace == [present |-> FALSE, package |-> FALSE, files |-> Nothing]
NoProject == [indexed |-> FALSE, paths |-> {}]
NoJob == [group |-> 0, version |-> 0, documents |-> Nothing, project |-> NoProject]
Cleared == [text |-> 0, package |-> FALSE, files |-> Nothing]

Idle == [kind |-> "idle", message |-> 0, groups |-> {}, refresh |-> FALSE]
Stopped(how) == [Idle EXCEPT !.kind = how]
Running == stage.kind \notin {"left", "closed", "failed", "panicked"}

\* ServerState::new: a folder with a manifest is analyzed before the first message.
Loaded(r) == r \in session.roots /\ session.disk[r].sound

---------------------------------------------------------------------------
(* The editor                                                               *)

\* What the editor knows after the messages in s.
Believed(s) == IF s = <<>> THEN [texts |-> [d \in Docs |-> 0], roots |-> session.roots]
               ELSE Last(s).after

\* The text of m's document once m is the message at k.
TextAfter(m, k, text) ==
    CASE m.kind = "open" /\ text = 0 -> k
      [] m.kind = "change" -> k
      [] m.kind = "close" -> 0
      [] OTHER -> text

Stamped(s, m) ==
    LET known == Believed(s) IN
    [kind |-> m.kind, doc |-> m.doc, roots |-> m.roots, target |-> m.target,
     after |-> [texts |-> [d \in Docs |-> IF d = m.doc
                                          THEN TextAfter(m, Len(s) + 1, known.texts[d])
                                          ELSE known.texts[d]],
                roots |-> IF m.kind = "folders" THEN m.roots ELSE known.roots]]

\* The documents that the session begins with, one after the other.
Opening(k) ==
    [kind |-> "open", doc |-> session.opening[k], roots |-> {}, target |-> 0,
     after |-> [texts |-> [d \in Docs |-> IF \E j \in 1..k : session.opening[j] = d
                                          THEN CHOOSE j \in 1..k : session.opening[j] = d
                                          ELSE 0],
                roots |-> session.roots]]

Says(kind) == \E k \in DOMAIN sent : sent[k].kind = kind

\* The editor changes, saves and closes documents that are open, gets file
\* events if it was asked for them, cancels requests it has made, and sends
\* nothing but exit after shutdown.
MaySend(m) ==
    /\ m.kind \in {"change", "stale", "save", "close"} => Believed(sent).texts[m.doc] # 0
    /\ m.kind = "watched" => watching
    /\ m.kind = "cancel" => m.target \in DOMAIN sent /\ sent[m.target].kind = "request"
    /\ Says("shutdown") => m.kind = "exit"
    /\ ~Says("exit")

Init ==
    /\ session \in Sessions
    /\ sent = [k \in DOMAIN session.opening |-> Opening(k)]
    /\ closed = FALSE
    /\ taken = 0 /\ buffered = <<>> /\ inputClosed = FALSE
    /\ stage = Idle
    /\ documents = [d \in Docs |-> 0]
    /\ roots = session.roots /\ watching = (session.roots # {})
    /\ disk = session.disk /\ diskChanges = 0
    /\ projects = [r \in Roots |-> IF Loaded(r) THEN [indexed |-> TRUE, paths |-> disk[r].files]
                                   ELSE NoProject]
    /\ workspaces = [g \in Groups |->
          IF g \in Roots /\ Loaded(g)
          THEN [present |-> TRUE, package |-> TRUE, files |-> [d \in disk[g].files |-> 0]]
          ELSE NoWorkspace]
    /\ pending = [g \in Groups |-> 0]
    /\ version = Cardinality({r \in session.roots : disk[r].manifest})
    /\ cancelled = {}
    /\ queued = [g \in Groups |-> NoJob] /\ wake = FALSE
    /\ worker = [stage |-> "waiting", batch |-> {}, pass |-> 1, found |-> Nothing]
    /\ completed = <<>>
    /\ shown = [d \in Docs |-> Cleared]
    /\ answers = <<>>

\* Bound: the messages of the session.
Send(m) ==
    /\ ~closed /\ Running /\ Len(sent) < session.messages /\ MaySend(m)
    /\ sent' = Append(sent, Stamped(sent, m))
    /\ UNCHANGED <<session, closed, input, stage, texts, accepted, schedule, worker, completed, output,
                   ground>>

Close ==
    /\ ~closed /\ Running
    /\ closed' = TRUE
    /\ UNCHANGED <<session, sent, input, stage, texts, accepted, schedule, worker, completed, output,
                   ground>>

\* Somebody writes to a folder; bound: the session says how often, and only in
\* those it starts with.
ChangeDisk(r) ==
    /\ diskChanges < session.diskChanges /\ r \in session.roots /\ Running
    /\ \E there \in session.writes \ {disk[r]} : disk' = [disk EXCEPT ![r] = there]
    /\ diskChanges' = diskChanges + 1
    /\ UNCHANGED <<editor, input, stage, texts, accepted, schedule, worker, completed, output>>

---------------------------------------------------------------------------
(* Scheduling                                                               *)

\* schedule_group, for documents and folders that may just have changed.
Schedule(g, docs, declared, known) ==
    /\ cancelled' = cancelled \cup ({pending[g]} \ {0})
    /\ version' = version + 1
    /\ pending' = [pending EXCEPT ![g] = version + 1]
    /\ queued' = [queued EXCEPT ![g] =
          [group |-> g, version |-> version + 1,
           documents |-> [d \in {e \in Docs : docs[e] # 0 /\ GroupOf(e, declared) = g}
                          |-> docs[d]],
           project |-> IF g \in Roots THEN known[g] ELSE NoProject]]
    /\ wake' = TRUE

\* The wake-up has nobody to reach once the worker is gone.
Onward(next) == IF worker.stage = "dead" THEN Stopped("failed") ELSE next

\* The groups still to be scheduled for a message.
Scheduling(groups, refresh) ==
    IF groups = {} THEN Idle
    ELSE [Idle EXCEPT !.kind = "schedule", !.groups = groups, !.refresh = refresh]

\* stage_project, when a save or a file event may have made the folder a package.
Stageable(r) == projects[r].indexed \/ disk[r].manifest

ScheduleNext ==
    LET g == First(stage.groups)
        rest == Scheduling(stage.groups \ {g}, stage.refresh)
    IN /\ stage.kind = "schedule"
       /\ IF stage.refresh /\ (OpenIn(g) = {} \/ ~Stageable(g))
          THEN /\ stage' = rest
               /\ UNCHANGED <<projects, schedule>>
          ELSE /\ projects' = IF stage.refresh THEN [projects EXCEPT ![g].indexed = TRUE]
                              ELSE projects
               /\ Schedule(g, documents, roots, projects')
               /\ stage' = Onward(rest)
       /\ UNCHANGED <<editor, input, texts, workspaces, worker, completed, output, ground>>

---------------------------------------------------------------------------
(* Messages in their turn                                                   *)

Arrived == ~inputClosed /\ taken < Len(sent)

\* The next message to handle, 0 if there is none: one kept for later, or one
\* that has arrived.
\* Faulty variant: what arrives is handled before what was kept.
DueNewest == IF Arrived THEN taken + 1 ELSE IF buffered # <<>> THEN Head(buffered) ELSE 0

Due == IF buffered # <<>> THEN Head(buffered) ELSE IF Arrived THEN taken + 1 ELSE 0

TakeDue ==
    /\ IF Due = taken + 1 THEN taken' = Due /\ UNCHANGED buffered
       ELSE buffered' = Tail(buffered) /\ UNCHANGED taken
    /\ UNCHANGED inputClosed

Open(d) ==
    /\ documents[d] = 0
    /\ documents' = [documents EXCEPT ![d] = Due]
    /\ Schedule(GroupOf(d, roots), documents', roots, projects)
    /\ stage' = Onward(Idle)
    /\ UNCHANGED <<roots, watching, accepted, shown>>

Change(d) ==
    /\ documents' = [documents EXCEPT ![d] = Due]
    /\ Schedule(GroupOf(d, roots), documents', roots, projects)
    /\ stage' = Onward(Idle)
    /\ UNCHANGED <<roots, watching, accepted, shown>>

CloseDocument(d) ==
    /\ documents' = [documents EXCEPT ![d] = 0]
    /\ Schedule(GroupOf(d, roots), documents', roots, projects)
    /\ stage' = Onward(Idle)
    /\ shown' = IF stage' = Idle THEN [shown EXCEPT ![d] = Cleared] ELSE shown
    /\ UNCHANGED <<roots, watching, accepted>>

Regrouped(declared) ==
    {GroupOf(d, declared) : d \in {e \in Docs : documents[e] # 0}}

\* workspace_folders::change, up to the scheduling of the new groups.
\* Faulty variant: the old groups keep their analyses, underway or accepted.
ChangeFoldersOnly(declared) ==
    /\ declared # roots
    /\ roots' = declared
    /\ projects' = [r \in Roots |-> IF r \notin declared THEN NoProject
                                     ELSE IF projects[r].indexed THEN projects[r]
                                     ELSE [indexed |-> disk[r].manifest, paths |-> {}]]
    /\ watching' = (watching \/ declared # {})
    /\ stage' = Scheduling(Regrouped(declared), FALSE)
    /\ UNCHANGED <<documents, workspaces, schedule, shown>>

ChangeFolders(declared) ==
    /\ declared # roots
    /\ roots' = declared
    /\ cancelled' = cancelled \cup ({pending[g] : g \in Groups} \ {0})
    /\ pending' = [g \in Groups |-> 0]
    /\ queued' = [g \in Groups |-> NoJob]
    /\ workspaces' = [g \in Groups |-> NoWorkspace]
    /\ projects' = [r \in Roots |-> IF r \notin declared THEN NoProject
                                     ELSE IF projects[r].indexed THEN projects[r]
                                     ELSE [indexed |-> disk[r].manifest, paths |-> {}]]
    /\ watching' = (watching \/ declared # {})
    /\ stage' = Scheduling(Regrouped(declared), FALSE)
    /\ UNCHANGED <<documents, version, wake, shown>>

\* refresh: every declared folder that holds the file, innermost or not.
Refresh(m) ==
    /\ stage' = Scheduling({r \in ToSet(Path[m.doc]) :
                     r \in roots /\ (m.kind = "save" => documents[m.doc] # 0)}, TRUE)
    /\ UNCHANGED <<texts, accepted, schedule, shown>>

Ignored(m) == \/ m.kind \in {"stale", "cancel"}
              \/ m.kind = "open" /\ documents[m.doc] # 0
              \/ m.kind = "folders" /\ m.roots = roots

Unmoved == UNCHANGED <<texts, accepted, schedule, shown>>

Handle ==
    LET m == sent[Due] IN
    /\ stage.kind = "idle" /\ Due # 0
    /\ TakeDue
    /\ \/ m.kind = "open" /\ Open(m.doc)
       \/ m.kind = "change" /\ Change(m.doc)
       \/ m.kind = "close" /\ CloseDocument(m.doc)
       \/ m.kind = "folders" /\ ChangeFolders(m.roots)
       \/ m.kind \in {"save", "watched"} /\ Refresh(m)
       \/ Ignored(m) /\ Unmoved /\ UNCHANGED stage
       \/ m.kind = "request" /\ Unmoved
          /\ stage' = [Idle EXCEPT !.kind = "settle", !.message = Due]
       \/ m.kind = "shutdown" /\ Unmoved
          /\ stage' = [Idle EXCEPT !.kind = "drain", !.message = Due]
       \/ m.kind = "exit" /\ Unmoved /\ stage' = Stopped("left")
    /\ UNCHANGED <<editor, worker, completed, answers, ground>>

---------------------------------------------------------------------------
(* Answers                                                                  *)

Cancels(k, request) == sent[k].kind = "cancel" /\ sent[k].target = request

\* resolved and snapshot: the group's analysis if it has the document, else
\* the document by itself.
Resolved(d) ==
    LET g == GroupOf(d, roots) IN
    IF pending[g] = 0 /\ d \in DOMAIN workspaces[g].files
    THEN [package |-> workspaces[g].package, files |-> workspaces[g].files]
    ELSE [package |-> workspaces[g].package, files |-> [e \in {d} |-> documents[e]]]

Reply(k, text, view) ==
    answers' = Append(answers, [id |-> k, text |-> text, view |-> view])

NoView == [package |-> FALSE, files |-> Nothing]
Settling == stage.kind = "settle"
KeptCancel == {i \in DOMAIN buffered : Cancels(buffered[i], stage.message)}

\* The group the request waits for.
Awaited == pending[GroupOf(sent[stage.message].doc, roots)]

\* settle_group finds the cancellation among the messages kept for later.
SettleKept ==
    /\ Settling /\ KeptCancel # {}
    /\ buffered' = RemoveAt(buffered, Min(KeptCancel))
    /\ Reply(stage.message, 0, NoView)
    /\ stage' = Idle
    /\ UNCHANGED <<editor, taken, inputClosed, texts, accepted, schedule, worker, completed,
                   shown, ground>>

SettleReceive ==
    /\ Settling /\ KeptCancel = {} /\ Awaited # 0 /\ Arrived
    /\ taken' = taken + 1
    /\ IF Cancels(taken + 1, stage.message)
       THEN Reply(stage.message, 0, NoView) /\ stage' = Idle /\ UNCHANGED buffered
       ELSE buffered' = Append(buffered, taken + 1) /\ UNCHANGED <<stage, answers>>
    /\ UNCHANGED <<editor, inputClosed, texts, accepted, schedule, worker, completed, shown,
                   ground>>

\* A request about a document that is not open is refused.
Answer ==
    LET d == sent[stage.message].doc IN
    /\ Settling /\ KeptCancel = {} /\ Awaited = 0
    /\ Reply(stage.message, documents[d], IF documents[d] = 0 THEN NoView ELSE Resolved(d))
    /\ stage' = Idle
    /\ UNCHANGED <<editor, input, texts, accepted, schedule, worker, completed, shown, ground>>

\* settle_pending and handle_shutdown.
ShutDown ==
    /\ stage.kind = "drain" /\ \A g \in Groups : pending[g] = 0
    /\ Reply(stage.message, 0, NoView)
    /\ stage' = [Idle EXCEPT !.kind = "exit"]
    /\ UNCHANGED <<editor, input, texts, accepted, schedule, worker, completed, shown, ground>>

\* Anything but exit is an error.
Exit ==
    /\ stage.kind = "exit" /\ Due # 0
    /\ TakeDue
    /\ stage' = Stopped(IF sent[Due].kind = "exit" THEN "left" ELSE "failed")
    /\ UNCHANGED <<editor, texts, accepted, schedule, worker, completed, output, ground>>

\* So is waiting for it for 30 seconds.
GiveUp ==
    /\ stage.kind = "exit" /\ Due = 0
    /\ stage' = Stopped("failed")
    /\ UNCHANGED <<editor, input, texts, accepted, schedule, worker, completed, output, ground>>

NoticeClosed ==
    /\ \/ stage.kind = "idle" /\ Due = 0
       \/ Settling /\ KeptCancel = {} /\ Awaited # 0
    /\ ~inputClosed /\ closed /\ taken = Len(sent)
    /\ inputClosed' = TRUE
    /\ UNCHANGED <<editor, taken, buffered, stage, texts, accepted, schedule, worker, completed,
                   output, ground>>

LeaveClosed ==
    /\ stage.kind = "idle" /\ buffered = <<>> /\ inputClosed
    /\ stage' = Stopped("closed")
    /\ UNCHANGED <<editor, input, texts, accepted, schedule, worker, completed, output, ground>>

---------------------------------------------------------------------------
(* Completed analyses                                                       *)

\* The server listens to the worker: messages that have arrived come first.
Listening ==
    LET quiet == inputClosed \/ (taken = Len(sent) /\ ~closed) IN
    \/ stage.kind = "idle" /\ Due = 0 /\ ~inputClosed /\ ~closed
    \/ Settling /\ KeptCancel = {} /\ Awaited # 0 /\ quiet
    \/ stage.kind = "drain" /\ \E g \in Groups : pending[g] # 0

\* Faulty variant: any analysis of a group that waits for one will do.
IsCurrentAny(c) == pending[c.group] # 0

IsCurrent(c) == pending[c.group] = c.version /\ c.version # 0

\* publish_group_diagnostics, with the analysis just accepted.
Publish(g, workspace) ==
    shown' = [d \in Docs |->
        IF d \notin OpenIn(g) THEN shown[d]
        ELSE [text |-> documents[d], package |-> workspace.package,
              files |-> IF d \in DOMAIN workspace.files THEN workspace.files
                        ELSE [e \in {d} |-> documents[e]]]]

Accept(c) ==
    /\ pending' = [pending EXCEPT ![c.group] = 0]
    /\ IF c.workspace.package /\ ~projects[c.group].indexed
       THEN /\ stage' = Stopped("panicked")
            /\ UNCHANGED <<accepted, shown>>
       ELSE /\ stage' = stage
            /\ projects' = IF c.workspace.package
                           THEN [projects EXCEPT ![c.group].paths = DOMAIN c.workspace.files]
                           ELSE projects
            /\ workspaces' = IF c.called THEN workspaces
                             ELSE [workspaces EXCEPT ![c.group] = c.workspace]
            /\ IF c.called THEN UNCHANGED shown ELSE Publish(c.group, c.workspace)

ApplyCompleted ==
    LET c == Head(completed) IN
    /\ Listening /\ completed # <<>>
    /\ completed' = Tail(completed)
    /\ IF IsCurrent(c) THEN Accept(c) ELSE UNCHANGED <<pending, stage, accepted, shown>>
    /\ UNCHANGED <<editor, input, texts, version, cancelled, queued, wake, worker, answers,
                   ground>>

\* The channel of a dead worker is empty and has no sender.
WorkerGone ==
    /\ Listening /\ completed = <<>> /\ worker.stage = "dead"
    /\ stage' = Stopped("failed")
    /\ UNCHANGED <<editor, input, texts, accepted, schedule, worker, completed, output, ground>>

---------------------------------------------------------------------------
(* The worker                                                               *)

\* Jobs are done in the order of their groups.
FirstJob(jobs) == CHOOSE j \in jobs : j.group = First({k.group : k \in jobs})
Job == FirstJob(worker.batch)
CalledOff == Job.version \in cancelled

Wake ==
    /\ worker.stage = "waiting" /\ wake
    /\ wake' = FALSE
    /\ worker' = [worker EXCEPT !.stage = "woken"]
    /\ UNCHANGED <<pending, version, cancelled, queued, completed>>

QueuedJobs == {queued[g] : g \in Groups} \ {NoJob}

\* Faulty variant: one job for each wake-up.
TakeJobsOne ==
    LET jobs == IF QueuedJobs = {} THEN {} ELSE {FirstJob(QueuedJobs)} IN
    /\ worker.stage = "woken"
    /\ queued' = [g \in Groups |-> IF queued[g] \in jobs THEN NoJob ELSE queued[g]]
    /\ worker' = [worker EXCEPT !.batch = jobs, !.pass = 1,
                               !.stage = IF jobs = {} THEN "waiting" ELSE "analyzing"]
    /\ UNCHANGED <<pending, version, cancelled, wake, completed>>

TakeJobs ==
    /\ worker.stage = "woken"
    /\ queued' = [g \in Groups |-> NoJob]
    /\ worker' = [worker EXCEPT !.batch = QueuedJobs, !.pass = 1,
                               !.stage = IF QueuedJobs = {} THEN "waiting" ELSE "analyzing"]
    /\ UNCHANGED <<pending, version, cancelled, wake, completed>>

\* The job is done: its result goes to the server.
Deliver(called, workspace) ==
    /\ completed' = Append(completed, [group |-> Job.group, version |-> Job.version,
                                       called |-> called, workspace |-> workspace])
    /\ worker' = [stage |-> IF worker.batch = {Job} THEN "waiting" ELSE "analyzing",
                  batch |-> worker.batch \ {Job}, pass |-> 1, found |-> Nothing]
    /\ UNCHANGED schedule

\* package_analysis::analyze reads the folder, with the open texts it has a
\* path for in place of the files.
ReadPackage ==
    LET there == disk[Job.group].files
        known == Job.project.paths \cap DOMAIN Job.documents
    IN /\ worker.stage = "analyzing" /\ ~CalledOff
       /\ Job.project.indexed
       /\ worker' = IF disk[Job.group].sound
                    THEN [worker EXCEPT !.stage = "read", !.found = [d \in there |->
                             IF d \in known THEN Job.documents[d] ELSE 0]]
                    ELSE [worker EXCEPT !.stage = "plain"]
       /\ UNCHANGED <<schedule, completed>>

\* An open text that the folder turned out to have, but was read from disk.
\* Faulty variant: nobody looks.
MissedNever == FALSE

Missed == \E d \in DOMAIN Job.documents \cap DOMAIN worker.found :
             worker.found[d] # Job.documents[d]

UsePackage ==
    /\ worker.stage = "read" /\ ~CalledOff
    /\ IF ~Missed
       THEN Deliver(FALSE, [present |-> TRUE, package |-> TRUE, files |-> worker.found])
       ELSE /\ worker' = [worker EXCEPT
                  !.stage = IF worker.pass = 2 THEN "plain" ELSE "analyzing",
                  !.pass = 2,
                  !.batch = (@ \ {Job})
                            \cup {[Job EXCEPT !.project.paths = DOMAIN worker.found]}]
            /\ UNCHANGED <<schedule, completed>>

\* A document's module is named by its path below the folder, which need not be
\* a name; a document by itself is the module main.
IsModule(d, g) == g \in Roots => d \in Named[g]

\* analyze_group without a package: the open documents that are modules, if
\* there are any.
AnalyzePlain ==
    LET units == {d \in DOMAIN Job.documents : IsModule(d, Job.group)}
    IN /\ \/ worker.stage = "plain"
          \/ worker.stage = "analyzing" /\ ~Job.project.indexed
       /\ ~CalledOff
       /\ Deliver(FALSE, IF units = {} THEN NoWorkspace
                         ELSE [present |-> TRUE, package |-> FALSE,
                               files |-> Restrict(Job.documents, units)])

AbandonJob ==
    /\ worker.stage \in {"analyzing", "read", "plain"} /\ CalledOff
    /\ Deliver(TRUE, NoWorkspace)

\* An analysis panics.
Die ==
    /\ worker.stage \in {"analyzing", "read", "plain"} /\ session.panics
    /\ worker' = [worker EXCEPT !.stage = "dead", !.batch = {}]
    /\ UNCHANGED <<schedule, completed>>

---------------------------------------------------------------------------
Server == \/ Handle \/ ScheduleNext
          \/ SettleKept \/ SettleReceive \/ Answer \/ ShutDown \/ Exit \/ GiveUp
          \/ NoticeClosed \/ LeaveClosed \/ ApplyCompleted \/ WorkerGone

Work == \/ Wake \/ TakeJobs \/ ReadPackage \/ UsePackage \/ AnalyzePlain \/ AbandonJob

Worker(step) ==
    /\ Running /\ step
    /\ UNCHANGED <<editor, input, stage, texts, accepted, output, ground>>

Editor == (\E m \in session.vocabulary : Send(m)) \/ Close \/ (\E r \in Roots : ChangeDisk(r))

Next == Server \/ Worker(Work) \/ Worker(Die) \/ Editor

\* Both threads run; analyses end.
Spec == /\ Init /\ [][Next]_vars
        /\ WF_vars(Server) /\ WF_vars(Worker(Work))

---------------------------------------------------------------------------
(* Properties                                                               *)

\* Messages are taken once and in order, each job is for a version given out, a
\* package group is a declared folder, and the project whose package analysis is
\* accepted is indexed: the expect of apply_completed never panics
\* (protocol.rs:278).
TypeOK ==
    /\ taken \in 0..Len(sent)
    /\ \A i, j \in DOMAIN buffered : i < j => buffered[i] < buffered[j]
    /\ \A i \in DOMAIN buffered : buffered[i] \in 1..taken
    /\ stage.kind \in {"idle", "schedule", "settle", "drain", "exit",
                       "left", "closed", "failed"}
    /\ \A d \in Docs : documents[d] \in 0..taken
    /\ roots \subseteq Roots /\ watching \in BOOLEAN
    /\ \A r \in Roots : projects[r].indexed => r \in roots
    /\ \A g \in Groups : /\ pending[g] \in 0..version /\ queued[g].version \in 0..version
                         /\ workspaces[g].package => g \in roots
    /\ cancelled \subseteq 1..version
    /\ wake \in BOOLEAN
    /\ worker.stage \in {"waiting", "woken", "analyzing", "read", "plain", "dead"}
    /\ worker.stage \in {"analyzing", "read", "plain"} <=> worker.batch # {}

\* What is said of a document is based on its own text and on those of its group,
\* each as the editor sees it: in a package, on the files it admits, which never
\* come from disk if they are open in the group; without one, on the open
\* documents that are modules, or on the document alone if it is none.
Faithful(files, package, d, text, declared) ==
    LET g == GroupOf(d, declared)
        group == {e \in Docs : text[e] # 0 /\ GroupOf(e, declared) = g}
    IN /\ d \in DOMAIN files
       /\ \A e \in group \cap DOMAIN files : files[e] = text[e]
       /\ package \/ DOMAIN files = IF IsModule(d, g) THEN {e \in group : IsModule(e, g)}
                                    ELSE {d}

\* An answer about an open document is based on what the editor had sent when
\* it asked, of that document and of the others in its group, whatever it has
\* sent since and whatever was being analyzed (protocol.rs:301: the current
\* snapshot, once the group's analysis is settled).
AnswersWhole ==
    \A i \in DOMAIN answers :
        LET m == sent[answers[i].id]
            view == answers[i].view
        IN answers[i].text # 0 =>
               Faithful(view.files, view.package, m.doc, m.after.texts, m.after.roots)

\* Unless its group waits for an analysis, the diagnostics that an open
\* document shows are of its current text and of its group's; a closed
\* document shows none ("outdated results never publish diagnostics",
\* docs/language-server.md:198).
DiagnosticsCurrent ==
    Running => \A d \in Docs :
        LET g == GroupOf(d, roots) IN
        IF documents[d] = 0 THEN shown[d] = Cleared
        ELSE pending[g] = 0 /\ g \notin stage.groups =>
                /\ shown[d].text = documents[d]
                /\ Faithful(shown[d].files, shown[d].package, d, documents, roots)

\* "Open documents take precedence over their files on disk until they are
\* closed" (docs/language-server.md:196): no answer is based on the file of a
\* document that was open when it was asked, whatever folder that is open in.
OpenTakesPrecedence ==
    \A i \in DOMAIN answers :
        LET m == sent[answers[i].id]
            files == answers[i].view.files
        IN \A e \in DOMAIN files : m.after.texts[e] # 0 => files[e] # 0

\* No group waits for ever: its analysis is accepted or superseded, or the
\* server ends.
AnalysesEnd ==
    \A g \in Groups : pending[g] # 0 ~> pending[g] = 0 \/ ~Running

\* The server implements a session: one answer to each request, in order, on
\* the text sent before it, cancelled only if the editor cancelled it; and it
\* does not end before it has answered, unless an analysis panicked.
IsAsked(k) == sent[k].kind \in {"request", "shutdown"}
Asked == {[id |-> k, text |-> IF sent[k].kind = "shutdown" THEN 0
                              ELSE sent[k].after.texts[sent[k].doc]] :
             k \in {j \in DOMAIN sent : IsAsked(j)}}

Session ==
    INSTANCE EditorSession WITH
        Requests <- 1..MaxMessages, Texts <- 0..MaxMessages,
        asked <- Asked,
        cancels <- {sent[k].target : k \in {j \in DOMAIN sent : sent[j].kind = "cancel"}},
        answers <- [i \in DOMAIN answers |-> [id |-> answers[i].id, text |-> answers[i].text]],
        broken <- worker.stage = "dead",
        over <- ~Running
ImplementsSession == Session!Spec
=============================================================================
