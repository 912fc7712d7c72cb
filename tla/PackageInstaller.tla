-------------------------- MODULE PackageInstaller --------------------------
(* DirectoryPackageInstaller::install: a release is written to a staging file *)
(* of the store's directory, synced, and given its digest's name by a hard    *)
(* link, which the file system refuses if the name is taken.                  *)
(*                                                                            *)
(* Installers are threads, ProcessOf their processes.  A process may be       *)
(* killed anywhere and a new one may get its identifier, so the staging names *)
(* of the two coincide.  A file is the one that a call created; the directory *)
(* is never synced, so a power loss leaves of every name any file it has had  *)
(* since the last one.  The directory is changed by installers only.          *)
EXTENDS Integers, FiniteSets

CONSTANTS Installers, Processes,
          ProcessOf,    \* installer -> process
          Releases,
          DigestOf,     \* release -> source digest; content may differ under one digest
          Attempts,     \* MAX_STAGE_CREATE_ATTEMPTS
          MaxCalls,     \* bound: calls
          MaxCrashes,   \* bound: kills and power losses
          NoRelease, NoFile, NoStage

Digests == {DigestOf[r] : r \in Releases}

ASSUME InstallAssumption ==
    /\ ProcessOf \in [Installers -> Processes]
    /\ IsFiniteSet(Installers)
    /\ Attempts \in Nat \ {0} /\ MaxCalls \in Nat /\ MaxCrashes \in Nat
    /\ NoRelease \notin Releases /\ NoFile \notin Nat
    /\ NoStage \notin Digests \X Processes \X Nat
    /\ Digests \cap (Digests \X Processes \X Nat) = {}

VARIABLES
    files,     \* content of each file and whether it is synced
    names,     \* directory: staging and digest names -> file
    versions,  \* files each name has had since the last power loss
    sequence,  \* NEXT_STAGE_ID of each process
    begun,     \* calls so far
    calls,     \* the call each installer is in, or the last one's answer
    crashes

disk == <<files, names, versions>>
budget == <<begun, crashes>>
vars == <<disk, sequence, calls, budget>>

Files == 1..MaxCalls
Partial == [content |-> NoRelease, synced |-> FALSE]

\* Staging names: the digest, the process identifier and the sequence number.
Stages == Digests \X Processes \X (0..(MaxCalls * Attempts))
Names == Stages \cup Digests

NoCall == [at |-> "idle", release |-> NoRelease, number |-> 0, tries |-> 0,
           stage |-> NoStage, cleanup |-> "NotNeeded", linked |-> FALSE, answer |-> "none"]

Init == /\ files = [f \in Files |-> Partial]
        /\ names = [n \in Names |-> NoFile]
        /\ versions = [n \in Names |-> {NoFile}]
        /\ sequence = [p \in Processes |-> 0]
        /\ calls = [i \in Installers |-> NoCall]
        /\ begun = 0 /\ crashes = 0

FileOf(i) == calls[i].number
Digest(i) == DigestOf[calls[i].release]
Name(n, f) == /\ names' = [names EXCEPT ![n] = f]
              /\ versions' = [versions EXCEPT ![n] = @ \cup {f}]
GoTo(i, at) == calls' = [calls EXCEPT ![i].at = at]
Done(c, answer, cleanup) ==
    [NoCall EXCEPT !.at = "done", !.release = c.release, !.number = c.number,
                   !.answer = answer, !.cleanup = cleanup]
Answer(i, answer) == calls' = [calls EXCEPT ![i] = Done(@, answer, @.cleanup)]

Begin(i, r) ==
    /\ calls[i].at \in {"idle", "done"} /\ begun < MaxCalls
    /\ begun' = begun + 1
    /\ calls' = [calls EXCEPT ![i] = [NoCall EXCEPT !.at = "preflight", !.release = r,
                                                    !.number = begun + 1]]
    /\ UNCHANGED <<disk, sequence, crashes>>

---------------------------------------------------------------------------
(* existing_is_identical, before staging and after a failed publication      *)

Looking(i) == calls[i].at \in {"preflight", "recheck"}
Occupied(i) == names[Digest(i)] # NoFile
Existing(i) == files[names[Digest(i)]].content

FindIdentical(i) ==
    /\ Looking(i) /\ Occupied(i) /\ Existing(i) = calls[i].release
    /\ Answer(i, "AlreadyPresent")
    /\ UNCHANGED <<disk, sequence, budget>>

\* Other content is a digest collision; content that does not parse is refused
\* as well.
FindDifferent(i) ==
    /\ Looking(i) /\ Occupied(i) /\ Existing(i) # calls[i].release
    /\ Answer(i, "Refused")
    /\ UNCHANGED <<disk, sequence, budget>>

FindNothing(i) ==
    /\ Looking(i) /\ ~Occupied(i)
    /\ IF calls[i].at = "preflight" THEN GoTo(i, "create") ELSE Answer(i, "Failed")
    /\ UNCHANGED <<disk, sequence, budget>>

CannotLook(i) ==
    /\ Looking(i)
    /\ Answer(i, "Failed")
    /\ UNCHANGED <<disk, sequence, budget>>

---------------------------------------------------------------------------
(* Staging                                                                  *)

NextStage(i) == <<Digest(i), ProcessOf[i], sequence[ProcessOf[i]]>>
TakeSequence(i) == sequence' = [sequence EXCEPT ![ProcessOf[i]] = @ + 1]

\* create_new: the name must be free.
CreateStage(i) ==
    /\ calls[i].at = "create" /\ names[NextStage(i)] = NoFile
    /\ Name(NextStage(i), FileOf(i))
    /\ calls' = [calls EXCEPT ![i].at = "write", ![i].stage = NextStage(i)]
    /\ TakeSequence(i)
    /\ UNCHANGED <<files, budget>>

\* Faulty variant: one attempt too many.
SkipStageOnceMore(i) ==
    /\ calls[i].at = "create" /\ names[NextStage(i)] # NoFile
    /\ IF calls[i].tries < Attempts
       THEN calls' = [calls EXCEPT ![i].tries = @ + 1]
       ELSE Answer(i, "Failed")
    /\ TakeSequence(i)
    /\ UNCHANGED <<disk, budget>>

\* The name of a process that was killed is still there: try the next.
SkipStage(i) ==
    /\ calls[i].at = "create" /\ names[NextStage(i)] # NoFile
    /\ IF calls[i].tries + 1 < Attempts
       THEN calls' = [calls EXCEPT ![i].tries = @ + 1]
       ELSE Answer(i, "Failed")
    /\ TakeSequence(i)
    /\ UNCHANGED <<disk, budget>>

CannotCreate(i) ==
    /\ calls[i].at = "create"
    /\ Answer(i, "Failed")
    /\ TakeSequence(i)
    /\ UNCHANGED <<disk, budget>>

WriteStage(i) ==
    /\ calls[i].at = "write"
    /\ files' = [files EXCEPT ![FileOf(i)].content = calls[i].release]
    /\ GoTo(i, "sync")
    /\ UNCHANGED <<names, versions, sequence, budget>>

\* Faulty variant: the staging file is closed without a sync.
SyncStageNot(i) ==
    /\ calls[i].at = "sync"
    /\ GoTo(i, "publish")
    /\ UNCHANGED <<disk, sequence, budget>>

SyncStage(i) ==
    /\ calls[i].at = "sync"
    /\ files' = [files EXCEPT ![FileOf(i)].synced = TRUE]
    /\ GoTo(i, "publish")
    /\ UNCHANGED <<names, versions, sequence, budget>>

\* Writing or syncing fails: the dropped entry removes its name if it can.
FailStage(i) ==
    /\ calls[i].at \in {"write", "sync"}
    /\ \/ /\ Name(calls[i].stage, NoFile)
          /\ calls' = [calls EXCEPT ![i] = Done(@, "Failed", "Removed")]
       \/ /\ calls' = [calls EXCEPT ![i] = Done(@, "Failed", "Deferred")]
          /\ UNCHANGED <<names, versions>>
    /\ UNCHANGED <<files, sequence, budget>>

---------------------------------------------------------------------------
(* Publication                                                              *)

\* Faulty variant: a rename puts the release there whatever the name held.
PublishOver(i) ==
    /\ calls[i].at = "publish"
    /\ Name(Digest(i), names[calls[i].stage])
    /\ calls' = [calls EXCEPT ![i].at = "cleanup", ![i].linked = TRUE]
    /\ UNCHANGED <<files, sequence, budget>>

\* hard_link succeeds if nobody has taken the digest's name.
Publish(i) ==
    /\ calls[i].at = "publish" /\ ~Occupied(i) /\ names[calls[i].stage] # NoFile
    /\ Name(Digest(i), names[calls[i].stage])
    /\ calls' = [calls EXCEPT ![i].at = "cleanup", ![i].linked = TRUE]
    /\ UNCHANGED <<files, sequence, budget>>

\* The name is taken, or the file system cannot link.
CannotPublish(i) ==
    /\ calls[i].at = "publish"
    /\ GoTo(i, "cleanup")
    /\ UNCHANGED <<disk, sequence, budget>>

\* cleanup_with: afterwards the call answers, or looks again at what is there.
AfterCleanup(i, cleanup) ==
    calls' = [calls EXCEPT ![i] =
                 IF @.linked THEN Done(@, "Installed", cleanup)
                 ELSE [@ EXCEPT !.at = "recheck", !.cleanup = cleanup, !.stage = NoStage]]

Cleanup(i) ==
    /\ calls[i].at = "cleanup"
    /\ Name(calls[i].stage, NoFile)
    /\ AfterCleanup(i, "Removed")
    /\ UNCHANGED <<files, sequence, budget>>

DeferCleanup(i) ==
    /\ calls[i].at = "cleanup"
    /\ AfterCleanup(i, "Deferred")
    /\ UNCHANGED <<disk, sequence, budget>>

---------------------------------------------------------------------------
(* Crashes                                                                  *)

Kill(p) ==
    /\ crashes < MaxCrashes
    /\ crashes' = crashes + 1
    /\ calls' = [i \in Installers |-> IF ProcessOf[i] = p THEN NoCall ELSE calls[i]]
    /\ sequence' = [sequence EXCEPT ![p] = 0]
    /\ UNCHANGED <<disk, begun>>

Unsettled == {n \in Names : versions[n] # {names[n]}}
Unsynced == {f \in Files : files[f].content # NoRelease /\ ~files[f].synced}

\* Of what was not synced, any part may be on the disk.
PowerLoss ==
    /\ crashes < MaxCrashes
    /\ crashes' = crashes + 1
    /\ calls' = [i \in Installers |-> NoCall]
    /\ sequence' = [p \in Processes |-> 0]
    /\ \E torn \in SUBSET Unsynced :
          files' = [f \in Files |-> IF f \in torn THEN Partial ELSE files[f]]
    /\ \E found \in [Unsettled -> Files \cup {NoFile}] :
          /\ \A n \in Unsettled : found[n] \in versions[n]
          /\ names' = [n \in Names |-> IF n \in Unsettled THEN found[n] ELSE names[n]]
    /\ versions' = [n \in Names |-> {names'[n]}]
    /\ UNCHANGED begun

---------------------------------------------------------------------------
Install(i) == \/ FindIdentical(i) \/ FindDifferent(i) \/ FindNothing(i) \/ CannotLook(i)
              \/ CreateStage(i) \/ SkipStage(i) \/ CannotCreate(i)
              \/ WriteStage(i) \/ SyncStage(i) \/ FailStage(i)
              \/ Publish(i) \/ CannotPublish(i) \/ Cleanup(i) \/ DeferCleanup(i)

Next == \/ \E i \in Installers : Install(i) \/ \E r \in Releases : Begin(i, r)
        \/ \E p \in Processes : Kill(p)
        \/ PowerLoss

Spec == Init /\ [][Next]_vars

---------------------------------------------------------------------------
(* Properties                                                               *)

\* Every variable keeps its type.
TypeOK ==
    /\ files \in [Files -> [content : Releases \cup {NoRelease}, synced : BOOLEAN]]
    /\ names \in [Names -> Files \cup {NoFile}]
    /\ \A n \in Names : names[n] \in versions[n] /\ versions[n] \subseteq Files \cup {NoFile}
    /\ sequence \in [Processes -> 0..(MaxCalls * Attempts)]
    /\ calls \in [Installers ->
          [at : {"idle", "preflight", "create", "write", "sync", "publish", "cleanup",
                 "recheck", "done"},
           release : Releases \cup {NoRelease}, number : 0..MaxCalls,
           tries : 0..(Attempts - 1), stage : Stages \cup {NoStage},
           cleanup : {"NotNeeded", "Removed", "Deferred"}, linked : BOOLEAN,
           answer : {"none", "Installed", "AlreadyPresent", "Refused", "Failed"}]]
    /\ begun \in 0..MaxCalls /\ crashes \in 0..MaxCrashes

\* "A reader observes either no final digest name or one complete release
\* wire": also after a power loss, and through a handle it opened before.
EntryComplete ==
    \A d \in Digests : \A f \in versions[d] \ {NoFile} :
        files[f].content # NoRelease /\ files[f].synced /\ DigestOf[files[f].content] = d

Position(c) ==
    CASE c.at = "idle" -> "idle"
      [] c.at = "done" -> "answered"
      [] c.at = "cleanup" /\ c.linked -> "published"
      [] OTHER -> "asked"

\* Installation writes each digest once, and its answers are those of the
\* write-once store: "no error path creates or replaces the final digest name".
Store == INSTANCE WriteOnceStore WITH
    entries <- [d \in Digests |-> IF names[d] = NoFile THEN NoRelease
                                  ELSE files[names[d]].content],
    calls <- [i \in Installers |-> [at |-> Position(calls[i]), release |-> calls[i].release,
                                    answer |-> calls[i].answer]]
ImplementsStore == Store!Spec
=============================================================================
