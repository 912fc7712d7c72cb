----------------------- MODULE PackageInstallerProofs -----------------------
(***************************************************************************)
(* What installation guarantees for any number of installers, processes,   *)
(* releases, attempts and crashes: a digest's name holds nothing or one    *)
(* whole release, through power losses, and the installer implements the   *)
(* write-once store.                                                       *)
(***************************************************************************)
EXTENDS PackageInstaller, FiniteSetTheorems, TLAPS

USE InstallAssumption

Live(i) == calls[i].at \notin {"idle", "done"}
Unsent == {"preflight", "create", "write", "sync"}
HasStage == {"write", "sync", "publish", "cleanup"}

(* What a call in progress has been given, and what one that ended kept.   *)
CallShape ==
    \A i \in Installers :
        /\ Live(i) => /\ calls[i].release \in Releases
                      /\ calls[i].number \in 1..begun
                      /\ calls[i].answer = "none"
        /\ calls[i].linked => calls[i].at = "cleanup"
        /\ calls[i].at = "idle" => calls[i] = NoCall

(* No two calls in progress write the same file. *)
FilesOwned ==
    \A i, j \in Installers :
        Live(i) /\ Live(j) /\ calls[i].number = calls[j].number => i = j

(* A staging name holds the file of the call that created it. *)
StagesOwned ==
    \A i \in Installers : calls[i].at \in HasStage =>
        calls[i].stage \in Stages /\ names[calls[i].stage] = FileOf(i)

(* What a call has written and synced stays. *)
StagesWritten ==
    \A i \in Installers :
        /\ calls[i].at \in {"sync", "publish", "cleanup"} =>
              files[FileOf(i)].content = calls[i].release
        /\ calls[i].at \in {"publish", "cleanup"} => files[FileOf(i)].synced

(* A file that a digest's name has had is nobody's to write any more. *)
EntriesSettled ==
    \A d \in Digests :
        /\ versions[d] \subseteq {NoFile, names[d]}
        /\ \A f \in versions[d] \ {NoFile} :
              /\ f \in 1..begun
              /\ \A i \in Installers : calls[i].at \in Unsent => calls[i].number # f

(* Attempts at a staging name that the calls in progress have left. *)
Pending == {a \in Installers \X (0..(Attempts - 1)) :
               /\ calls[a[1]].at \in {"preflight", "create"}
               /\ calls[a[1]].tries <= a[2]}

SequencesLeft ==
    \A p \in Processes : sequence[p] + Cardinality(Pending) <= begun * Attempts

Ats == {"idle", "preflight", "create", "write", "sync", "publish", "cleanup", "recheck", "done"}
Answers == {"none", "Installed", "AlreadyPresent", "Refused", "Failed"}
Cleanups == {"NotNeeded", "Removed", "Deferred"}
Calls == [at : Ats, release : Releases \cup {NoRelease}, number : 0..MaxCalls,
          tries : 0..(Attempts - 1), stage : Stages \cup {NoStage}, cleanup : Cleanups,
          linked : BOOLEAN, answer : Answers]

Types == /\ files \in [Files -> [content : Releases \cup {NoRelease}, synced : BOOLEAN]]
         /\ names \in [Names -> Files \cup {NoFile}]
         /\ versions \in [Names -> SUBSET (Files \cup {NoFile})]
         /\ \A n \in Names : names[n] \in versions[n]
         /\ sequence \in [Processes -> 0..(MaxCalls * Attempts)]
         /\ calls \in [Installers -> Calls]
         /\ begun \in 0..MaxCalls /\ crashes \in 0..MaxCrashes

InstallInv == /\ Types /\ EntryComplete /\ CallShape /\ FilesOwned
              /\ StagesOwned /\ StagesWritten /\ EntriesSettled /\ SequencesLeft

LEMMA TypesSuffice == Types <=> TypeOK /\ versions \in [Names -> SUBSET (Files \cup {NoFile})]
BY DEF Types, TypeOK, Calls, Ats, Answers, Cleanups

-----------------------------------------------------------------------------
(* The staging names that a bounded number of attempts can take. *)
LEMMA Products ==
    ASSUME NEW a \in Nat, NEW b \in Nat, NEW c \in Nat, a <= b
    PROVE  a * c \in Nat /\ b * c \in Nat /\ a * c <= b * c /\ (a + 1) * c = a * c + c
<1>1. PICK d \in Nat : b = a + d
    BY b - a \in Nat
<1>2. b * c = a * c + d * c
    BY <1>1
<1>3. d * c \in Nat /\ a * c \in Nat
    OBVIOUS
<1> QED
    BY <1>2, <1>3

LEMMA FinitePending == IsFiniteSet(Pending) /\ Cardinality(Pending) \in Nat
<1>1. IsFiniteSet(Installers \X (0..(Attempts - 1)))
    <2>1. Attempts - 1 \in Int
        OBVIOUS
    <2>2. IsFiniteSet(0..(Attempts - 1))
        <3> HIDE InstallAssumption
        <3>1. \A a, b \in Int : IsFiniteSet(a..b)
            BY FS_Interval
        <3> QED
            BY <2>1, <3>1
    <2>3. IsFiniteSet(Installers)
        OBVIOUS
    <2> QED
        BY <2>2, <2>3, FS_Product
<1>2. IsFiniteSet(Pending)
    BY <1>1, FS_Subset DEF Pending
<1> QED
    BY <1>2, FS_CardinalityType

(* Whoever still looks for a staging name has a sequence number left. *)
LEMMA SequenceInRange ==
    ASSUME InstallInv, NEW i \in Installers, calls[i].at = "create"
    PROVE  \A p \in Processes : sequence[p] + 1 \in 0..(MaxCalls * Attempts)
<1>1. <<i, calls[i].tries>> \in Pending
    BY DEF InstallInv, Types, Calls, Pending
<1>2. Cardinality(Pending) \in Nat /\ Cardinality(Pending) # 0
    BY <1>1, FinitePending, FS_EmptySet
<1>3. /\ begun * Attempts \in Nat /\ MaxCalls * Attempts \in Nat
      /\ begun * Attempts <= MaxCalls * Attempts
    BY Products DEF InstallInv, Types
<1>4. \A p \in Processes : /\ sequence[p] \in Nat
                             /\ sequence[p] + Cardinality(Pending) <= begun * Attempts
    BY DEF InstallInv, Types, SequencesLeft
<1>5. \A p \in Processes : sequence[p] + 1 <= begun * Attempts
    BY <1>2, <1>3, <1>4
<1> QED
    BY <1>3, <1>4, <1>5

(* A step that takes no sequence number, or takes one and drops an attempt. *)
LEMMA AttemptsCount ==
    ASSUME InstallInv, begun' = begun, Pending' \subseteq Pending,
           \/ sequence' = sequence
           \/ /\ Pending' # Pending
              /\ \E q \in Processes :
                    sequence' = [sequence EXCEPT ![q] = sequence[q] + 1]
    PROVE  SequencesLeft'
<1>1. /\ IsFiniteSet(Pending') /\ Cardinality(Pending') \in Nat /\ Cardinality(Pending) \in Nat
      /\ Cardinality(Pending') <= Cardinality(Pending)
      /\ Pending' # Pending => Cardinality(Pending') < Cardinality(Pending)
    BY FinitePending, FS_Subset, FS_CardinalityType
<1>2. begun * Attempts \in Nat
    BY Products DEF InstallInv, Types
<1>3. /\ \A p \in Processes : sequence[p] \in Nat
      /\ \A p \in Processes : sequence[p] + Cardinality(Pending) <= begun * Attempts
    BY DEF InstallInv, Types, SequencesLeft
<1>4. CASE sequence' = sequence
    BY <1>1, <1>2, <1>3, <1>4 DEF SequencesLeft
<1>5. ASSUME Pending' # Pending, NEW q \in Processes,
             sequence' = [sequence EXCEPT ![q] = sequence[q] + 1]
      PROVE  SequencesLeft'
    <2>1. \A p \in Processes : sequence'[p] \in Nat /\ sequence'[p] <= sequence[p] + 1
        BY <1>3, <1>5 DEF InstallInv, Types
    <2> QED
        BY <1>1, <1>2, <1>3, <1>5, <2>1 DEF SequencesLeft
<1> QED
    BY <1>4, <1>5

LEMMA InitInstallInv == Init => InstallInv
<1> SUFFICES ASSUME Init PROVE InstallInv
    OBVIOUS
<1>1. 0 \in 0..(MaxCalls * Attempts) /\ 0 \in 0..MaxCalls /\ 0 \in 0..(Attempts - 1)
      /\ 0 \in 0..MaxCrashes
    BY Products
<1>2. NoCall \in Calls
    BY <1>1 DEF NoCall, Calls, Ats, Answers, Cleanups
<1>3. Types
    BY <1>1, <1>2 DEF Init, Types, Partial
<1>4. Pending = {}
    BY DEF Init, Pending, NoCall
<1>5. SequencesLeft
    BY <1>4, FS_EmptySet DEF Init, SequencesLeft
<1>6. Digests \subseteq Names
    BY DEF Names
<1> QED
    BY <1>3, <1>5, <1>6 DEF InstallInv, Init, NoCall, EntryComplete, CallShape, FilesOwned,
       StagesOwned, StagesWritten, EntriesSettled, Live, HasStage, Unsent

-----------------------------------------------------------------------------
(* A step that replaces one installer's call. *)
LEMMA CallReplaced ==
    ASSUME InstallInv, NEW i \in Installers, NEW c \in Calls,
           calls' = [calls EXCEPT ![i] = c], begun' = begun,
           c.at # "idle",
           c.at # "done" => /\ Live(i) /\ c.answer = "none"
                            /\ c.release = calls[i].release
                            /\ c.number = calls[i].number,
           c.linked => c.at = "cleanup"
    PROVE  /\ calls' \in [Installers -> Calls]
           /\ CallShape' /\ FilesOwned'
           /\ calls'[i] = c /\ \A j \in Installers \ {i} : calls'[j] = calls[j]
<1>1. /\ calls' \in [Installers -> Calls]
      /\ calls'[i] = c /\ \A j \in Installers \ {i} : calls'[j] = calls[j]
    BY DEF InstallInv, Types
<1>2. CallShape'
    BY <1>1 DEF InstallInv, CallShape, Live
<1>3. FilesOwned'
    BY <1>1 DEF InstallInv, FilesOwned, Live
<1> QED
    BY <1>1, <1>2, <1>3

(* If it leaves the disk as it is, what is staged and published stays. *)
LEMMA DiskKept ==
    ASSUME InstallInv, NEW i \in Installers, NEW c \in Calls,
           calls'[i] = c, \A j \in Installers \ {i} : calls'[j] = calls[j],
           UNCHANGED <<disk, begun>>,
           c.at \in HasStage => /\ calls[i].at \in HasStage
                                /\ c.stage = calls[i].stage
                                /\ c.number = calls[i].number,
           c.at \in {"sync", "publish", "cleanup"} =>
               /\ calls[i].at \in {"publish", "cleanup"}
               /\ c.number = calls[i].number /\ c.release = calls[i].release,
           c.at \in Unsent => calls[i].at \in Unsent /\ c.number = calls[i].number
    PROVE  EntryComplete' /\ StagesOwned' /\ StagesWritten' /\ EntriesSettled'
<1>0. UNCHANGED <<files, names, versions>>
    BY DEF disk
<1>1. EntryComplete'
    BY <1>0 DEF InstallInv, EntryComplete
<1>2. StagesOwned'
    BY <1>0 DEF InstallInv, StagesOwned, HasStage, FileOf
<1>3. StagesWritten'
    BY <1>0 DEF InstallInv, StagesWritten, FileOf
<1>4. EntriesSettled'
    BY <1>0 DEF InstallInv, EntriesSettled
<1> QED
    BY <1>1, <1>2, <1>3, <1>4

(* The attempts of the others are not touched. *)
LEMMA PendingOf ==
    ASSUME InstallInv, NEW i \in Installers, NEW c \in Calls,
           calls'[i] = c, \A j \in Installers \ {i} : calls'[j] = calls[j],
           c.at \in {"preflight", "create"} =>
               calls[i].at \in {"preflight", "create"} /\ calls[i].tries <= c.tries
    PROVE  /\ Pending' \subseteq Pending
           /\ calls[i].at = "create"
                /\ (c.at \in {"preflight", "create"} => c.tries > calls[i].tries)
                => Pending' # Pending
<1>0. calls[i].tries \in 0..(Attempts - 1) /\ c.tries \in 0..(Attempts - 1)
    BY DEF InstallInv, Types, Calls
<1>1. Pending' = {a \in Installers \X (0..(Attempts - 1)) :
                     /\ calls'[a[1]].at \in {"preflight", "create"}
                     /\ calls'[a[1]].tries <= a[2]}
    BY DEF Pending
<1>2. ASSUME NEW a \in Pending' PROVE a \in Pending
    <2>1. /\ a \in Installers \X (0..(Attempts - 1)) /\ a[1] \in Installers
          /\ calls'[a[1]].at \in {"preflight", "create"} /\ calls'[a[1]].tries <= a[2]
          /\ a[2] \in 0..(Attempts - 1)
        BY <1>1, <1>2
    <2>2. CASE a[1] = i
        BY <1>0, <2>1, <2>2 DEF Pending
    <2>3. CASE a[1] # i
        BY <2>1, <2>3 DEF Pending
    <2> QED
        BY <2>2, <2>3
<1>3. ASSUME calls[i].at = "create",
             c.at \in {"preflight", "create"} => c.tries > calls[i].tries
      PROVE  Pending' # Pending
    <2> DEFINE a == <<i, calls[i].tries>>
    <2>1. a \in Pending
        BY <1>0, <1>3 DEF Pending
    <2>2. a \notin Pending'
        BY <1>0, <1>1, <1>3
    <2> QED
        BY <2>1, <2>2
<1> QED
    BY <1>2, <1>3

(* What Done leaves of a call. *)
LEMMA DoneCall ==
    ASSUME NEW c \in Calls, NEW answer \in Answers, NEW cleanup \in Cleanups
    PROVE  /\ Done(c, answer, cleanup) \in Calls
           /\ Done(c, answer, cleanup).at = "done"
           /\ Done(c, answer, cleanup).release = c.release
           /\ Done(c, answer, cleanup).answer = answer
           /\ Done(c, answer, cleanup).linked = FALSE
<1>1. 0 \in 0..(Attempts - 1)
    OBVIOUS
<1> QED
    BY <1>1 DEF Done, NoCall, Calls, Ats, Answers, Cleanups

(* What one installer's step makes of its call, the disk unchanged. *)
LEMMA QuietSteps ==
    ASSUME InstallInv, NEW i \in Installers,
           \/ FindIdentical(i) \/ FindDifferent(i) \/ FindNothing(i) \/ CannotLook(i)
           \/ SkipStage(i) \/ CannotCreate(i) \/ CannotPublish(i) \/ DeferCleanup(i)
           \/ FailStage(i) /\ UNCHANGED <<names, versions>>
    PROVE  InstallInv'
<1> USE DEF InstallInv
<1>0. calls[i] \in Calls /\ Live(i)
    BY DEF Types, FindIdentical, FindDifferent, FindNothing, CannotLook, SkipStage,
           CannotCreate, CannotPublish, DeferCleanup, FailStage, Live, Looking
<1>1. UNCHANGED <<disk, begun, crashes>>
    BY DEF FindIdentical, FindDifferent, FindNothing, CannotLook, SkipStage,
           CannotCreate, CannotPublish, DeferCleanup, FailStage, disk, budget
<1>2. /\ \/ sequence' = sequence
         \/ \E q \in Processes : sequence' = [sequence EXCEPT ![q] = sequence[q] + 1]
      /\ sequence' # sequence => calls[i].at = "create"
      /\ sequence' \in [Processes -> 0..(MaxCalls * Attempts)]
    <2>1. CASE SkipStage(i) \/ CannotCreate(i)
        <3>1. calls[i].at = "create" /\ ProcessOf[i] \in Processes
            BY <2>1 DEF SkipStage, CannotCreate
        <3>2. sequence' = [sequence EXCEPT ![ProcessOf[i]] = sequence[ProcessOf[i]] + 1]
            BY <2>1 DEF SkipStage, CannotCreate, TakeSequence
        <3> QED
            BY <3>1, <3>2, SequenceInRange DEF Types
    <2>2. CASE ~(SkipStage(i) \/ CannotCreate(i))
        BY <2>2 DEF FindIdentical, FindDifferent, FindNothing, CannotLook, CannotPublish,
           DeferCleanup, FailStage, Types
    <2> QED
        BY <2>1, <2>2
<1>3. PICK c \in Calls :
        /\ calls' = [calls EXCEPT ![i] = c]
        /\ c.at \in {"done", "create", "cleanup", "recheck"}
        /\ c.at # "done" => /\ c.answer = "none"
                            /\ c.release = calls[i].release
                            /\ c.number = calls[i].number
        /\ c.linked => c.at = "cleanup"
        /\ c.at = "cleanup" => calls[i].at = "publish" /\ c.stage = calls[i].stage
        /\ c.at = "create" => \/ calls[i].at = "preflight" /\ c.tries = calls[i].tries
                              \/ calls[i].at = "create" /\ c.tries > calls[i].tries
    <2> DEFINE Shape(c) ==
        /\ calls' = [calls EXCEPT ![i] = c]
        /\ c.at \in {"done", "create", "cleanup", "recheck"}
        /\ c.at # "done" => /\ c.answer = "none"
                            /\ c.release = calls[i].release
                            /\ c.number = calls[i].number
        /\ c.linked => c.at = "cleanup"
        /\ c.at = "cleanup" => calls[i].at = "publish" /\ c.stage = calls[i].stage
        /\ c.at = "create" => \/ calls[i].at = "preflight" /\ c.tries = calls[i].tries
                              \/ calls[i].at = "create" /\ c.tries > calls[i].tries
    <2>1. ASSUME NEW answer \in Answers, NEW cleanup \in Cleanups,
                 calls' = [calls EXCEPT ![i] = Done(calls[i], answer, cleanup)]
          PROVE  \E c \in Calls : Shape(c)
        <3>1. Shape(Done(calls[i], answer, cleanup))
            BY <1>0, <2>1, DoneCall
        <3> QED
            BY <1>0, <3>1, DoneCall
    <2>2. ASSUME NEW answer \in Answers, Answer(i, answer)
          PROVE  \E c \in Calls : Shape(c)
        <3>1. calls' = [calls EXCEPT ![i] = Done(calls[i], answer, calls[i].cleanup)]
            BY <2>2 DEF Answer
        <3> QED
            BY <1>0, <2>1, <3>1 DEF Calls
    <2>3. ASSUME NEW at \in {"create", "cleanup"}, GoTo(i, at),
                 at = "create" => calls[i].at = "preflight",
                 at = "cleanup" => calls[i].at = "publish"
          PROVE  \E c \in Calls : Shape(c)
        <3> DEFINE c == [calls[i] EXCEPT !.at = at]
        <3>1. calls' = [calls EXCEPT ![i] = c]
            BY <2>3 DEF GoTo
        <3>2. c \in Calls /\ c.at = at /\ c.release = calls[i].release
              /\ c.number = calls[i].number /\ c.answer = calls[i].answer
              /\ c.linked = calls[i].linked /\ c.tries = calls[i].tries
              /\ c.stage = calls[i].stage
            BY <1>0 DEF Calls, Ats
        <3>3. calls[i].answer = "none" /\ ~calls[i].linked
            BY <1>0, <2>3 DEF CallShape
        <3> HIDE DEF c
        <3> QED
            BY <2>3, <3>1, <3>2, <3>3
    <2>4. CASE FindIdentical(i) \/ FindDifferent(i) \/ CannotLook(i) \/ CannotCreate(i)
        BY <2>2, <2>4 DEF FindIdentical, FindDifferent, CannotLook, CannotCreate, Answers
    <2>5. CASE FindNothing(i)
        BY <2>2, <2>3, <2>5 DEF FindNothing, Looking, Answers
    <2>6. CASE SkipStage(i)
        <3>1. CASE calls[i].tries + 1 < Attempts
            <4> DEFINE c == [calls[i] EXCEPT !.tries = calls[i].tries + 1]
            <4>1. calls' = [calls EXCEPT ![i] = c] /\ calls[i].at = "create"
                BY <2>6, <3>1 DEF SkipStage
            <4>2. calls[i].tries + 1 \in 0..(Attempts - 1) /\ calls[i].tries \in Nat
                BY <1>0, <3>1 DEF Calls
            <4>3. c \in Calls /\ c.at = "create" /\ c.release = calls[i].release
                  /\ c.number = calls[i].number /\ c.answer = calls[i].answer
                  /\ c.linked = calls[i].linked /\ c.tries = calls[i].tries + 1
                BY <1>0, <4>1, <4>2 DEF Calls, Ats
            <4>4. calls[i].answer = "none" /\ ~calls[i].linked
                BY <1>0, <4>1 DEF CallShape
            <4> HIDE DEF c
            <4>5. Shape(c)
                BY <4>1, <4>2, <4>3, <4>4
            <4> QED
                BY <4>3, <4>5
        <3>2. CASE ~(calls[i].tries + 1 < Attempts)
            BY <2>2, <2>6, <3>2 DEF SkipStage, Answers
        <3> QED
            BY <3>1, <3>2
    <2>7. CASE CannotPublish(i)
        BY <2>3, <2>7 DEF CannotPublish
    <2>8. CASE DeferCleanup(i)
        <3>1. CASE calls[i].linked
            BY <2>1, <2>8, <3>1 DEF DeferCleanup, AfterCleanup, Answers, Cleanups
        <3>2. CASE ~calls[i].linked
            <4> DEFINE c == [calls[i] EXCEPT !.at = "recheck", !.cleanup = "Deferred",
                                             !.stage = NoStage]
            <4>1. calls' = [calls EXCEPT ![i] = c]
                BY <2>8, <3>2 DEF DeferCleanup, AfterCleanup
            <4>2. c \in Calls /\ c.at = "recheck" /\ c.release = calls[i].release
                  /\ c.number = calls[i].number /\ c.answer = calls[i].answer
                  /\ c.linked = calls[i].linked
                BY <1>0 DEF Calls, Ats, Cleanups
            <4>3. calls[i].answer = "none"
                BY <1>0 DEF CallShape
            <4> HIDE DEF c
            <4>4. Shape(c)
                BY <3>2, <4>1, <4>2, <4>3
            <4> QED
                BY <4>2, <4>4
        <3> QED
            BY <3>1, <3>2
    <2>9. CASE FailStage(i) /\ UNCHANGED <<names, versions>>
        BY <2>1, <2>9 DEF FailStage, Answers, Cleanups
    <2> QED
        BY <2>4, <2>5, <2>6, <2>7, <2>8, <2>9
<1>4. begun' = begun /\ c.at # "idle"
    BY <1>1, <1>3
<1>5. /\ calls' \in [Installers -> Calls] /\ CallShape' /\ FilesOwned'
      /\ calls'[i] = c /\ \A j \in Installers \ {i} : calls'[j] = calls[j]
    BY <1>0, <1>3, <1>4, CallReplaced
<1>6. EntryComplete' /\ StagesOwned' /\ StagesWritten' /\ EntriesSettled'
    <2> HIDE DEF InstallInv
    <2>1. /\ c.at \in HasStage => /\ calls[i].at \in HasStage
                                  /\ c.stage = calls[i].stage
                                  /\ c.number = calls[i].number
          /\ c.at \in {"sync", "publish", "cleanup"} =>
               /\ calls[i].at \in {"publish", "cleanup"}
               /\ c.number = calls[i].number /\ c.release = calls[i].release
          /\ c.at \in Unsent => calls[i].at \in Unsent /\ c.number = calls[i].number
        BY <1>3 DEF HasStage, Unsent
    <2> QED
        BY <1>1, <1>5, <2>1, DiskKept
<1>7. SequencesLeft'
    <2> HIDE DEF InstallInv
    <2>0. calls[i].tries \in Nat /\ c.tries \in Nat
        BY <1>0 DEF Calls
    <2>1. c.at \in {"preflight", "create"} =>
               calls[i].at \in {"preflight", "create"} /\ calls[i].tries <= c.tries
        BY <1>3, <2>0
    <2>2. Pending' \subseteq Pending /\ (calls[i].at = "create" => Pending' # Pending)
        BY <1>3, <1>5, <2>1, PendingOf
    <2> QED
        BY <1>1, <1>2, <2>2, AttemptsCount
<1>8. Types'
    BY <1>1, <1>2, <1>5 DEF Types, disk
<1> QED
    BY <1>5, <1>6, <1>7, <1>8

(* Digest names are not staging names. *)
LEMMA NamesApart == Digests \cap Stages = {} /\ Names = Stages \cup Digests
BY DEF Stages, Names

(* The names of the others' staging files are other names. *)
LEMMA StagesApart ==
    ASSUME InstallInv, NEW i \in Installers, NEW j \in Installers,
           calls[i].at \in HasStage, calls[j].at \in HasStage,
           calls[i].stage = calls[j].stage
    PROVE  i = j
<1>1. FileOf(i) = FileOf(j)
    BY DEF InstallInv, StagesOwned
<1> QED
    BY <1>1 DEF InstallInv, FilesOwned, FileOf, HasStage, Live

LEMMA CreateStep ==
    ASSUME InstallInv, NEW i \in Installers, CreateStage(i)
    PROVE  InstallInv'
<1> USE DEF InstallInv
<1> DEFINE n == NextStage(i)
           c == [calls[i] EXCEPT !.at = "write", !.stage = n]
<1>0. /\ calls[i] \in Calls /\ calls[i].at = "create" /\ Live(i)
      /\ names[n] = NoFile /\ UNCHANGED <<files, begun, crashes>>
      /\ names' = [names EXCEPT ![n] = FileOf(i)]
      /\ versions' = [versions EXCEPT ![n] = versions[n] \cup {FileOf(i)}]
      /\ calls' = [calls EXCEPT ![i] = c]
      /\ sequence' = [sequence EXCEPT ![ProcessOf[i]] = sequence[ProcessOf[i]] + 1]
    BY DEF CreateStage, Types, Live, Name, TakeSequence, budget
<1>1. /\ ProcessOf[i] \in Processes /\ Digest(i) \in Digests
      /\ FileOf(i) \in Files /\ FileOf(i) \in 1..begun
    BY <1>0 DEF CallShape, Digest, Digests, FileOf, Files, Types
<1>2. n \in Stages
    <2>1. sequence[ProcessOf[i]] \in 0..(MaxCalls * Attempts)
        BY <1>1 DEF Types
    <2> QED
        BY <1>1, <2>1 DEF NextStage, Stages
<1>3. n \in Names /\ n \notin Digests
    BY <1>2, NamesApart
<1> HIDE DEF n
<1>4. /\ c \in Calls /\ c.at = "write" /\ c.release = calls[i].release /\ c.stage = n
      /\ c.number = calls[i].number /\ c.answer = "none" /\ c.linked = FALSE
    BY <1>0, <1>2 DEF Calls, Ats, CallShape
<1> HIDE DEF c
<1>5. /\ calls' \in [Installers -> Calls] /\ CallShape' /\ FilesOwned'
      /\ calls'[i] = c /\ \A j \in Installers \ {i} : calls'[j] = calls[j]
    BY <1>0, <1>4, CallReplaced
<1>6. /\ \A d \in Digests : names'[d] = names[d] /\ versions'[d] = versions[d]
      /\ names'[n] = FileOf(i)
      /\ \A m \in Names \ {n} : names'[m] = names[m] /\ versions'[m] = versions[m]
    BY <1>0, <1>3, NamesApart DEF Types
<1>7. EntryComplete'
    BY <1>0, <1>6 DEF EntryComplete
<1>8. StagesOwned'
    <2> SUFFICES ASSUME NEW j \in Installers, calls'[j].at \in HasStage
                 PROVE  calls'[j].stage \in Stages /\ names'[calls'[j].stage] = calls'[j].number
        BY DEF StagesOwned, FileOf
    <2>1. CASE j = i
        BY <1>2, <1>4, <1>5, <1>6, <2>1 DEF FileOf
    <2>2. CASE j # i
        <3>1. /\ calls[j].at \in HasStage /\ calls[j].stage \in Stages /\ Live(j)
              /\ names[calls[j].stage] = calls[j].number /\ calls'[j] = calls[j]
            BY <1>5, <2>2 DEF StagesOwned, FileOf, HasStage, Live
        <3>2. calls[j].number # NoFile
            BY <3>1 DEF CallShape
        <3> QED
            BY <1>0, <1>6, <3>1, <3>2, NamesApart
    <2> QED
        BY <2>1, <2>2
<1>9. StagesWritten'
    BY <1>0, <1>4, <1>5 DEF StagesWritten, FileOf
<1>10. EntriesSettled'
    BY <1>0, <1>4, <1>5, <1>6 DEF EntriesSettled, Unsent
<1>11. Types'
    <2>1. sequence' \in [Processes -> 0..(MaxCalls * Attempts)]
        BY <1>0, <1>1, SequenceInRange DEF Types
    <2>2. names' \in [Names -> Files \cup {NoFile}]
          /\ versions' \in [Names -> SUBSET (Files \cup {NoFile})]
          /\ \A m \in Names : names'[m] \in versions'[m]
        BY <1>0, <1>1, <1>3 DEF Types
    <2> QED
        BY <1>0, <1>5, <2>1, <2>2 DEF Types
<1>12. SequencesLeft'
    <2> HIDE DEF InstallInv
    <2>1. Pending' \subseteq Pending /\ Pending' # Pending
        BY <1>0, <1>4, <1>5, PendingOf
    <2> QED
        BY <1>0, <1>1, <2>1, AttemptsCount
<1> QED
    BY <1>5, <1>7, <1>8, <1>9, <1>10, <1>11, <1>12

LEMMA WriteSyncStep ==
    ASSUME InstallInv, NEW i \in Installers, WriteStage(i) \/ SyncStage(i)
    PROVE  InstallInv'
<1> USE DEF InstallInv
<1> DEFINE at == IF calls[i].at = "write" THEN "sync" ELSE "publish"
           c  == [calls[i] EXCEPT !.at = at]
           f  == FileOf(i)
<1>0. /\ calls[i] \in Calls /\ calls[i].at \in {"write", "sync"} /\ Live(i)
      /\ UNCHANGED <<names, versions, sequence, begun, crashes>>
      /\ calls' = [calls EXCEPT ![i] = c]
    BY DEF WriteStage, SyncStage, Types, Live, GoTo, budget
<1>1. f \in Files /\ calls[i].release \in Releases
    BY <1>0 DEF CallShape, FileOf, Files, Types
<1>2. /\ c \in Calls /\ c.at = at /\ c.release = calls[i].release /\ c.stage = calls[i].stage
      /\ c.number = f /\ c.answer = "none" /\ c.linked = FALSE
    BY <1>0 DEF Calls, Ats, CallShape, FileOf
<1>3. /\ files' \in [Files -> [content : Releases \cup {NoRelease}, synced : BOOLEAN]]
      /\ \A g \in Files \ {f} : files'[g] = files[g]
      /\ files'[f].content = calls[i].release
      /\ calls[i].at = "sync" => files'[f].synced
    <2>1. CASE WriteStage(i)
        <3>1. files' = [files EXCEPT ![f] = [files[f] EXCEPT !.content = calls[i].release]]
              /\ calls[i].at = "write"
            BY <2>1 DEF WriteStage
        <3> HIDE DEF f
        <3> QED
            BY <1>1, <3>1 DEF Types
    <2>2. CASE SyncStage(i)
        <3>1. files' = [files EXCEPT ![f] = [files[f] EXCEPT !.synced = TRUE]]
              /\ files[f].content = calls[i].release
            BY <2>2 DEF SyncStage, StagesWritten
        <3> HIDE DEF f
        <3> QED
            BY <1>1, <3>1 DEF Types
    <2> QED
        BY <2>1, <2>2
<1> HIDE DEF c, f
<1>5. /\ calls' \in [Installers -> Calls] /\ CallShape' /\ FilesOwned'
      /\ calls'[i] = c /\ \A j \in Installers \ {i} : calls'[j] = calls[j]
    BY <1>0, <1>2, CallReplaced DEF f, FileOf
<1>6. \A j \in Installers \ {i} : Live(j) => calls[j].number # f
    BY <1>0 DEF FilesOwned, f, FileOf
<1>7. EntryComplete' /\ EntriesSettled'
    <2>1. \A d \in Digests : f \notin versions[d] \ {NoFile}
        BY <1>0 DEF EntriesSettled, Unsent, f, FileOf
    <2>2. EntriesSettled'
        BY <1>0, <1>2, <1>5 DEF EntriesSettled, Unsent, f, FileOf
    <2> QED
        BY <1>0, <1>3, <2>1, <2>2, NamesApart DEF EntryComplete, Types
<1>8. StagesOwned'
    BY <1>0, <1>2, <1>5 DEF StagesOwned, HasStage, f, FileOf
<1>9. StagesWritten'
    <2> SUFFICES ASSUME NEW j \in Installers
                 PROVE
                 /\ calls'[j].at \in {"sync", "publish", "cleanup"} =>
                       files'[calls'[j].number].content = calls'[j].release
                 /\ calls'[j].at \in {"publish", "cleanup"} => files'[calls'[j].number].synced
        BY DEF StagesWritten, FileOf
    <2>1. CASE j = i
        BY <1>0, <1>2, <1>3, <1>5, <2>1
    <2>2. CASE j # i
        <3>1. calls'[j] = calls[j]
            BY <1>5, <2>2
        <3>2. CASE calls[j].at \in {"sync", "publish", "cleanup"}
            <4>1. Live(j) /\ calls[j].number # f /\ calls[j].number \in Files
                BY <1>6, <2>2, <3>2 DEF Live, CallShape, Files, Types
            <4> QED
                BY <1>3, <3>1, <3>2, <4>1 DEF StagesWritten, FileOf
        <3> QED
            BY <3>1, <3>2
    <2> QED
        BY <2>1, <2>2
<1>10. SequencesLeft'
    <2> HIDE DEF InstallInv
    <2>1. Pending' \subseteq Pending
        BY <1>0, <1>2, <1>5, PendingOf
    <2> QED
        BY <1>0, <2>1, AttemptsCount
<1>11. Types'
    BY <1>0, <1>3, <1>5 DEF Types
<1> QED
    BY <1>5, <1>7, <1>8, <1>9, <1>10, <1>11

(* Removing a staging name, after a failure or after publication. *)
LEMMA UnstageStep ==
    ASSUME InstallInv, NEW i \in Installers,
           Cleanup(i) \/ (FailStage(i) /\ ~UNCHANGED <<names, versions>>)
    PROVE  InstallInv'
<1> USE DEF InstallInv
<1> DEFINE n == calls[i].stage
<1>0. /\ calls[i] \in Calls /\ calls[i].at \in HasStage /\ Live(i)
      /\ UNCHANGED <<files, sequence, begun, crashes>>
      /\ names' = [names EXCEPT ![n] = NoFile]
      /\ versions' = [versions EXCEPT ![n] = versions[n] \cup {NoFile}]
    BY DEF Cleanup, FailStage, Types, Live, Name, HasStage, budget
<1>1. n \in Stages /\ n \in Names /\ n \notin Digests
    BY <1>0, NamesApart DEF StagesOwned
<1>2. PICK c \in Calls :
        /\ calls' = [calls EXCEPT ![i] = c]
        /\ c.at \in {"done", "recheck"} /\ ~c.linked
        /\ c.at # "done" => /\ c.answer = "none"
                            /\ c.release = calls[i].release
                            /\ c.number = calls[i].number
    <2> DEFINE Shape(c) ==
        /\ calls' = [calls EXCEPT ![i] = c]
        /\ c.at \in {"done", "recheck"} /\ ~c.linked
        /\ c.at # "done" => /\ c.answer = "none"
                            /\ c.release = calls[i].release
                            /\ c.number = calls[i].number
    <2>1. ASSUME NEW answer \in Answers,
                 calls' = [calls EXCEPT ![i] = Done(calls[i], answer, "Removed")]
          PROVE  \E c \in Calls : Shape(c)
        <3>1. "Removed" \in Cleanups
            BY DEF Cleanups
        <3>2. /\ Done(calls[i], answer, "Removed") \in Calls
              /\ Done(calls[i], answer, "Removed").at = "done"
              /\ Done(calls[i], answer, "Removed").linked = FALSE
            BY <1>0, <3>1, DoneCall
        <3>3. Shape(Done(calls[i], answer, "Removed"))
            BY <2>1, <3>2
        <3> QED
            BY <3>2, <3>3
    <2>2. CASE Cleanup(i) /\ ~calls[i].linked
        <3> DEFINE c == [calls[i] EXCEPT !.at = "recheck", !.cleanup = "Removed",
                                         !.stage = NoStage]
        <3>1. calls' = [calls EXCEPT ![i] = c]
            BY <2>2 DEF Cleanup, AfterCleanup
        <3>2. c \in Calls /\ c.at = "recheck" /\ c.release = calls[i].release
              /\ c.number = calls[i].number /\ c.answer = calls[i].answer
              /\ c.linked = calls[i].linked
            BY <1>0 DEF Calls, Ats, Cleanups
        <3>3. calls[i].answer = "none"
            BY <1>0 DEF CallShape
        <3> HIDE DEF c
        <3> QED
            BY <2>2, <3>1, <3>2, <3>3
    <2>3. CASE Cleanup(i) /\ calls[i].linked
        BY <2>1, <2>3 DEF Cleanup, AfterCleanup, Answers
    <2>4. CASE FailStage(i) /\ ~UNCHANGED <<names, versions>>
        BY <2>1, <2>4 DEF FailStage, Answers
    <2> QED
        BY <2>2, <2>3, <2>4
<1>3. /\ calls' \in [Installers -> Calls] /\ CallShape' /\ FilesOwned'
      /\ calls'[i] = c /\ \A j \in Installers \ {i} : calls'[j] = calls[j]
    BY <1>0, <1>2, CallReplaced
<1>4. /\ \A d \in Digests : names'[d] = names[d] /\ versions'[d] = versions[d]
      /\ \A m \in Names \ {n} : names'[m] = names[m] /\ versions'[m] = versions[m]
    BY <1>0, <1>1, NamesApart DEF Types
<1>5. EntryComplete'
    BY <1>0, <1>4 DEF EntryComplete
<1>6. StagesOwned'
    <2> SUFFICES ASSUME NEW j \in Installers, calls'[j].at \in HasStage
                 PROVE  calls'[j].stage \in Stages /\ names'[calls'[j].stage] = calls'[j].number
        BY DEF StagesOwned, FileOf
    <2>1. j # i
        BY <1>2, <1>3 DEF HasStage
    <2>2. /\ calls'[j] = calls[j] /\ calls[j].at \in HasStage
          /\ calls[j].stage \in Stages /\ names[calls[j].stage] = calls[j].number
        BY <1>3, <2>1 DEF StagesOwned, FileOf
    <2>3. calls[j].stage # n
        BY <1>0, <2>1, <2>2, StagesApart
    <2> QED
        BY <1>4, <2>2, <2>3, NamesApart
<1>7. StagesWritten'
    BY <1>0, <1>2, <1>3 DEF StagesWritten, FileOf
<1>8. EntriesSettled'
    BY <1>0, <1>2, <1>3, <1>4 DEF EntriesSettled, Unsent
<1>9. SequencesLeft'
    <2> HIDE DEF InstallInv
    <2>1. Pending' \subseteq Pending
        BY <1>0, <1>2, <1>3, PendingOf
    <2> QED
        BY <1>0, <2>1, AttemptsCount
<1>10. Types'
    <2>1. /\ names' \in [Names -> Files \cup {NoFile}]
          /\ versions' \in [Names -> SUBSET (Files \cup {NoFile})]
          /\ \A m \in Names : names'[m] \in versions'[m]
        BY <1>0, <1>1 DEF Types
    <2> QED
        BY <1>0, <1>3, <2>1 DEF Types
<1> QED
    BY <1>3, <1>5, <1>6, <1>7, <1>8, <1>9, <1>10

LEMMA PublishStep ==
    ASSUME InstallInv, NEW i \in Installers, Publish(i)
    PROVE  InstallInv'
<1> USE DEF InstallInv
<1> DEFINE d == Digest(i)
           f == FileOf(i)
           c == [calls[i] EXCEPT !.at = "cleanup", !.linked = TRUE]
<1>0. /\ calls[i] \in Calls /\ calls[i].at = "publish" /\ Live(i)
      /\ UNCHANGED <<files, sequence, begun, crashes>>
      /\ names[calls[i].stage] = f /\ names[d] = NoFile
      /\ names' = [names EXCEPT ![d] = f]
      /\ versions' = [versions EXCEPT ![d] = versions[d] \cup {f}]
      /\ calls' = [calls EXCEPT ![i] = c]
    BY DEF Publish, Types, Live, Name, StagesOwned, HasStage, Occupied, budget
<1>1. /\ d \in Digests /\ d \in Names /\ d = DigestOf[calls[i].release]
      /\ f \in Files /\ f \in 1..begun /\ calls[i].release \in Releases
      /\ files[f].content = calls[i].release /\ files[f].synced
    BY <1>0, NamesApart DEF CallShape, Digest, Digests, FileOf, Files, Types, StagesWritten
<1>2. /\ c \in Calls /\ c.at = "cleanup" /\ c.release = calls[i].release
      /\ c.stage = calls[i].stage /\ c.number = f /\ c.answer = "none"
    BY <1>0 DEF Calls, Ats, CallShape, FileOf
<1> HIDE DEF c
<1>3. /\ calls' \in [Installers -> Calls] /\ CallShape' /\ FilesOwned'
      /\ calls'[i] = c /\ \A j \in Installers \ {i} : calls'[j] = calls[j]
    BY <1>0, <1>2, CallReplaced DEF FileOf
<1>4. /\ names'[d] = f /\ versions'[d] = versions[d] \cup {f} /\ versions[d] \subseteq {NoFile}
      /\ \A m \in Names \ {d} : names'[m] = names[m] /\ versions'[m] = versions[m]
    BY <1>0, <1>1 DEF Types, EntriesSettled
<1> HIDE DEF d, f
<1>5. EntryComplete'
    <2> SUFFICES ASSUME NEW e \in Digests, NEW g \in versions'[e] \ {NoFile}
                 PROVE  files[g].content # NoRelease /\ files[g].synced
                        /\ DigestOf[files[g].content] = e
        BY <1>0 DEF EntryComplete
    <2>1. CASE e = d
        BY <1>1, <1>4, <2>1
    <2>2. CASE e # d
        BY <1>4, <2>2, NamesApart DEF EntryComplete
    <2> QED
        BY <2>1, <2>2
<1>6. StagesOwned'
    BY <1>0, <1>1, <1>2, <1>3, <1>4, NamesApart DEF StagesOwned, HasStage, FileOf
<1>7. StagesWritten'
    BY <1>0, <1>1, <1>2, <1>3 DEF StagesWritten, FileOf
<1>8. EntriesSettled'
    <2> SUFFICES ASSUME NEW e \in Digests
                 PROVE  /\ versions'[e] \subseteq {NoFile, names'[e]}
                        /\ \A g \in versions'[e] \ {NoFile} :
                              /\ g \in 1..begun
                              /\ \A j \in Installers :
                                    calls'[j].at \in Unsent => calls'[j].number # g
        BY <1>0 DEF EntriesSettled
    <2>1. \A j \in Installers : calls'[j].at \in Unsent => j # i /\ calls'[j] = calls[j]
        BY <1>2, <1>3 DEF Unsent
    <2>2. CASE e = d
        <3>1. \A j \in Installers : calls'[j].at \in Unsent => calls'[j].number # f
            BY <1>0, <2>1 DEF FilesOwned, Live, Unsent, f, FileOf
        <3> QED
            BY <1>1, <1>4, <2>2, <3>1
    <2>3. CASE e # d
        BY <1>4, <2>1, <2>3, NamesApart DEF EntriesSettled
    <2> QED
        BY <2>2, <2>3
<1>9. SequencesLeft'
    <2> HIDE DEF InstallInv
    <2>1. Pending' \subseteq Pending
        BY <1>0, <1>2, <1>3, PendingOf
    <2> QED
        BY <1>0, <2>1, AttemptsCount
<1>10. Types'
    <2>1. /\ names' \in [Names -> Files \cup {NoFile}]
          /\ versions' \in [Names -> SUBSET (Files \cup {NoFile})]
          /\ \A m \in Names : names'[m] \in versions'[m]
        BY <1>0, <1>1, <1>4 DEF Types
    <2> QED
        BY <1>0, <1>3, <2>1 DEF Types
<1> QED
    BY <1>3, <1>5, <1>6, <1>7, <1>8, <1>9, <1>10

-----------------------------------------------------------------------------
(* A new call gets a file that nobody has, and its attempts. *)
LEMMA BeginStep ==
    ASSUME InstallInv, NEW i \in Installers, NEW r \in Releases, Begin(i, r)
    PROVE  InstallInv'
<1> USE DEF InstallInv
<1> DEFINE c == [NoCall EXCEPT !.at = "preflight", !.release = r, !.number = begun + 1]
<1>0. /\ calls[i].at \in {"idle", "done"} /\ begun < MaxCalls /\ begun \in Nat
      /\ begun' = begun + 1 /\ begun' \in 0..MaxCalls
      /\ UNCHANGED <<files, names, versions, sequence, crashes>>
      /\ calls' = [calls EXCEPT ![i] = c]
    BY DEF Begin, Types, disk
<1>1. /\ c \in Calls /\ c.at = "preflight" /\ c.release = r /\ c.number = begun + 1
      /\ c.tries = 0 /\ c.linked = FALSE /\ c.answer = "none"
    <2>1. begun + 1 \in 0..MaxCalls /\ 0 \in 0..(Attempts - 1)
        BY <1>0
    <2> QED
        BY <2>1 DEF Calls, Ats, Answers, Cleanups, NoCall
<1> HIDE DEF c
<1>2. /\ calls' \in [Installers -> Calls] /\ calls'[i] = c
      /\ \A j \in Installers \ {i} : calls'[j] = calls[j]
    BY <1>0, <1>1 DEF Types
<1>3. CallShape'
    BY <1>0, <1>1, <1>2 DEF CallShape, Live
<1>4. FilesOwned'
    <2>1. \A j \in Installers \ {i} : Live(j) => calls[j].number # c.number
        BY <1>0, <1>1 DEF CallShape
    <2> QED
        BY <1>2, <2>1 DEF FilesOwned, Live
<1>5. EntryComplete' /\ StagesOwned' /\ StagesWritten'
    BY <1>0, <1>1, <1>2 DEF EntryComplete, StagesOwned, StagesWritten, HasStage, FileOf
<1>6. EntriesSettled'
    <2> SUFFICES ASSUME NEW d \in Digests, NEW f \in versions[d] \ {NoFile}
                 PROVE  /\ f \in 1..begun'
                        /\ \A j \in Installers :
                              calls'[j].at \in Unsent => calls'[j].number # f
        BY <1>0 DEF EntriesSettled
    <2>1. f \in 1..begun
        BY DEF EntriesSettled
    <2>2. \A j \in Installers \ {i} : calls'[j].at \in Unsent => calls'[j].number # f
        BY <1>2 DEF EntriesSettled
    <2>3. calls'[i].number # f
        BY <1>0, <1>1, <1>2, <2>1
    <2> QED
        BY <1>0, <2>1, <2>2, <2>3
<1>7. SequencesLeft'
    <2> DEFINE New == {i} \X (0..(Attempts - 1))
    <2>1. IsFiniteSet(New) /\ Cardinality(New) = Attempts
        <3> HIDE InstallAssumption
        <3>1. ASSUME NEW a \in Nat \ {0}
              PROVE  IsFiniteSet(0..(a - 1)) /\ Cardinality(0..(a - 1)) = a
            <4>1. a - 1 \in Int /\ 0 \in Int /\ ~(0 > a - 1)
                OBVIOUS
            <4> QED
                BY <4>1, FS_Interval
        <3>2. Attempts \in Nat \ {0}
            BY InstallAssumption
        <3>3. IsFiniteSet(0..(Attempts - 1)) /\ Cardinality(0..(Attempts - 1)) = Attempts
            BY <3>1, <3>2
        <3>4. IsFiniteSet({i}) /\ Cardinality({i}) = 1
            BY FS_Singleton
        <3>5. /\ IsFiniteSet(New)
              /\ Cardinality(New) = Cardinality({i}) * Cardinality(0..(Attempts - 1))
            BY <3>3, <3>4, FS_Product
        <3> QED
            BY <3>2, <3>3, <3>4, <3>5
    <2>2. Pending' \subseteq Pending \cup New
        <3> SUFFICES ASSUME NEW a \in Pending' PROVE a \in Pending \cup New
            OBVIOUS
        <3>1. /\ a \in Installers \X (0..(Attempts - 1))
              /\ calls'[a[1]].at \in {"preflight", "create"} /\ calls'[a[1]].tries <= a[2]
            BY DEF Pending
        <3>2. CASE a[1] = i
            BY <3>1, <3>2
        <3>3. CASE a[1] # i
            BY <1>2, <3>1, <3>3 DEF Pending
        <3> QED
            BY <3>2, <3>3
    <2> HIDE DEF New
    <2>3. /\ IsFiniteSet(Pending \cup New)
          /\ Cardinality(Pending \cup New)
                = Cardinality(Pending) + Cardinality(New) - Cardinality(Pending \cap New)
        BY <2>1, FinitePending, FS_Union
    <2>4. IsFiniteSet(Pending \cap New) /\ Cardinality(Pending \cap New) \in Nat
        BY <2>1, FS_Subset, FS_CardinalityType
    <2>5. Cardinality(Pending') <= Cardinality(Pending \cup New)
          /\ Cardinality(Pending') \in Nat
        BY <2>2, <2>3, FS_Subset, FS_CardinalityType
    <2>6. Cardinality(Pending') <= Cardinality(Pending) + Attempts
        BY <2>1, <2>3, <2>4, <2>5, FinitePending
    <2>7. begun' * Attempts = begun * Attempts + Attempts /\ begun * Attempts \in Nat
        BY <1>0, Products
    <2>8. \A p \in Processes : sequence[p] \in Nat
                             /\ sequence[p] + Cardinality(Pending) <= begun * Attempts
        BY DEF Types, SequencesLeft
    <2> QED
        BY <1>0, <2>5, <2>6, <2>7, <2>8, FinitePending DEF SequencesLeft
<1>8. Types'
    BY <1>0, <1>2 DEF Types
<1> QED
    BY <1>3, <1>4, <1>5, <1>6, <1>7, <1>8

LEMMA NoCallTyped == NoCall \in Calls /\ NoCall.at = "idle" /\ NoCall.linked = FALSE
<1>1. 0 \in 0..MaxCalls /\ 0 \in 0..(Attempts - 1)
    OBVIOUS
<1> QED
    BY <1>1 DEF NoCall, Calls, Ats, Answers, Cleanups

(* Dropping calls and sequence numbers disturbs nobody else. *)
LEMMA CallsDropped ==
    ASSUME InstallInv, begun' = begun,
           calls' \in [Installers -> Calls], sequence' \in [Processes -> 0..(MaxCalls * Attempts)],
           \A j \in Installers : calls'[j] \in {NoCall, calls[j]},
           \A p \in Processes : sequence'[p] \in {0, sequence[p]}
    PROVE  CallShape' /\ FilesOwned' /\ SequencesLeft'
<1> USE DEF InstallInv
<1>1. \A j \in Installers : \/ calls'[j].at = "idle" /\ calls'[j] = NoCall
                            \/ calls'[j] = calls[j]
    BY NoCallTyped
<1>2. CallShape'
    BY <1>1, NoCallTyped DEF CallShape, Live
<1>3. FilesOwned'
    BY <1>1 DEF FilesOwned, Live
<1>4. Pending' \subseteq Pending
    BY <1>1 DEF Pending
<1>5. /\ IsFiniteSet(Pending') /\ Cardinality(Pending') \in Nat
      /\ Cardinality(Pending') <= Cardinality(Pending)
    BY <1>4, FinitePending, FS_Subset, FS_CardinalityType
<1>6. begun * Attempts \in Nat
    BY Products DEF Types
<1>7. \A p \in Processes : /\ sequence[p] \in Nat
                            /\ sequence[p] + Cardinality(Pending) <= begun * Attempts
    BY DEF Types, SequencesLeft
<1>8. ASSUME NEW p \in Processes
      PROVE  sequence'[p] + Cardinality(Pending') <= begun * Attempts
    <2>1. sequence'[p] \in Nat /\ sequence'[p] <= sequence[p]
        BY <1>7
    <2> QED
        BY <1>5, <1>6, <1>7, <2>1, FinitePending
<1>9. SequencesLeft'
    BY <1>8 DEF SequencesLeft
<1> QED
    BY <1>2, <1>3, <1>9

LEMMA KillStep ==
    ASSUME InstallInv, NEW p \in Processes, Kill(p)
    PROVE  InstallInv'
<1> USE DEF InstallInv
<1>1. /\ UNCHANGED <<files, names, versions, begun>> /\ crashes' \in 0..MaxCrashes
      /\ \A j \in Installers : calls'[j] \in {NoCall, calls[j]}
      /\ calls' \in [Installers -> Calls]
    BY NoCallTyped DEF Kill, Types, disk
<1>2. /\ sequence' \in [Processes -> 0..(MaxCalls * Attempts)]
      /\ \A q \in Processes : sequence'[q] \in {0, sequence[q]}
    <2>1. 0 \in 0..(MaxCalls * Attempts)
        BY Products
    <2> QED
        BY <2>1 DEF Kill, Types
<1>3. CallShape' /\ FilesOwned' /\ SequencesLeft'
    BY <1>1, <1>2, CallsDropped
<1>4. \A j \in Installers : calls'[j].at = "idle" \/ calls'[j] = calls[j]
    BY <1>1, NoCallTyped
<1>5. EntryComplete' /\ StagesOwned' /\ StagesWritten' /\ EntriesSettled'
    BY <1>1, <1>4 DEF EntryComplete, StagesOwned, StagesWritten, EntriesSettled, HasStage,
       Unsent, FileOf
<1>6. Types'
    BY <1>1, <1>2 DEF Types
<1> QED
    BY <1>3, <1>5, <1>6

LEMMA PowerLossStep ==
    ASSUME InstallInv, PowerLoss
    PROVE  InstallInv'
<1> USE DEF InstallInv
<1>1. /\ begun' = begun /\ crashes' \in 0..MaxCrashes
      /\ \A j \in Installers : calls'[j] = NoCall
      /\ calls' \in [Installers -> Calls]
    BY NoCallTyped DEF PowerLoss, Types
<1>2. /\ sequence' \in [Processes -> 0..(MaxCalls * Attempts)]
      /\ \A q \in Processes : sequence'[q] = 0
    <2>1. 0 \in 0..(MaxCalls * Attempts)
        BY Products
    <2> QED
        BY <2>1 DEF PowerLoss
<1>3. CallShape' /\ FilesOwned' /\ SequencesLeft'
    BY <1>1, <1>2, CallsDropped
<1>4. /\ files' \in [Files -> [content : Releases \cup {NoRelease}, synced : BOOLEAN]]
      /\ \A f \in Files : f \notin Unsynced => files'[f] = files[f]
    BY DEF PowerLoss, Types, Partial
<1>5. /\ names' \in [Names -> Files \cup {NoFile}]
      /\ \A n \in Names : names'[n] \in versions[n] /\ versions'[n] = {names'[n]}
      /\ versions' \in [Names -> SUBSET (Files \cup {NoFile})]
    <2>1. PICK found \in [Unsettled -> Files \cup {NoFile}] :
             /\ \A n \in Unsettled : found[n] \in versions[n]
             /\ names' = [n \in Names |-> IF n \in Unsettled THEN found[n] ELSE names[n]]
        BY DEF PowerLoss
    <2>2. \A n \in Names : names'[n] \in versions[n] /\ names'[n] \in Files \cup {NoFile}
        BY <2>1 DEF Types
    <2>3. names' \in [Names -> Files \cup {NoFile}]
        BY <2>1, <2>2
    <2>4. versions' = [n \in Names |-> {names'[n]}]
        BY DEF PowerLoss
    <2> QED
        BY <2>2, <2>3, <2>4
<1>6. EntryComplete'
    <2> SUFFICES ASSUME NEW d \in Digests, NEW f \in versions'[d] \ {NoFile}
                 PROVE  files'[f].content # NoRelease /\ files'[f].synced
                        /\ DigestOf[files'[f].content] = d
        BY DEF EntryComplete
    <2>1. f \in versions[d] \ {NoFile} /\ f \in Files
        BY <1>5, NamesApart DEF Types
    <2>2. files'[f] = files[f]
        BY <1>4, <2>1 DEF EntryComplete, Unsynced
    <2> QED
        BY <2>1, <2>2 DEF EntryComplete
<1>7. EntriesSettled'
    <2> SUFFICES ASSUME NEW d \in Digests
                 PROVE  /\ versions'[d] \subseteq {NoFile, names'[d]}
                        /\ \A f \in versions'[d] \ {NoFile} : f \in 1..begun
        BY <1>1, NoCallTyped DEF EntriesSettled, Unsent
    <2> QED
        BY <1>5, NamesApart DEF EntriesSettled
<1>8. StagesOwned' /\ StagesWritten'
    BY <1>1, NoCallTyped DEF StagesOwned, StagesWritten, HasStage
<1>9. Types'
    BY <1>1, <1>2, <1>4, <1>5 DEF Types
<1> QED
    BY <1>3, <1>6, <1>7, <1>8, <1>9

-----------------------------------------------------------------------------
LEMMA InstallInvariant == Spec => []InstallInv
<1>1. InstallInv /\ [Next]_vars => InstallInv'
    <2> SUFFICES ASSUME InstallInv, [Next]_vars PROVE InstallInv'
        OBVIOUS
    <2>1. ASSUME NEW i \in Installers, Install(i) PROVE InstallInv'
        BY <2>1, QuietSteps, CreateStep, WriteSyncStep, UnstageStep, PublishStep DEF Install
    <2>2. ASSUME NEW i \in Installers, NEW r \in Releases, Begin(i, r) PROVE InstallInv'
        BY <2>2, BeginStep
    <2>3. ASSUME NEW p \in Processes, Kill(p) PROVE InstallInv'
        BY <2>3, KillStep
    <2>4. CASE PowerLoss
        BY <2>4, PowerLossStep
    <2>5. CASE UNCHANGED vars
        BY <2>5 DEF vars, disk, budget, InstallInv, Types, EntryComplete, CallShape, FilesOwned,
           StagesOwned, StagesWritten, EntriesSettled, SequencesLeft, Pending, Live, FileOf
    <2> QED
        BY <2>1, <2>2, <2>3, <2>4, <2>5 DEF Next
<1> QED
    BY <1>1, InitInstallInv, PTL DEF Spec

(* Every variable of the installers keeps its type: no process runs out of
   staging names that the directory can hold.                              *)
THEOREM TypeCorrect == Spec => []TypeOK
<1>1. InstallInv => TypeOK
    BY TypesSuffice DEF InstallInv
<1> QED
    BY <1>1, InstallInvariant, PTL

(* A reader of a digest's name finds nothing or one whole, synced release of
   that digest, also after a power loss.                                   *)
THEOREM EntryTheorem == Spec => []EntryComplete
<1>1. InstallInv => EntryComplete
    BY DEF InstallInv
<1> QED
    BY <1>1, InstallInvariant, PTL

-----------------------------------------------------------------------------
(* What a digest's name holds for a reader, and a call for the store. *)
EntryOf(d) == IF names[d] = NoFile THEN NoRelease ELSE files[names[d]].content
CallOf(i) == [at |-> Position(calls[i]), release |-> calls[i].release,
              answer |-> calls[i].answer]

(* Nobody writes the file of an entry. *)
LEMMA EntriesStay ==
    ASSUME InstallInv, NEW d \in Digests, names'[d] = names[d],
           \/ UNCHANGED files
           \/ \E i \in Installers : WriteStage(i) \/ SyncStage(i)
    PROVE  EntryOf(d)' = EntryOf(d)
<1> USE DEF InstallInv
<1>1. CASE UNCHANGED files
    BY <1>1 DEF EntryOf
<1>2. ASSUME NEW i \in Installers, WriteStage(i) \/ SyncStage(i)
      PROVE  EntryOf(d)' = EntryOf(d)
    <2>1. names[d] \in versions[d] /\ names[d] \in Files \cup {NoFile}
        BY NamesApart DEF Types
    <2>2. names[d] # NoFile => names[d] # FileOf(i)
        BY <1>2, <2>1 DEF EntriesSettled, WriteStage, SyncStage, Unsent, FileOf
    <2>3. \A g \in Files : g # FileOf(i) => files'[g] = files[g]
        BY <1>2 DEF WriteStage, SyncStage, Types
    <2> QED
        BY <2>1, <2>2, <2>3 DEF EntryOf
<1> QED
    BY <1>1, <1>2

Entries == [d \in Digests |-> EntryOf(d)]
CallsSeen == [i \in Installers |-> CallOf(i)]

LEMMA Positions ==
    ASSUME InstallInv, NEW i \in Installers
    PROVE  /\ Live(i) /\ calls[i].at # "cleanup" => CallOf(i).at = "asked"
           /\ calls[i].at = "cleanup" =>
                 CallOf(i).at = IF calls[i].linked THEN "published" ELSE "asked"
           /\ calls[i].at = "idle" => CallOf(i).at = "idle"
           /\ calls[i].at = "done" => CallOf(i).at = "answered"
           /\ Live(i) => CallOf(i).answer = "none" /\ CallOf(i).release \in Releases
           /\ CallOf(i).release = calls[i].release
           /\ CallsSeen[i] = CallOf(i)
BY DEF InstallInv, CallShape, CallOf, Position, Live, CallsSeen

(* The entries only change where their names do. *)
LEMMA EntriesSame ==
    ASSUME InstallInv, \A d \in Digests : names'[d] = names[d],
           \/ UNCHANGED files
           \/ \E i \in Installers : WriteStage(i) \/ SyncStage(i)
    PROVE  Entries' = Entries
<1>1. \A d \in Digests : EntryOf(d)' = EntryOf(d)
    BY EntriesStay
<1> QED
    BY <1>1 DEF Entries

(* A step that the store does not see. *)
LEMMA CallUnseen ==
    ASSUME InstallInv, NEW i \in Installers, NEW c,
           calls' = [calls EXCEPT ![i] = c], Live(i),
           c.at \notin {"idle", "done"}, c.at = "cleanup" => ~c.linked,
           calls[i].at = "cleanup" => ~calls[i].linked,
           c.release = calls[i].release, c.answer = calls[i].answer
    PROVE  CallsSeen' = CallsSeen
<1>1. calls'[i] = c /\ \A j \in Installers \ {i} : calls'[j] = calls[j]
    BY DEF InstallInv, Types
<1>2. CallOf(i)' = CallOf(i)
    BY <1>1 DEF CallOf, Position, Live
<1>3. \A j \in Installers \ {i} : CallOf(j)' = CallOf(j)
    BY <1>1 DEF CallOf, Position
<1> QED
    BY <1>2, <1>3 DEF CallsSeen

(* A call that ends answers. *)
LEMMA CallAnswers ==
    ASSUME InstallInv, NEW i \in Installers, NEW answer \in Answers \ {"none"},
           NEW cleanup \in Cleanups, Live(i), Entries' = Entries,
           calls' = [calls EXCEPT ![i] = Done(calls[i], answer, cleanup)],
           CASE answer = "Installed" -> calls[i].at = "cleanup" /\ calls[i].linked
             [] answer = "AlreadyPresent" ->
                   calls[i].at # "cleanup" /\ EntryOf(Digest(i)) = calls[i].release
             [] answer = "Refused" ->
                   calls[i].at # "cleanup"
                   /\ EntryOf(Digest(i)) \notin {NoRelease, calls[i].release}
             [] answer = "Failed" -> calls[i].at # "cleanup"
    PROVE  Store!Answer(i, answer)
<1>1. calls[i] \in Calls
    BY DEF InstallInv, Types
<1>2. /\ calls'[i].at = "done" /\ calls'[i].release = calls[i].release
      /\ calls'[i].answer = answer
      /\ \A j \in Installers \ {i} : calls'[j] = calls[j]
    <2>1. answer \in Answers /\ cleanup \in Cleanups
        OBVIOUS
    <2>2. /\ Done(calls[i], answer, cleanup).at = "done"
          /\ Done(calls[i], answer, cleanup).release = calls[i].release
          /\ Done(calls[i], answer, cleanup).answer = answer
        BY DEF Done, NoCall
    <2> QED
        BY <2>2 DEF InstallInv, Types
<1>3. CallOf(i)' = [at |-> "answered", release |-> calls[i].release, answer |-> answer]
    BY <1>2 DEF CallOf, Position
<1>4. \A j \in Installers \ {i} : CallOf(j)' = CallOf(j)
    BY <1>2 DEF CallOf, Position
<1>5. CallsSeen' = [CallsSeen EXCEPT ![i].at = "answered", ![i].answer = answer]
    BY <1>3, <1>4 DEF CallsSeen, CallOf
<1>6. Digest(i) \in Digests /\ Digest(i) = DigestOf[CallsSeen[i].release]
      /\ CallsSeen[i].release = calls[i].release
    BY Positions DEF InstallInv, CallShape, Digest, Digests
<1>7. /\ answer = "Installed" => CallsSeen[i].at = "published"
      /\ answer # "Installed" => CallsSeen[i].at = "asked"
      /\ answer = "AlreadyPresent" => Entries[Digest(i)] = calls[i].release
      /\ answer = "Refused" => Entries[Digest(i)] \notin {NoRelease, calls[i].release}
    BY <1>6, Positions DEF Entries, Answers
<1> QED
    BY <1>5, <1>6, <1>7
       DEF Store!Answer, Store!Entry, Entries, EntryOf, CallsSeen, CallOf, Answers

(* Every step of an installer is a step of the store or none. *)
LEMMA StoreSteps ==
    ASSUME InstallInv, InstallInv', NEW i \in Installers, Install(i)
    PROVE  Store!Next \/ UNCHANGED Store!vars
<1> USE DEF InstallInv
<1>0. calls[i] \in Calls /\ Live(i)
    BY DEF Install, Types, FindIdentical, FindDifferent, FindNothing, CannotLook, SkipStage,
           CannotCreate, CannotPublish, DeferCleanup, FailStage, CreateStage, WriteStage,
           SyncStage, Publish, Cleanup, Live, Looking
<1>1. ASSUME NEW answer \in Answers \ {"none"}, Store!Answer(i, answer) PROVE Store!Next
    BY <1>1 DEF Store!Next, Answers
<1>2. ASSUME Entries' = Entries, CallsSeen' = CallsSeen PROVE UNCHANGED Store!vars
    BY <1>2 DEF Store!vars, Entries, EntryOf, CallsSeen, CallOf
<1>3. ASSUME UNCHANGED disk PROVE Entries' = Entries
    BY <1>3, EntriesSame DEF disk
<1>4. Digest(i) \in Digests /\ Digest(i) \in Names /\ calls[i].cleanup \in Cleanups
    BY <1>0, NamesApart DEF CallShape, Digest, Digests, Calls
<1>5. Occupied(i) => EntryOf(Digest(i)) = Existing(i)
    BY DEF Occupied, EntryOf, Existing
<1>6. ASSUME NEW answer \in Answers \ {"none"}, Answer(i, answer), UNCHANGED disk,
             calls[i].at # "cleanup", answer # "Installed",
             answer = "AlreadyPresent" => EntryOf(Digest(i)) = calls[i].release,
             answer = "Refused" => EntryOf(Digest(i)) \notin {NoRelease, calls[i].release}
      PROVE  Store!Next
    <2>1. calls' = [calls EXCEPT ![i] = Done(calls[i], answer, calls[i].cleanup)]
        BY <1>6 DEF Answer
    <2>2. Store!Answer(i, answer)
        BY <1>0, <1>3, <1>4, <1>6, <2>1, CallAnswers DEF Answers
    <2> QED
        BY <1>1, <2>2
<1>7. ASSUME NEW at \in Ats \ {"idle", "done"}, GoTo(i, at), Entries' = Entries,
             calls[i].at # "cleanup"
      PROVE  UNCHANGED Store!vars
    <2> DEFINE c == [calls[i] EXCEPT !.at = at]
    <2>1. calls' = [calls EXCEPT ![i] = c]
        BY <1>7 DEF GoTo
    <2>2. c.at = at /\ c.release = calls[i].release /\ c.answer = calls[i].answer /\ ~c.linked
        BY <1>0, <1>7 DEF Calls, CallShape
    <2> HIDE DEF c
    <2>3. CallsSeen' = CallsSeen
        BY <1>0, <1>7, <2>1, <2>2, CallUnseen
    <2> QED
        BY <1>2, <1>7, <2>3
<1>8. CASE FindIdentical(i)
    BY <1>5, <1>6, <1>8 DEF FindIdentical, Looking, Answers
<1>9. CASE FindDifferent(i)
    <2>1. names[Digest(i)] \in versions[Digest(i)] \ {NoFile}
        BY <1>4, <1>9 DEF FindDifferent, Occupied, Types
    <2>2. Existing(i) # NoRelease
        BY <1>4, <2>1 DEF EntryComplete, Existing
    <2> QED
        BY <1>5, <1>6, <1>9, <2>2 DEF FindDifferent, Looking, Answers
<1>10. CASE FindNothing(i)
    <2>1. UNCHANGED disk /\ calls[i].at # "cleanup"
        BY <1>10 DEF FindNothing, Looking
    <2>2. CASE GoTo(i, "create")
        BY <1>3, <1>7, <2>1, <2>2 DEF Ats
    <2>3. CASE Answer(i, "Failed")
        BY <1>6, <2>1, <2>3 DEF Answers
    <2> QED
        BY <1>10, <2>2, <2>3 DEF FindNothing
<1>11. CASE CannotLook(i)
    BY <1>6, <1>11 DEF CannotLook, Looking, Answers
<1>12. CASE CannotCreate(i)
    BY <1>6, <1>12 DEF CannotCreate, Answers
<1>13. CASE SkipStage(i)
    <2>1. UNCHANGED disk /\ calls[i].at = "create"
        BY <1>13 DEF SkipStage
    <2>2. CASE calls' = [calls EXCEPT ![i].tries = @ + 1]
        <3> DEFINE c == [calls[i] EXCEPT !.tries = calls[i].tries + 1]
        <3>1. calls' = [calls EXCEPT ![i] = c]
            BY <2>2
        <3>2. /\ c.at = "create" /\ c.release = calls[i].release
              /\ c.answer = calls[i].answer
            BY <1>0, <2>1 DEF Calls
        <3> HIDE DEF c
        <3>3. CallsSeen' = CallsSeen
            BY <1>0, <2>1, <3>1, <3>2, CallUnseen
        <3> QED
            BY <1>2, <1>3, <2>1, <3>3
    <2>3. CASE Answer(i, "Failed")
        BY <1>6, <2>1, <2>3 DEF Answers
    <2> QED
        BY <1>13, <2>2, <2>3 DEF SkipStage
<1>14. CASE CreateStage(i)
    <2> DEFINE c == [calls[i] EXCEPT !.at = "write", !.stage = NextStage(i)]
    <2>1. calls' = [calls EXCEPT ![i] = c] /\ calls[i].at = "create"
        BY <1>14 DEF CreateStage
    <2>2. c.at = "write" /\ c.release = calls[i].release /\ c.answer = calls[i].answer
        BY <1>0 DEF Calls
    <2> HIDE DEF c
    <2>3. CallsSeen' = CallsSeen
        BY <1>0, <2>1, <2>2, CallUnseen
    <2>4. sequence[ProcessOf[i]] \in 0..(MaxCalls * Attempts) /\ ProcessOf[i] \in Processes
        BY DEF Types
    <2>5. NextStage(i) \in Stages
        BY <1>4, <2>4 DEF NextStage, Stages
    <2>6. UNCHANGED files /\ \A d \in Digests : names'[d] = names[d]
        BY <1>14, <2>5, NamesApart DEF CreateStage, Name, Types
    <2> QED
        BY <1>2, <2>3, <2>6, EntriesSame
<1>15. CASE WriteStage(i) \/ SyncStage(i)
    <2>1. UNCHANGED names
        BY <1>15 DEF WriteStage, SyncStage
    <2>2. Entries' = Entries
        BY <1>15, <2>1, EntriesSame
    <2>3. CASE GoTo(i, "sync") /\ calls[i].at = "write"
        BY <1>7, <2>2, <2>3 DEF Ats
    <2>4. CASE GoTo(i, "publish") /\ calls[i].at = "sync"
        BY <1>7, <2>2, <2>4 DEF Ats
    <2> QED
        BY <1>15, <2>3, <2>4 DEF WriteStage, SyncStage
<1>16. CASE CannotPublish(i)
    BY <1>3, <1>7, <1>16 DEF CannotPublish, Ats
<1>17. ASSUME calls[i].at \in HasStage,
              Name(calls[i].stage, NoFile) \/ UNCHANGED <<names, versions>>, UNCHANGED files
       PROVE  Entries' = Entries
    <2>1. calls[i].stage \in Stages
        BY <1>17 DEF StagesOwned
    <2>2. \A d \in Digests : names'[d] = names[d]
        BY <1>17, <2>1, NamesApart DEF Name, Types
    <2> QED
        BY <1>17, <2>2, EntriesSame
<1>18. CASE FailStage(i)
    <2>1. PICK cleanup \in Cleanups :
             calls' = [calls EXCEPT ![i] = Done(calls[i], "Failed", cleanup)]
        BY <1>18 DEF FailStage, Cleanups
    <2>2. calls[i].at \in {"write", "sync"} /\ Entries' = Entries
        BY <1>17, <1>18 DEF FailStage, HasStage
    <2>3. Store!Answer(i, "Failed")
        BY <1>0, <2>1, <2>2, CallAnswers DEF Answers
    <2> QED
        BY <1>1, <2>3 DEF Answers
<1>19. CASE Cleanup(i) \/ DeferCleanup(i)
    <2>1. calls[i].at = "cleanup" /\ Entries' = Entries
        BY <1>17, <1>19 DEF Cleanup, DeferCleanup, disk, HasStage
    <2>2. PICK cleanup \in Cleanups : AfterCleanup(i, cleanup)
        BY <1>19 DEF Cleanup, DeferCleanup, Cleanups
    <2>3. CASE calls[i].linked
        <3>1. calls' = [calls EXCEPT ![i] = Done(calls[i], "Installed", cleanup)]
            BY <2>2, <2>3 DEF AfterCleanup
        <3>2. Store!Answer(i, "Installed")
            BY <1>0, <2>1, <2>3, <3>1, CallAnswers DEF Answers
        <3> QED
            BY <1>1, <3>2 DEF Answers
    <2>4. CASE ~calls[i].linked
        <3> DEFINE c == [calls[i] EXCEPT !.at = "recheck", !.cleanup = cleanup,
                                         !.stage = NoStage]
        <3>1. calls' = [calls EXCEPT ![i] = c]
            BY <2>2, <2>4 DEF AfterCleanup
        <3>2. c.at = "recheck" /\ c.release = calls[i].release /\ c.answer = calls[i].answer
            BY <1>0 DEF Calls
        <3> HIDE DEF c
        <3>3. CallsSeen' = CallsSeen
            BY <1>0, <2>4, <3>1, <3>2, CallUnseen
        <3> QED
            BY <1>2, <2>1, <3>3
    <2> QED
        BY <2>3, <2>4
<1>20. CASE Publish(i)
    <2>0. PICK d \in Digests : d = Digest(i)
        BY <1>4
    <2> DEFINE c == [calls[i] EXCEPT !.at = "cleanup", !.linked = TRUE]
    <2>1. /\ calls[i].at = "publish" /\ names[d] = NoFile /\ UNCHANGED files
          /\ names[calls[i].stage] = FileOf(i)
          /\ names' = [names EXCEPT ![d] = FileOf(i)]
          /\ calls' = [calls EXCEPT ![i] = c]
        BY <1>20, <2>0 DEF Publish, Name, Occupied, StagesOwned, HasStage
    <2>2. files[FileOf(i)].content = calls[i].release /\ FileOf(i) \in Files
        BY <1>0, <2>1 DEF StagesWritten, CallShape, FileOf, Files, Types
    <2>3. /\ EntryOf(d)' = calls[i].release /\ EntryOf(d) = NoRelease
          /\ \A e \in Digests \ {d} : EntryOf(e)' = EntryOf(e)
        <3>1. FileOf(i) # NoFile
            BY <2>2 DEF Files
        <3>2. names'[d] = FileOf(i) /\ \A e \in Digests \ {d} : names'[e] = names[e]
            BY <2>1, NamesApart DEF Types
        <3>3. \A e \in Digests \ {d} : EntryOf(e)' = EntryOf(e)
            BY <2>1, <3>2 DEF EntryOf
        <3>4. EntryOf(d)' = calls[i].release
            BY <2>1, <2>2, <3>1, <3>2 DEF EntryOf
        <3>5. EntryOf(d) = NoRelease
            BY <2>1 DEF EntryOf
        <3> QED
            BY <3>3, <3>4, <3>5
    <2>4. /\ calls'[i].at = "cleanup" /\ calls'[i].linked
          /\ calls'[i].release = calls[i].release /\ calls'[i].answer = calls[i].answer
          /\ \A j \in Installers \ {i} : calls'[j] = calls[j]
        BY <1>0, <2>1 DEF Types, Calls
    <2>5. /\ CallOf(i).at = "asked" /\ CallOf(i)' = [CallOf(i) EXCEPT !.at = "published"]
          /\ \A j \in Installers \ {i} : CallOf(j)' = CallOf(j)
        BY <2>1, <2>4 DEF CallOf, Position
    <2> HIDE DEF c
    <2>6. d = DigestOf[CallsSeen[i].release] /\ CallsSeen[i].release = calls[i].release
          /\ CallsSeen[i].at = "asked"
        BY <2>0, <2>5, Positions DEF Digest
    <2>7. Entries' = [Entries EXCEPT ![d] = calls[i].release] /\ Entries[d] = NoRelease
        <3>1. Entries' = [e \in Digests |-> EntryOf(e)']
            BY DEF Entries
        <3> QED
            BY <2>3, <3>1 DEF Entries
    <2>8. CallsSeen' = [CallsSeen EXCEPT ![i].at = "published"]
        BY <2>5 DEF CallsSeen
    <2>9. Store!Publish(i)
        BY <2>6, <2>7, <2>8
           DEF Store!Publish, Store!Entry, Entries, EntryOf, CallsSeen, CallOf
    <2> QED
        BY <2>9 DEF Store!Next
<1> QED
    BY <1>8, <1>9, <1>10, <1>11, <1>12, <1>13, <1>14, <1>15, <1>16, <1>18, <1>19, <1>20
       DEF Install

LEMMA BeginStore ==
    ASSUME InstallInv, NEW i \in Installers, NEW r \in Releases, Begin(i, r)
    PROVE  Store!Ask(i, r)
<1>1. /\ calls'[i].at = "preflight" /\ calls'[i].release = r /\ calls'[i].answer = "none"
      /\ \A j \in Installers \ {i} : calls'[j] = calls[j]
    BY DEF Begin, NoCall, InstallInv, Types
<1>2. CallOf(i)' = [at |-> "asked", release |-> r, answer |-> "none"]
      /\ \A j \in Installers \ {i} : CallOf(j)' = CallOf(j)
    BY <1>1 DEF CallOf, Position
<1>3. CallsSeen' = [CallsSeen EXCEPT ![i] = [at |-> "asked", release |-> r, answer |-> "none"]]
    BY <1>2 DEF CallsSeen
<1>4. CallsSeen[i].at \in {"idle", "answered"}
    BY Positions DEF Begin
<1>5. Entries' = Entries
    BY EntriesSame DEF Begin, disk
<1> QED
    BY <1>3, <1>4, <1>5 DEF Store!Ask, Entries, EntryOf, CallsSeen, CallOf

(* A killed process has no calls, for the store as well. *)
LEMMA KillStore ==
    ASSUME InstallInv, NEW p \in Processes, Kill(p)
    PROVE  Store!Next
<1> DEFINE dead == {i \in Installers : ProcessOf[i] = p}
<1>1. \A i \in Installers : CallOf(i)' = IF i \in dead THEN Store!NoCall ELSE CallOf(i)
    BY DEF Kill, CallOf, Position, NoCall, Store!NoCall
<1>2. CallsSeen' = [i \in Installers |-> IF i \in dead THEN Store!NoCall ELSE CallsSeen[i]]
    BY <1>1 DEF CallsSeen
<1>3. Entries' = Entries
    BY EntriesSame DEF Kill, disk
<1>4. Store!Kill(dead)
    BY <1>2, <1>3 DEF Store!Kill, Entries, EntryOf, CallsSeen, CallOf
<1> QED
    BY <1>4 DEF Store!Next

(* After a power loss a name of the store has what it had, or nothing. *)
LEMMA PowerLossStore ==
    ASSUME InstallInv, PowerLoss
    PROVE  Store!Next
<1> USE DEF InstallInv
<1> DEFINE lost == {d \in Digests : names'[d] = NoFile}
<1>1. \A i \in Installers : CallOf(i)' = Store!NoCall
    BY DEF PowerLoss, CallOf, Position, NoCall, Store!NoCall
<1>2. CallsSeen' = [i \in Installers |-> Store!NoCall]
    BY <1>1 DEF CallsSeen
<1>3. PICK torn \in SUBSET Unsynced :
         files' = [f \in Files |-> IF f \in torn THEN Partial ELSE files[f]]
    BY DEF PowerLoss
<1>4. ASSUME NEW d \in Digests
      PROVE  EntryOf(d)' = IF d \in lost THEN NoRelease ELSE EntryOf(d)
    <2>1. names'[d] \in versions[d] /\ names[d] \in versions[d]
        BY NamesApart DEF PowerLoss, Unsettled, Types
    <2>2. CASE names'[d] = NoFile
        BY <2>2 DEF EntryOf
    <2>3. CASE names'[d] # NoFile
        <3>1. names'[d] \in Files /\ files[names'[d]].synced
            BY <2>1, <2>3, NamesApart DEF EntryComplete, Types
        <3>2. files'[names'[d]] = files[names'[d]]
            BY <1>3, <3>1 DEF Unsynced
        <3>3. names'[d] = names[d]
            BY <2>1, <2>3 DEF EntriesSettled
        <3> QED
            BY <2>3, <3>2, <3>3 DEF EntryOf
    <2> QED
        BY <2>2, <2>3
<1>5. Entries' = [d \in Digests |-> IF d \in lost THEN NoRelease ELSE Entries[d]]
    BY <1>4 DEF Entries
<1>6. PICK gone \in SUBSET Store!Digests : gone = lost
    BY DEF Store!Digests, Digests
<1> HIDE DEF lost
<1>7. Store!PowerLoss(gone)
    BY <1>2, <1>5, <1>6
       DEF Store!PowerLoss, Store!Digests, Digests, Entries, EntryOf, CallsSeen, CallOf
<1> QED
    BY <1>6, <1>7 DEF Store!Next

(* Installation is a write-once store: whoever is told that a release was
   installed put it there, no error path creates or replaces an entry, and
   only a power loss takes one away.                                       *)
THEOREM StoreTheorem == Spec => ImplementsStore
<1>1. Init => Store!Init
    <2> SUFFICES ASSUME Init PROVE Store!Init
        OBVIOUS
    <2>1. \A d \in Digests : EntryOf(d) = NoRelease
        BY NamesApart DEF Init, EntryOf
    <2>2. \A i \in Installers : CallOf(i) = Store!NoCall
        BY DEF Init, CallOf, Position, NoCall, Store!NoCall
    <2> QED
        BY <2>1, <2>2 DEF Store!Init, Store!Digests, Digests, EntryOf, CallOf
<1>2. InstallInv /\ InstallInv' /\ [Next]_vars => [Store!Next]_(Store!vars)
    <2> SUFFICES ASSUME InstallInv, InstallInv', [Next]_vars
                 PROVE  Store!Next \/ UNCHANGED Store!vars
        OBVIOUS
    <2>1. ASSUME NEW i \in Installers, Install(i) PROVE Store!Next \/ UNCHANGED Store!vars
        BY <2>1, StoreSteps
    <2>2. ASSUME NEW i \in Installers, NEW r \in Releases, Begin(i, r) PROVE Store!Next
        BY <2>2, BeginStore DEF Store!Next
    <2>3. ASSUME NEW p \in Processes, Kill(p) PROVE Store!Next
        BY <2>3, KillStore
    <2>4. CASE PowerLoss
        BY <2>4, PowerLossStore
    <2>5. CASE UNCHANGED vars
        BY <2>5 DEF vars, disk, Store!vars
    <2> QED
        BY <2>1, <2>2, <2>3, <2>4, <2>5 DEF Next
<1> QED
    BY <1>1, <1>2, InstallInvariant, PTL DEF Spec, ImplementsStore, Store!Spec
=============================================================================
