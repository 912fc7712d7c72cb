------------------------ MODULE MpiCollectivesProofs ------------------------
(* Proof that no rank enters a collective operation that the others have left *)
(* out, and that no halo message is received in another exchange than the one *)
(* it was sent for, for any number of ranks, any sessions and any bound on    *)
(* iterations. The first half is about the shape of the calls alone: what     *)
(* their parts are made of, the places a rank can be at, and where the        *)
(* scalars can send it from there. Nothing in it depends on what goes wrong.  *)
EXTENDS MpiCollectives, SequenceTheorems, FiniteSetTheorems, TLAPS

-----------------------------------------------------------------------------
(* Instructions                                                             *)

Ops == {"status", "readiness", "compare", "verify", "plain", "halo"}
StatusPhases == {"Halo", "LocalAction", "Reduction", "VectorUpdate", "ProducerReport",
                 "GatherPreparation", "GatherValidation", "HostAcceptance",
                 "ResultAgreement"}
Labels == StatusPhases \cup
    {"group", "Comm_dup", "Admission", "devices", "planning", "admission", "partials",
     "report", "indices", "values", "solution", "receipt", "summary"}
Instr == [op : Ops, phase : Labels, shared : BOOLEAN]

(* Sequences that a call may be made of: a halo exchange is neither the first *)
(* instruction nor the last, a boundary follows it, and the ranks report to   *)
(* each other what they have compared.                                        *)
Blocks == {s \in Seq(Instr) :
    /\ s # <<>> /\ s[1].op # "halo"
    /\ \A i \in 1..Len(s) : s[i].op = "halo" =>
          i + 1 \in 1..Len(s) /\ s[i + 1].op = "status"
    /\ \A i \in 1..Len(s) : s[i].op = "compare" =>
          i + 1 \in 1..Len(s) /\ s[i + 1].op \in {"status", "readiness"}
    /\ \A i \in 1..Len(s) : s[i].op = "status" => s[i].phase \in StatusPhases}

(* Blocks without a boundary. *)
Calm == {s \in Blocks : \A i \in 1..Len(s) : s[i].op # "status"}

\* The instructions the calls are made of, by kind.
LEMMA Instructions ==
    /\ \A p \in StatusPhases :
          /\ Boundary(p) \in Instr /\ Boundary(p).op = "status" /\ Boundary(p).phase = p
          /\ Common(p) \in Instr /\ Common(p).op = "status" /\ Common(p).phase = p
    /\ \A p \in Labels :
          /\ Readiness(p) \in Instr /\ Readiness(p).op = "readiness"
          /\ Compare(p) \in Instr /\ Compare(p).op = "compare"
          /\ Verify(p) \in Instr /\ Verify(p).op = "verify"
          /\ Plain(p) \in Instr /\ Plain(p).op = "plain"
    /\ Exchange \in Instr /\ Exchange.op = "halo"
<1>1. ASSUME NEW p \in StatusPhases
      PROVE  /\ Boundary(p) \in Instr /\ Boundary(p).op = "status" /\ Boundary(p).phase = p
             /\ Common(p) \in Instr /\ Common(p).op = "status" /\ Common(p).phase = p
    <2>1. p \in Labels
        BY DEF Labels
    <2> QED
        BY <2>1 DEF Instr, Ops, Boundary, Common
<1>2. ASSUME NEW p \in Labels
      PROVE  /\ Readiness(p) \in Instr /\ Readiness(p).op = "readiness"
             /\ Compare(p) \in Instr /\ Compare(p).op = "compare"
             /\ Verify(p) \in Instr /\ Verify(p).op = "verify"
             /\ Plain(p) \in Instr /\ Plain(p).op = "plain"
    BY DEF Instr, Ops, Readiness, Compare, Verify, Plain
<1>3. Exchange \in Instr /\ Exchange.op = "halo"
    BY DEF Instr, Ops, Exchange, Labels, StatusPhases
<1> QED
    BY <1>1, <1>2, <1>3

Sound(a) ==
    a \in Instr /\ a.op \notin {"halo", "compare"} /\ (a.op = "status" => a.phase \in StatusPhases)

\* One, two or three instructions without a halo exchange make a block.
LEMMA Single ==
    ASSUME NEW a, Sound(a)
    PROVE  /\ <<a>> \in Blocks /\ Len(<<a>>) = 1 /\ <<a>>[1] = a
           /\ a.op # "status" => <<a>> \in Calm
<1>1. <<a>> \in Seq(Instr) /\ Len(<<a>>) = 1 /\ <<a>>[1] = a /\ <<a>> # <<>>
    BY DEF Sound
<1>2. \A i \in 1..Len(<<a>>) : <<a>>[i] = a
    BY <1>1
<1> QED
    BY <1>1, <1>2 DEF Sound, Blocks, Calm

LEMMA Double ==
    ASSUME NEW a, NEW b, Sound(a), Sound(b)
    PROVE  /\ <<a, b>> \in Blocks /\ Len(<<a, b>>) = 2
           /\ <<a, b>>[1] = a /\ <<a, b>>[2] = b
           /\ a.op # "status" /\ b.op # "status" => <<a, b>> \in Calm
<1>1. /\ <<a, b>> \in Seq(Instr) /\ Len(<<a, b>>) = 2 /\ <<a, b>> # <<>>
      /\ <<a, b>>[1] = a /\ <<a, b>>[2] = b
    BY DEF Sound
<1>2. \A i \in 1..Len(<<a, b>>) : <<a, b>>[i] \in {a, b}
    BY <1>1
<1> QED
    BY <1>1, <1>2 DEF Sound, Blocks, Calm

LEMMA Triple ==
    ASSUME NEW a, NEW b, NEW c, Sound(a), Sound(b), Sound(c)
    PROVE  /\ <<a, b, c>> \in Blocks /\ Len(<<a, b, c>>) = 3
           /\ <<a, b, c>>[1] = a /\ <<a, b, c>>[2] = b /\ <<a, b, c>>[3] = c
           /\ a.op # "status" /\ b.op # "status" /\ c.op # "status" => <<a, b, c>> \in Calm
<1>1. /\ <<a, b, c>> \in Seq(Instr) /\ Len(<<a, b, c>>) = 3 /\ <<a, b, c>> # <<>>
      /\ <<a, b, c>>[1] = a /\ <<a, b, c>>[2] = b /\ <<a, b, c>>[3] = c
    BY DEF Sound
<1>2. \A i \in 1..Len(<<a, b, c>>) : <<a, b, c>>[i] \in {a, b, c}
    BY <1>1
<1> QED
    BY <1>1, <1>2 DEF Sound, Blocks, Calm

\* A comparison between two instructions, of which the second reports it.
LEMMA Comparison ==
    ASSUME NEW a, NEW b \in Instr, NEW c, Sound(a), b.op = "compare", Sound(c),
           c.op \in {"status", "readiness"}
    PROVE  /\ <<a, b, c>> \in Blocks /\ Len(<<a, b, c>>) = 3
           /\ a.op # "status" /\ c.op # "status" => <<a, b, c>> \in Calm
<1>1. /\ <<a, b, c>> \in Seq(Instr) /\ Len(<<a, b, c>>) = 3 /\ <<a, b, c>> # <<>>
      /\ <<a, b, c>>[1] = a /\ <<a, b, c>>[2] = b /\ <<a, b, c>>[3] = c
    BY DEF Sound
<1>2. ASSUME NEW i \in 1..Len(<<a, b, c>>)
      PROVE  /\ <<a, b, c>>[i].op # "halo"
             /\ <<a, b, c>>[i].op = "compare" =>
                   /\ i + 1 \in 1..Len(<<a, b, c>>)
                   /\ <<a, b, c>>[i + 1].op \in {"status", "readiness"}
             /\ <<a, b, c>>[i].op = "status" => <<a, b, c>>[i].phase \in StatusPhases
             /\ <<a, b, c>>[i].op = "status" => a.op = "status" \/ c.op = "status"
    <2>1. i = 1 \/ i = 2 \/ i = 3
        BY <1>1
    <2> QED
        BY <1>1, <2>1 DEF Sound
<1> QED
    BY <1>1, <1>2 DEF Sound, Blocks, Calm

\* A block after a block is a block: the parts of a call are put together so.
LEMMA Concat ==
    ASSUME NEW s \in Blocks, NEW t \in Blocks
    PROVE  /\ s \o t \in Blocks /\ Len(s \o t) = Len(s) + Len(t)
           /\ (s \o t)[1] = s[1]
           /\ s \in Calm /\ t \in Calm => s \o t \in Calm
           /\ \A i \in 1..(Len(s) + Len(t)) :
                 (s \o t)[i] = IF i <= Len(s) THEN s[i] ELSE t[i - Len(s)]
<1>1. s \in Seq(Instr) /\ t \in Seq(Instr) /\ s # <<>> /\ t # <<>>
    BY DEF Blocks
<1>2. /\ s \o t \in Seq(Instr) /\ Len(s \o t) = Len(s) + Len(t)
      /\ \A i \in 1..(Len(s) + Len(t)) :
            (s \o t)[i] = IF i <= Len(s) THEN s[i] ELSE t[i - Len(s)]
    BY <1>1
<1>3. Len(s) \in Nat \ {0} /\ Len(t) \in Nat \ {0}
    BY <1>1
<1>4. (s \o t)[1] = s[1] /\ s \o t # <<>>
    BY <1>2, <1>3
<1>5. ASSUME NEW i \in 1..Len(s \o t), (s \o t)[i].op = "halo"
      PROVE  i + 1 \in 1..Len(s \o t) /\ (s \o t)[i + 1].op = "status"
    <2>1. CASE i <= Len(s)
        <3>1. i + 1 \in 1..Len(s) /\ s[i + 1].op = "status"
            BY <1>2, <1>3, <1>5, <2>1 DEF Blocks
        <3> QED
            BY <1>2, <1>3, <3>1
    <2>2. CASE i > Len(s)
        <3>1. i - Len(s) \in 1..Len(t) /\ (s \o t)[i] = t[i - Len(s)]
            BY <1>2, <1>3, <2>2
        <3>2. (i - Len(s)) + 1 \in 1..Len(t) /\ t[(i - Len(s)) + 1].op = "status"
            BY <1>5, <3>1 DEF Blocks
        <3>3. (s \o t)[i + 1] = t[(i - Len(s)) + 1]
            BY <1>2, <1>3, <3>1, <3>2
        <3> QED
            BY <1>2, <1>3, <3>1, <3>2, <3>3
    <2> QED
        BY <1>2, <1>3, <2>1, <2>2
<1>6. ASSUME NEW i \in 1..Len(s \o t), (s \o t)[i].op = "compare"
      PROVE  i + 1 \in 1..Len(s \o t) /\ (s \o t)[i + 1].op \in {"status", "readiness"}
    <2>1. CASE i <= Len(s)
        <3>1. i + 1 \in 1..Len(s) /\ s[i + 1].op \in {"status", "readiness"}
            BY <1>2, <1>3, <1>6, <2>1 DEF Blocks
        <3> QED
            BY <1>2, <1>3, <3>1
    <2>2. CASE i > Len(s)
        <3>1. i - Len(s) \in 1..Len(t) /\ (s \o t)[i] = t[i - Len(s)]
            BY <1>2, <1>3, <2>2
        <3>2. /\ (i - Len(s)) + 1 \in 1..Len(t)
              /\ t[(i - Len(s)) + 1].op \in {"status", "readiness"}
            BY <1>6, <3>1 DEF Blocks
        <3>3. (s \o t)[i + 1] = t[(i - Len(s)) + 1]
            BY <1>2, <1>3, <3>1, <3>2
        <3> QED
            BY <1>2, <1>3, <3>1, <3>2, <3>3
    <2> QED
        BY <1>2, <1>3, <2>1, <2>2
<1>7. ASSUME NEW i \in 1..Len(s \o t), (s \o t)[i].op = "status"
      PROVE  (s \o t)[i].phase \in StatusPhases /\ (s \notin Calm \/ t \notin Calm)
    <2>1. CASE i <= Len(s)
        BY <1>2, <1>3, <1>7, <2>1 DEF Blocks, Calm
    <2>2. CASE i > Len(s)
        <3>1. i - Len(s) \in 1..Len(t) /\ (s \o t)[i] = t[i - Len(s)]
            BY <1>2, <1>3, <2>2
        <3> QED
            BY <1>7, <3>1 DEF Blocks, Calm
    <2> QED
        BY <1>2, <1>3, <2>1, <2>2
<1> QED
    BY <1>1, <1>2, <1>4, <1>5, <1>6, <1>7 DEF Blocks, Calm

\* The matrix product is the only block that exchanges halo values.
LEMMA ApplyBlock ==
    Apply \in Blocks /\ Len(Apply) = 3 /\ Apply[1].op = "status" /\ Apply[1].phase = "Halo"
<1> DEFINE a == Boundary("Halo")  b == Exchange  c == Boundary("LocalAction")
<1>1. /\ a \in Instr /\ a.op = "status" /\ a.phase = "Halo"
      /\ b \in Instr /\ b.op = "halo"
      /\ c \in Instr /\ c.op = "status" /\ c.phase = "LocalAction"
    BY Instructions DEF StatusPhases
<1> HIDE DEF a, b, c
<1>2. Apply = <<a, b, c>>
    BY DEF Apply, a, b, c
<1>3. /\ Apply \in Seq(Instr) /\ Len(Apply) = 3 /\ Apply # <<>>
      /\ Apply[1] = a /\ Apply[2] = b /\ Apply[3] = c
    BY <1>1, <1>2
<1>4. ASSUME NEW i \in 1..Len(Apply)
      PROVE  /\ Apply[i].op = "halo" => i + 1 \in 1..Len(Apply) /\ Apply[i + 1].op = "status"
             /\ Apply[i].op # "compare"
             /\ Apply[i].op = "status" => Apply[i].phase \in StatusPhases
    <2>1. i = 1 \/ i = 2 \/ i = 3
        BY <1>3
    <2> QED
        BY <1>1, <1>3, <2>1 DEF StatusPhases
<1> QED
    BY <1>1, <1>3, <1>4 DEF Blocks

\* A scalar product reduces partial sums between two boundaries.
LEMMA DotBlock ==
    Dot \in Blocks /\ Len(Dot) = 3 /\ Dot[1].op = "status" /\ Dot[1].phase = "Reduction"
<1>1. "Reduction" \in StatusPhases /\ "partials" \in Labels
    BY DEF StatusPhases, Labels
<1>2. Sound(Boundary("Reduction")) /\ Sound(Plain("partials")) /\ Sound(Common("Reduction"))
    BY <1>1, Instructions DEF Sound
<1> QED
    BY <1>1, <1>2, Triple, Instructions DEF Dot

\* A boundary alone is a block.
LEMMA BoundaryBlocks ==
    \A p \in StatusPhases :
        /\ <<Boundary(p)>> \in Blocks /\ Len(<<Boundary(p)>>) = 1
        /\ <<Boundary(p)>>[1].op = "status" /\ <<Boundary(p)>>[1].phase = p
        /\ <<Common(p)>> \in Blocks /\ Len(<<Common(p)>>) = 1
<1> TAKE p \in StatusPhases
<1>1. Sound(Boundary(p)) /\ Sound(Common(p))
    BY Instructions DEF Sound
<1> QED
    BY <1>1, Single, Instructions

\* Readiness alone, or a comparison, is a block without a boundary.
LEMMA QuietBlocks ==
    \A p \in Labels :
        /\ <<Readiness(p)>> \in Calm /\ Len(<<Readiness(p)>>) = 1
        /\ <<Verify(p)>> \in Calm /\ Len(<<Verify(p)>>) = 1
<1> TAKE p \in Labels
<1>1. Sound(Readiness(p)) /\ Sound(Verify(p))
    BY Instructions DEF Sound
<1> QED
    BY <1>1, Single, Instructions

\* Blocks without a boundary are blocks.
LEMMA CalmBlocks == \A s \in Calm : s \in Blocks
BY DEF Calm

-----------------------------------------------------------------------------
(* Segments                                                                 *)

Quiet == {"duplicate", "topology", "selection", "authentication", "deviceSelection", "devices",
           "receipt", "evidence"}
Solving == {"cgSetup", "cgFirst", "cgIterate", "cgDirection", "cgRestart",
            "minresSetup", "minresIterate", "converged", "stopped", "finish"}
Segments == Quiet \cup Solving \cup {"admit"}

\* A block of n instructions whose first is a boundary of this phase.
Begins(s, n, phase) ==
    s \in Blocks /\ Len(s) = n /\ s[1].op = "status" /\ s[1].phase = phase

\* Two to four blocks in a row: their extent is the sum, their first instruction
\* that of the first.
LEMMA Join2 ==
    ASSUME NEW s \in Blocks, NEW t \in Blocks
    PROVE  s \o t \in Blocks /\ Len(s \o t) = Len(s) + Len(t) /\ (s \o t)[1] = s[1]
BY Concat

LEMMA Join3 ==
    ASSUME NEW s \in Blocks, NEW t \in Blocks, NEW u \in Blocks
    PROVE  /\ s \o t \o u \in Blocks /\ Len(s \o t \o u) = Len(s) + Len(t) + Len(u)
           /\ (s \o t \o u)[1] = s[1]
<1>1. s \o t \in Blocks /\ Len(s \o t) = Len(s) + Len(t) /\ (s \o t)[1] = s[1]
    BY Join2
<1> QED
    BY <1>1, Join2

LEMMA Join4 ==
    ASSUME NEW s \in Blocks, NEW t \in Blocks, NEW u \in Blocks, NEW v \in Blocks
    PROVE  /\ s \o t \o u \o v \in Blocks
           /\ Len(s \o t \o u \o v) = Len(s) + Len(t) + Len(u) + Len(v)
           /\ (s \o t \o u \o v)[1] = s[1]
<1>1. /\ s \o t \o u \in Blocks /\ Len(s \o t \o u) = Len(s) + Len(t) + Len(u)
      /\ (s \o t \o u)[1] = s[1]
    BY Join3
<1> QED
    BY <1>1, Join2

\* The short blocks that the solvers put between vector operations.
LEMMA Pairs ==
    /\ Begins(<<Common("VectorUpdate")>>, 1, "VectorUpdate")
    /\ Begins(<<Common("VectorUpdate"), Boundary("VectorUpdate")>>, 2, "VectorUpdate")
    /\ Begins(<<Boundary("VectorUpdate")>>, 1, "VectorUpdate")
    /\ Begins(<<Boundary("LocalAction")>>, 1, "LocalAction")
    /\ Begins(<<Boundary("ProducerReport")>>, 1, "ProducerReport")
    /\ Begins(<<Boundary("HostAcceptance")>>, 1, "HostAcceptance")
<1>1. {"VectorUpdate", "LocalAction", "ProducerReport", "HostAcceptance"} \subseteq StatusPhases
    BY DEF StatusPhases
<1>2. \A p \in StatusPhases : Sound(Boundary(p)) /\ Sound(Common(p))
    BY Instructions DEF Sound
<1>3. \A p \in StatusPhases :
          /\ Begins(<<Boundary(p)>>, 1, p) /\ Begins(<<Common(p)>>, 1, p)
          /\ Begins(<<Common(p), Boundary(p)>>, 2, p)
    BY <1>2, Single, Double, Instructions DEF Begins
<1> QED
    BY <1>1, <1>3

\* The vector operations of the solvers.
LEMMA Vectors ==
    /\ Begins(Apply, 3, "Halo") /\ Begins(Dot, 3, "Reduction") /\ Begins(Norm, 4, "Reduction")
    /\ Begins(TrueResidual, 8, "Halo")
<1>1. Begins(Apply, 3, "Halo") /\ Begins(Dot, 3, "Reduction")
    BY ApplyBlock, DotBlock DEF Begins
<1> DEFINE a == <<Common("VectorUpdate")>>  b == <<Boundary("VectorUpdate")>>
<1>2. a \in Blocks /\ Len(a) = 1 /\ b \in Blocks /\ Len(b) = 1
    BY Pairs DEF Begins
<1>3. Norm = Dot \o a /\ TrueResidual = Apply \o b \o Norm
    BY DEF Norm, TrueResidual
<1> HIDE DEF a, b
<1>4. Dot \o a \in Blocks /\ Len(Dot \o a) = Len(Dot) + Len(a) /\ (Dot \o a)[1] = Dot[1]
    BY <1>1, <1>2, Join2 DEF Begins
<1>5. Begins(Norm, 4, "Reduction")
    <2>1. Len(Dot) = 3
        BY <1>1 DEF Begins
    <2>2. Len(Norm) = 4
        BY <1>2, <1>3, <1>4, <2>1
    <2> QED
        BY <1>1, <1>3, <1>4, <2>2 DEF Begins
<1>6. /\ Apply \o b \o Norm \in Blocks
      /\ Len(Apply \o b \o Norm) = Len(Apply) + Len(b) + Len(Norm)
      /\ (Apply \o b \o Norm)[1] = Apply[1]
    <2>1. Apply \in Blocks /\ Norm \in Blocks
        BY <1>1, <1>5 DEF Begins
    <2> QED
        BY <1>2, <2>1, Join3
<1>7. Begins(TrueResidual, 8, "Halo")
    <2>1. Len(Apply) = 3 /\ Len(Norm) = 4
        BY <1>1, <1>5 DEF Begins
    <2>2. Len(TrueResidual) = 8
        BY <1>2, <1>3, <1>6, <2>1
    <2> QED
        BY <1>1, <1>3, <1>6, <2>2 DEF Begins
<1> QED
    BY <1>1, <1>5, <1>7

\* The parts of conjugate gradients: their extent and their first boundary.
LEMMA CgStartBegins == Begins(CgStart, 14, "LocalAction")
<1> DEFINE a == <<Boundary("LocalAction")>>  b == <<Common("VectorUpdate")>>
<1>1. /\ Begins(a, 1, "LocalAction")
      /\ Begins(TrueResidual, 8, "Halo")
      /\ Begins(b, 1, "VectorUpdate")
      /\ Begins(Norm, 4, "Reduction")
    BY Pairs, Vectors
<1>2. CgStart = a \o TrueResidual \o b \o Norm
    BY DEF CgStart
<1> HIDE DEF a, b
<1>3. /\ a \o TrueResidual \o b \o Norm \in Blocks
      /\ Len(a \o TrueResidual \o b \o Norm) = Len(a) + Len(TrueResidual) + Len(b) + Len(Norm)
      /\ (a \o TrueResidual \o b \o Norm)[1] = a[1]
    <2>1. a \in Blocks /\ TrueResidual \in Blocks /\ b \in Blocks /\ Norm \in Blocks
        BY <1>1 DEF Begins
    <2> QED
        BY <2>1, Join4
<1>4. Len(CgStart) = 14
    <2>1. Len(a) = 1 /\ Len(TrueResidual) = 8 /\ Len(b) = 1 /\ Len(Norm) = 4
        BY <1>1 DEF Begins
    <2> QED
        BY <1>2, <1>3, <2>1
<1> QED
    BY <1>1, <1>2, <1>3, <1>4 DEF Begins

LEMMA CgIterateBegins == Begins(CgIterate, 12, "Halo")
<1> DEFINE a == <<Common("VectorUpdate"), Boundary("VectorUpdate")>>
<1>1. /\ Begins(Apply, 3, "Halo")
      /\ Begins(Dot, 3, "Reduction")
      /\ Begins(a, 2, "VectorUpdate")
      /\ Begins(Norm, 4, "Reduction")
    BY Pairs, Vectors
<1>2. CgIterate = Apply \o Dot \o a \o Norm
    BY DEF CgIterate
<1> HIDE DEF a
<1>3. /\ Apply \o Dot \o a \o Norm \in Blocks
      /\ Len(Apply \o Dot \o a \o Norm) = Len(Apply) + Len(Dot) + Len(a) + Len(Norm)
      /\ (Apply \o Dot \o a \o Norm)[1] = Apply[1]
    <2>1. Apply \in Blocks /\ Dot \in Blocks /\ a \in Blocks /\ Norm \in Blocks
        BY <1>1 DEF Begins
    <2> QED
        BY <2>1, Join4
<1>4. Len(CgIterate) = 12
    <2>1. Len(Apply) = 3 /\ Len(Dot) = 3 /\ Len(a) = 2 /\ Len(Norm) = 4
        BY <1>1 DEF Begins
    <2> QED
        BY <1>2, <1>3, <2>1
<1> QED
    BY <1>1, <1>2, <1>3, <1>4 DEF Begins

LEMMA CgDirectionBegins == Begins(CgDirection, 5, "Reduction")
<1> DEFINE a == <<Common("VectorUpdate"), Boundary("VectorUpdate")>>
<1>1. /\ Begins(Dot, 3, "Reduction")
      /\ Begins(a, 2, "VectorUpdate")
    BY Pairs, Vectors
<1>2. CgDirection = Dot \o a
    BY DEF CgDirection
<1> HIDE DEF a
<1>3. /\ Dot \o a \in Blocks
      /\ Len(Dot \o a) = Len(Dot) + Len(a)
      /\ (Dot \o a)[1] = Dot[1]
    <2>1. Dot \in Blocks /\ a \in Blocks
        BY <1>1 DEF Begins
    <2> QED
        BY <2>1, Join2
<1>4. Len(CgDirection) = 5
    <2>1. Len(Dot) = 3 /\ Len(a) = 2
        BY <1>1 DEF Begins
    <2> QED
        BY <1>2, <1>3, <2>1
<1> QED
    BY <1>1, <1>2, <1>3, <1>4 DEF Begins

LEMMA CgRestartBegins == Begins(CgRestart, 4, "Reduction")
<1> DEFINE a == <<Common("VectorUpdate")>>
<1>1. /\ Begins(Dot, 3, "Reduction")
      /\ Begins(a, 1, "VectorUpdate")
    BY Pairs, Vectors
<1>2. CgRestart = Dot \o a
    BY DEF CgRestart
<1> HIDE DEF a
<1>3. /\ Dot \o a \in Blocks
      /\ Len(Dot \o a) = Len(Dot) + Len(a)
      /\ (Dot \o a)[1] = Dot[1]
    <2>1. Dot \in Blocks /\ a \in Blocks
        BY <1>1 DEF Begins
    <2> QED
        BY <2>1, Join2
<1>4. Len(CgRestart) = 4
    <2>1. Len(Dot) = 3 /\ Len(a) = 1
        BY <1>1 DEF Begins
    <2> QED
        BY <1>2, <1>3, <2>1
<1> QED
    BY <1>1, <1>2, <1>3, <1>4 DEF Begins

\* The parts of minimum residuals.
LEMMA MinresStartBegins == Begins(MinresStart, 13, "Halo")
<1> DEFINE a == <<Common("VectorUpdate")>>
<1>1. /\ Begins(TrueResidual, 8, "Halo")
      /\ Begins(a, 1, "VectorUpdate")
      /\ Begins(Norm, 4, "Reduction")
    BY Pairs, Vectors
<1>2. MinresStart = TrueResidual \o a \o Norm
    BY DEF MinresStart
<1> HIDE DEF a
<1>3. /\ TrueResidual \o a \o Norm \in Blocks
      /\ Len(TrueResidual \o a \o Norm) = Len(TrueResidual) + Len(a) + Len(Norm)
      /\ (TrueResidual \o a \o Norm)[1] = TrueResidual[1]
    <2>1. TrueResidual \in Blocks /\ a \in Blocks /\ Norm \in Blocks
        BY <1>1 DEF Begins
    <2> QED
        BY <2>1, Join3
<1>4. Len(MinresStart) = 13
    <2>1. Len(TrueResidual) = 8 /\ Len(a) = 1 /\ Len(Norm) = 4
        BY <1>1 DEF Begins
    <2> QED
        BY <1>2, <1>3, <2>1
<1> QED
    BY <1>1, <1>2, <1>3, <1>4 DEF Begins

LEMMA MinresIterateBegins == Begins(MinresIterate, 15, "VectorUpdate")
<1> DEFINE a == <<Boundary("VectorUpdate")>>
           c == <<Common("VectorUpdate"), Boundary("VectorUpdate")>>
           d == a \o Apply \o a \o Dot
<1>1. /\ Begins(a, 1, "VectorUpdate") /\ Begins(c, 2, "VectorUpdate")
      /\ Begins(Apply, 3, "Halo") /\ Begins(Dot, 3, "Reduction")
      /\ Begins(Norm, 4, "Reduction")
    BY Pairs, Vectors
<1>2. MinresLanczos = d \o a \o Norm /\ MinresIterate = MinresLanczos \o c
    BY DEF MinresLanczos, MinresIterate
<1> HIDE DEF a, c, d
<1>3. d \in Blocks /\ Len(d) = Len(a) + Len(Apply) + Len(a) + Len(Dot) /\ d[1] = a[1]
    <2>1. d = a \o Apply \o a \o Dot
        BY DEF d
    <2>2. a \in Blocks /\ Apply \in Blocks /\ Dot \in Blocks
        BY <1>1 DEF Begins
    <2>3. /\ a \o Apply \o a \o Dot \in Blocks
          /\ Len(a \o Apply \o a \o Dot) = Len(a) + Len(Apply) + Len(a) + Len(Dot)
          /\ (a \o Apply \o a \o Dot)[1] = a[1]
        BY <2>2, Join4
    <2> QED
        BY <2>1, <2>3
<1>4. /\ d \o a \o Norm \in Blocks /\ Len(d \o a \o Norm) = Len(d) + Len(a) + Len(Norm)
      /\ (d \o a \o Norm)[1] = d[1]
    <2>1. a \in Blocks /\ Norm \in Blocks
        BY <1>1 DEF Begins
    <2> QED
        BY <1>3, <2>1, Join3
<1>5. /\ MinresLanczos \o c \in Blocks /\ Len(MinresLanczos \o c) = Len(MinresLanczos) + Len(c)
      /\ (MinresLanczos \o c)[1] = MinresLanczos[1]
    <2>1. c \in Blocks
        BY <1>1 DEF Begins
    <2> QED
        BY <1>2, <1>4, <2>1, Join2
<1>6. Len(MinresIterate) = 15
    <2>1. Len(a) = 1 /\ Len(Apply) = 3 /\ Len(Dot) = 3 /\ Len(Norm) = 4 /\ Len(c) = 2
        BY <1>1 DEF Begins
    <2>2. Len(d) = 8
        BY <1>3, <2>1
    <2>3. Len(MinresLanczos) = 13
        BY <1>2, <1>4, <2>1, <2>2
    <2> QED
        BY <1>2, <1>5, <2>1, <2>3
<1>7. MinresIterate[1].op = "status" /\ MinresIterate[1].phase = "VectorUpdate"
    BY <1>1, <1>2, <1>3, <1>4, <1>5 DEF Begins
<1> QED
    BY <1>2, <1>5, <1>6, <1>7 DEF Begins

\* A rank that gives up computes the residual as one that has converged does, and
\* only then reports.
LEMMA StoppedBegins ==
    /\ Begins(Script.converged, 8, "Halo") /\ Begins(Script.stopped, 9, "Halo")
    /\ \A i \in 1..8 : Script.stopped[i] = Script.converged[i]
    /\ Script.stopped[9] = Boundary("ProducerReport")
<1> DEFINE a == <<Boundary("ProducerReport")>>
<1>1. Begins(TrueResidual, 8, "Halo")
    BY Vectors
<1>2. a \in Blocks /\ Len(a) = 1 /\ a[1] = Boundary("ProducerReport")
    BY Pairs DEF Begins
<1>3. Script.converged = TrueResidual /\ Script.stopped = TrueResidual \o a
    BY DEF Script
<1> HIDE DEF a
<1>4. /\ TrueResidual \o a \in Blocks /\ Len(TrueResidual \o a) = Len(TrueResidual) + Len(a)
      /\ (TrueResidual \o a)[1] = TrueResidual[1]
    BY <1>1, <1>2, Join2 DEF Begins
<1>5. \A i \in 1..(Len(TrueResidual) + Len(a)) : (TrueResidual \o a)[i] =
          IF i <= Len(TrueResidual) THEN TrueResidual[i] ELSE a[i - Len(TrueResidual)]
    BY <1>1, <1>2, Concat DEF Begins
<1>6. Len(TrueResidual) = 8 /\ Len(a) = 1
    BY <1>1, <1>2 DEF Begins
<1>7. ASSUME NEW i \in 1..9
      PROVE  (TrueResidual \o a)[i] = IF i <= 8 THEN TrueResidual[i] ELSE a[i - 8]
    <2>1. i \in 1..(Len(TrueResidual) + Len(a))
        BY <1>6
    <2>2. (TrueResidual \o a)[i] =
             IF i <= Len(TrueResidual) THEN TrueResidual[i] ELSE a[i - Len(TrueResidual)]
        BY <1>5, <2>1
    <2> QED
        BY <1>6, <2>2
<1>8. (TrueResidual \o a)[9] = a[1]
    <2>1. 9 \in 1..9 /\ ~(9 <= 8) /\ 9 - 8 = 1
        OBVIOUS
    <2>2. (TrueResidual \o a)[9] = a[9 - 8]
        BY <1>7, <2>1
    <2> QED
        BY <2>1, <2>2
<1>9. ASSUME NEW i \in 1..8 PROVE (TrueResidual \o a)[i] = TrueResidual[i]
    <2>1. i \in 1..9 /\ i <= 8
        OBVIOUS
    <2> QED
        BY <1>7, <2>1
<1> QED
    BY <1>1, <1>2, <1>3, <1>4, <1>6, <1>8, <1>9 DEF Begins

\* What follows the solution: the report, the gathering, the agreement.
LEMMA FinishParts ==
    /\ AgreeReport \in Blocks /\ Len(AgreeReport) = 3
    /\ GatherOwned \in Blocks /\ Len(GatherOwned) = 4
    /\ AgreeSolution \in Blocks /\ Len(AgreeSolution) = 3
<1>1. {"ProducerReport", "GatherPreparation", "GatherValidation", "ResultAgreement"}
          \subseteq StatusPhases
    BY DEF StatusPhases
<1>2. {"report", "indices", "values", "solution"} \subseteq Labels
    BY DEF Labels
<1>3. /\ \A p \in StatusPhases : Sound(Boundary(p)) /\ Sound(Common(p))
      /\ \A p \in Labels : Sound(Plain(p))
      /\ \A p \in Labels : Compare(p) \in Instr /\ Compare(p).op = "compare"
      /\ \A p \in StatusPhases : Boundary(p).op = "status"
    BY Instructions DEF Sound
<1>4. AgreeReport \in Blocks /\ Len(AgreeReport) = 3
    BY <1>1, <1>2, <1>3, Comparison DEF AgreeReport
<1>5. AgreeSolution \in Blocks /\ Len(AgreeSolution) = 3
    BY <1>1, <1>2, <1>3, Comparison DEF AgreeSolution
<1>6. GatherOwned \in Blocks /\ Len(GatherOwned) = 4
    <2> DEFINE a == <<Boundary("GatherPreparation"), Plain("indices")>>
               b == <<Plain("values"), Common("GatherValidation")>>
    <2>1. a \in Blocks /\ Len(a) = 2 /\ b \in Blocks /\ Len(b) = 2
        BY <1>1, <1>2, <1>3, Double
    <2>2. GatherOwned = a \o b
        BY DEF GatherOwned
    <2> HIDE DEF a, b
    <2>3. a \o b \in Blocks /\ Len(a \o b) = Len(a) + Len(b)
        BY <2>1, Join2
    <2> QED
        BY <2>1, <2>2, <2>3
<1> QED
    BY <1>4, <1>5, <1>6

\* The last part of a run.
LEMMA FinishBegins == Begins(Script.finish, 12, "ProducerReport")
<1> DEFINE a == <<Boundary("ProducerReport")>>  b == <<Boundary("HostAcceptance")>>
<1>1. Begins(a, 1, "ProducerReport")
    BY Pairs
<1>2. b \in Blocks /\ Len(b) = 1
    BY Pairs DEF Begins
<1>3. Script.finish = a \o AgreeReport \o GatherOwned \o b \o AgreeSolution
    BY DEF Script
<1> HIDE DEF a, b
<1> DEFINE d == a \o AgreeReport \o GatherOwned \o b
<1> HIDE DEF d
<1>4. /\ d \in Blocks /\ d[1] = a[1]
      /\ Len(d) = Len(a) + Len(AgreeReport) + Len(GatherOwned) + Len(b)
    <2>1. d = a \o AgreeReport \o GatherOwned \o b
        BY DEF d
    <2>2. a \in Blocks /\ b \in Blocks
        BY <1>1, <1>2 DEF Begins
    <2>3. AgreeReport \in Blocks /\ GatherOwned \in Blocks
        BY FinishParts
    <2>4. /\ a \o AgreeReport \o GatherOwned \o b \in Blocks
          /\ Len(a \o AgreeReport \o GatherOwned \o b)
                = Len(a) + Len(AgreeReport) + Len(GatherOwned) + Len(b)
          /\ (a \o AgreeReport \o GatherOwned \o b)[1] = a[1]
        BY <2>2, <2>3, Join4
    <2> QED
        BY <2>1, <2>4
<1>5. /\ d \o AgreeSolution \in Blocks /\ Len(d \o AgreeSolution) = Len(d) + Len(AgreeSolution)
      /\ (d \o AgreeSolution)[1] = d[1]
    BY <1>4, FinishParts, Join2
<1>6. Script.finish = d \o AgreeSolution
    BY <1>3 DEF d
<1>7. Len(Script.finish) = 12
    <2>1. Len(a) = 1
        BY <1>1 DEF Begins
    <2>2. Len(d) = 9
        BY <1>2, <1>4, <2>1, FinishParts
    <2> QED
        BY <1>5, <1>6, <2>2, FinishParts
<1> QED
    BY <1>1, <1>4, <1>5, <1>6, <1>7 DEF Begins

\* The parts outside a run have no boundary.
LEMMA QuietSegments == \A s \in Quiet : Script[s] \in Calm /\ Len(Script[s]) \in 1..5
<1>1. {"group", "Comm_dup", "Admission", "devices", "planning", "admission", "receipt", "summary",
       "ResultAgreement"} \subseteq Labels
    BY DEF Labels, StatusPhases
<1>2. \A p \in Labels : /\ Sound(Readiness(p)) /\ Readiness(p).op # "status"
                        /\ Readiness(p).op = "readiness"
                        /\ Compare(p) \in Instr /\ Compare(p).op = "compare"
                        /\ Sound(Verify(p)) /\ Verify(p).op # "status"
                        /\ Sound(Plain(p)) /\ Plain(p).op # "status"
    BY Instructions DEF Sound
<1>3. Script.duplicate \in Calm /\ Len(Script.duplicate) = 2
    BY <1>1, <1>2, Double DEF Script
<1>4. Topology \in Calm /\ Len(Topology) = 3
    BY <1>1, <1>2, Comparison DEF Topology
<1>5. Script.receipt \in Calm /\ Len(Script.receipt) = 3
    BY <1>1, <1>2, Triple DEF Script
<1>6. Script.evidence \in Calm /\ Len(Script.evidence) = 3
    BY <1>1, <1>2, Triple DEF Script
<1> DEFINE a == <<Readiness("Admission")>>
<1>7. a \in Calm /\ Len(a) = 1
    BY <1>1, <1>2, Single
<1>8. AgreePlanning \in Calm /\ Len(AgreePlanning) = 1
    BY <1>1, <1>2, Single DEF AgreePlanning
<1>9. /\ SelectPlan = a \o AgreePlanning /\ Authenticate = a \o AgreePlanning
      /\ SelectForDevices = a \o SelectPlan \o a /\ Script.devices = a \o Topology \o a
      /\ Script.topology = Topology /\ Script.selection = SelectPlan
      /\ Script.authentication = Authenticate /\ Script.deviceSelection = SelectForDevices
    BY DEF SelectPlan, Authenticate, SelectForDevices, Script
<1> HIDE DEF a
<1>10. a \o AgreePlanning \in Calm /\ Len(a \o AgreePlanning) = Len(a) + Len(AgreePlanning)
    BY <1>7, <1>8, Concat, CalmBlocks
<1>11. a \o SelectPlan \in Calm /\ Len(a \o SelectPlan) = Len(a) + Len(SelectPlan)
    BY <1>7, <1>9, <1>10, Concat, CalmBlocks
<1>12. /\ a \o SelectPlan \o a \in Calm
       /\ Len(a \o SelectPlan \o a) = Len(a \o SelectPlan) + Len(a)
    BY <1>7, <1>11, Concat, CalmBlocks
<1>13. a \o Topology \in Calm /\ Len(a \o Topology) = Len(a) + Len(Topology)
    BY <1>4, <1>7, Concat, CalmBlocks
<1>14. a \o Topology \o a \in Calm /\ Len(a \o Topology \o a) = Len(a \o Topology) + Len(a)
    BY <1>7, <1>13, Concat, CalmBlocks
<1>15. /\ Script.topology \in Calm /\ Len(Script.topology) = 3
       /\ Script.selection \in Calm /\ Len(Script.selection) = 2
       /\ Script.authentication \in Calm /\ Len(Script.authentication) = 2
       /\ Script.deviceSelection \in Calm /\ Len(Script.deviceSelection) = 4
       /\ Script.devices \in Calm /\ Len(Script.devices) = 5
    BY <1>4, <1>7, <1>8, <1>9, <1>10, <1>11, <1>12, <1>13, <1>14
<1> QED
    BY <1>3, <1>5, <1>6, <1>15 DEF Quiet

\* The admission ends with the first boundary of the run.
LEMMA AdmitSegment ==
    /\ Script.admit \in Blocks /\ Len(Script.admit) = 4
    /\ \A i \in 1..3 : Script.admit[i].op \notin {"status", "halo"}
    /\ Script.admit[4] = Boundary("LocalAction")
<1>1. {"Admission", "admission"} \subseteq Labels
    BY DEF Labels
<1>2. \A p \in Labels : /\ Sound(Readiness(p)) /\ Sound(Verify(p))
                        /\ Readiness(p).op = "readiness" /\ Verify(p).op = "verify"
    BY Instructions DEF Sound
<1> DEFINE a == <<Readiness("Admission")>>  b == <<Boundary("LocalAction")>>
<1>3. b \in Blocks /\ Len(b) = 1
    BY Pairs DEF Begins
<1>4. Admit \in Blocks /\ Len(Admit) = 2
    BY <1>1, <1>2, Double DEF Admit
<1>5. a \in Blocks /\ Len(a) = 1
    BY <1>1, <1>2, Single
<1>6. Script.admit = a \o Admit \o b
    BY DEF Script
<1>7. /\ Script.admit[1] = Readiness("Admission") /\ Script.admit[2] = Readiness("Admission")
      /\ Script.admit[3] = Verify("admission") /\ Script.admit[4] = Boundary("LocalAction")
    <2> DEFINE r == Readiness("Admission")  v == Verify("admission")  s == Boundary("LocalAction")
    <2>1. Script.admit = <<r>> \o <<r, v>> \o <<s>>
        BY <1>6 DEF Admit
    <2>2. r \in Instr /\ v \in Instr /\ s \in Instr
        BY <1>1, Instructions DEF StatusPhases
    <2> HIDE DEF r, v, s
    <2>3. /\ Script.admit[1] = r /\ Script.admit[2] = r
          /\ Script.admit[3] = v /\ Script.admit[4] = s
        BY <2>1, <2>2
    <2> QED
        BY <2>3 DEF r, v, s
<1> HIDE DEF a, b
<1>8. a \o Admit \o b \in Blocks /\ Len(a \o Admit \o b) = Len(a) + Len(Admit) + Len(b)
    BY <1>3, <1>4, <1>5, Join3
<1>9. Script.admit \in Blocks /\ Len(Script.admit) = 4
    BY <1>3, <1>4, <1>5, <1>6, <1>8
<1>10. ASSUME NEW i \in 1..3 PROVE Script.admit[i].op \notin {"status", "halo"}
    <2>1. i = 1 \/ i = 2 \/ i = 3
        OBVIOUS
    <2> QED
        BY <1>1, <1>2, <1>7, <2>1
<1> QED
    BY <1>7, <1>9, <1>10

\* How many instructions a part of a run has, and its first boundary.
Extent == [cgSetup |-> 14, cgFirst |-> 4, cgIterate |-> 12, cgDirection |-> 5, cgRestart |-> 4,
           minresSetup |-> 13, minresIterate |-> 15, converged |-> 8, stopped |-> 9,
           finish |-> 12]
FirstPhase == [cgSetup |-> "LocalAction", cgFirst |-> "Reduction", cgIterate |-> "Halo",
               cgDirection |-> "Reduction", cgRestart |-> "Reduction",
               minresSetup |-> "Halo", minresIterate |-> "VectorUpdate",
               converged |-> "Halo", stopped |-> "Halo", finish |-> "ProducerReport"]

\* Every part of a run begins at a boundary: its extent and its first phase.
LEMMA SolvingSegments == \A s \in Solving : Begins(Script[s], Extent[s], FirstPhase[s])
<1>1. /\ Script.cgSetup = CgStart /\ Script.cgFirst = CgRestart /\ Script.cgIterate = CgIterate
      /\ Script.cgDirection = CgDirection /\ Script.cgRestart = CgRestart
      /\ Script.minresSetup = MinresStart /\ Script.minresIterate = MinresIterate
    BY DEF Script
<1> QED
    BY <1>1, CgStartBegins, CgIterateBegins, CgDirectionBegins, CgRestartBegins,
       MinresStartBegins, MinresIterateBegins, StoppedBegins, FinishBegins
       DEF Solving, Extent, FirstPhase

\* Every part of a call is a block.
LEMMA SegmentBlocks == \A s \in Segments : Script[s] \in Blocks /\ Len(Script[s]) \in 1..15
<1>1. \A s \in Quiet : Script[s] \in Blocks /\ Len(Script[s]) \in 1..15
    BY QuietSegments, CalmBlocks
<1>2. \A s \in Solving : Script[s] \in Blocks /\ Len(Script[s]) \in 1..15
    BY SolvingSegments DEF Begins, Solving, Extent
<1> QED
    BY <1>1, <1>2, AdmitSegment DEF Segments

-----------------------------------------------------------------------------
(* Places                                                                   *)

CgFamily == {"cgSetup", "cgFirst", "cgIterate", "cgDirection", "cgRestart"}
MinresFamily == {"minresSetup", "minresIterate"}
Early == {"admit", "cgSetup", "cgFirst", "minresSetup"}

\* Places inside a call, in a part that this algorithm has.
Alive == {p \in [segment : Segments, index : 1..15, iteration : 0..MaxIterations] :
             /\ p.index \in 1..Len(Script[p.segment])
             /\ p.segment \in CgFamily => session.algorithm = "cg"
             /\ p.segment \in MinresFamily => session.algorithm # "cg"
             /\ p.segment \in Early => p.iteration = 0}

Task(p) == Script[p.segment][p.index]

\* The next collective operation, seen from this place.
Ahead(p) == IF p # Over /\ Task(p).op = "halo" THEN [p EXCEPT !.index = @ + 1] ELSE p

\* The trace records the run from the preparation of the plan onwards.
InRun(p) == p.segment \in Solving \/ (p.segment = "admit" /\ p.index >= 2)

\* An upper bound on the records an iteration holds when a part begins.
Slack == [admit |-> 0, cgSetup |-> 4, cgFirst |-> 18, cgIterate |-> 0, cgDirection |-> 12,
          cgRestart |-> 23, minresSetup |-> 4, minresIterate |-> 0, converged |-> 15,
          stopped |-> 27, finish |-> 23]

\* A place inside a call is not the end.
LEMMA AliveNotOver == \A p \in Alive : p # Over
BY DEF Alive, Over, Place, Segments, Quiet, Solving

\* What a place inside a call asks for is an instruction of its part.
LEMMA TaskFacts ==
    ASSUME NEW p \in Alive
    PROVE  /\ Task(p) \in Instr
           /\ Task(p).op = "status" => Task(p).phase \in StatusPhases
           /\ Task(p).op = "halo" =>
                 /\ p.index # 1 /\ p.index + 1 \in 1..Len(Script[p.segment])
                 /\ Script[p.segment][p.index + 1].op = "status"
<1>1. p.segment \in Segments /\ p.index \in 1..Len(Script[p.segment])
    BY DEF Alive
<1>2. Script[p.segment] \in Blocks
    BY <1>1, SegmentBlocks
<1> QED
    BY <1>1, <1>2 DEF Blocks, Task

\* Within a part, the next place is a place.
LEMMA Advance ==
    ASSUME NEW p \in Alive, p.index # Len(Script[p.segment])
    PROVE  /\ [p EXCEPT !.index = @ + 1] \in Alive
           /\ [p EXCEPT !.index = @ + 1].segment = p.segment
           /\ [p EXCEPT !.index = @ + 1].index = p.index + 1
           /\ [p EXCEPT !.index = @ + 1].iteration = p.iteration
           /\ Task([p EXCEPT !.index = @ + 1]) = Script[p.segment][p.index + 1]
<1>1. p.segment \in Segments /\ p.index \in 1..Len(Script[p.segment])
    BY DEF Alive
<1>2. Len(Script[p.segment]) \in 1..15
    BY <1>1, SegmentBlocks
<1> DEFINE x == [p EXCEPT !.index = @ + 1]
<1>3. p \in [segment : Segments, index : 1..15, iteration : 0..MaxIterations]
    BY DEF Alive
<1>4. x.segment = p.segment /\ x.index = p.index + 1 /\ x.iteration = p.iteration
    BY <1>3
<1>5. \A n \in 1..15 : \A k \in 1..n : k # n => k + 1 \in 1..n /\ k + 1 \in 1..15
    OBVIOUS
<1>6. p.index + 1 \in 1..Len(Script[p.segment]) /\ p.index + 1 \in 1..15
    BY <1>1, <1>2, <1>5
<1>7. x \in [segment : Segments, index : 1..15, iteration : 0..MaxIterations]
    BY <1>3, <1>6
<1>8. x \in Alive
    BY <1>4, <1>6, <1>7 DEF Alive
<1> QED
    BY <1>4, <1>8 DEF Task

\* The next collective operation is the one here, or the one after a halo exchange.
LEMMA AheadFacts ==
    ASSUME NEW p \in Alive
    PROVE  /\ Ahead(p) \in Alive /\ Task(Ahead(p)).op # "halo"
           /\ Ahead(p).segment = p.segment /\ Ahead(p).iteration = p.iteration
           /\ Task(p).op # "halo" => Ahead(p) = p
           /\ Task(p).op = "halo" => /\ p.index # Len(Script[p.segment])
                                     /\ Ahead(p) = [p EXCEPT !.index = @ + 1]
                                     /\ Ahead(p).index = p.index + 1
                                     /\ Task(Ahead(p)).op = "status"
<1>1. p # Over
    BY AliveNotOver
<1>2. CASE Task(p).op # "halo"
    BY <1>2 DEF Ahead
<1>3. CASE Task(p).op = "halo"
    <2>1. /\ p.index + 1 \in 1..Len(Script[p.segment])
          /\ Script[p.segment][p.index + 1].op = "status"
        BY <1>3, TaskFacts
    <2>2. p.index # Len(Script[p.segment])
        <3>1. p.index \in Nat /\ Len(Script[p.segment]) \in Nat
            BY SegmentBlocks DEF Alive
        <3> QED
            BY <2>1, <3>1
    <2>3. Ahead(p) = [p EXCEPT !.index = @ + 1]
        BY <1>1, <1>3 DEF Ahead
    <2> QED
        BY <1>3, <2>1, <2>2, <2>3, Advance
<1> QED
    BY <1>2, <1>3

-----------------------------------------------------------------------------
(* Routes                                                                   *)

\* The beginning of a part is a place, if the algorithm has that part.
LEMMA Entering ==
    ASSUME NEW s \in Segments, NEW i \in 0..MaxIterations,
           s \in CgFamily => session.algorithm = "cg",
           s \in MinresFamily => session.algorithm # "cg", s \in Early => i = 0
    PROVE  /\ Place(s, i) \in Alive
           /\ Place(s, i).segment = s /\ Place(s, i).index = 1 /\ Place(s, i).iteration = i
<1>1. Len(Script[s]) \in 1..15
    BY SegmentBlocks
<1> DEFINE x == Place(s, i)
<1>2. x.segment = s /\ x.index = 1 /\ x.iteration = i
    BY DEF Place
<1>3. x \in [segment : Segments, index : 1..15, iteration : 0..MaxIterations]
    BY DEF Place
<1>4. \A n \in 1..15 : 1 \in 1..n
    OBVIOUS
<1>5. x \in Alive
    BY <1>1, <1>2, <1>3, <1>4 DEF Alive
<1> QED
    BY <1>2, <1>5

\* A part of a run begins with a boundary of its first phase.
LEMMA FirstTask ==
    ASSUME NEW p \in Alive, p.segment \in Solving, p.index = 1
    PROVE  Task(p).op = "status" /\ Task(p).phase = FirstPhase[p.segment]
BY SolvingSegments DEF Begins, Task

\* Two routes part at their first boundary, or are the residual of a solver
\* that may have converged and of one that has given up.
Apart(x, y) ==
    \/ FirstPhase[x.segment] # FirstPhase[y.segment]
    \/ {x.segment, y.segment} = {"converged", "stopped"} /\ x.iteration = y.iteration

\* What may follow a part of a run.
Route(p, x) ==
    /\ x \in Alive /\ x.index = 1
    /\ x.segment \in Solving \cup {"admit", "receipt"}
    /\ x.segment \in Solving => p.segment \in Solving \cup {"admit"}
    /\ p.segment = "converged" => x.segment \in Solving
    /\ x.segment \in Solving =>
          32 * p.iteration + Slack[p.segment] + Len(Script[p.segment])
              <= 32 * x.iteration + Slack[x.segment]

\* The beginning of a part is on a route, if the part's slack covers the records so far.
LEMMA RouteTo ==
    ASSUME NEW p \in Alive, NEW s \in Solving, NEW i \in 0..MaxIterations,
           p.segment \in Solving,
           s \in CgFamily => session.algorithm = "cg",
           s \in MinresFamily => session.algorithm # "cg", s \in Early => i = 0,
           32 * p.iteration + Slack[p.segment] + Extent[p.segment] <= 32 * i + Slack[s]
    PROVE  Route(p, Place(s, i)) /\ Place(s, i).segment = s /\ Place(s, i).iteration = i
<1>1. s \in Segments
    BY DEF Segments
<1>2. /\ Place(s, i) \in Alive
      /\ Place(s, i).segment = s /\ Place(s, i).index = 1 /\ Place(s, i).iteration = i
    BY <1>1, Entering
<1>3. Len(Script[p.segment]) = Extent[p.segment]
    BY SolvingSegments DEF Begins
<1> QED
    BY <1>2, <1>3 DEF Route

\* The next iteration is on a route, and so is giving up after the last one.
LEMMA NextIterationRoute ==
    ASSUME NEW p \in Alive, p.segment \in Solving, NEW i \in 0..MaxIterations,
           i = p.iteration,
           Slack[p.segment] + Extent[p.segment] <= 27
    PROVE  /\ Route(p, NextIteration(i))
           /\ NextIteration(i).segment \in {"stopped", "cgIterate", "minresIterate"}
           /\ NextIteration(i).segment = "stopped" => NextIteration(i) = Place("stopped", i)
           /\ NextIteration(i).segment = "cgIterate" => session.algorithm = "cg"
           /\ NextIteration(i).segment = "stopped" => i = MaxIterations
<1>1. MaxIterations \in Nat /\ p.iteration \in Nat
    BY RankAssumption DEF Alive
<1>2. Slack[p.segment] + Extent[p.segment] \in Nat
    BY DEF Slack, Extent, Solving
<1>3. CASE i = MaxIterations
    <2>1. "stopped" \in Solving /\ Slack["stopped"] = 27
        BY DEF Solving, Slack
    <2>2. 32 * p.iteration + Slack[p.segment] + Extent[p.segment] <= 32 * i + Slack["stopped"]
        BY <1>1, <1>2, <2>1, SMT DEF Slack, Extent, Solving
    <2>3. Route(p, Place("stopped", i)) /\ Place("stopped", i).segment = "stopped"
        BY <2>1, <2>2, RouteTo DEF CgFamily, MinresFamily, Early
    <2> QED
        BY <1>3, <2>3 DEF NextIteration
<1>4. CASE i # MaxIterations
    <2>1. i + 1 \in 0..MaxIterations
        BY <1>1, <1>4
    <2>2. /\ 32 * p.iteration + Slack[p.segment] + Extent[p.segment]
                <= 32 * (i + 1) + Slack["cgIterate"]
          /\ Slack["minresIterate"] = Slack["cgIterate"]
        BY <1>1, SMT DEF Slack, Extent, Solving
    <2>3. CASE session.algorithm = "cg"
        <3>1. "cgIterate" \in Solving /\ "cgIterate" \notin MinresFamily /\ "cgIterate" \notin Early
            BY DEF Solving, MinresFamily, Early
        <3>2. Route(p, Place("cgIterate", i + 1))
              /\ Place("cgIterate", i + 1).segment = "cgIterate"
            BY <2>1, <2>2, <2>3, <3>1, RouteTo
        <3> QED
            BY <1>4, <2>3, <3>2 DEF NextIteration
    <2>4. CASE session.algorithm # "cg"
        <3>1. /\ "minresIterate" \in Solving
              /\ "minresIterate" \notin CgFamily /\ "minresIterate" \notin Early
            BY DEF Solving, CgFamily, Early
        <3>2. Route(p, Place("minresIterate", i + 1))
              /\ Place("minresIterate", i + 1).segment = "minresIterate"
            BY <2>1, <2>2, <2>4, <3>1, RouteTo
        <3> QED
            BY <1>4, <2>4, <3>2 DEF NextIteration
    <2> QED
        BY <2>3, <2>4
<1> QED
    BY <1>3, <1>4

\* Sets of one, two or three places are finite.
LEMMA FewPlaces ==
    \A a, b, c : IsFiniteSet({}) /\ IsFiniteSet({a}) /\ IsFiniteSet({a, b})
                 /\ IsFiniteSet({a, b, c})
<1> TAKE a, b, c
<1>1. IsFiniteSet({}) /\ IsFiniteSet({a})
    BY FS_EmptySet, FS_Singleton
<1>2. IsFiniteSet({a} \cup {b})
    BY <1>1, FS_AddElement
<1>3. IsFiniteSet(({a} \cup {b}) \cup {c})
    BY <1>2, FS_AddElement
<1>4. {a} \cup {b} = {a, b} /\ ({a} \cup {b}) \cup {c} = {a, b, c}
    OBVIOUS
<1> QED
    BY <1>1, <1>2, <1>3, <1>4

\* Whatever the scalars decide, the ways on are routes, and differ from the start.
Sorted(p, S) ==
    /\ IsFiniteSet(S)
    /\ \A x \in S : Route(p, x)
    /\ \A x, y \in S : x # y => x.segment \in Solving /\ y.segment \in Solving /\ Apart(x, y)

\* One, two or three ways on that are pairwise apart.
LEMMA SortedOne == ASSUME NEW p, NEW a, Route(p, a) PROVE Sorted(p, {a})
BY FewPlaces DEF Sorted

LEMMA SortedTwo ==
    ASSUME NEW p, NEW a, NEW b, Route(p, a), Route(p, b),
           a.segment \in Solving, b.segment \in Solving, a # b => Apart(a, b)
    PROVE  Sorted(p, {a, b})
<1>1. a # b => Apart(b, a)
    BY DEF Apart
<1> QED
    BY <1>1, FewPlaces DEF Sorted

LEMMA SortedThree ==
    ASSUME NEW p, NEW a, NEW b, NEW c, Route(p, a), Route(p, b), Route(p, c),
           a.segment \in Solving, b.segment \in Solving, c.segment \in Solving,
           a # b => Apart(a, b), a # c => Apart(a, c), b # c => Apart(b, c)
    PROVE  Sorted(p, {a, b, c})
<1>1. (a # b => Apart(b, a)) /\ (a # c => Apart(c, a)) /\ (b # c => Apart(c, b))
    BY DEF Apart
<1>2. ASSUME NEW x \in {a, b, c}, NEW y \in {a, b, c}, x # y
      PROVE  x.segment \in Solving /\ y.segment \in Solving /\ Apart(x, y)
    <2>1. (x = a \/ x = b \/ x = c) /\ (y = a \/ y = b \/ y = c)
        OBVIOUS
    <2>2. x.segment \in Solving /\ y.segment \in Solving
        BY <2>1
    <2>3. CASE x = a
        BY <1>1, <1>2, <2>1, <2>3
    <2>4. CASE x = b
        BY <1>1, <1>2, <2>1, <2>4
    <2>5. CASE x = c
        BY <1>1, <1>2, <2>1, <2>5
    <2> QED
        BY <2>1, <2>2, <2>3, <2>4, <2>5
<1>3. \A x \in {a, b, c} : Route(p, x)
    OBVIOUS
<1>4. IsFiniteSet({a, b, c})
    BY FewPlaces
<1> QED
    BY <1>2, <1>3, <1>4, Zenon DEF Sorted

\* The ways on from a part of the run that are named by their part alone.
LEMMA RouteOn ==
    ASSUME NEW p \in Alive, p.segment \in Solving,
           NEW s \in {"finish", "converged", "stopped", "cgFirst", "cgDirection", "cgRestart"},
           s \in CgFamily => session.algorithm = "cg",
           s = "cgFirst" => p.iteration = 0,
           Slack[p.segment] + Extent[p.segment] <= Slack[s]
    PROVE  /\ Route(p, Place(s, p.iteration))
           /\ Place(s, p.iteration).segment = s /\ s \in Solving
           /\ Place(s, p.iteration).iteration = p.iteration
<1>1. p.iteration \in 0..MaxIterations /\ p.iteration \in Nat
    BY RankAssumption DEF Alive
<1>2. s \in Solving /\ s \notin MinresFamily /\ (s \in Early => p.iteration = 0)
    BY DEF Solving, MinresFamily, Early
<1>3. 32 * p.iteration + Slack[p.segment] + Extent[p.segment] <= 32 * p.iteration + Slack[s]
    <2>1. Slack[p.segment] \in Nat /\ Extent[p.segment] \in Nat /\ Slack[s] \in Nat
        BY DEF Slack, Extent, Solving
    <2> QED
        BY <1>1, <2>1
<1> QED
    BY <1>1, <1>2, <1>3, RouteTo

\* The ways of conjugate gradients.
LEMMA CgRoutes ==
    ASSUME NEW p \in Alive, p.segment \in CgFamily
    PROVE  Sorted(p, Onward(p))
<1> DEFINE i == p.iteration
<1>1. i \in 0..MaxIterations /\ p.segment \in Solving
    BY DEF Alive, CgFamily, Solving
<1>2. session.algorithm = "cg" /\ Onward(p) = CgOnward(p)
    BY DEF Alive, CgFamily, Onward
<1>3. CASE p.segment = "cgSetup"
    <2>1. i = 0
        BY <1>3 DEF Alive, Early
    <2>2. Onward(p) = {Place("finish", i), Place("cgFirst", i)}
        BY <1>2, <1>3, <2>1 DEF CgOnward
    <2>3. /\ Slack["cgSetup"] + Extent["cgSetup"] <= Slack["finish"]
          /\ Slack["cgSetup"] + Extent["cgSetup"] <= Slack["cgFirst"]
        BY DEF Slack, Extent
    <2>4. /\ Route(p, Place("finish", i)) /\ Place("finish", i).segment = "finish"
          /\ "finish" \in Solving
        BY <1>1, <1>2, <1>3, <2>3, RouteOn
    <2>5. /\ Route(p, Place("cgFirst", i)) /\ Place("cgFirst", i).segment = "cgFirst"
          /\ "cgFirst" \in Solving
        BY <1>1, <1>2, <1>3, <2>1, <2>3, RouteOn
    <2>6. Apart(Place("finish", i), Place("cgFirst", i))
        BY <2>4, <2>5 DEF Apart, FirstPhase
    <2> QED
        BY <2>2, <2>4, <2>5, <2>6, SortedTwo
<1>4. CASE p.segment = "cgIterate"
    <2>1. Onward(p) = {Place("converged", i), Place("cgDirection", i)}
        BY <1>2, <1>4 DEF CgOnward
    <2>2. /\ Slack["cgIterate"] + Extent["cgIterate"] <= Slack["converged"]
          /\ Slack["cgIterate"] + Extent["cgIterate"] <= Slack["cgDirection"]
        BY DEF Slack, Extent
    <2>3. /\ Route(p, Place("converged", i)) /\ Place("converged", i).segment = "converged"
          /\ "converged" \in Solving
        BY <1>1, <1>2, <1>4, <2>2, RouteOn
    <2>4. /\ Route(p, Place("cgDirection", i))
          /\ Place("cgDirection", i).segment = "cgDirection" /\ "cgDirection" \in Solving
        BY <1>1, <1>2, <1>4, <2>2, RouteOn
    <2>5. Apart(Place("converged", i), Place("cgDirection", i))
        BY <2>3, <2>4 DEF Apart, FirstPhase
    <2> QED
        BY <2>1, <2>3, <2>4, <2>5, SortedTwo
<1>5. CASE p.segment \in {"cgFirst", "cgDirection", "cgRestart"}
    <2>1. Onward(p) = {NextIteration(i)}
        BY <1>2, <1>5 DEF CgOnward
    <2>2. Slack[p.segment] + Extent[p.segment] <= 27
        BY <1>5 DEF Slack, Extent
    <2>3. Route(p, NextIteration(i))
        BY <1>1, <2>2, NextIterationRoute
    <2> QED
        BY <2>1, <2>3, SortedOne
<1> QED
    BY <1>3, <1>4, <1>5 DEF CgFamily

\* The ways of minimum residuals.
LEMMA MinresRoutes ==
    ASSUME NEW p \in Alive, p.segment \in MinresFamily \cup {"converged"},
           session.algorithm # "cg"
    PROVE  Sorted(p, Onward(p))
<1> DEFINE i == p.iteration  n == NextIteration(i)
<1>1. i \in 0..MaxIterations /\ p.segment \in Solving
    BY DEF Alive, MinresFamily, Solving
<1>2. Onward(p) = MinresOnward(p)
    BY DEF MinresFamily, Onward
<1>3. Slack[p.segment] + Extent[p.segment] <= 27
    BY DEF Slack, Extent, MinresFamily
<1>4. /\ Route(p, n) /\ n.segment \in {"stopped", "minresIterate"}
      /\ n.segment = "stopped" => n = Place("stopped", i) /\ i = MaxIterations
    BY <1>1, <1>3, NextIterationRoute
<1>5. {"stopped", "minresIterate"} \subseteq Solving
    BY DEF Solving
<1> HIDE DEF n
<1>6. CASE p.segment = "minresSetup"
    <2>1. i = 0
        BY <1>6 DEF Alive, Early
    <2>2. MaxIterations # 0
        BY RankAssumption
    <2>3. Onward(p) = {Place("finish", i), n}
        BY <1>2, <1>6, <2>1 DEF MinresOnward, n
    <2>4. Slack["minresSetup"] + Extent["minresSetup"] <= Slack["finish"]
        BY DEF Slack, Extent
    <2>5. /\ Route(p, Place("finish", i)) /\ Place("finish", i).segment = "finish"
          /\ "finish" \in Solving
        BY <1>1, <1>6, <2>4, RouteOn DEF CgFamily
    <2>6. Apart(Place("finish", i), n)
        BY <1>4, <2>5 DEF Apart, FirstPhase
    <2> QED
        BY <1>4, <1>5, <2>3, <2>5, <2>6, SortedTwo
<1>7. Route(p, Place("stopped", i)) /\ Place("stopped", i).segment = "stopped"
      /\ Place("stopped", i).iteration = i
    <2>1. Slack["stopped"] = 27
        BY DEF Slack
    <2> QED
        BY <1>1, <1>3, <2>1, RouteOn DEF CgFamily
<1>8. n # Place("stopped", i) => Apart(Place("stopped", i), n) /\ n.segment = "minresIterate"
    BY <1>4, <1>7 DEF Apart, FirstPhase
<1>9. CASE p.segment = "minresIterate"
    <2>1. Onward(p) = {Place("converged", i), Place("stopped", i), n}
        BY <1>2, <1>9 DEF MinresOnward, n
    <2>2. Slack["minresIterate"] + Extent["minresIterate"] <= Slack["converged"]
        BY DEF Slack, Extent
    <2>3. /\ Route(p, Place("converged", i)) /\ Place("converged", i).segment = "converged"
          /\ "converged" \in Solving /\ Place("converged", i).iteration = i
        BY <1>1, <1>9, <2>2, RouteOn DEF CgFamily
    <2>4. Apart(Place("converged", i), Place("stopped", i))
        BY <1>7, <2>3 DEF Apart
    <2>5. Apart(Place("converged", i), n)
        BY <1>4, <2>3, <2>4 DEF Apart, FirstPhase
    <2> QED
        BY <1>4, <1>5, <1>7, <1>8, <2>1, <2>3, <2>4, <2>5, SortedThree
<1>10. CASE p.segment = "converged"
    <2>1. Onward(p) = {Place("finish", i), Place("stopped", i), n}
        BY <1>2, <1>10 DEF MinresOnward, n
    <2>2. Slack["converged"] + Extent["converged"] <= Slack["finish"]
        BY DEF Slack, Extent
    <2>3. /\ Route(p, Place("finish", i)) /\ Place("finish", i).segment = "finish"
          /\ "finish" \in Solving
        BY <1>1, <1>10, <2>2, RouteOn DEF CgFamily
    <2>4. Apart(Place("finish", i), Place("stopped", i))
        BY <1>7, <2>3 DEF Apart, FirstPhase
    <2>5. Apart(Place("finish", i), n)
        BY <1>4, <2>3 DEF Apart, FirstPhase
    <2> QED
        BY <1>4, <1>5, <1>7, <1>8, <2>1, <2>3, <2>4, <2>5, SortedThree
<1> QED
    BY <1>6, <1>9, <1>10 DEF MinresFamily

\* Wherever the scalars send the ranks, the ways differ at their first boundary or
\* compute the same residual.
LEMMA Routes == ASSUME NEW p \in Alive PROVE Sorted(p, Onward(p))
<1> DEFINE i == p.iteration
<1>1. i \in 0..MaxIterations /\ 0 \in 0..MaxIterations
    BY RankAssumption DEF Alive
<1>2. CASE p.segment \in CgFamily
    BY <1>2, CgRoutes
<1>3. CASE p.segment \in MinresFamily
    <2>1. session.algorithm # "cg"
        BY <1>3 DEF Alive
    <2> QED
        BY <1>3, <2>1, MinresRoutes
<1>4. CASE p.segment = "converged" /\ session.algorithm # "cg"
    BY <1>4, MinresRoutes
<1>5. CASE p.segment = "converged" /\ session.algorithm = "cg"
    <2>1. Onward(p) = {Place("finish", i), Place("cgRestart", i)}
        BY <1>5 DEF Onward, CgOnward
    <2>2. /\ Slack["converged"] + Extent["converged"] <= Slack["finish"]
          /\ Slack["converged"] + Extent["converged"] <= Slack["cgRestart"]
        BY DEF Slack, Extent
    <2>3. p.segment \in Solving
        BY <1>5 DEF Solving
    <2>4. /\ Route(p, Place("finish", i)) /\ Place("finish", i).segment = "finish"
          /\ "finish" \in Solving
        BY <1>5, <2>2, <2>3, RouteOn
    <2>5. /\ Route(p, Place("cgRestart", i)) /\ Place("cgRestart", i).segment = "cgRestart"
          /\ "cgRestart" \in Solving
        BY <1>5, <2>2, <2>3, RouteOn
    <2>6. Apart(Place("finish", i), Place("cgRestart", i))
        BY <2>4, <2>5 DEF Apart, FirstPhase
    <2> QED
        BY <2>1, <2>4, <2>5, <2>6, SortedTwo
<1>6. CASE p.segment = "finish"
    <2>1. Onward(p) = {Place("receipt", i)}
        BY <1>6 DEF Onward
    <2>2. "receipt" \in Segments \ (Solving \cup CgFamily \cup MinresFamily \cup Early)
        BY DEF Segments, Quiet, Solving, CgFamily, MinresFamily, Early
    <2>3. Place("receipt", i) \in Alive /\ Place("receipt", i).index = 1
          /\ Place("receipt", i).segment = "receipt"
        BY <1>1, <2>2, Entering
    <2>4. Route(p, Place("receipt", i))
        BY <1>6, <2>2, <2>3 DEF Route
    <2> QED
        BY <2>1, <2>4, SortedOne
<1>7. CASE p.segment = "devices"
    <2>1. Onward(p) = {Place("admit", 0)}
        BY <1>7 DEF Onward
    <2>2. "admit" \in Segments \ (Solving \cup CgFamily \cup MinresFamily)
        BY DEF Segments, Solving, CgFamily, MinresFamily
    <2>3. Place("admit", 0) \in Alive /\ Place("admit", 0).index = 1
          /\ Place("admit", 0).segment = "admit"
        BY <1>1, <2>2, Entering
    <2>4. Route(p, Place("admit", 0))
        BY <1>7, <2>2, <2>3 DEF Route
    <2> QED
        BY <2>1, <2>4, SortedOne
<1>8. CASE p.segment = "admit"
    <2> DEFINE s == IF session.algorithm = "cg" THEN "cgSetup" ELSE "minresSetup"
    <2>1. Onward(p) = {Place(s, 0)}
        BY <1>8 DEF Onward
    <2>2. /\ s \in Solving /\ s \in Segments /\ Slack[s] = 4
          /\ (s \in CgFamily => session.algorithm = "cg")
          /\ (s \in MinresFamily => session.algorithm # "cg")
        BY DEF Segments, Solving, CgFamily, MinresFamily, Slack
    <2> HIDE DEF s
    <2>3. /\ Place(s, 0) \in Alive /\ Place(s, 0).index = 1 /\ Place(s, 0).segment = s
          /\ Place(s, 0).iteration = 0
        BY <1>1, <2>2, Entering
    <2>4. p.iteration = 0 /\ Slack[p.segment] = 0 /\ Len(Script[p.segment]) = 4
        BY <1>8, AdmitSegment DEF Alive, Early, Slack
    <2>5. 32 * p.iteration + Slack[p.segment] + Len(Script[p.segment])
              <= 32 * Place(s, 0).iteration + Slack[Place(s, 0).segment]
        BY <2>2, <2>3, <2>4
    <2>6. Route(p, Place(s, 0))
        BY <1>8, <2>2, <2>3, <2>5 DEF Route
    <2> QED
        BY <2>1, <2>6, SortedOne
<1>9. CASE p.segment \notin CgFamily \cup MinresFamily
                               \cup {"converged", "finish", "devices", "admit"}
    <2>1. Onward(p) = {}
        BY <1>9 DEF Onward, CgFamily, MinresFamily
    <2> QED
        BY <2>1, FewPlaces DEF Sorted
<1> QED
    BY <1>2, <1>3, <1>4, <1>5, <1>6, <1>7, <1>8, <1>9


-----------------------------------------------------------------------------
(* The invariant                                                            *)

Notes == [phase : StatusPhases \cup {"Admission"}, iteration : Nat]

\* The record a status at this place leaves, and the trace once it is entered.
Record(p) == [phase |-> Task(p).phase,
              iteration |-> IF Task(p).phase \in {"GatherPreparation", "GatherValidation",
                                                  "ResultAgreement"}
                            THEN 0 ELSE p.iteration]
Recorded(t, p) == IF p.segment = "admit" /\ p.index = 2
                  THEN <<[phase |-> "Admission", iteration |-> 0]>>
                  ELSE IF Task(p).op = "status" THEN Append(t, Record(p)) ELSE t

\* The trace of a rank when it is inside its next collective operation.
Coming(r) == IF inside[r].op = "outside" THEN Recorded(trace[r], Ahead(at[r])) ELSE trace[r]

\* How many instructions of its part a rank has entered.
Done(r) == IF inside[r].op = "outside" THEN at[r].index - 1 ELSE at[r].index

Kinds ==
    /\ session \in Sessions
    /\ DOMAIN call = Ranks /\ \A r \in Ranks : call[r] \in Nat
    /\ DOMAIN at = Ranks /\ \A r \in Ranks : at[r] \in Alive \cup {Over}
    /\ DOMAIN inside = Ranks
    /\ DOMAIN trace = Ranks /\ \A r \in Ranks : trace[r] \in Seq(Notes)

\* A rank inside an operation is there for the instruction at its place, and
\* reports a failure if its solver has given up.
Entered ==
    \A r \in Ranks : inside[r].op # "outside" =>
        /\ at[r] \in Alive /\ Task(at[r]).op # "halo"
        /\ inside[r].op = Task(at[r]).op /\ inside[r].phase = Task(at[r]).phase
        /\ Task(at[r]).op = "status" => inside[r].step[1] = Task(at[r]).phase
        /\ at[r].segment = "stopped" /\ at[r].index = 9 => ~inside[r].ok

\* The trace has room for the next record.
Room ==
    \A r \in Ranks :
        at[r].segment \in Solving \/ (at[r].segment = "admit" /\ Done(r) >= 2) =>
            Len(trace[r]) <= 32 * at[r].iteration + Slack[at[r].segment] + Done(r)

SameCall == \A q, r \in Ranks : call[q] = call[r]

\* All ranks enter the same operation next, with the same trace.
Together ==
    \A q, r \in Ranks :
        /\ Ahead(at[q]) = Ahead(at[r])
        /\ InRun(Ahead(at[r])) => Coming(q) = Coming(r)

\* Some ranks have given up, the others look whether they have converged: both
\* compute the residual.
Paired ==
    /\ \A r \in Ranks : /\ at[r] \in Alive
                        /\ at[r].segment \in {"converged", "stopped"}
                        /\ Ahead(at[r]).index <= 8
    /\ \A q, r \in Ranks : /\ Ahead(at[q]).index = Ahead(at[r]).index
                           /\ at[q].iteration = at[r].iteration
    /\ \A s \in {"converged", "stopped"} : \E r \in Ranks : at[r].segment = s

\* All ranks enter a boundary next, and will all be refused: two boundaries have
\* different names, or a rank that has given up is at its last one and another
\* is not.
Doomed ==
    /\ \A r \in Ranks : at[r] \in Alive /\ Task(at[r]).op = "status"
    /\ \/ \E q, r \in Ranks : Task(at[q]).phase # Task(at[r]).phase
       \/ /\ \E r \in Ranks : at[r].segment = "stopped" /\ at[r].index = 9
          /\ \E q, r \in Ranks : at[q] # at[r]

Modes == Together \/ Paired \/ Doomed

Lockstep == Kinds /\ Entered /\ Room /\ SameCall /\ Modes

\* Boundaries with a name occur in the run only.
LEMMA StatusPlaces ==
    ASSUME NEW p \in Alive, Task(p).op = "status"
    PROVE  p.segment \in Solving \/ (p.segment = "admit" /\ p.index = 4)
<1>1. p.segment \in Segments /\ p.index \in 1..Len(Script[p.segment])
    BY DEF Alive
<1>2. CASE p.segment \in Quiet
    <2>1. Script[p.segment] \in Calm
        BY <1>2, QuietSegments
    <2> QED
        BY <1>1, <2>1 DEF Calm, Task
<1>3. CASE p.segment = "admit"
    <2>1. \A n \in 1..4 : n \in 1..3 \/ n = 4
        OBVIOUS
    <2>2. p.index \in 1..3 \/ p.index = 4
        <3>1. Len(Script[p.segment]) = 4
            BY <1>3, AdmitSegment
        <3>2. p.index \in 1..4
            BY <1>1, <3>1
        <3> QED
            BY <2>1, <3>2
    <2>3. p.index \notin 1..3
        BY <1>3, AdmitSegment DEF Task
    <2> QED
        BY <1>3, <2>2, <2>3
<1> QED
    <2>1. p.segment \in Quiet \/ p.segment \in Solving \/ p.segment = "admit"
        BY <1>1 DEF Segments
    <2> QED
        BY <1>2, <1>3, <2>1

\* Ranks inside collective operations match.
LEMMA LockstepMatches ==
    ASSUME Lockstep PROVE CollectivesMatch
<1> SUFFICES ASSUME NEW q \in Ranks, NEW r \in Ranks,
                    inside[q].op # "outside", inside[r].op # "outside"
             PROVE  /\ call[q] = call[r]
                    /\ inside[q].op = inside[r].op
                    /\ inside[q].op \in {"compare", "verify", "plain"} =>
                           inside[q].phase = inside[r].phase
    BY DEF CollectivesMatch
<1>1. call[q] = call[r]
    BY DEF Lockstep, SameCall
<1>2. /\ at[q] \in Alive /\ Ahead(at[q]) = at[q]
      /\ inside[q].op = Task(at[q]).op /\ inside[q].phase = Task(at[q]).phase
    BY AheadFacts DEF Lockstep, Entered
<1>3. /\ at[r] \in Alive /\ Ahead(at[r]) = at[r]
      /\ inside[r].op = Task(at[r]).op /\ inside[r].phase = Task(at[r]).phase
    BY AheadFacts DEF Lockstep, Entered
<1>4. CASE Together
    BY <1>1, <1>2, <1>3, <1>4 DEF Together
<1>5. CASE Paired
    <2>1. /\ at[q].index = at[r].index /\ at[q].index <= 8
          /\ at[q].segment \in {"converged", "stopped"}
          /\ at[r].segment \in {"converged", "stopped"}
        BY <1>2, <1>3, <1>5 DEF Paired
    <2>2. at[q].index \in 1..8
        BY <1>2, <2>1 DEF Alive
    <2>3. Task(at[q]) = Task(at[r])
        BY <2>1, <2>2, StoppedBegins DEF Task
    <2> QED
        BY <1>1, <1>2, <1>3, <2>3
<1>6. CASE Doomed
    BY <1>1, <1>2, <1>3, <1>6 DEF Doomed
<1> QED
    BY <1>4, <1>5, <1>6 DEF Lockstep, Modes

-----------------------------------------------------------------------------
(* What the ranks make of a meeting                                         *)

\* The call goes on unless the outcome was an error.
Outcome(r) == IF AtEnd(r) /\ at[r].segment = "finish" /\ ~TraceSound(trace[r], at[r].iteration)
              THEN Rejected(r, "trace")
              ELSE IF Successors(r) = {} THEN Accepted ELSE Unanswered

\* When the gathered records reject a call, and what happens otherwise.
LEMMA Judged ==
    ASSUME NEW r \in Ranks
    PROVE  /\ inside[r].op = "status" /\ (Strayed(r) # {} \/ Failed # {})
                 => Judge(r).kind = "rejected"
           /\ inside[r].op \in {"readiness", "verify"} /\ Failed # {}
                 => Judge(r).kind = "rejected"
           /\ ~(inside[r].op = "status" /\ (Strayed(r) # {} \/ Failed # {}))
              /\ ~(inside[r].op \in {"readiness", "verify"} /\ Failed # {})
                 => Judge(r) = Outcome(r)
<1>1. CASE inside[r].op = "status"
    BY <1>1 DEF Judge, Verdict, Rejected, Outcome
<1>2. CASE inside[r].op = "readiness"
    BY <1>2 DEF Judge, Verdict, Rejected, Outcome
<1>3. CASE inside[r].op = "verify"
    BY <1>3 DEF Judge, Verdict, Rejected, Outcome
<1>4. CASE inside[r].op \notin {"status", "readiness", "verify"}
    BY <1>4 DEF Judge, Verdict, Rejected, Outcome
<1> QED
    BY <1>1, <1>2, <1>3, <1>4

\* The ranks that meet are all refused, all complete their call, or all go on.
Alike == \/ \A r \in Ranks : Judge(r).kind = "rejected"
         \/ \A r \in Ranks : Judge(r) = Accepted
         \/ \A r \in Ranks : Judge(r) = Unanswered

\* The three kinds of answers differ.
LEMMA Answers ==
    /\ Accepted # Unanswered /\ Accepted.kind = "accepted" /\ Unanswered.kind = "none"
    /\ \A r, p : Rejected(r, p).kind = "rejected" /\ Rejected(r, p) # Unanswered
BY DEF Accepted, Unanswered, Rejected

\* The scalars choose among finitely many ways.
LEMMA SuccessorsFinite ==
    ASSUME NEW r \in Ranks, at[r] \in Alive
    PROVE  IsFiniteSet(Successors(r))
<1>1. IsFiniteSet(Onward(at[r]))
    BY Routes DEF Sorted
<1> QED
    BY <1>1, FewPlaces DEF Successors

\* Ranks that meet all reject, all accept or all go on; they never go on when they
\* are doomed.
LEMMA MeetingAlike ==
    ASSUME Lockstep, Met
    PROVE  /\ Alike
           /\ (\A r \in Ranks : Judge(r) = Unanswered)
                 => ~Doomed /\ \A r \in Ranks : Successors(r) # {}
<1>1. \A r \in Ranks : /\ inside[r].op # "outside" /\ at[r] \in Alive
                       /\ Ahead(at[r]) = at[r] /\ Task(at[r]).op # "halo"
                       /\ inside[r].op = Task(at[r]).op
                       /\ Task(at[r]).op = "status" => inside[r].step[1] = Task(at[r]).phase
                       /\ at[r].segment = "stopped" /\ at[r].index = 9 => ~inside[r].ok
    BY AheadFacts DEF Lockstep, Entered, Met
<1>2. \A q, r \in Ranks : inside[q].op = inside[r].op
    BY DEF Met
<1>3. CASE \E r \in Ranks : inside[r].op = "status" /\ (Strayed(r) # {} \/ Failed # {})
    <2>1. \A r \in Ranks : inside[r].op = "status" /\ (Strayed(r) # {} \/ Failed # {})
        <3>1. ASSUME NEW r \in Ranks, NEW q \in Strayed(r), NEW p \in Ranks
              PROVE  Strayed(p) # {}
            BY <3>1 DEF Strayed
        <3> QED
            BY <1>2, <1>3, <3>1
    <2>2. \A r \in Ranks : Judge(r).kind = "rejected"
        BY <2>1, Judged
    <2>3. \A r \in Ranks : Judge(r) # Unanswered
        BY <2>2, Answers
    <2>4. Ranks # {}
        BY RankAssumption
    <2> QED
        BY <2>2, <2>3, <2>4 DEF Alike
<1>4. CASE \E r \in Ranks : inside[r].op \in {"readiness", "verify"} /\ Failed # {}
    <2>1. \A r \in Ranks : inside[r].op \in {"readiness", "verify"} /\ Failed # {}
        BY <1>2, <1>4
    <2>2. \A r \in Ranks : Judge(r).kind = "rejected"
        BY <2>1, Judged
    <2>3. \A r \in Ranks : Judge(r) # Unanswered
        BY <2>2, Answers
    <2>4. Ranks # {}
        BY RankAssumption
    <2> QED
        BY <2>2, <2>3, <2>4 DEF Alike
<1>5. CASE /\ ~\E r \in Ranks : inside[r].op = "status" /\ (Strayed(r) # {} \/ Failed # {})
           /\ ~\E r \in Ranks : inside[r].op \in {"readiness", "verify"} /\ Failed # {}
    <2>1. \A r \in Ranks : Judge(r) = Outcome(r)
        BY <1>5, Judged
    <2>2. ~Doomed
        <3>1. SUFFICES ASSUME Doomed PROVE FALSE
            OBVIOUS
        <3>2. \A r \in Ranks : inside[r].op = "status"
            BY <1>1, <3>1 DEF Doomed
        <3>3. ASSUME NEW q \in Ranks, NEW r \in Ranks, Task(at[q]).phase # Task(at[r]).phase
              PROVE  FALSE
            <4>1. inside[q].step # inside[r].step
                BY <1>1, <3>2, <3>3
            <4>2. q \in Strayed(r)
                BY <4>1 DEF Strayed
            <4> QED
                BY <1>5, <3>2, <4>2
        <3>4. ASSUME NEW r \in Ranks, at[r].segment = "stopped", at[r].index = 9
              PROVE  FALSE
            <4>1. r \in Failed
                BY <1>1, <3>4 DEF Failed
            <4> QED
                BY <1>5, <3>2, <4>1
        <3> QED
            BY <3>1, <3>3, <3>4 DEF Doomed
    <2>3. \A r \in Ranks : Judge(r) = Unanswered => Successors(r) # {}
        BY <2>1, Answers DEF Outcome
    <2>4. CASE Together
        <3>1. \A q, r \in Ranks : at[q] = at[r]
            BY <1>1, <2>4 DEF Together
        <3>2. \A q, r \in Ranks : AtEnd(q) = AtEnd(r) /\ Successors(q) = Successors(r)
            BY <3>1 DEF AtEnd, Successors, Lockstep, SameCall
        <3>3. \A q, r \in Ranks : at[r].segment = "finish" => trace[q] = trace[r]
            <4>1. "finish" \in Solving
                BY DEF Solving
            <4> QED
                BY <1>1, <2>4, <4>1 DEF Together, InRun, Coming
        <3>4. PICK r \in Ranks : TRUE
            BY RankAssumption
        <3>5. CASE AtEnd(r) /\ at[r].segment = "finish"
                   /\ ~TraceSound(trace[r], at[r].iteration)
            <4>1. ASSUME NEW q \in Ranks PROVE Judge(q) = Rejected(q, "trace")
                <5>1. /\ AtEnd(q) /\ at[q].segment = "finish" /\ trace[q] = trace[r]
                      /\ at[q].iteration = at[r].iteration
                    BY <3>1, <3>2, <3>3, <3>5
                <5>2. ~TraceSound(trace[q], at[q].iteration)
                    BY <3>5, <5>1
                <5> QED
                    BY <2>1, <5>1, <5>2 DEF Outcome
            <4> QED
                BY <2>2, <2>3, <4>1, Answers DEF Alike
        <3>6. CASE ~(AtEnd(r) /\ at[r].segment = "finish"
                     /\ ~TraceSound(trace[r], at[r].iteration))
            <4>1. ASSUME NEW q \in Ranks
                  PROVE  Judge(q) = IF Successors(r) = {} THEN Accepted ELSE Unanswered
                <5>1. CASE AtEnd(q) /\ at[q].segment = "finish"
                    <6>1. /\ AtEnd(r) /\ at[r].segment = "finish" /\ trace[q] = trace[r]
                          /\ at[q].iteration = at[r].iteration
                        BY <3>1, <3>2, <3>3, <5>1
                    <6>2. TraceSound(trace[q], at[q].iteration)
                        BY <3>6, <6>1
                    <6>3. Successors(q) = Successors(r)
                        BY <3>2
                    <6> QED
                        BY <2>1, <6>2, <6>3 DEF Outcome
                <5>2. CASE ~(AtEnd(q) /\ at[q].segment = "finish")
                    <6>1. Successors(q) = Successors(r)
                        BY <3>2
                    <6> QED
                        BY <2>1, <5>2, <6>1 DEF Outcome
                <5> QED
                    BY <5>1, <5>2
            <4> QED
                BY <2>2, <2>3, <4>1 DEF Alike
        <3> QED
            BY <3>5, <3>6
    <2>5. CASE Paired
        <3>1. ASSUME NEW r \in Ranks PROVE Judge(r) = Unanswered
            <4>1. at[r].segment \in {"converged", "stopped"} /\ at[r].index <= 8
                BY <1>1, <2>5 DEF Paired
            <4>2. CASE AtEnd(r) /\ at[r].segment = "converged"
                <5>1. Successors(r) = Onward(at[r])
                    BY <4>2 DEF Successors
                <5>2. Onward(at[r]) # {}
                    BY <4>2 DEF Onward, CgOnward, MinresOnward
                <5> QED
                    BY <2>1, <4>2, <5>1, <5>2 DEF Outcome
            <4>3. CASE ~AtEnd(r)
                BY <2>1, <4>3 DEF Outcome, Successors
            <4>4. CASE AtEnd(r) /\ at[r].segment = "stopped"
                <5>1. at[r].index = 9
                    BY <4>4, StoppedBegins DEF AtEnd, Begins
                <5> QED
                    BY <4>1, <5>1
            <4> QED
                BY <4>1, <4>2, <4>3, <4>4
        <3> QED
            BY <2>2, <2>3, <3>1 DEF Alike
    <2> QED
        BY <2>2, <2>4, <2>5 DEF Lockstep, Modes
<1> QED
    BY <1>3, <1>4, <1>5

-----------------------------------------------------------------------------
(* Entering                                                                 *)

\* Entering an operation adds at most one record to the trace.
LEMMA RecordedFacts ==
    ASSUME NEW p \in Alive, NEW t \in Seq(Notes)
    PROVE  /\ Recorded(t, p) \in Seq(Notes)
           /\ p.segment = "admit" /\ p.index = 2 => Len(Recorded(t, p)) = 1
           /\ ~(p.segment = "admit" /\ p.index = 2) => Len(Recorded(t, p)) \in {Len(t), Len(t) + 1}
<1>1. CASE p.segment = "admit" /\ p.index = 2
    <2>1. [phase |-> "Admission", iteration |-> 0] \in Notes
        BY DEF Notes
    <2> QED
        BY <1>1, <2>1 DEF Recorded
<1>2. CASE ~(p.segment = "admit" /\ p.index = 2) /\ Task(p).op = "status"
    <2>1. Task(p).phase \in StatusPhases
        BY <1>2, TaskFacts
    <2>2. p.iteration \in Nat
        BY RankAssumption DEF Alive
    <2>3. Record(p) \in Notes
        BY <2>1, <2>2 DEF Record, Notes
    <2>4. Recorded(t, p) = Append(t, Record(p))
        BY <1>2 DEF Recorded
    <2>5. Append(t, Record(p)) \in Seq(Notes) /\ Len(Append(t, Record(p))) = Len(t) + 1
        BY <2>3
    <2> QED
        BY <1>2, <2>4, <2>5
<1>3. CASE ~(p.segment = "admit" /\ p.index = 2) /\ Task(p).op # "status"
    BY <1>3 DEF Recorded
<1> QED
    BY <1>1, <1>2, <1>3

\* The reserved trace has room for every record: no rank returns before an exchange.
LEMMA NeverFull ==
    ASSUME Lockstep, NEW r \in Ranks, CanEnter(r)
    PROVE  ~Full(r)
<1> SUFFICES ASSUME Task(at[r]).op = "status"
             PROVE  ~(Len(trace[r]) >= Capacity)
    BY DEF Full, Instruction, Task
<1>1. at[r] \in Alive
    BY DEF CanEnter, Lockstep, Kinds
<1>2. at[r].segment \in Solving \/ (at[r].segment = "admit" /\ at[r].index = 4)
    BY <1>1, StatusPlaces
<1>3. Done(r) = at[r].index - 1
    BY DEF CanEnter, Done
<1>4. at[r].index \in 1..15 /\ at[r].iteration \in 0..MaxIterations
    BY <1>1 DEF Alive
<1>5. Len(trace[r]) <= 32 * at[r].iteration + Slack[at[r].segment] + Done(r)
    BY <1>2, <1>3, <1>4 DEF Lockstep, Room
<1>6. Slack[at[r].segment] \in 0..27
    BY <1>2 DEF Slack, Solving
<1>7. MaxIterations \in Nat
    BY RankAssumption
<1>8. Len(trace[r]) \in Nat
    BY DEF Lockstep, Kinds
<1>9. \A n, i, m \in Nat, k \in 1..15, s \in 0..27 :
          i <= m /\ n <= 32 * i + s + (k - 1) => ~(n >= 32 * m + 64)
    OBVIOUS
<1>10. at[r].iteration \in Nat /\ at[r].iteration <= MaxIterations
    BY <1>4, <1>7
<1> QED
    BY <1>3, <1>4, <1>5, <1>6, <1>7, <1>8, <1>9, <1>10 DEF Capacity

\* What a rank that enters an operation does to the state.
LEMMA EnterEffect ==
    ASSUME Lockstep, NEW r \in Ranks, Enter(r)
    PROVE  /\ at[r] \in Alive /\ inside[r].op = "outside" /\ Task(at[r]).op # "halo"
           /\ Task(at[r]).op \in Ops /\ Task(at[r]).op # "outside"
           /\ at' = at /\ call' = call /\ session' = session /\ answer' = answer
           /\ DOMAIN inside' = Ranks
           /\ inside'[r].op = Task(at[r]).op /\ inside'[r].phase = Task(at[r]).phase
           /\ Task(at[r]).op = "status" => inside'[r].step[1] = Task(at[r]).phase
           /\ (at[r].segment = "stopped" /\ at[r].index = 9) => ~inside'[r].ok
           /\ \A q \in Ranks : q # r => inside'[q] = inside[q]
           /\ DOMAIN trace' = Ranks /\ trace'[r] = Recorded(trace[r], at[r])
           /\ \A q \in Ranks : q # r => trace'[q] = trace[q]
<1>1. /\ at[r] \in Alive /\ inside[r].op = "outside" /\ Task(at[r]).op # "halo"
      /\ Instruction(r) = Task(at[r])
    BY DEF Enter, CanEnter, Lockstep, Kinds, Instruction, Task
<1>2. ~Full(r)
    BY NeverFull DEF Enter
<1>3. PICK ok \in Results(r) :
          inside' = [inside EXCEPT ![r] =
                [op |-> Instruction(r).op, phase |-> Instruction(r).phase,
                 step |-> IF Instruction(r).op = "status" THEN Step(r) ELSE <<>>,
                 ok |-> ok]]
    BY <1>2 DEF Enter, Contribute
<1>4. at' = at /\ call' = call /\ session' = session /\ answer' = answer
    BY <1>2 DEF Enter, Contribute, fixed, place
<1>5. trace' = [trace EXCEPT ![r] = Recorded(trace[r], at[r])]
    <2>1. trace' = [trace EXCEPT ![r] = Traced(r)]
        BY <1>2 DEF Enter, Contribute
    <2>2. Traced(r) = Recorded(trace[r], at[r])
        BY <1>1 DEF Traced, Recorded, BeginsRun, Step, Record
    <2> QED
        BY <2>1, <2>2
<1>6. DOMAIN inside = Ranks /\ DOMAIN trace = Ranks
    BY DEF Lockstep, Kinds
<1>7. /\ DOMAIN inside' = Ranks
      /\ inside'[r].op = Task(at[r]).op /\ inside'[r].phase = Task(at[r]).phase
      /\ Task(at[r]).op = "status" => inside'[r].step = Step(r)
      /\ inside'[r].ok = ok
      /\ \A q \in Ranks : q # r => inside'[q] = inside[q]
    BY <1>1, <1>3, <1>6
<1>8. Step(r)[1] = Task(at[r]).phase
    BY <1>1 DEF Step
<1>9. ASSUME at[r].segment = "stopped", at[r].index = 9 PROVE ok = FALSE
    <2>1. AtEnd(r)
        BY <1>9, StoppedBegins DEF AtEnd, Begins
    <2> QED
        BY <1>3, <1>9, <2>1 DEF Results, Bound
<1>10. /\ DOMAIN trace' = Ranks /\ trace'[r] = Recorded(trace[r], at[r])
       /\ \A q \in Ranks : q # r => trace'[q] = trace[q]
    BY <1>5, <1>6
<1>11. Task(at[r]).op \in Ops /\ Task(at[r]).op # "outside"
    <2>1. Task(at[r]) \in Instr
        BY <1>1, TaskFacts
    <2> QED
        BY <2>1 DEF Instr, Ops
<1> QED
    BY <1>1, <1>4, <1>7, <1>8, <1>9, <1>10, <1>11

\* Entering an operation keeps the ranks in lockstep.
LEMMA EnterStep ==
    ASSUME Lockstep, NEW r \in Ranks, Enter(r)
    PROVE  Lockstep'
<1>1. at[r] \in Alive /\ inside[r].op = "outside" /\ Task(at[r]).op # "halo"
    BY EnterEffect
<1>2. Ahead(at[r]) = at[r]
    BY <1>1, AheadFacts
<1>3. at' = at /\ call' = call /\ session' = session
    BY EnterEffect
<1>4. Alive' = Alive
    BY <1>3 DEF Alive
<1>5. trace[r] \in Seq(Notes)
    BY DEF Lockstep, Kinds
<1>6. /\ DOMAIN inside' = Ranks
      /\ inside'[r].op = Task(at[r]).op /\ inside'[r].phase = Task(at[r]).phase
      /\ Task(at[r]).op = "status" => inside'[r].step[1] = Task(at[r]).phase
      /\ (at[r].segment = "stopped" /\ at[r].index = 9) => ~inside'[r].ok
      /\ \A q \in Ranks : q # r => inside'[q] = inside[q]
    BY EnterEffect
<1>7. /\ DOMAIN trace' = Ranks /\ trace'[r] = Recorded(trace[r], at[r])
       /\ \A q \in Ranks : q # r => trace'[q] = trace[q]
    BY EnterEffect
<1>8. Task(at[r]).op # "outside"
    BY EnterEffect
<1>9. Kinds'
    <2>1. \A q \in Ranks : trace'[q] \in Seq(Notes)
        BY <1>1, <1>5, <1>7, RecordedFacts DEF Lockstep, Kinds
    <2> QED
        BY <1>3, <1>4, <1>6, <1>7, <2>1 DEF Lockstep, Kinds
<1>10. Entered'
    <2> SUFFICES ASSUME NEW q \in Ranks, inside'[q].op # "outside"
                 PROVE  /\ at[q] \in Alive /\ Task(at[q]).op # "halo"
                        /\ inside'[q].op = Task(at[q]).op /\ inside'[q].phase = Task(at[q]).phase
                        /\ Task(at[q]).op = "status" => inside'[q].step[1] = Task(at[q]).phase
                        /\ (at[q].segment = "stopped" /\ at[q].index = 9) => ~inside'[q].ok
        BY <1>3, <1>4 DEF Entered
    <2>1. CASE q # r
        BY <1>6, <2>1 DEF Lockstep, Entered
    <2>2. CASE q = r
        BY <1>1, <1>6, <2>2
    <2> QED
        BY <2>1, <2>2
<1>11. Room'
    <2> SUFFICES ASSUME NEW q \in Ranks,
                        at[q].segment \in Solving \/ (at[q].segment = "admit" /\ Done(q)' >= 2)
                 PROVE  Len(trace'[q]) <= 32 * at[q].iteration + Slack[at[q].segment] + Done(q)'
        BY <1>3 DEF Room
    <2>1. CASE q # r
        BY <1>3, <1>6, <1>7, <2>1 DEF Lockstep, Room, Done
    <2>2. CASE q = r
        <3>1. Done(r) = at[r].index - 1 /\ Done(r)' = at[r].index
            BY <1>1, <1>3, <1>6, <1>8 DEF Done
        <3>2. at[r].index \in 1..15 /\ at[r].iteration \in Nat /\ Len(trace[r]) \in Nat
            BY <1>1, <1>5, RankAssumption DEF Alive
        <3>3. Slack[at[r].segment] \in Nat
            BY <2>2 DEF Slack, Solving
        <3>4. CASE at[r].segment = "admit" /\ at[r].index = 2
            <4>1. Len(trace'[r]) = 1
                BY <1>1, <1>5, <1>7, <3>4, RecordedFacts
            <4> QED
                BY <2>2, <3>1, <3>2, <3>3, <3>4, <4>1
        <3>5. CASE ~(at[r].segment = "admit" /\ at[r].index = 2)
            <4>1. Len(trace'[r]) <= Len(trace[r]) + 1
                BY <1>1, <1>5, <1>7, <3>2, <3>5, RecordedFacts
            <4>2. at[r].segment \in Solving \/ (at[r].segment = "admit" /\ Done(r) >= 2)
                <5>1. \A n \in 1..15 : n >= 2 /\ n # 2 => n - 1 >= 2
                    OBVIOUS
                <5>2. CASE at[r].segment = "admit" /\ Done(r)' >= 2
                    <6>1. at[r].index >= 2 /\ at[r].index # 2
                        BY <3>1, <3>5, <5>2
                    <6> QED
                        BY <3>1, <3>2, <5>1, <5>2, <6>1
                <5> QED
                    BY <2>2, <5>2
            <4>3. Len(trace[r]) <= 32 * at[r].iteration + Slack[at[r].segment] + Done(r)
                BY <4>2 DEF Lockstep, Room
            <4>4. Len(trace'[r]) \in Nat
                BY <1>9 DEF Kinds
            <4>5. \A n, m, i, s, k \in Nat : k >= 1 /\ n <= m + 1 /\ m <= 32 * i + s + (k - 1)
                                            => n <= 32 * i + s + k
                OBVIOUS
            <4>6. at[r].index \in Nat /\ at[r].index >= 1
                <5>1. \A n \in 1..15 : n \in Nat /\ n >= 1
                    OBVIOUS
                <5>2. at[r].index \in 1..15
                    BY <3>2
                <5> QED
                    BY <5>1, <5>2
            <4>7. Len(trace[r]) <= 32 * at[r].iteration + Slack[at[r].segment]
                                   + (at[r].index - 1)
                BY <3>1, <4>3
            <4>8. Len(trace'[r]) <= 32 * at[r].iteration + Slack[at[r].segment] + at[r].index
                BY <3>2, <3>3, <4>1, <4>4, <4>5, <4>6, <4>7
            <4> QED
                BY <2>2, <3>1, <4>8
        <3> QED
            BY <3>4, <3>5
    <2> QED
        BY <2>1, <2>2
<1>12. SameCall'
    BY <1>3 DEF Lockstep, SameCall
<1>13. \A q \in Ranks : Coming(q)' = Coming(q)
    <2>1. Coming(r)' = Coming(r)
        BY <1>1, <1>2, <1>6, <1>7, <1>8 DEF Coming
    <2>2. ASSUME NEW q \in Ranks, q # r PROVE Coming(q)' = Coming(q)
        BY <1>3, <1>6, <1>7, <2>2 DEF Coming
    <2> QED
        BY <2>1, <2>2
<1>14. Modes'
    <2>1. ASSUME Together PROVE Together'
        BY <1>3, <1>13, <2>1 DEF Together
    <2>2. ASSUME Paired PROVE Paired'
        BY <1>3, <1>4, <2>2 DEF Paired
    <2>3. ASSUME Doomed PROVE Doomed'
        BY <1>3, <1>4, <2>3 DEF Doomed
    <2> QED
        BY <2>1, <2>2, <2>3 DEF Lockstep, Modes
<1> QED
    BY <1>9, <1>10, <1>11, <1>12, <1>14 DEF Lockstep

-----------------------------------------------------------------------------
(* Halo exchange                                                            *)

\* Halo messages do not touch what lockstep is about.
LEMMA Unmoved ==
    ASSUME Lockstep, UNCHANGED <<session, call, at, inside, trace>>
    PROVE  Lockstep'
<1>1. Alive' = Alive
    BY DEF Alive
<1>2. \A r \in Ranks : Done(r)' = Done(r) /\ Coming(r)' = Coming(r)
    BY DEF Done, Coming
<1>3. Kinds' /\ Entered' /\ SameCall'
    BY <1>1 DEF Lockstep, Kinds, Entered, SameCall
<1>4. Room'
    BY <1>2 DEF Lockstep, Room
<1>5. Together => Together'
    BY <1>2 DEF Together
<1>6. Paired => Paired'
    BY <1>1 DEF Paired
<1>7. Doomed => Doomed'
    BY <1>1 DEF Doomed
<1> QED
    BY <1>3, <1>4, <1>5, <1>6, <1>7 DEF Lockstep, Modes

\* A rank that leaves a halo exchange comes to a boundary of the solver.
LEMMA HaloEffect ==
    ASSUME Lockstep, NEW r \in Ranks, LeaveHalo(r)
    PROVE  /\ at[r] \in Alive /\ Task(at[r]).op = "halo" /\ inside[r].op = "outside"
           /\ at[r].segment \in Solving
           /\ session' = session /\ call' = call /\ inside' = inside /\ trace' = trace
           /\ answer' = answer /\ DOMAIN at' = Ranks
           /\ at'[r] \in Alive /\ Task(at'[r]).op = "status"
           /\ at'[r].segment = at[r].segment /\ at'[r].index = at[r].index + 1
           /\ at'[r].iteration = at[r].iteration
           /\ \A q \in Ranks : Ahead(at'[q]) = Ahead(at[q])
           /\ \A q \in Ranks : q # r => at'[q] = at[q]
<1> DEFINE n == [at[r] EXCEPT !.index = @ + 1]
<1>1. at[r] \in Alive /\ Task(at[r]).op = "halo" /\ inside[r].op = "outside"
    BY DEF LeaveHalo, InHalo, Instruction, Task, Lockstep, Kinds, Entered
<1>2. /\ session' = session /\ call' = call /\ inside' = inside /\ trace' = trace
      /\ answer' = answer /\ at' = [at EXCEPT ![r] = n]
    BY DEF LeaveHalo, fixed
<1>3. /\ at[r].index # Len(Script[at[r].segment]) /\ Ahead(at[r]) = n
      /\ Task(n).op = "status"
    BY <1>1, AheadFacts
<1>4. /\ n \in Alive /\ n.segment = at[r].segment /\ n.index = at[r].index + 1
      /\ n.iteration = at[r].iteration
    BY <1>1, <1>3, Advance
<1>5. Ahead(n) = n
    BY <1>3, <1>4, AheadFacts
<1> HIDE DEF n
<1>6. /\ DOMAIN at' = Ranks /\ at'[r] = n
      /\ \A q \in Ranks : q # r => at'[q] = at[q]
    BY <1>2 DEF Lockstep, Kinds
<1>7. \A q \in Ranks : Ahead(at'[q]) = Ahead(at[q])
    BY <1>3, <1>5, <1>6
<1>8. at[r].segment \in Solving
    <2>1. n.segment \in Solving \/ (n.segment = "admit" /\ n.index = 4)
        BY <1>3, <1>4, StatusPlaces
    <2>2. at[r].segment = "admit" => at[r].index # 3
        <3>1. 3 \in 1..3
            OBVIOUS
        <3> QED
            BY <1>1, <3>1, AdmitSegment DEF Task
    <2>3. at[r].index \in 1..15
        BY <1>1 DEF Alive
    <2>4. \A k \in 1..15 : k + 1 = 4 => k = 3
        OBVIOUS
    <2> QED
        BY <1>4, <2>1, <2>2, <2>3, <2>4
<1> QED
    BY <1>1, <1>2, <1>3, <1>4, <1>6, <1>7, <1>8

\* Leaving the halo exchange brings a rank to the operation its peers count on.
LEMMA LeaveHaloStep ==
    ASSUME Lockstep, NEW r \in Ranks, LeaveHalo(r)
    PROVE  Lockstep'
<1>1. /\ at[r] \in Alive /\ Task(at[r]).op = "halo" /\ inside[r].op = "outside"
      /\ at[r].segment \in Solving
    BY HaloEffect
<1>2. session' = session /\ call' = call /\ inside' = inside /\ trace' = trace
    BY HaloEffect
<1>3. Alive' = Alive
    BY <1>2 DEF Alive
<1>4. /\ at'[r] \in Alive /\ at'[r].segment = at[r].segment
      /\ at'[r].index = at[r].index + 1 /\ at'[r].iteration = at[r].iteration
    BY HaloEffect
<1>5. DOMAIN at' = Ranks /\ \A q \in Ranks : q # r => at'[q] = at[q]
    BY HaloEffect
<1>6. \A q \in Ranks : Ahead(at'[q]) = Ahead(at[q])
    BY HaloEffect
<1>7. \A q \in Ranks : Coming(q)' = Coming(q)
    BY <1>2, <1>6 DEF Coming
<1>8. Kinds'
    BY <1>2, <1>3, <1>4, <1>5 DEF Lockstep, Kinds
<1>9. Entered'
    <2> SUFFICES ASSUME NEW q \in Ranks, inside[q].op # "outside"
                 PROVE  /\ at'[q] \in Alive /\ Task(at'[q]).op # "halo"
                        /\ inside[q].op = Task(at'[q]).op /\ inside[q].phase = Task(at'[q]).phase
                        /\ Task(at'[q]).op = "status" => inside[q].step[1] = Task(at'[q]).phase
                        /\ at'[q].segment = "stopped" /\ at'[q].index = 9 => ~inside[q].ok
        BY <1>2, <1>3 DEF Entered
    <2> QED
        BY <1>1, <1>5 DEF Lockstep, Entered
<1>10. Room'
    <2> SUFFICES ASSUME NEW q \in Ranks,
                        at'[q].segment \in Solving
                            \/ (at'[q].segment = "admit" /\ Done(q)' >= 2)
                 PROVE  Len(trace[q]) <= 32 * at'[q].iteration + Slack[at'[q].segment] + Done(q)'
        BY <1>2 DEF Room
    <2>1. CASE q # r
        BY <1>2, <1>5, <2>1 DEF Lockstep, Room, Done
    <2>2. CASE q = r
        <3>1. Done(r) = at[r].index - 1 /\ Done(r)' = at'[r].index - 1
            BY <1>1, <1>2 DEF Done
        <3>2. Len(trace[r]) <= 32 * at[r].iteration + Slack[at[r].segment] + (at[r].index - 1)
            BY <1>1, <3>1 DEF Lockstep, Room
        <3>3. /\ Len(trace[r]) \in Nat /\ at[r].iteration \in Nat /\ at[r].index \in Nat
              /\ Slack[at[r].segment] \in Nat
            BY <1>1, RankAssumption DEF Lockstep, Kinds, Alive, Slack, Solving
        <3>4. \A a, i, s, k \in Nat : a <= 32 * i + s + (k - 1) => a <= 32 * i + s + ((k + 1) - 1)
            OBVIOUS
        <3>5. Len(trace[r]) <= 32 * at[r].iteration + Slack[at[r].segment]
                               + ((at[r].index + 1) - 1)
            BY <3>2, <3>3, <3>4
        <3> QED
            BY <1>4, <2>2, <3>1, <3>5
    <2> QED
        BY <2>1, <2>2
<1>11. SameCall'
    BY <1>2 DEF Lockstep, SameCall
<1>12. Modes'
    <2>1. ASSUME Together PROVE Together'
        BY <1>6, <1>7, <2>1 DEF Together
    <2>2. ASSUME Paired PROVE Paired'
        <3>1. \A q \in Ranks : /\ at'[q] \in Alive /\ at'[q].segment = at[q].segment
                               /\ at'[q].iteration = at[q].iteration
            BY <1>4, <1>5, <2>2 DEF Paired
        <3> QED
            BY <1>3, <1>6, <2>2, <3>1 DEF Paired
    <2>3. ~Doomed
        BY <1>1 DEF Doomed
    <2> QED
        BY <2>1, <2>2, <2>3 DEF Lockstep, Modes
<1> QED
    BY <1>8, <1>9, <1>10, <1>11, <1>12 DEF Lockstep

-----------------------------------------------------------------------------
(* Leaving with an answer                                                   *)

\* The parts that calls begin with.
Openings == {"duplicate", "topology", "selection", "authentication", "deviceSelection",
             "devices", "admit"}

\* A call begins at the first instruction of such a part.
LEMMA Starts ==
    ASSUME session \in Sessions, NEW c \in Nat
    PROVE  /\ StartOf(c + 1) = Over \/ StartOf(c + 1) \in Alive
           /\ StartOf(c + 1) # Over => /\ StartOf(c + 1).segment \in Openings
                                       /\ StartOf(c + 1).index = 1
<1>1. session.calls \in Seq(DOMAIN Opening)
    BY SessionAssumption
<1>2. CASE c + 1 <= Len(session.calls)
    <2>1. c + 1 \in 1..Len(session.calls)
        BY <1>1, <1>2
    <2>2. session.calls[c + 1] \in DOMAIN Opening
        BY <1>1, <2>1
    <2> DEFINE s == Opening[session.calls[c + 1]]
    <2>3. s \in Openings
        BY <2>2 DEF Opening, Openings
    <2>4. StartOf(c + 1) = Place(s, 0)
        BY <1>2 DEF StartOf
    <2> HIDE DEF s
    <2>5. s \in Segments /\ s \notin CgFamily /\ s \notin MinresFamily
        BY <2>3 DEF Openings, Segments, Quiet, CgFamily, MinresFamily
    <2>6. 0 \in 0..MaxIterations
        BY RankAssumption
    <2>7. Place(s, 0) \in Alive /\ Place(s, 0).segment = s /\ Place(s, 0).index = 1
        BY <2>5, <2>6, Entering
    <2> QED
        BY <2>3, <2>4, <2>7
<1>3. CASE ~(c + 1 <= Len(session.calls))
    BY <1>3 DEF StartOf
<1> QED
    BY <1>2, <1>3

\* Where a call begins nothing is recorded, and no halo is exchanged.
LEMMA Beginnings ==
    ASSUME NEW p, p = Over \/ p \in Alive,
           p # Over => p.segment \in Openings /\ p.index = 1
    PROVE  /\ Ahead(p) = p /\ ~InRun(p)
           /\ p.segment \notin Solving
           /\ p.segment = "admit" => p.index = 1
<1>1. CASE p = Over
    BY <1>1 DEF Ahead, InRun, Over, Place, Solving
<1>2. CASE p \in Alive /\ p # Over
    <2>1. Task(p).op # "halo"
        BY <1>2, TaskFacts
    <2>2. Ahead(p) = p
        BY <2>1 DEF Ahead
    <2>3. p.segment \notin Solving
        BY <1>2 DEF Openings, Solving
    <2>4. ~(p.index >= 2)
        BY <1>2
    <2> QED
        BY <1>2, <2>2, <2>3, <2>4 DEF InRun
<1> QED
    BY <1>1, <1>2

\* After an answer, all ranks are about to begin the same call, or have no group.
LEMMA NextCall ==
    ASSUME Lockstep, NEW turn, Leave(turn),
           \/ \A r \in Ranks : Judge(r).kind = "rejected"
           \/ \A r \in Ranks : Judge(r) = Accepted
    PROVE  \E n \in Nat, p \in Alive \cup {Over} :
              /\ \A r \in Ranks : call'[r] = n /\ at'[r] = p
              /\ p # Over => p.segment \in Openings /\ p.index = 1
<1>1. \A r \in Ranks : Judge(r) # Unanswered
    BY Answers
<1>2. PICK c \in Nat : \A r \in Ranks : call[r] = c
    BY RankAssumption DEF Lockstep, SameCall, Kinds
<1>3. \A q, r \in Ranks : Judge(q).kind = Judge(r).kind
    OBVIOUS
<1>4. \A r \in Ranks : /\ call'[r] = AfterCall(r, Judge(r)).call
                       /\ at'[r] = AfterCall(r, Judge(r)).at
    BY <1>1 DEF Leave
<1>5. session \in Sessions
    BY DEF Lockstep, Kinds
<1>6. Len(session.calls) \in Nat
    BY <1>5, SessionAssumption
<1>7. CASE session.calls[c] = "duplicate" /\ \A r \in Ranks : Judge(r).kind = "rejected"
    <2>1. \A r \in Ranks : call'[r] = Len(session.calls) + 1 /\ at'[r] = Over
        BY <1>2, <1>4, <1>7 DEF AfterCall
    <2>2. Len(session.calls) + 1 \in Nat
        BY <1>6
    <2> QED
        BY <2>1, <2>2
<1>8. CASE ~(session.calls[c] = "duplicate" /\ \A r \in Ranks : Judge(r).kind = "rejected")
    <2>1. \A r \in Ranks : call'[r] = c + 1 /\ at'[r] = StartOf(c + 1)
        BY <1>2, <1>3, <1>4, <1>8 DEF AfterCall
    <2>2. c + 1 \in Nat
        OBVIOUS
    <2> QED
        BY <1>5, <2>1, <2>2, Starts
<1> QED
    BY <1>7, <1>8

\* Ranks that leave with an answer begin the next call together.
LEMMA LeaveAnswered ==
    ASSUME Lockstep, NEW turn, Leave(turn),
           \/ \A r \in Ranks : Judge(r).kind = "rejected"
           \/ \A r \in Ranks : Judge(r) = Accepted
    PROVE  Lockstep'
<1>1. session' = session /\ trace' = trace /\ Alive' = Alive
    BY DEF Leave, fixed, Alive
<1>2. DOMAIN inside' = Ranks /\ \A r \in Ranks : inside'[r].op = "outside"
    BY DEF Leave, Outside
<1>3. DOMAIN call' = Ranks /\ DOMAIN at' = Ranks
    BY DEF Leave
<1>4. PICK n \in Nat, p \in Alive \cup {Over} :
          /\ \A r \in Ranks : call'[r] = n /\ at'[r] = p
          /\ p # Over => p.segment \in Openings /\ p.index = 1
    BY NextCall
<1>5. /\ Ahead(p) = p /\ ~InRun(p)
      /\ p.segment \notin Solving /\ (p.segment = "admit" => p.index = 1)
    BY <1>4, Beginnings
<1>6. Kinds'
    BY <1>1, <1>2, <1>3, <1>4 DEF Lockstep, Kinds
<1>7. Entered'
    BY <1>2 DEF Entered
<1>8. Room'
    <2> SUFFICES ASSUME NEW r \in Ranks
                 PROVE  /\ at'[r].segment \notin Solving
                        /\ ~(at'[r].segment = "admit" /\ Done(r)' >= 2)
        BY DEF Room
    <2>1. Done(r)' = p.index - 1
        BY <1>2, <1>4 DEF Done
    <2> QED
        BY <1>4, <1>5, <2>1
<1>9. SameCall'
    BY <1>4 DEF SameCall
<1>10. Together'
    BY <1>4, <1>5 DEF Together
<1> QED
    BY <1>6, <1>7, <1>8, <1>9, <1>10 DEF Lockstep, Modes

-----------------------------------------------------------------------------
(* Leaving with the call going on                                           *)

\* The evidence is a place outside the run.
LEMMA Evidence ==
    ASSUME NEW i \in 0..MaxIterations
    PROVE  /\ Place("evidence", i) \in Alive /\ Place("evidence", i).index = 1
           /\ Place("evidence", i).segment = "evidence" /\ "evidence" \notin Solving
<1>1. /\ "evidence" \in Segments /\ "evidence" \notin Solving
      /\ "evidence" \notin CgFamily /\ "evidence" \notin MinresFamily /\ "evidence" \notin Early
    BY DEF Segments, Quiet, Solving, CgFamily, MinresFamily, Early
<1> QED
    BY <1>1, Entering

\* A rank goes on to the next instruction, and from the last one to another part.
LEMMA Steps ==
    ASSUME NEW r \in Ranks, at[r] \in Alive
    PROVE  /\ ~AtEnd(r) => Successors(r) = {[at[r] EXCEPT !.index = @ + 1]}
           /\ AtEnd(r) => \/ Successors(r) = Onward(at[r])
                          \/ Successors(r) = {Place("evidence", at[r].iteration)}
           /\ AtEnd(r) /\ at[r].segment # "receipt" => Successors(r) = Onward(at[r])
           /\ AtEnd(r) => \A x \in Successors(r) :
                 /\ x \in Alive /\ x.index = 1
                 /\ x.segment \in Solving =>
                       /\ at[r].segment \in Solving \cup {"admit"}
                       /\ 32 * at[r].iteration + Slack[at[r].segment] + Len(Script[at[r].segment])
                              <= 32 * x.iteration + Slack[x.segment]
<1>1. ~AtEnd(r) => Successors(r) = {[at[r] EXCEPT !.index = @ + 1]}
    BY DEF Successors
<1>2. AtEnd(r) => \/ Successors(r) = Onward(at[r])
                  \/ Successors(r) = {Place("evidence", at[r].iteration)}
    BY DEF Successors
<1>3. AtEnd(r) /\ at[r].segment # "receipt" => Successors(r) = Onward(at[r])
    BY DEF Successors
<1>4. \A x \in Onward(at[r]) : Route(at[r], x)
    BY Routes DEF Sorted
<1>5. at[r].iteration \in 0..MaxIterations
    BY DEF Alive
<1>6. ASSUME AtEnd(r), NEW x \in Successors(r)
      PROVE  /\ x \in Alive /\ x.index = 1
             /\ x.segment \in Solving =>
                   /\ at[r].segment \in Solving \cup {"admit"}
                   /\ 32 * at[r].iteration + Slack[at[r].segment] + Len(Script[at[r].segment])
                          <= 32 * x.iteration + Slack[x.segment]
    <2>1. CASE x \in Onward(at[r])
        BY <1>4, <2>1 DEF Route
    <2>2. CASE x = Place("evidence", at[r].iteration)
        BY <1>5, <2>2, Evidence
    <2> QED
        BY <1>2, <1>6, <2>1, <2>2
<1> QED
    BY <1>1, <1>2, <1>3, <1>6

\* The residual is the same in both parts, up to the report.
LEMMA PairedSteps ==
    ASSUME Lockstep, Met, Paired, NEW r \in Ranks
    PROVE  /\ at[r] \in Alive /\ Ahead(at[r]) = at[r] /\ at[r].index \in 1..8
           /\ \/ at[r].segment = "converged" /\ at[r].index = 8 /\ AtEnd(r)
              \/ /\ ~AtEnd(r) /\ (at[r].segment = "converged" => at[r].index # 8)
                 /\ at[r].segment \in {"converged", "stopped"}
<1>1. /\ at[r] \in Alive /\ Ahead(at[r]) = at[r] /\ at[r].index \in 1..15
    BY AheadFacts DEF Lockstep, Entered, Met, Alive
<1>2. at[r].segment \in {"converged", "stopped"} /\ at[r].index <= 8
    BY <1>1 DEF Paired
<1>3. at[r].index \in 1..8
    BY <1>1, <1>2
<1>4. Len(Script.converged) = 8 /\ Len(Script.stopped) = 9
    BY StoppedBegins DEF Begins
<1>5. \A n \in 1..8 : n # 9
    OBVIOUS
<1>6. CASE at[r].segment = "converged"
    BY <1>1, <1>3, <1>4, <1>6 DEF AtEnd
<1>7. CASE at[r].segment = "stopped"
    BY <1>1, <1>3, <1>4, <1>5, <1>7 DEF AtEnd
<1> QED
    BY <1>2, <1>6, <1>7

\* Every rank follows its own call.
LEMMA OwnWay ==
    ASSUME Lockstep, Met, NEW turn, Leave(turn),
           \A r \in Ranks : Judge(r) = Unanswered,
           \A r \in Ranks : Forks = {} \/ turn[r] \in Forks
    PROVE  \A r \in Ranks : at'[r] \in Successors(r)
<1> SUFFICES ASSUME NEW r \in Ranks PROVE at'[r] \in Successors(r)
    OBVIOUS
<1>1. at'[r] = IF Cardinality(Successors(r)) = 1
               THEN CHOOSE p \in Successors(r) : TRUE ELSE turn[r]
    BY DEF Leave
<1>2. \A q \in Ranks : /\ at[q] \in Alive /\ Ahead(at[q]) = at[q]
                       /\ IsFiniteSet(Successors(q)) /\ Successors(q) # {}
    BY AheadFacts, SuccessorsFinite, MeetingAlike DEF Lockstep, Entered, Met
<1>3. CASE Cardinality(Successors(r)) = 1
    BY <1>1, <1>2, <1>3
<1>4. CASE Cardinality(Successors(r)) # 1
    <2>1. Cardinality(Successors(r)) \in Nat /\ Cardinality(Successors(r)) # 0
        BY <1>2, FS_CardinalityType, FS_EmptySet
    <2>2. Cardinality(Successors(r)) > 1
        BY <1>4, <2>1
    <2>3. Forks = UNION {Successors(p) : p \in {q \in Ranks : Cardinality(Successors(q)) > 1}}
        BY DEF Forks
    <2>4. Successors(r) \subseteq Forks
        BY <2>2, <2>3
    <2>5. turn[r] \in Forks
        BY <1>2, <2>4
    <2>6. PICK q \in Ranks : Cardinality(Successors(q)) > 1 /\ turn[r] \in Successors(q)
        BY <2>3, <2>5
    <2>7. Successors(q) = Successors(r)
        <3>1. CASE Together
            <4>1. at[q] = at[r] /\ call[q] = call[r]
                BY <1>2, <3>1 DEF Together, Lockstep, SameCall
            <4> QED
                BY <4>1 DEF Successors, AtEnd
        <3>2. CASE Paired
            <4>1. ASSUME NEW p \in Ranks, Cardinality(Successors(p)) # 1
                  PROVE  at[p].segment = "converged" /\ at[p].index = 8 /\ AtEnd(p)
                <5>1. CASE ~AtEnd(p)
                    <6>1. Successors(p) = {[at[p] EXCEPT !.index = @ + 1]}
                        BY <1>2, <5>1, Steps
                    <6> QED
                        BY <4>1, <6>1, FS_Singleton
                <5> QED
                    BY <3>2, <5>1, PairedSteps
            <4>2. Cardinality(Successors(q)) # 1
                BY <2>6
            <4>3. /\ at[q].segment = "converged" /\ at[q].index = 8 /\ AtEnd(q)
                  /\ at[r].segment = "converged" /\ at[r].index = 8 /\ AtEnd(r)
                BY <1>4, <4>1, <4>2
            <4>4. at[q].iteration = at[r].iteration
                BY <3>2 DEF Paired
            <4>5. at[q] = at[r]
                BY <1>2, <4>3, <4>4 DEF Alive
            <4>6. Successors(q) = Onward(at[q]) /\ Successors(r) = Onward(at[r])
                BY <1>2, <4>3, Steps
            <4> QED
                BY <4>5, <4>6
        <3> QED
            BY <3>1, <3>2, MeetingAlike DEF Lockstep, Modes
    <2> QED
        BY <1>1, <1>4, <2>6, <2>7
<1> QED
    BY <1>3, <1>4

\* The ranks take ways that are sorted, not all the same.
Part(S, f) ==
    /\ \A r \in Ranks : f[r] \in S /\ f[r] \in Alive /\ f[r].index = 1
    /\ \A x, y \in S : x # y => x.segment \in Solving /\ y.segment \in Solving /\ Apart(x, y)
    /\ \E q, r \in Ranks : f[q] # f[r]

\* Then they are doomed, or compute the same residual.
Astray(f) ==
    /\ \A r \in Ranks : Task(f[r]).op = "status"
    /\ \E q, r \in Ranks : Task(f[q]).phase # Task(f[r]).phase
Residual(f) ==
    /\ \A r \in Ranks : f[r].segment \in {"converged", "stopped"} /\ Ahead(f[r]) = f[r]
    /\ \A q, r \in Ranks : f[q].iteration = f[r].iteration
    /\ \A s \in {"converged", "stopped"} : \E r \in Ranks : f[r].segment = s

\* Ways that part differ at the first boundary, or compute the same residual.
LEMMA Parting == ASSUME NEW S, NEW f, Part(S, f) PROVE Astray(f) \/ Residual(f)
<1>1. PICK q \in Ranks, r \in Ranks : f[q] # f[r]
    BY DEF Part
<1>2. ASSUME NEW p \in Ranks
      PROVE  /\ f[p].segment \in Solving /\ (f[p] # f[q] \/ f[p] # f[r])
             /\ f[p] \in Alive /\ f[p].index = 1
    BY <1>1 DEF Part
<1>3. ASSUME NEW p \in Ranks
      PROVE  Task(f[p]).op = "status" /\ Task(f[p]).phase = FirstPhase[f[p].segment]
    BY <1>2, FirstTask
<1>4. ASSUME NEW p \in Ranks PROVE Ahead(f[p]) = f[p]
    <2>1. Task(f[p]).op # "halo"
        BY <1>3
    <2> QED
        BY <2>1 DEF Ahead
<1>5. CASE \E p, s \in Ranks : FirstPhase[f[p].segment] # FirstPhase[f[s].segment]
    BY <1>3, <1>5 DEF Astray
<1>6. CASE ~\E p, s \in Ranks : FirstPhase[f[p].segment] # FirstPhase[f[s].segment]
    <2>1. ASSUME NEW p \in Ranks, NEW s \in Ranks, f[p] # f[s]
          PROVE  /\ {f[p].segment, f[s].segment} = {"converged", "stopped"}
                 /\ f[p].iteration = f[s].iteration
        BY <1>6, <2>1 DEF Apart, Part
    <2>2. ASSUME NEW p \in Ranks PROVE f[p].segment \in {"converged", "stopped"}
        BY <1>2, <2>1
    <2>3. ASSUME NEW p \in Ranks, NEW s \in Ranks PROVE f[p].iteration = f[s].iteration
        <3>1. CASE f[p] = f[s]
            BY <3>1
        <3>2. CASE f[p] # f[s]
            BY <2>1, <3>2
        <3> QED
            BY <3>1, <3>2
    <2>4. {f[q].segment, f[r].segment} = {"converged", "stopped"}
        BY <1>1, <2>1
    <2> QED
        BY <1>4, <2>2, <2>3, <2>4 DEF Residual
<1> QED
    BY <1>5, <1>6

\* Ranks that went together stay together, are paired, or are doomed.
LEMMA PartingTogether ==
    ASSUME Lockstep, Met, Together, NEW turn, Leave(turn),
           \A r \in Ranks : Judge(r) = Unanswered,
           \A r \in Ranks : at'[r] \in Successors(r)
    PROVE  /\ (\A q, r \in Ranks : at'[q] = at'[r]) => Together'
           /\ (\E q, r \in Ranks : at'[q] # at'[r]) => Paired' \/ Doomed'
<1>1. session' = session /\ trace' = trace /\ Alive' = Alive
    BY DEF Leave, fixed, Alive
<1>2. \A r \in Ranks : inside'[r].op = "outside"
    BY DEF Leave, Outside
<1>3. \A r \in Ranks : /\ at[r] \in Alive /\ Ahead(at[r]) = at[r]
                       /\ inside[r].op # "outside"
    BY AheadFacts DEF Lockstep, Entered, Met
<1>4. \A q, r \in Ranks : at[q] = at[r]
    BY <1>3 DEF Together
<1>5. \A q, r \in Ranks : Successors(q) = Successors(r) /\ AtEnd(q) = AtEnd(r)
    BY <1>4 DEF Successors, AtEnd, Lockstep, SameCall
<1>6. PICK r \in Ranks : TRUE
    BY RankAssumption
<1>7. \A q, p \in Ranks : InRun(at[r]) => trace[q] = trace[p]
    BY <1>3, <1>4 DEF Together, Coming
<1>8. \A q \in Ranks : Coming(q)' = Recorded(trace[q], Ahead(at'[q]))
    BY <1>1, <1>2 DEF Coming
<1>9. CASE ~AtEnd(r)
    <2> DEFINE n == [at[r] EXCEPT !.index = @ + 1]
    <2>1. \A q \in Ranks : at'[q] = n
        BY <1>3, <1>5, <1>9, Steps
    <2>2. at[r].index # Len(Script[at[r].segment])
        BY <1>9 DEF AtEnd
    <2>3. n \in Alive /\ n.segment = at[r].segment /\ n.index = at[r].index + 1
        BY <1>3, <2>2, Advance
    <2> HIDE DEF n
    <2>4. Ahead(n).segment = at[r].segment /\ Task(n).op # "halo" => Ahead(n) = n
        BY <2>3, AheadFacts
    <2>5. Ahead(n).segment = at[r].segment
        BY <2>3, AheadFacts
    <2>6. CASE InRun(at[r])
        <3>1. \A q, p \in Ranks : Coming(q)' = Coming(p)'
            BY <1>7, <1>8, <2>1, <2>6
        <3> QED
            BY <2>1, <3>1 DEF Together
    <2>7. CASE ~InRun(at[r]) /\ at[r].segment = "admit"
        <3>1. at[r].index \in 1..15 /\ ~(at[r].index >= 2)
            BY <1>3, <2>7 DEF Alive, InRun
        <3>2. \A k \in 1..15 : ~(k >= 2) => k + 1 = 2 /\ k + 1 \in 1..3
            OBVIOUS
        <3>3. n.segment = "admit" /\ n.index = 2 /\ n.index \in 1..3
            BY <2>3, <2>7, <3>1, <3>2
        <3>4. Task(n).op # "halo"
            BY <3>3, AdmitSegment DEF Task
        <3>5. Ahead(n) = n
            BY <3>4 DEF Ahead
        <3>6. \A q, p \in Ranks : Coming(q)' = Coming(p)'
            BY <1>8, <2>1, <3>3, <3>5 DEF Recorded
        <3> QED
            BY <2>1, <3>6 DEF Together
    <2>8. CASE ~InRun(at[r]) /\ at[r].segment # "admit"
        <3>1. ~InRun(Ahead(n))
            BY <2>5, <2>8 DEF InRun
        <3> QED
            BY <2>1, <3>1 DEF Together
    <2> QED
        BY <2>6, <2>7, <2>8
<1>10. CASE AtEnd(r)
    <2>1. \A q \in Ranks : at'[q] \in Successors(r)
        BY <1>5
    <2>2. \A q \in Ranks :
             /\ at'[q] \in Alive /\ at'[q].index = 1
             /\ at'[q].segment \in Solving => at[r].segment \in Solving \cup {"admit"}
        BY <1>3, <1>10, <2>1, Steps
    <2>3. CASE \A q, p \in Ranks : at'[q] = at'[p]
        <3>1. Ahead(at'[r]) = at'[r]
            <4>1. Task(at'[r]).op # "halo"
                BY <2>2, TaskFacts
            <4> QED
                BY <4>1 DEF Ahead
        <3>2. CASE InRun(at'[r])
            <4>1. at'[r].segment \in Solving
                <5>1. ~(at'[r].index >= 2)
                    BY <2>2
                <5> QED
                    BY <3>2, <5>1 DEF InRun
            <4>2. InRun(at[r])
                <5>1. at[r].segment \in Solving \cup {"admit"}
                    BY <2>2, <4>1
                <5>2. at[r].segment = "admit" => at[r].index = 4
                    BY <1>10, AdmitSegment DEF AtEnd
                <5> QED
                    BY <5>1, <5>2 DEF InRun
            <4>3. \A q, p \in Ranks : Coming(q)' = Coming(p)'
                BY <1>7, <1>8, <2>3, <4>2
            <4> QED
                BY <2>3, <4>3 DEF Together
        <3>3. CASE ~InRun(at'[r])
            <4>1. \A q \in Ranks : ~InRun(Ahead(at'[q]))
                BY <2>3, <3>1, <3>3
            <4> QED
                BY <2>3, <4>1 DEF Together
        <3> QED
            BY <3>2, <3>3
    <2>4. CASE \E q, p \in Ranks : at'[q] # at'[p]
        <3>1. Successors(r) = Onward(at[r])
            <4>1. Successors(r) # {Place("evidence", at[r].iteration)}
                BY <2>1, <2>4
            <4> QED
                BY <1>3, <1>10, <4>1, Steps
        <3>2. \A x, y \in Successors(r) :
                  x # y => x.segment \in Solving /\ y.segment \in Solving /\ Apart(x, y)
            BY <1>3, <3>1, Routes DEF Sorted
        <3>3. PICK f, S : f = at' /\ Part(S, f)
            BY <2>1, <2>2, <2>4, <3>2 DEF Part
        <3>4. Astray(f) \/ Residual(f)
            BY <3>3, Parting
        <3>5. \A q \in Ranks : f[q] \in Alive' /\ f[q].index = 1
            BY <1>1, <3>3 DEF Part
        <3>6. CASE Astray(f)
            BY <3>3, <3>5, <3>6 DEF Doomed, Astray
        <3>7. CASE Residual(f)
            BY <3>3, <3>5, <3>7 DEF Paired, Residual
        <3> QED
            BY <3>4, <3>6, <3>7
    <2> QED
        BY <2>3, <2>4
<1> QED
    BY <1>9, <1>10

\* The residual is the same wherever a rank computes it.
LEMMA ResidualTasks ==
    ASSUME NEW n \in Alive, n.segment \in {"converged", "stopped"}, n.index \in 1..8
    PROVE  /\ Task(n) = Script.converged[n.index]
           /\ Ahead(n).index = IF Script.converged[n.index].op = "halo" THEN n.index + 1
                               ELSE n.index
           /\ Ahead(n).index <= 8
<1>1. Task(n) = Script.converged[n.index]
    BY StoppedBegins DEF Task
<1>2. CASE Task(n).op = "halo"
    <2>1. Ahead(n).index = n.index + 1
        BY <1>2, AheadFacts
    <2>2. Script.converged \in Blocks /\ Len(Script.converged) = 8
        BY StoppedBegins DEF Begins
    <2>3. n.index + 1 \in 1..8
        BY <1>1, <1>2, <2>2 DEF Blocks
    <2> QED
        BY <1>1, <1>2, <2>1, <2>3
<1>3. CASE Task(n).op # "halo"
    <2>1. Ahead(n) = n
        BY <1>3, AheadFacts
    <2> QED
        BY <1>1, <1>3, <2>1
<1> QED
    BY <1>1, <1>2, <1>3

\* Paired ranks stay paired until the report, and are doomed there.
LEMMA PartingPaired ==
    ASSUME Lockstep, Met, Paired, NEW turn, Leave(turn),
           \A r \in Ranks : at'[r] \in Successors(r)
    PROVE  Paired' \/ Doomed'
<1>1. Alive' = Alive
    BY DEF Leave, fixed, Alive
<1>2. PICK k \in 1..8 : \A r \in Ranks : at[r].index = k
    <2>1. \A q, r \in Ranks : at[q].index = at[r].index /\ at[r].index \in 1..8
        BY PairedSteps DEF Paired
    <2>2. Ranks # {}
        BY RankAssumption
    <2> QED
        BY <2>1, <2>2
<1>3. ASSUME NEW r \in Ranks, ~AtEnd(r)
      PROVE  /\ at'[r] \in Alive /\ at'[r].segment = at[r].segment
             /\ at'[r].index = k + 1 /\ at'[r].iteration = at[r].iteration
             /\ Task(at'[r]) = Script[at[r].segment][k + 1]
    <2>1. at[r] \in Alive
        BY PairedSteps
    <2>2. at[r].index # Len(Script[at[r].segment])
        BY <1>3 DEF AtEnd
    <2>3. at'[r] = [at[r] EXCEPT !.index = @ + 1]
        BY <1>3, <2>1, Steps
    <2> QED
        BY <1>2, <2>1, <2>2, <2>3, Advance
<1>4. CASE k = 8
    <2>1. ASSUME NEW r \in Ranks PROVE at'[r] \in Alive /\ Task(at'[r]).op = "status"
        <3>1. CASE at[r].segment = "converged" /\ AtEnd(r)
            <4>1. at[r] \in Alive /\ Successors(r) = Onward(at[r])
                BY <3>1, PairedSteps, Steps
            <4>2. Route(at[r], at'[r])
                BY <4>1, Routes DEF Sorted
            <4>3. at'[r] \in Alive /\ at'[r].index = 1 /\ at'[r].segment \in Solving
                BY <3>1, <4>2 DEF Route
            <4> QED
                BY <4>3, FirstTask
        <3>2. CASE at[r].segment = "stopped" /\ ~AtEnd(r)
            <4>1. Task(at'[r]) = Boundary("ProducerReport")
                BY <1>3, <1>4, <3>2, StoppedBegins
            <4> QED
                BY <1>3, <3>2, <4>1 DEF Boundary
        <3> QED
            BY <1>2, <1>4, <3>1, <3>2, PairedSteps
    <2>2. PICK r \in Ranks : at[r].segment = "stopped"
        BY DEF Paired
    <2>3. ~AtEnd(r)
        BY <2>2, PairedSteps
    <2>4. at'[r].segment = "stopped" /\ at'[r].index = 9
        BY <1>3, <1>4, <2>2, <2>3
    <2>5. PICK q \in Ranks : at[q].segment = "converged"
        BY DEF Paired
    <2>6. at'[q].index = 1
        <3>1. AtEnd(q) /\ at[q] \in Alive
            BY <1>2, <1>4, <2>5, PairedSteps
        <3> QED
            BY <3>1, Steps
    <2>7. at'[q] # at'[r]
        BY <2>4, <2>6
    <2> QED
        BY <1>1, <2>1, <2>4, <2>7 DEF Doomed
<1>5. CASE k # 8
    <2>1. \A r \in Ranks : ~AtEnd(r) /\ at[r].segment \in {"converged", "stopped"}
        BY <1>2, <1>5, PairedSteps
    <2>2. k + 1 \in 1..8
        BY <1>5
    <2>3. \A r \in Ranks : /\ at'[r] \in Alive /\ at'[r].segment = at[r].segment
                           /\ at'[r].index = k + 1 /\ at'[r].iteration = at[r].iteration
        BY <1>3, <2>1
    <2>4. \A r \in Ranks :
             /\ Ahead(at'[r]).index = IF Script.converged[k + 1].op = "halo" THEN (k + 1) + 1
                                      ELSE k + 1
             /\ Ahead(at'[r]).index <= 8
        BY <2>1, <2>2, <2>3, ResidualTasks
    <2>5. \A q, r \in Ranks : Ahead(at'[q]).index = Ahead(at'[r]).index
        BY <2>4
    <2>6. \A q, r \in Ranks : at'[q].iteration = at'[r].iteration
        BY <2>3 DEF Paired
    <2>7. \A s \in {"converged", "stopped"} : \E r \in Ranks : at'[r].segment = s
        BY <2>3 DEF Paired
    <2> QED
        BY <1>1, <2>1, <2>3, <2>4, <2>5, <2>6, <2>7 DEF Paired
<1> QED
    BY <1>4, <1>5

\* Where the call goes on.
LEMMA NextPlace ==
    ASSUME Lockstep, Met, NEW turn, Leave(turn),
           \A r \in Ranks : Judge(r) = Unanswered,
           \A r \in Ranks : Forks = {} \/ turn[r] \in Forks,
           NEW r \in Ranks
    PROVE  /\ at[r] \in Alive /\ Done(r) = at[r].index
           /\ ~AtEnd(r) => /\ at'[r] \in Alive /\ at'[r].segment = at[r].segment
                           /\ at'[r].index = at[r].index + 1
                           /\ at'[r].iteration = at[r].iteration
           /\ AtEnd(r) =>
                 /\ at'[r] \in Alive /\ at'[r].index = 1
                 /\ at'[r].segment \in Solving =>
                       /\ at[r].segment \in Solving \cup {"admit"}
                       /\ 32 * at[r].iteration + Slack[at[r].segment]
                             + Len(Script[at[r].segment])
                              <= 32 * at'[r].iteration + Slack[at'[r].segment]
<1>1. at'[r] \in Successors(r)
    BY OwnWay
<1>2. at[r] \in Alive /\ Done(r) = at[r].index
    BY DEF Lockstep, Entered, Met, Done
<1>3. ASSUME ~AtEnd(r)
      PROVE  /\ at'[r] \in Alive /\ at'[r].segment = at[r].segment
             /\ at'[r].index = at[r].index + 1 /\ at'[r].iteration = at[r].iteration
    <2>1. at[r].index # Len(Script[at[r].segment])
        BY <1>3 DEF AtEnd
    <2>2. at'[r] = [at[r] EXCEPT !.index = @ + 1]
        BY <1>1, <1>2, <1>3, Steps
    <2> QED
        BY <1>2, <2>1, <2>2, Advance
<1>4. ASSUME AtEnd(r)
      PROVE  /\ at'[r] \in Alive /\ at'[r].index = 1
             /\ at'[r].segment \in Solving =>
                   /\ at[r].segment \in Solving \cup {"admit"}
                   /\ 32 * at[r].iteration + Slack[at[r].segment] + Len(Script[at[r].segment])
                          <= 32 * at'[r].iteration + Slack[at'[r].segment]
    BY <1>1, <1>2, <1>4, Steps
<1> QED
    BY <1>2, <1>3, <1>4

\* Ranks whose call goes on keep in lockstep.
LEMMA GoingOn ==
    ASSUME Lockstep, Met, NEW turn, Leave(turn),
           \A r \in Ranks : Judge(r) = Unanswered,
           \A r \in Ranks : Forks = {} \/ turn[r] \in Forks
    PROVE  Lockstep'
<1>1. session' = session /\ trace' = trace /\ Alive' = Alive
    BY DEF Leave, fixed, Alive
<1>2. DOMAIN inside' = Ranks /\ \A r \in Ranks : inside'[r].op = "outside"
    BY DEF Leave, Outside
<1>3. /\ DOMAIN call' = Ranks /\ DOMAIN at' = Ranks
      /\ \A r \in Ranks : call'[r] = call[r]
    BY DEF Leave
<1>4. \A r \in Ranks : at'[r] \in Successors(r)
    BY OwnWay
<1>5. \A r \in Ranks : at[r] \in Alive /\ Done(r) = at[r].index
    BY NextPlace
<1>6. ASSUME NEW r \in Ranks, ~AtEnd(r)
      PROVE  /\ at'[r] \in Alive /\ at'[r].segment = at[r].segment
             /\ at'[r].index = at[r].index + 1 /\ at'[r].iteration = at[r].iteration
    BY <1>6, NextPlace
<1>7. ASSUME NEW r \in Ranks, AtEnd(r)
      PROVE  /\ at'[r] \in Alive /\ at'[r].index = 1
             /\ at'[r].segment \in Solving =>
                   /\ at[r].segment \in Solving \cup {"admit"}
                   /\ 32 * at[r].iteration + Slack[at[r].segment] + Len(Script[at[r].segment])
                          <= 32 * at'[r].iteration + Slack[at'[r].segment]
    BY <1>7, NextPlace
<1>8. Kinds'
    BY <1>1, <1>2, <1>3, <1>6, <1>7 DEF Lockstep, Kinds
<1>9. Entered'
    BY <1>2 DEF Entered
<1>10. Room'
    <2> SUFFICES ASSUME NEW r \in Ranks,
                        at'[r].segment \in Solving
                            \/ (at'[r].segment = "admit" /\ Done(r)' >= 2)
                 PROVE  Len(trace[r]) <= 32 * at'[r].iteration + Slack[at'[r].segment] + Done(r)'
        BY <1>1 DEF Room
    <2>1. Done(r)' = at'[r].index - 1
        BY <1>2 DEF Done
    <2>2. at[r].index \in Nat
        BY <1>5 DEF Alive
    <2>3. CASE ~AtEnd(r)
        <3>1. Done(r)' = Done(r)
            <4>1. \A n \in Nat : (n + 1) - 1 = n
                OBVIOUS
            <4> QED
                BY <1>5, <1>6, <2>1, <2>2, <2>3, <4>1
        <3>2. at[r].segment \in Solving \/ (at[r].segment = "admit" /\ Done(r) >= 2)
            BY <1>6, <2>3, <3>1
        <3> QED
            BY <1>6, <2>3, <3>1, <3>2 DEF Lockstep, Room
    <2>4. CASE AtEnd(r)
        <3>1. Done(r)' = 0
            BY <1>7, <2>1, <2>4
        <3>2. at'[r].segment \in Solving
            BY <3>1
        <3>3. at[r].index = Len(Script[at[r].segment])
            BY <2>4 DEF AtEnd
        <3>4. at[r].segment \in Solving \/ (at[r].segment = "admit" /\ Done(r) >= 2)
            <4>1. at[r].segment = "admit" => Done(r) = 4
                BY <1>5, <3>3, AdmitSegment
            <4> QED
                BY <1>7, <2>4, <3>2, <4>1
        <3>5. Len(trace[r]) <= 32 * at[r].iteration + Slack[at[r].segment]
                               + Len(Script[at[r].segment])
            BY <1>5, <3>3, <3>4 DEF Lockstep, Room
        <3>6. /\ Len(trace[r]) \in Nat /\ at[r].iteration \in Nat /\ at'[r].iteration \in Nat
              /\ Slack[at[r].segment] \in Nat /\ Slack[at'[r].segment] \in Nat
              /\ Len(Script[at[r].segment]) \in Nat
            <4>1. Len(trace[r]) \in Nat
                BY DEF Lockstep, Kinds
            <4>2. \A p \in Alive : p.iteration \in Nat
                BY RankAssumption DEF Alive
            <4>3. \A s \in Solving \cup {"admit"} : Slack[s] \in Nat
                BY DEF Slack, Solving
            <4> QED
                BY <1>5, <1>7, <2>2, <2>4, <3>2, <3>3, <3>4, <4>1, <4>2, <4>3
        <3>7. 32 * at[r].iteration + Slack[at[r].segment] + Len(Script[at[r].segment])
                  <= 32 * at'[r].iteration + Slack[at'[r].segment]
            BY <1>7, <2>4, <3>2
        <3>8. PICK n \in Nat, i \in Nat, s \in Nat, e \in Nat, j \in Nat, t \in Nat, d \in Nat :
                 /\ n = Len(trace[r]) /\ i = at[r].iteration /\ s = Slack[at[r].segment]
                 /\ e = Len(Script[at[r].segment]) /\ j = at'[r].iteration
                 /\ t = Slack[at'[r].segment] /\ d = Done(r)'
            <4>1. Done(r)' \in Nat
                BY <3>1
            <4> QED
                BY <3>6, <4>1
        <3>9. d = 0 /\ n <= 32 * i + s + e /\ 32 * i + s + e <= 32 * j + t
            BY <3>1, <3>5, <3>7, <3>8
        <3>10. n <= 32 * j + t + d
            BY <3>9
        <3> QED
            BY <3>8, <3>10
    <2> QED
        BY <2>3, <2>4
<1>11. SameCall'
    BY <1>3 DEF Lockstep, SameCall
<1>12. Modes'
    BY <1>4, PartingTogether, PartingPaired, MeetingAlike DEF Lockstep, Modes
<1> QED
    BY <1>8, <1>9, <1>10, <1>11, <1>12 DEF Lockstep

-----------------------------------------------------------------------------
(* The theorem                                                              *)

\* Leaving an operation keeps the ranks in lockstep.
LEMMA LeaveStep ==
    ASSUME Lockstep, Met, NEW turn, Leave(turn),
           \A r \in Ranks : Forks = {} \/ turn[r] \in Forks
    PROVE  Lockstep'
BY LeaveAnswered, GoingOn, MeetingAlike DEF Alike

\* A collective operation ends with a turn for every rank.
LEMMA Turns ==
    ASSUME Collective
    PROVE  Met /\ \E turn : /\ Leave(turn)
                           /\ \A r \in Ranks : Forks = {} \/ turn[r] \in Forks
<1>1. CASE Gather
    <2>1. CASE Forks = {} /\ Leave(at)
        BY <1>1, <2>1 DEF Gather
    <2>2. ASSUME NEW p \in Forks, Leave([r \in Ranks |-> p])
          PROVE  \E turn : /\ Leave(turn)
                          /\ \A r \in Ranks : Forks = {} \/ turn[r] \in Forks
        <3>1. \A r \in Ranks : [q \in Ranks |-> p][r] \in Forks
            OBVIOUS
        <3> QED
            BY <2>2, <3>1
    <2> QED
        BY <1>1, <2>1, <2>2 DEF Gather
<1>2. ASSUME NEW stray \in Ranks, Drift(stray)
      PROVE  Met /\ \E turn : /\ Leave(turn)
                             /\ \A r \in Ranks : Forks = {} \/ turn[r] \in Forks
    <2>1. PICK p \in Forks, q \in Forks : Leave([r \in Ranks |-> IF r = stray THEN q ELSE p])
        BY <1>2 DEF Drift
    <2>2. \A r \in Ranks : [s \in Ranks |-> IF s = stray THEN q ELSE p][r] \in Forks
        OBVIOUS
    <2> QED
        BY <1>2, <2>1, <2>2 DEF Drift
<1> QED
    BY <1>1, <1>2 DEF Collective

\* Initially, all ranks are about to begin the first call.
THEOREM LockstepInit == Init => Lockstep
<1> SUFFICES ASSUME Init PROVE Lockstep
    OBVIOUS
<1> DEFINE p == StartOf(1)
<1>1. /\ session \in Sessions
      /\ call = [r \in Ranks |-> 1] /\ at = [r \in Ranks |-> p]
      /\ inside = [r \in Ranks |-> Outside] /\ trace = [r \in Ranks |-> <<>>]
    BY DEF Init
<1>2. /\ p = Over \/ p \in Alive
      /\ p # Over => p.segment \in Openings /\ p.index = 1
    <2>1. 0 \in Nat /\ 0 + 1 = 1
        OBVIOUS
    <2> QED
        BY <1>1, <2>1, Starts
<1> HIDE DEF p
<1>3. /\ Ahead(p) = p /\ ~InRun(p)
      /\ p.segment \notin Solving /\ (p.segment = "admit" => p.index = 1)
    BY <1>2, Beginnings
<1>4. \A r \in Ranks : inside[r].op = "outside"
    BY <1>1 DEF Outside
<1>5. Kinds
    BY <1>1, <1>2 DEF Kinds
<1>6. Entered
    BY <1>4 DEF Entered
<1>7. Room
    <2>1. ASSUME NEW r \in Ranks
          PROVE  at[r].segment \notin Solving /\ ~(at[r].segment = "admit" /\ Done(r) >= 2)
        <3>1. Done(r) = p.index - 1
            BY <1>1, <1>4 DEF Done
        <3> QED
            BY <1>1, <1>3, <3>1
    <2> QED
        BY <2>1 DEF Room
<1>8. SameCall
    BY <1>1 DEF SameCall
<1>9. Together
    BY <1>1, <1>3 DEF Together
<1> QED
    BY <1>5, <1>6, <1>7, <1>8, <1>9 DEF Lockstep, Modes

\* Every step keeps the ranks in lockstep, whatever fails and whoever drifts.
THEOREM LockstepStep == Lockstep /\ [Next]_vars => Lockstep'
<1> SUFFICES ASSUME Lockstep, [Next]_vars PROVE Lockstep'
    OBVIOUS
<1>1. CASE UNCHANGED vars
    BY <1>1, Unmoved DEF vars, fixed, place
<1>2. CASE Collective
    BY <1>2, Turns, LeaveStep
<1>3. ASSUME NEW r \in Ranks, RankStep(r) PROVE Lockstep'
    <2>1. CASE Enter(r)
        BY <2>1, EnterStep
    <2>2. CASE LeaveHalo(r)
        BY <2>2, LeaveHaloStep
    <2>3. ASSUME NEW q \in Ranks, Send(r, q) \/ Receive(q, r) \/ Transfer(r, q)
          PROVE  Lockstep'
        BY <2>3, Unmoved DEF Send, Receive, Transfer, fixed, place
    <2> QED
        BY <1>3, <2>1, <2>2, <2>3 DEF RankStep
<1> QED
    BY <1>1, <1>2, <1>3 DEF Next

\* No rank is ever inside a collective operation that a peer has left out, for
\* any number of ranks: protocol.rs:68, runtime.rs:303.
THEOREM AlwaysMatched == Spec => []CollectivesMatch
<1>1. Init => Lockstep
    BY LockstepInit
<1>2. Lockstep /\ [Next]_vars => Lockstep'
    BY LockstepStep
<1>3. Lockstep => CollectivesMatch
    BY LockstepMatches
<1> QED
    BY <1>1, <1>2, <1>3, PTL DEF Spec

-----------------------------------------------------------------------------
(* Halo messages                                                            *)

\* A rank has made an exchange, or has none to make: there is no halo exchange
\* at its place.
Made(r, p) == ~InHalo(r) \/ p \in passed[r]

\* A message the owner has handed to a transport that buffers.
Underway(p) == eager /\ p \in session.ghosts /\ Made(p[1], p) /\ ~Made(p[2], p)

(* The owner of a value makes the exchange before its receiver, or both make it *)
(* together.                                                                    *)
Passing ==
    /\ DOMAIN passed = Ranks
    /\ \A r \in Ranks : passed[r] \subseteq session.ghosts
    /\ \A r \in Ranks : ~InHalo(r) => passed[r] = {}
    /\ \A p \in session.ghosts : Made(p[2], p) => Made(p[1], p)
    /\ ~eager => \A p \in session.ghosts : Made(p[1], p) => Made(p[2], p)

\* What is buffered was sent for the exchange in which its receiver is.
Buffers ==
    /\ DOMAIN wire = Ranks \X Ranks
    /\ \A p \in Ranks \X Ranks : wire[p] = IF Underway(p) THEN <<Stamp(p[2])>> ELSE <<>>

\* Ranks that compute the residual in different parts have as many records.
Level == Paired => \A q, r \in Ranks : Len(Coming(q)) = Len(Coming(r))

Halos == Level /\ Passing /\ Buffers

\* The pairs of a session are pairs of two ranks.
LEMMA Pairing ==
    ASSUME Lockstep, NEW p \in session.ghosts
    PROVE  /\ p \in Ranks \X Ranks /\ p[1] \in Ranks /\ p[2] \in Ranks /\ p[1] # p[2]
           /\ p = <<p[1], p[2]>>
BY SessionAssumption DEF Lockstep, Kinds

\* A rank that exchanges halo values is at a place of the solver, and comes to a
\* boundary next.
LEMMA HaloPlaces ==
    ASSUME Lockstep, NEW r \in Ranks, InHalo(r)
    PROVE  /\ at[r] \in Alive /\ Task(at[r]).op = "halo" /\ inside[r].op = "outside"
           /\ Task(Ahead(at[r])).op = "status" /\ InRun(Ahead(at[r]))
           /\ Coming(r) = Append(trace[r], Record(Ahead(at[r])))
           /\ Len(Coming(r)) = Len(trace[r]) + 1
<1>1. at[r] \in Alive /\ Task(at[r]).op = "halo" /\ inside[r].op = "outside"
    BY DEF InHalo, Instruction, Task, Lockstep, Kinds, Entered
<1> DEFINE n == Ahead(at[r])
<1>2. n \in Alive /\ Task(n).op = "status" /\ n.index = at[r].index + 1 /\ at[r].index # 1
    BY <1>1, AheadFacts, TaskFacts
<1> HIDE DEF n
<1>3. n.segment \in Solving \/ (n.segment = "admit" /\ n.index = 4)
    BY <1>2, StatusPlaces
<1>4. InRun(n) /\ ~(n.segment = "admit" /\ n.index = 2)
    BY <1>3 DEF InRun, Solving
<1>5. Coming(r) = Append(trace[r], Record(n))
    BY <1>1, <1>2, <1>4 DEF Coming, Recorded, n
<1>6. trace[r] \in Seq(Notes) /\ Record(n) \in Notes
    <2>1. Task(n).phase \in StatusPhases /\ n.iteration \in Nat
        BY <1>2, TaskFacts, RankAssumption DEF Alive
    <2> QED
        BY <2>1 DEF Lockstep, Kinds, Record, Notes
<1>7. Len(Append(trace[r], Record(n))) = Len(trace[r]) + 1
    BY <1>6
<1> QED
    BY <1>1, <1>2, <1>4, <1>5, <1>7 DEF n

\* Ranks in a halo exchange are in the same exchange of the same call.
LEMMA SameStamp ==
    ASSUME Lockstep, Level, NEW q \in Ranks, NEW r \in Ranks, InHalo(q), InHalo(r)
    PROVE  Stamp(q) = Stamp(r)
<1>1. Len(Coming(q)) = Len(Coming(r))
    <2>1. CASE Together
        BY <2>1, HaloPlaces DEF Together
    <2>2. CASE Paired
        BY <2>2 DEF Level
    <2>3. CASE Doomed
        BY <2>3, HaloPlaces DEF Doomed
    <2> QED
        BY <2>1, <2>2, <2>3 DEF Lockstep, Modes
<1>2. Len(trace[q]) \in Nat /\ Len(trace[r]) \in Nat
    BY DEF Lockstep, Kinds
<1>3. Len(Coming(q)) = Len(trace[q]) + 1 /\ Len(Coming(r)) = Len(trace[r]) + 1
    BY HaloPlaces
<1>4. Len(trace[q]) = Len(trace[r])
    <2>1. \A m, n \in Nat : m + 1 = n + 1 => m = n
        OBVIOUS
    <2>2. Len(trace[q]) + 1 = Len(trace[r]) + 1
        BY <1>1, <1>3
    <2> QED
        BY <1>2, <2>1, <2>2
<1> QED
    BY <1>4 DEF Stamp, Lockstep, SameCall

\* No payload is received in another exchange than the one it was sent for.
LEMMA HalosFresh ==
    ASSUME Lockstep, Halos
    PROVE  HaloFresh
<1> SUFFICES ASSUME NEW o \in Ranks, NEW r \in Ranks, Facing(r, o, r)
             PROVE  /\ wire[<<o, r>>] # <<>> => Head(wire[<<o, r>>]) = Stamp(r)
                    /\ ~eager /\ Facing(o, o, r) => Stamp(o) = Stamp(r)
    BY DEF HaloFresh
<1>1. wire[<<o, r>>] \in {<<Stamp(r)>>, <<>>}
    BY DEF Halos, Buffers
<1>2. Head(<<Stamp(r)>>) = Stamp(r)
    OBVIOUS
<1>3. ASSUME Facing(o, o, r) PROVE Stamp(o) = Stamp(r)
    BY <1>3, SameStamp DEF Facing, Halos
<1> QED
    BY <1>1, <1>2, <1>3

\* A step that moves no rank into or out of a halo exchange, and records nothing
\* for a rank in one, leaves the messages as they are.
LEMMA HalosKept ==
    ASSUME Lockstep, Passing, Buffers, UNCHANGED <<session, eager, passed, wire>>,
           \A r \in Ranks : InHalo(r)' = InHalo(r),
           \A r \in Ranks : InHalo(r) => Stamp(r)' = Stamp(r)
    PROVE  Passing' /\ Buffers'
<1>1. \A p \in session.ghosts : Made(p[1], p)' = Made(p[1], p) /\ Made(p[2], p)' = Made(p[2], p)
    BY Pairing DEF Made
<1>2. Passing'
    BY <1>1 DEF Passing
<1>3. ASSUME NEW p \in Ranks \X Ranks
      PROVE  wire'[p] = IF Underway(p)' THEN <<Stamp(p[2])'>> ELSE <<>>
    <2>1. Underway(p)' = Underway(p)
        BY <1>1 DEF Underway
    <2>2. p[2] \in Ranks
        OBVIOUS
    <2>3. Underway(p) => Stamp(p[2])' = Stamp(p[2])
        BY <2>2 DEF Underway, Made
    <2> QED
        BY <2>1, <2>3 DEF Buffers
<1>4. Buffers'
    BY <1>3 DEF Buffers
<1> QED
    BY <1>2, <1>4

\* Entering an operation concerns no halo exchange.
LEMMA HalosEnter ==
    ASSUME Lockstep, Halos, NEW r \in Ranks, Enter(r)
    PROVE  Halos'
<1>1. /\ at[r] \in Alive /\ inside[r].op = "outside" /\ Task(at[r]).op # "halo"
      /\ Task(at[r]).op # "outside"
      /\ at' = at /\ call' = call /\ session' = session
      /\ inside'[r].op = Task(at[r]).op
      /\ \A q \in Ranks : q # r => inside'[q] = inside[q] /\ trace'[q] = trace[q]
      /\ trace'[r] = Recorded(trace[r], at[r])
    BY EnterEffect
<1>2. UNCHANGED <<session, eager, passed, wire>>
    BY DEF Enter, fixed, halo
<1>3. \A q \in Ranks : InHalo(q)' = InHalo(q)
    BY <1>1 DEF InHalo, Instruction
<1>4. ~InHalo(r)
    BY <1>1 DEF InHalo, Instruction, Task
<1>5. \A q \in Ranks : InHalo(q) => Stamp(q)' = Stamp(q)
    BY <1>1, <1>4 DEF Stamp
<1>6. \A q \in Ranks : Coming(q)' = Coming(q)
    <2>1. Ahead(at[r]) = at[r]
        BY <1>1, AheadFacts
    <2> QED
        BY <1>1, <2>1 DEF Coming
<1>7. Level'
    <2>1. Alive' = Alive
        BY <1>1 DEF Alive
    <2>2. Paired' => Paired
        BY <1>1, <2>1 DEF Paired
    <2> QED
        BY <1>6, <2>2 DEF Halos, Level
<1> QED
    BY <1>2, <1>3, <1>5, <1>7, HalosKept DEF Halos

\* Messages do not touch what the ranks have recorded.
LEMMA LevelKept ==
    ASSUME Lockstep, Level, UNCHANGED <<session, call, at, inside, trace>>
    PROVE  Level'
<1>1. Alive' = Alive
    BY DEF Alive
<1>2. \A r \in Ranks : Coming(r)' = Coming(r)
    BY DEF Coming
<1>3. Paired' => Paired
    BY <1>1 DEF Paired
<1> QED
    BY <1>2, <1>3 DEF Level

\* A rank leaves once it has made all exchanges.
LEMMA HalosLeave ==
    ASSUME Lockstep, Halos, NEW r \in Ranks, LeaveHalo(r)
    PROVE  Halos'
<1>1. /\ at[r] \in Alive /\ Task(at[r]).op = "halo" /\ inside[r].op = "outside"
      /\ session' = session /\ call' = call /\ inside' = inside /\ trace' = trace
      /\ at'[r] \in Alive /\ Task(at'[r]).op = "status"
      /\ at'[r].segment = at[r].segment /\ at'[r].index = at[r].index + 1
      /\ at'[r].iteration = at[r].iteration
      /\ \A q \in Ranks : Ahead(at'[q]) = Ahead(at[q])
      /\ \A q \in Ranks : q # r => at'[q] = at[q]
    BY HaloEffect
<1>2. /\ InHalo(r) /\ Legs(r) = {} /\ wire' = wire /\ eager' = eager
      /\ passed' = [passed EXCEPT ![r] = {}]
    BY DEF LeaveHalo, fixed
<1>3. /\ DOMAIN passed' = Ranks /\ passed'[r] = {}
      /\ \A q \in Ranks : q # r => passed'[q] = passed[q]
    BY <1>2 DEF Halos, Passing
<1>4. ~InHalo(r)' /\ \A q \in Ranks : q # r => InHalo(q)' = InHalo(q)
    BY <1>1 DEF InHalo, Instruction, Task
<1>5. \A q \in Ranks : Stamp(q)' = Stamp(q)
    BY <1>1 DEF Stamp
<1>6. ASSUME NEW p \in session.ghosts, NEW q \in {p[1], p[2]}
      PROVE  Made(q, p)' = Made(q, p)
    <2>1. q \in Ranks
        BY Pairing
    <2>2. CASE q = r
        <3>1. p \in passed[r]
            BY <1>2, <1>6, <2>2 DEF Legs
        <3> QED
            BY <1>4, <2>2, <3>1 DEF Made
    <2>3. CASE q # r
        BY <1>3, <1>4, <2>1, <2>3 DEF Made
    <2> QED
        BY <2>2, <2>3
<1>7. Passing'
    <2>1. \A q \in Ranks : passed'[q] \subseteq session.ghosts
        BY <1>3 DEF Halos, Passing
    <2>2. \A q \in Ranks : ~InHalo(q)' => passed'[q] = {}
        BY <1>3, <1>4 DEF Halos, Passing
    <2>3. \A p \in session.ghosts : Made(p[2], p)' => Made(p[1], p)'
        BY <1>6 DEF Halos, Passing
    <2>4. ~eager => \A p \in session.ghosts : Made(p[1], p)' => Made(p[2], p)'
        BY <1>6 DEF Halos, Passing
    <2> QED
        BY <1>1, <1>2, <1>3, <2>1, <2>2, <2>3, <2>4 DEF Passing
<1>8. Buffers'
    <2>1. \A p \in Ranks \X Ranks : Underway(p)' = Underway(p)
        BY <1>1, <1>2, <1>6 DEF Underway
    <2>2. \A p \in Ranks \X Ranks : Stamp(p[2])' = Stamp(p[2])
        BY <1>5
    <2> QED
        BY <1>2, <2>1, <2>2 DEF Halos, Buffers
<1>9. Level'
    <2>1. Alive' = Alive
        BY <1>1 DEF Alive
    <2>2. \A q \in Ranks : Coming(q)' = Coming(q)
        BY <1>1 DEF Coming
    <2>3. \A q \in Ranks : /\ at'[q] \in Alive => at[q] \in Alive
                           /\ at'[q].segment = at[q].segment
                           /\ at'[q].iteration = at[q].iteration
        BY <1>1
    <2>4. Paired' => Paired
        BY <1>1, <2>1, <2>3 DEF Paired
    <2> QED
        BY <2>2, <2>4 DEF Halos, Level
<1> QED
    BY <1>7, <1>8, <1>9 DEF Halos

\* An owner's message is for the exchange its receiver is in, too.
LEMMA HalosSend ==
    ASSUME Lockstep, Halos, NEW o \in Ranks, NEW r \in Ranks, Send(o, r)
    PROVE  Halos'
<1> DEFINE p == <<o, r>>
<1>1. /\ UNCHANGED <<session, eager, call, at, inside, trace>> /\ eager
      /\ InHalo(o) /\ p \in session.ghosts /\ p \notin passed[o]
    BY DEF Send, Facing, Legs, fixed, place
<1>2. /\ DOMAIN passed' = Ranks /\ passed'[o] = passed[o] \cup {p}
      /\ \A q \in Ranks : q # o => passed'[q] = passed[q]
    BY DEF Send, Halos, Passing
<1>3. /\ DOMAIN wire' = Ranks \X Ranks /\ wire'[p] = Append(wire[p], Stamp(o))
      /\ \A x \in Ranks \X Ranks : x # p => wire'[x] = wire[x]
    BY DEF Send, Halos, Buffers
<1>4. p \in Ranks \X Ranks /\ p[1] = o /\ p[2] = r /\ o # r
    BY <1>1, Pairing
<1>5. \A q \in Ranks : InHalo(q)' = InHalo(q) /\ Stamp(q)' = Stamp(q)
    BY <1>1 DEF InHalo, Instruction, Stamp
<1> HIDE DEF p
<1>6. Made(o, p)' /\ ~Made(o, p) /\ ~Made(r, p) /\ ~Made(r, p)'
    <2>1. ~Made(o, p) /\ Made(o, p)'
        BY <1>1, <1>2 DEF Made
    <2>2. ~Made(r, p)
        BY <1>1, <1>4, <2>1 DEF Halos, Passing
    <2>3. Made(r, p)' = Made(r, p)
        BY <1>2, <1>4, <1>5 DEF Made
    <2> QED
        BY <2>1, <2>2, <2>3
<1>7. \A x \in session.ghosts : x # p => /\ Made(x[1], x)' = Made(x[1], x)
                                        /\ Made(x[2], x)' = Made(x[2], x)
    BY <1>2, <1>5, Pairing DEF Made
<1>8. Passing'
    <2>1. \A q \in Ranks : passed'[q] \subseteq session.ghosts
        BY <1>1, <1>2 DEF Halos, Passing
    <2>2. \A q \in Ranks : ~InHalo(q)' => passed'[q] = {}
        BY <1>1, <1>2, <1>5 DEF Halos, Passing
    <2>3. \A x \in session.ghosts : Made(x[2], x)' => Made(x[1], x)'
        BY <1>4, <1>6, <1>7 DEF Halos, Passing
    <2> QED
        BY <1>1, <1>2, <2>1, <2>2, <2>3 DEF Passing
<1>9. Buffers'
    <2>1. ASSUME NEW x \in Ranks \X Ranks
          PROVE  wire'[x] = IF Underway(x)' THEN <<Stamp(x[2])'>> ELSE <<>>
        <3>1. CASE x = p
            <4>1. wire[p] = <<>>
                BY <1>4, <1>6 DEF Halos, Buffers, Underway
            <4>2. Stamp(o) = Stamp(r)
                BY <1>6, SameStamp DEF Halos, Made
            <4>3. Underway(p)'
                BY <1>1, <1>4, <1>6 DEF Underway
            <4>4. wire'[p] = <<Stamp(r)>>
                BY <1>3, <4>1, <4>2
            <4> QED
                BY <1>4, <1>5, <3>1, <4>3, <4>4
        <3>2. CASE x # p
            <4>1. Underway(x)' = Underway(x)
                BY <1>1, <1>7, <3>2 DEF Underway
            <4>2. Stamp(x[2])' = Stamp(x[2])
                BY <1>5
            <4> QED
                BY <1>3, <3>2, <4>1, <4>2 DEF Halos, Buffers
        <3> QED
            BY <3>1, <3>2
    <2> QED
        BY <1>3, <2>1 DEF Buffers
<1>10. Level'
    BY <1>1, LevelKept DEF Halos
<1> QED
    BY <1>8, <1>9, <1>10 DEF Halos

\* A receiver takes the one message the wire holds.
LEMMA HalosReceive ==
    ASSUME Lockstep, Halos, NEW o \in Ranks, NEW r \in Ranks, Receive(o, r)
    PROVE  Halos'
<1> DEFINE p == <<o, r>>
<1>1. /\ UNCHANGED <<session, eager, call, at, inside, trace>>
      /\ InHalo(r) /\ p \in session.ghosts /\ p \notin passed[r] /\ wire[p] # <<>>
    BY DEF Receive, Facing, Legs, fixed, place
<1>2. /\ DOMAIN passed' = Ranks /\ passed'[r] = passed[r] \cup {p}
      /\ \A q \in Ranks : q # r => passed'[q] = passed[q]
    BY DEF Receive, Halos, Passing
<1>3. /\ DOMAIN wire' = Ranks \X Ranks /\ wire'[p] = Tail(wire[p])
      /\ \A x \in Ranks \X Ranks : x # p => wire'[x] = wire[x]
    BY DEF Receive, Halos, Buffers
<1>4. p \in Ranks \X Ranks /\ p[1] = o /\ p[2] = r /\ o # r
    BY <1>1, Pairing
<1>5. \A q \in Ranks : InHalo(q)' = InHalo(q) /\ Stamp(q)' = Stamp(q)
    BY <1>1 DEF InHalo, Instruction, Stamp
<1> HIDE DEF p
<1>6. Made(o, p)' /\ Made(o, p) /\ Made(r, p)' /\ wire[p] = <<Stamp(r)>> /\ eager
    <2>1. Underway(p) /\ wire[p] = <<Stamp(r)>>
        BY <1>1, <1>4 DEF Halos, Buffers
    <2>2. Made(o, p) /\ eager
        BY <1>4, <2>1 DEF Underway
    <2>3. Made(o, p)' = Made(o, p)
        BY <1>2, <1>4, <1>5 DEF Made
    <2>4. Made(r, p)'
        BY <1>2 DEF Made
    <2> QED
        BY <2>1, <2>2, <2>3, <2>4
<1>7. \A x \in session.ghosts : x # p => /\ Made(x[1], x)' = Made(x[1], x)
                                        /\ Made(x[2], x)' = Made(x[2], x)
    BY <1>2, <1>5, Pairing DEF Made
<1>8. Passing'
    <2>1. \A q \in Ranks : passed'[q] \subseteq session.ghosts
        BY <1>1, <1>2 DEF Halos, Passing
    <2>2. \A q \in Ranks : ~InHalo(q)' => passed'[q] = {}
        BY <1>1, <1>2, <1>5 DEF Halos, Passing
    <2>3. \A x \in session.ghosts : Made(x[2], x)' => Made(x[1], x)'
        BY <1>4, <1>6, <1>7 DEF Halos, Passing
    <2> QED
        BY <1>1, <1>2, <1>6, <2>1, <2>2, <2>3 DEF Passing
<1>9. Buffers'
    <2>1. ASSUME NEW x \in Ranks \X Ranks
          PROVE  wire'[x] = IF Underway(x)' THEN <<Stamp(x[2])'>> ELSE <<>>
        <3>1. CASE x = p
            <4>1. Tail(<<Stamp(r)>>) = <<>>
                OBVIOUS
            <4>2. wire'[p] = <<>>
                BY <1>3, <1>6, <4>1
            <4>3. ~Underway(p)'
                BY <1>4, <1>6 DEF Underway
            <4> QED
                BY <3>1, <4>2, <4>3
        <3>2. CASE x # p
            <4>1. Underway(x)' = Underway(x)
                BY <1>1, <1>7, <3>2 DEF Underway
            <4>2. Stamp(x[2])' = Stamp(x[2])
                BY <1>5
            <4> QED
                BY <1>3, <3>2, <4>1, <4>2 DEF Halos, Buffers
        <3> QED
            BY <3>1, <3>2
    <2> QED
        BY <1>3, <2>1 DEF Buffers
<1>10. Level'
    BY <1>1, LevelKept DEF Halos
<1> QED
    BY <1>8, <1>9, <1>10 DEF Halos

\* Without a buffer, both ranks make the exchange.
LEMMA HalosTransfer ==
    ASSUME Lockstep, Halos, NEW o \in Ranks, NEW r \in Ranks, Transfer(o, r)
    PROVE  Halos'
<1> DEFINE p == <<o, r>>
<1>1. /\ UNCHANGED <<session, eager, call, at, inside, trace, wire>> /\ ~eager
      /\ p \in session.ghosts
    BY DEF Transfer, Facing, Legs, fixed, place
<1>2. /\ DOMAIN passed' = Ranks
      /\ passed'[o] = passed[o] \cup {p} /\ passed'[r] = passed[r] \cup {p}
      /\ \A q \in Ranks : q \notin {o, r} => passed'[q] = passed[q]
    BY DEF Transfer
<1>3. InHalo(o) /\ InHalo(r)
    BY DEF Transfer, Facing
<1>4. p \in Ranks \X Ranks /\ p[1] = o /\ p[2] = r /\ o # r
    BY <1>1, Pairing
<1>5. \A q \in Ranks : InHalo(q)' = InHalo(q) /\ Stamp(q)' = Stamp(q)
    BY <1>1 DEF InHalo, Instruction, Stamp
<1> HIDE DEF p
<1>6. Made(o, p)' /\ Made(r, p)'
    BY <1>2 DEF Made
<1>7. \A x \in session.ghosts : x # p => /\ Made(x[1], x)' = Made(x[1], x)
                                        /\ Made(x[2], x)' = Made(x[2], x)
    BY <1>2, <1>5, Pairing DEF Made
<1>8. Passing'
    <2>1. \A q \in Ranks : passed'[q] \subseteq session.ghosts
        BY <1>1, <1>2 DEF Halos, Passing
    <2>2. \A q \in Ranks : ~InHalo(q)' => passed'[q] = {}
        BY <1>2, <1>3, <1>5 DEF Halos, Passing
    <2>3. \A x \in session.ghosts : Made(x[2], x)' => Made(x[1], x)'
        BY <1>4, <1>6, <1>7 DEF Halos, Passing
    <2>4. \A x \in session.ghosts : Made(x[1], x)' => Made(x[2], x)'
        BY <1>1, <1>4, <1>6, <1>7 DEF Halos, Passing
    <2> QED
        BY <1>1, <1>2, <2>1, <2>2, <2>3, <2>4 DEF Passing
<1>9. Buffers'
    BY <1>1 DEF Halos, Buffers, Underway
<1>10. Level'
    BY <1>1, LevelKept DEF Halos
<1> QED
    BY <1>8, <1>9, <1>10 DEF Halos

\* Ranks that leave a collective operation all begin a halo exchange, or none.
LEMMA HaloTogether ==
    ASSUME Lockstep, Met, NEW turn, Leave(turn),
           \A r \in Ranks : Forks = {} \/ turn[r] \in Forks
    PROVE  /\ \A r \in Ranks : ~InHalo(r)
           /\ (\A r \in Ranks : InHalo(r)') \/ (\A r \in Ranks : ~InHalo(r)')
<1>1. \A r \in Ranks : at[r] \in Alive /\ Task(at[r]).op # "halo" /\ ~InHalo(r)
    BY DEF Lockstep, Entered, Met, InHalo, Instruction, Task
<1>2. CASE \/ \A r \in Ranks : Judge(r).kind = "rejected"
           \/ \A r \in Ranks : Judge(r) = Accepted
    <2>1. PICK n \in Nat, p \in Alive \cup {Over} :
              /\ \A r \in Ranks : call'[r] = n /\ at'[r] = p
              /\ p # Over => p.segment \in Openings /\ p.index = 1
        BY <1>2, NextCall
    <2>2. p = Over \/ Task(p).op # "halo"
        BY <2>1, TaskFacts
    <2>3. \A r \in Ranks : ~InHalo(r)'
        BY <2>1, <2>2 DEF InHalo, Instruction, Task
    <2> QED
        BY <1>1, <2>3
<1>3. CASE \A r \in Ranks : Judge(r) = Unanswered
    <2>1. ASSUME NEW r \in Ranks, AtEnd(r) PROVE ~InHalo(r)'
        <3>1. at'[r] \in Alive /\ at'[r].index = 1
            BY <1>3, <2>1, NextPlace
        <3>2. Task(at'[r]).op # "halo"
            BY <3>1, TaskFacts
        <3> QED
            BY <3>2 DEF InHalo, Instruction, Task
    <2>2. ASSUME NEW r \in Ranks, ~AtEnd(r)
          PROVE  /\ at'[r] \in Alive /\ at'[r].segment = at[r].segment
                 /\ at'[r].index = at[r].index + 1
                 /\ InHalo(r)' = (Task(at'[r]).op = "halo")
        <3>1. /\ at'[r] \in Alive /\ at'[r].segment = at[r].segment
              /\ at'[r].index = at[r].index + 1
            BY <1>3, <2>2, NextPlace
        <3>2. at'[r] # Over
            BY <3>1, AliveNotOver
        <3> QED
            BY <3>1, <3>2 DEF InHalo, Instruction, Task
    <2>3. CASE Together
        <3>1. \A q, r \in Ranks : at[q] = at[r]
            BY <1>1, <2>3, AheadFacts DEF Together
        <3>2. \A q, r \in Ranks : AtEnd(q) = AtEnd(r)
            BY <3>1 DEF AtEnd
        <3>3. ASSUME NEW q \in Ranks, NEW r \in Ranks, ~AtEnd(q)
              PROVE  InHalo(q)' = InHalo(r)'
            <4>1. ~AtEnd(r) /\ at[q] = at[r]
                BY <3>1, <3>2, <3>3
            <4>2. Task(at'[q]) = Task(at'[r])
                BY <2>2, <3>3, <4>1 DEF Task
            <4> QED
                BY <2>2, <3>3, <4>1, <4>2
        <3> QED
            BY <1>1, <2>1, <3>2, <3>3
    <2>4. CASE Paired
        <3>1. \A q, r \in Ranks : at[q].index = at[r].index
            BY <2>4, PairedSteps, <1>1, AheadFacts DEF Paired
        <3>2. ASSUME NEW r \in Ranks, at[r].index = 8 PROVE ~InHalo(r)'
            <4>1. CASE AtEnd(r)
                BY <2>1, <4>1
            <4>2. CASE ~AtEnd(r)
                <5>1. at[r].segment = "stopped"
                    BY <2>4, <3>2, <4>2, PairedSteps DEF Lockstep
                <5>2. Task(at'[r]) = Script["stopped"][9]
                    BY <2>2, <3>2, <4>2, <5>1 DEF Task
                <5>3. Task(at'[r]) = Boundary("ProducerReport")
                    BY <5>2, StoppedBegins
                <5>4. Task(at'[r]).op = "status"
                    BY <5>3 DEF Boundary
                <5>5. InHalo(r)' = (Task(at'[r]).op = "halo")
                    BY <2>2, <4>2
                <5> QED
                    BY <5>4, <5>5
            <4> QED
                BY <4>1, <4>2
        <3>3. ASSUME NEW q \in Ranks, NEW r \in Ranks, at[r].index # 8
              PROVE  InHalo(q)' = InHalo(r)'
            <4>1. PICK k \in 1..7 : at[q].index = k /\ at[r].index = k
                <5>1. at[r].index \in 1..8 /\ at[q].index = at[r].index
                    BY <2>4, <3>1, PairedSteps
                <5>2. \A k \in 1..8 : k # 8 => k \in 1..7
                    OBVIOUS
                <5> QED
                    BY <3>3, <5>1, <5>2
            <4>2. ~AtEnd(q) /\ ~AtEnd(r)
                BY <2>4, <4>1, PairedSteps
            <4>3. k + 1 \in 1..8
                OBVIOUS
            <4>4. \A s \in Ranks : at[s].segment \in {"converged", "stopped"}
                BY <2>4 DEF Paired
            <4>5. Task(at'[q]) = Script.converged[k + 1] /\ Task(at'[r]) = Script.converged[k + 1]
                BY <2>2, <4>1, <4>2, <4>3, <4>4, ResidualTasks
            <4> QED
                BY <2>2, <4>2, <4>5
        <3> QED
            BY <1>1, <3>1, <3>2, <3>3
    <2>5. ~Doomed
        BY <1>3, MeetingAlike
    <2> QED
        BY <2>3, <2>4, <2>5 DEF Lockstep, Modes
<1> QED
    BY <1>2, <1>3, MeetingAlike DEF Alike

\* Ranks that part have recorded as much as one another.
LEMMA LevelLeave ==
    ASSUME Lockstep, Level, Met, NEW turn, Leave(turn),
           \A r \in Ranks : Forks = {} \/ turn[r] \in Forks
    PROVE  Level'
<1> SUFFICES ASSUME Paired', NEW q \in Ranks, NEW r \in Ranks
             PROVE  Len(Coming(q)') = Len(Coming(r)')
    BY DEF Level
<1>1. /\ \A s \in Ranks : inside'[s].op = "outside" /\ trace'[s] = trace[s]
      /\ Alive' = Alive
    BY DEF Leave, Outside, fixed, Alive
<1>2. \A s \in Ranks : /\ at'[s] \in Alive /\ at'[s].segment \in {"converged", "stopped"}
                       /\ Ahead(at'[s]).index <= 8
                       /\ Ahead(at'[s]).index = Ahead(at'[r]).index
    BY <1>1 DEF Paired
<1>3. PICK x \in Alive, y \in Alive : x = at'[q] /\ y = at'[r]
    BY <1>2
<1>4. PICK k \in 1..8 : Ahead(x).index = k /\ Ahead(y).index = k
    <2>1. Ahead(x).index \in 1..15
        BY AheadFacts DEF Alive
    <2>2. \A k \in 1..15 : k <= 8 => k \in 1..8
        OBVIOUS
    <2> QED
        BY <1>2, <1>3, <2>1, <2>2
<1>5. /\ Ahead(x).segment \in {"converged", "stopped"}
      /\ Ahead(y).segment \in {"converged", "stopped"}
      /\ Ahead(x) \in Alive /\ Ahead(y) \in Alive
    BY <1>2, <1>3, AheadFacts
<1>6. Task(Ahead(x)) = Script.converged[k] /\ Task(Ahead(y)) = Script.converged[k]
    BY <1>4, <1>5, ResidualTasks
<1>7. ASSUME NEW s \in Ranks PROVE Judge(s) = Unanswered
    <2>1. CASE \/ \A t \in Ranks : Judge(t).kind = "rejected"
               \/ \A t \in Ranks : Judge(t) = Accepted
        <3>1. PICK n \in Nat, p \in Alive \cup {Over} :
                  /\ \A t \in Ranks : call'[t] = n /\ at'[t] = p
                  /\ p # Over => p.segment \in Openings /\ p.index = 1
            BY <2>1, NextCall
        <3>2. p.segment \notin {"converged", "stopped"}
            BY <3>1 DEF Over, Place, Openings
        <3> QED
            BY <1>2, <3>1, <3>2
    <2> QED
        BY <2>1, MeetingAlike DEF Alike
<1>8. ASSUME NEW s \in Ranks PROVE InRun(at[s]) /\ at[s] = Ahead(at[s]) /\ Coming(s) = trace[s]
    <2>1. at[s] \in Alive /\ Ahead(at[s]) = at[s] /\ Coming(s) = trace[s]
        BY AheadFacts DEF Lockstep, Entered, Met, Coming
    <2>2. at'[s].segment \in Solving
        BY <1>2 DEF Solving
    <2>3. CASE ~AtEnd(s)
        BY <1>7, <2>1, <2>2, <2>3, NextPlace DEF InRun
    <2>4. CASE AtEnd(s)
        <3>1. at[s].segment \in Solving \cup {"admit"}
            BY <1>7, <2>2, <2>4, NextPlace
        <3>2. at[s].segment = "admit" => at[s].index = 4
            BY <2>4, AdmitSegment DEF AtEnd
        <3> QED
            BY <2>1, <3>1, <3>2 DEF InRun
    <2> QED
        BY <2>3, <2>4
<1>9. Len(trace[q]) = Len(trace[r])
    <2>1. CASE Together
        BY <1>8, <2>1 DEF Together
    <2>2. CASE Paired
        BY <1>8, <2>2 DEF Level
    <2>3. ~Doomed
        BY <1>7, MeetingAlike
    <2> QED
        BY <2>1, <2>2, <2>3 DEF Lockstep, Modes
<1>10. Coming(q)' = Recorded(trace[q], Ahead(x)) /\ Coming(r)' = Recorded(trace[r], Ahead(y))
    BY <1>1, <1>3 DEF Coming
<1>11. trace[q] \in Seq(Notes) /\ trace[r] \in Seq(Notes)
    BY DEF Lockstep, Kinds
<1>12. CASE Script.converged[k].op = "status"
    <2>1. /\ Coming(q)' = Append(trace[q], Record(Ahead(x)))
          /\ Coming(r)' = Append(trace[r], Record(Ahead(y)))
        BY <1>5, <1>6, <1>10, <1>12 DEF Recorded
    <2>2. /\ Len(Append(trace[q], Record(Ahead(x)))) = Len(trace[q]) + 1
          /\ Len(Append(trace[r], Record(Ahead(y)))) = Len(trace[r]) + 1
        BY <1>11
    <2> QED
        BY <1>9, <2>1, <2>2
<1>13. CASE Script.converged[k].op # "status"
    BY <1>5, <1>6, <1>9, <1>10, <1>13 DEF Recorded
<1> QED
    BY <1>12, <1>13

\* The wires are empty when ranks leave a collective operation, and no exchange
\* of the halo they come to has been made.
LEMMA HalosMeet ==
    ASSUME Lockstep, Halos, Met, NEW turn, Leave(turn),
           \A r \in Ranks : Forks = {} \/ turn[r] \in Forks
    PROVE  Halos'
<1>1. UNCHANGED <<session, eager, passed, wire>>
    BY DEF Leave, fixed, halo
<1>2. \A r \in Ranks : ~InHalo(r) /\ passed[r] = {}
    BY HaloTogether DEF Halos, Passing
<1>3. \A p \in Ranks \X Ranks : wire[p] = <<>>
    <2>1. \A p \in Ranks \X Ranks : ~Underway(p)
        BY <1>2 DEF Underway, Made
    <2> QED
        BY <2>1 DEF Halos, Buffers
<1>4. ASSUME NEW p \in session.ghosts PROVE Made(p[1], p)' = Made(p[2], p)'
    <2>1. p[1] \in Ranks /\ p[2] \in Ranks
        BY Pairing
    <2>2. CASE \A r \in Ranks : InHalo(r)'
        BY <1>1, <1>2, <2>1, <2>2 DEF Made
    <2>3. CASE \A r \in Ranks : ~InHalo(r)'
        BY <2>1, <2>3 DEF Made
    <2> QED
        BY <2>2, <2>3, HaloTogether
<1>5. Passing'
    <2>1. DOMAIN passed' = Ranks
        BY <1>1 DEF Halos, Passing
    <2>2. \A r \in Ranks : passed'[r] = {}
        BY <1>1, <1>2
    <2> QED
        BY <1>1, <1>4, <2>1, <2>2 DEF Passing
<1>6. Buffers'
    <2>1. \A p \in Ranks \X Ranks : ~Underway(p)'
        BY <1>1, <1>4 DEF Underway
    <2> QED
        BY <1>1, <1>3, <2>1 DEF Halos, Buffers
<1>7. Level'
    BY LevelLeave DEF Halos
<1> QED
    BY <1>5, <1>6, <1>7 DEF Halos

\* Initially, no rank is in a halo exchange.
LEMMA HalosInit ==
    ASSUME Init PROVE Halos
<1>1. Lockstep
    BY LockstepInit
<1>2. ASSUME NEW r \in Ranks PROVE ~InHalo(r) /\ at[r] = StartOf(1)
    <2>1. at[r] = StartOf(1) /\ session \in Sessions
        BY DEF Init
    <2>2. StartOf(1) = Over \/ Task(StartOf(1)).op # "halo"
        <3>1. 0 \in Nat /\ 0 + 1 = 1
            OBVIOUS
        <3>2. StartOf(1) # Over => StartOf(1) \in Alive /\ StartOf(1).index = 1
            BY <2>1, <3>1, Starts
        <3> QED
            BY <3>2, TaskFacts
    <2> QED
        BY <2>1, <2>2 DEF InHalo, Instruction, Task
<1>3. passed = [r \in Ranks |-> {}] /\ wire = [p \in Ranks \X Ranks |-> <<>>]
    BY DEF Init
<1>4. \A p \in session.ghosts : Made(p[1], p) /\ Made(p[2], p)
    BY <1>1, <1>2, Pairing DEF Made
<1>5. Passing
    BY <1>3, <1>4 DEF Passing
<1>6. Buffers
    BY <1>3, <1>4 DEF Buffers, Underway
<1>7. Level
    <2>1. ASSUME NEW r \in Ranks PROVE Coming(r) = Recorded(<<>>, Ahead(StartOf(1)))
        BY <1>2 DEF Init, Coming, Outside
    <2> QED
        BY <2>1 DEF Level
<1> QED
    BY <1>5, <1>6, <1>7 DEF Halos

\* Every step keeps halo messages with the exchange they belong to.
LEMMA HalosStep ==
    ASSUME Lockstep, Halos, [Next]_vars
    PROVE  Halos'
<1>1. CASE UNCHANGED vars
    <2>1. UNCHANGED <<session, eager, call, at, inside, trace, passed, wire>>
        BY <1>1 DEF vars, fixed, place, halo
    <2>2. \A r \in Ranks : InHalo(r)' = InHalo(r) /\ Stamp(r)' = Stamp(r)
        BY <2>1 DEF InHalo, Instruction, Stamp
    <2> QED
        BY <2>1, <2>2, HalosKept, LevelKept DEF Halos
<1>2. CASE Collective
    BY <1>2, Turns, HalosMeet
<1>3. ASSUME NEW r \in Ranks, RankStep(r) PROVE Halos'
    <2>1. CASE Enter(r)
        BY <2>1, HalosEnter
    <2>2. CASE LeaveHalo(r)
        BY <2>2, HalosLeave
    <2>3. ASSUME NEW q \in Ranks, Send(r, q) \/ Receive(q, r) \/ Transfer(r, q)
          PROVE  Halos'
        BY <2>3, HalosSend, HalosReceive, HalosTransfer
    <2> QED
        BY <1>3, <2>1, <2>2, <2>3 DEF RankStep
<1> QED
    BY <1>1, <1>2, <1>3 DEF Next

\* A rank never receives a payload of another exchange than the one it is in,
\* whether the transport buffers or not: no call, failed or drifted, leaves a
\* message behind for a later one.
THEOREM AlwaysFresh == Spec => []HaloFresh
<1>1. Init => Lockstep /\ Halos
    BY LockstepInit, HalosInit
<1>2. Lockstep /\ Halos /\ [Next]_vars => Lockstep' /\ Halos'
    BY LockstepStep, HalosStep
<1>3. Lockstep /\ Halos => HaloFresh
    BY HalosFresh
<1> QED
    BY <1>1, <1>2, <1>3, PTL DEF Spec
=============================================================================
