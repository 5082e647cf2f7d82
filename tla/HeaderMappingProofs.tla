------------------------- MODULE HeaderMappingProofs -------------------------
(***************************************************************************)
(* That a header reads back what was paused, for a file of any size and    *)
(* any number of snapshots.  The invariant says of each loop what it has   *)
(* done so far; the merge needs no more than that everything taken lies    *)
(* before everything left, and that together they still cover the file.    *)
(***************************************************************************)
EXTENDS HeaderMapping, SequenceTheorems, TLAPS


USE BlocksAssumption, MaxBuildsAssumption

-----------------------------------------------------------------------------
(* The type invariant.                                                      *)

\* What a list has after an append.
LEMMA Appended ==
  ASSUME NEW S, NEW q \in Seq(S), NEW e \in S
  PROVE  LET p == Append(q, e) IN
         /\ p \in Seq(S) /\ Len(p) = Len(q) + 1
         /\ DOMAIN p = 1 .. Len(q) + 1 /\ DOMAIN q = 1 .. Len(q) /\ Len(q) \in Nat
         /\ \A i \in DOMAIN q : p[i] = q[i]
         /\ p[Len(q) + 1] = e
BY AppendProperties, LenProperties

LEMMA TypeInit == Init => TypeOK
<1> SUFFICES ASSUME Init PROVE TypeOK
  OBVIOUS
<1>1. <<>> \in Seq(BuildMap) /\ <<>> \in Seq(Builds \X Block) /\ Len(<<>>) = 0
  BY EmptySeq
<1>2. WholeFile \in Seq(BuildMap)
  BY DEF WholeFile, BuildMap
<1>3. [i \in 1 .. Blocks |-> <<0, i - 1>>] \in Seq(Builds \X Block)
  <2> DEFINE e(i) == <<0, i - 1>>
  <2>1. \A i \in 1 .. Blocks : e(i) \in Builds \X Block
    BY DEF Builds, Block
  <2> HIDE DEF e
  <2>2. [i \in 1 .. Blocks |-> e(i)] \in Seq(Builds \X Block)
    BY <2>1, IsASeq
  <2> QED BY <2>2 DEF e
<1>4. 0 \in Builds
  BY DEF Builds
<1>5. BuildsOK /\ LoopsOK
  BY <1>1, <1>4 DEF Init, BuildsOK, LoopsOK
<1>6. FilesOK
  <2>1. disk \in [Block -> Builds] /\ dirty \in SUBSET Block /\ disks \in [Builds -> [Block -> Builds]]
    BY <1>4 DEF Init
  <2>2. files \in [Builds -> Seq(Builds \X Block)]
    <3> DEFINE f(g) == IF g = 0 THEN [i \in 1 .. Blocks |-> <<0, i - 1>>] ELSE <<>>
    <3>1. \A g \in Builds : f(g) \in Seq(Builds \X Block)
      BY <1>1, <1>3
    <3>2. files = [g \in Builds |-> f(g)]
      BY DEF Init
    <3> QED BY <3>1, <3>2
  <2>3. mappings \in [Builds -> Seq(BuildMap)]
    BY <1>1, <1>2 DEF Init
  <2> QED BY <2>1, <2>2, <2>3 DEF FilesOK
<1> QED BY <1>5, <1>6 DEF TypeOK

LEMMA MergeTypes ==
  ASSUME TypeOK, Merging
  PROVE  /\ base \in BuildMap /\ diff \in BuildMap
         /\ (~Before(base, diff) /\ diff.Offset > base.Offset => LeftBase \in BuildMap)
         /\ (~Before(diff, base) /\ End(base) > End(diff) => RightBase \in BuildMap)
<1>1. base \in BuildMap /\ diff \in BuildMap
  BY LenProperties DEF TypeOK, LoopsOK, Merging, base, diff
<1> HIDE DEF base, diff
<1>2. ~Before(base, diff) /\ diff.Offset > base.Offset => LeftBase \in BuildMap
  BY <1>1 DEF BuildMap, LeftBase, Before, End
<1>3. ASSUME ~Before(diff, base), End(base) > End(diff) PROVE RightBase \in BuildMap
  <2> DEFINE shift == End(diff) - base.Offset
  <2>1. shift \in Nat /\ base.Length - shift \in Nat
    BY <1>1, <1>3 DEF BuildMap, Before, End
  <2> HIDE DEF shift
  <2>2. /\ base.Offset + shift \in Nat
        /\ base.BuildStorageOffset + shift \in Nat
    BY <1>1, <2>1 DEF BuildMap
  <2>3. [base EXCEPT !.Offset = @ + shift, !.Length = @ - shift, !.BuildStorageOffset = @ + shift]
          \in BuildMap
    BY <1>1, <2>1, <2>2 DEF BuildMap
  <2> QED BY <2>3 DEF RightBase, shift
<1> QED BY <1>1, <1>2, <1>3

LEMMA RunType ==
  ASSUME TypeOK
  PROVE  Run \in BuildMap /\ WithRun \in Seq(BuildMap)
<1>1. build + 1 \in Nat
  BY DEF TypeOK, BuildsOK, Builds
<1>2. Run \in BuildMap
  BY <1>1 DEF TypeOK, LoopsOK, Run, BuildMap
<1> QED BY <1>2, Appended DEF TypeOK, LoopsOK, WithRun

LEMMA MergedType ==
  ASSUME TypeOK
  PROVE  /\ Rest(baseMapping, baseIdx) \in Seq(BuildMap)
         /\ Rest(diffMapping, diffIdx) \in Seq(BuildMap)
         /\ Merged \in Seq(BuildMap)
<1>1. ASSUME NEW q \in Seq(BuildMap), NEW k \in 1 .. Len(q) + 1
      PROVE  Rest(q, k) \in Seq(BuildMap)
  <2>1. Len(q) \in Nat /\ \A i \in k .. Len(q) : q[i] \in BuildMap
    BY LenProperties
  <2> QED BY <2>1, SubSeqProperties DEF Rest
<1>2. /\ Rest(baseMapping, baseIdx) \in Seq(BuildMap)
      /\ Rest(diffMapping, diffIdx) \in Seq(BuildMap)
  BY <1>1 DEF TypeOK, LoopsOK
<1>3. merged \o Rest(baseMapping, baseIdx) \in Seq(BuildMap)
  BY <1>2, ConcatProperties DEF TypeOK, LoopsOK
<1> QED BY <1>2, <1>3, ConcatProperties DEF Merged

LEMMA TypeStep == TypeOK /\ [Next]_vars => TypeOK'
<1> SUFFICES ASSUME TypeOK, [Next]_vars PROVE TypeOK'
  OBVIOUS
<1>a. /\ build \in Nat /\ (build < MaxBuilds => build + 1 \in Builds)
      /\ BuildsOK /\ FilesOK /\ LoopsOK
  BY DEF TypeOK, BuildsOK, Builds
<1>b. <<>> \in Seq(Builds \X Block) /\ <<>> \in Seq(BuildMap) /\ Len(<<>>) = 0
  BY EmptySeq
<1>c. ASSUME UNCHANGED file, BuildsOK' PROVE FilesOK'
  BY <1>a, <1>c DEF FilesOK, file
<1>d. ASSUME UNCHANGED <<create, merge>> PROVE LoopsOK'
  BY <1>a, <1>d DEF LoopsOK, create, merge
<1>1. ASSUME NEW b \in Block, Access(b) PROVE TypeOK'
  <2>1. BuildsOK' /\ LoopsOK'
    BY <1>a, <1>d, <1>1 DEF Access, BuildsOK
  <2>2. disk' \in [Block -> Builds]
    BY <1>a, <1>1 DEF Access, FilesOK
  <2>3. FilesOK'
    BY <1>a, <1>1, <2>2 DEF Access, FilesOK
  <2> QED BY <2>1, <2>3 DEF TypeOK
<1>2. ASSUME NEW g \in Builds, Resume(g) PROVE TypeOK'
  <2>1. BuildsOK' /\ LoopsOK'
    BY <1>a, <1>d, <1>2 DEF Resume, BuildsOK, Builds
  <2>2. FilesOK'
    BY <1>a, <1>2 DEF Resume, FilesOK
  <2> QED BY <2>1, <2>2 DEF TypeOK
<1>3. CASE Pause
  <2>1. BuildsOK' /\ LoopsOK'
    BY <1>a, <1>3 DEF Pause, BuildsOK, LoopsOK, merge
  <2>2. FilesOK'
    BY <1>a, <1>b, <1>3 DEF Pause, FilesOK
  <2> QED BY <2>1, <2>2 DEF TypeOK
<1>4. ASSUME NEW b \in Block, WriteBlock(b) PROVE TypeOK'
  <2>1. BuildsOK' /\ LoopsOK'
    BY <1>a, <1>4 DEF WriteBlock, BuildsOK, LoopsOK, merge, Block
  <2>2. build + 1 \in Builds
    BY <1>a, <1>4 DEF WriteBlock, BuildsOK
  <2>3. files[build + 1] \in Seq(Builds \X Block) /\ Content(b) \in Builds \X Block
    BY <1>a, <2>2 DEF FilesOK, Content
  <2>4. Append(files[build + 1], Content(b)) \in Seq(Builds \X Block)
    BY <2>3, Appended
  <2>5. FilesOK'
    BY <1>a, <1>4, <2>2, <2>4 DEF WriteBlock, FilesOK
  <2> QED BY <2>1, <2>5 DEF TypeOK
<1>5. CASE DiffWritten
  <2>1. BuildsOK'
    BY <1>a, <1>5 DEF DiffWritten, BuildsOK, file
  <2>2. LoopsOK'
    BY <1>a, <1>5 DEF DiffWritten, RunForgotten, LoopsOK, merge
  <2> QED BY <1>c, <1>5, <2>1, <2>2 DEF TypeOK, DiffWritten
<1>6. ASSUME NEW b \in Block, LengthenRange(b) PROVE TypeOK'
  <2>1. BuildsOK'
    BY <1>a, <1>6 DEF LengthenRange, BuildsOK, file
  <2>2. LoopsOK'
    BY <1>a, <1>6 DEF LengthenRange, LoopsOK, merge, Block
  <2> QED BY <1>c, <1>6, <2>1, <2>2 DEF TypeOK, LengthenRange
<1>7. ASSUME NEW b \in Block, NextRange(b) PROVE TypeOK'
  <2>1. BuildsOK'
    BY <1>a, <1>7 DEF NextRange, BuildsOK, file
  <2>2. WithRun \in Seq(BuildMap) /\ Len(WithRun) \in Nat /\ Len(diffMapping) <= Len(WithRun)
    BY RunType, Appended, LenProperties DEF WithRun, TypeOK, LoopsOK
  <2>3. LoopsOK'
    BY <1>a, <1>7, <2>2, LenProperties DEF NextRange, LoopsOK, merge, Block
  <2> QED BY <1>c, <1>7, <2>1, <2>3 DEF TypeOK, NextRange
<1>8. CASE MappingCreated
  <2>1. BuildsOK'
    BY <1>a, <1>8 DEF MappingCreated, BuildsOK, file
  <2>2. WithRun \in Seq(BuildMap) /\ Len(WithRun) \in Nat /\ Len(diffMapping) <= Len(WithRun)
    BY RunType, Appended, LenProperties DEF WithRun, TypeOK, LoopsOK
  <2>3. mappings[parent] \in Seq(BuildMap) /\ Len(mappings[parent]) \in Nat
    BY <1>a, LenProperties DEF BuildsOK, FilesOK, Builds
  <2>4. LoopsOK'
    BY <1>a, <1>b, <1>8, <2>2, <2>3 DEF MappingCreated, RunForgotten, LoopsOK
  <2> QED BY <1>c, <1>8, <2>1, <2>4 DEF TypeOK, MappingCreated
<1>e. ASSUME pc = "merge", UNCHANGED <<pc, file, create>>,
             merged' \in Seq(BuildMap), baseMapping' \in Seq(BuildMap),
             baseIdx' \in 1 .. Len(baseMapping') + 1, diffIdx' \in 1 .. Len(diffMapping) + 1
      PROVE  TypeOK'
  <2>1. BuildsOK'
    BY <1>a, <1>e DEF BuildsOK, file
  <2>2. LoopsOK'
    BY <1>a, <1>e DEF LoopsOK, create
  <2> QED BY <1>c, <1>e, <2>1, <2>2 DEF TypeOK
<1>f. Merging => /\ pc = "merge" /\ baseIdx + 1 \in 1 .. Len(baseMapping) + 1
                 /\ diffIdx + 1 \in 1 .. Len(diffMapping) + 1
  BY <1>a, LenProperties DEF Merging, LoopsOK
<1>g. /\ merged \in Seq(BuildMap) /\ baseMapping \in Seq(BuildMap) /\ diffMapping \in Seq(BuildMap)
      /\ baseIdx \in 1 .. Len(baseMapping) + 1 /\ diffIdx \in 1 .. Len(diffMapping) + 1
  BY <1>a DEF LoopsOK
<1>9. CASE BaseBeforeDiff
  <2>1. Append(merged, base) \in Seq(BuildMap)
    BY <1>9, <1>g, MergeTypes, Appended DEF BaseBeforeDiff
  <2> QED BY <1>e, <1>f, <1>g, <1>9, <2>1 DEF BaseBeforeDiff
<1>10. CASE DiffBeforeBase
  <2>1. Append(merged, diff) \in Seq(BuildMap)
    BY <1>10, <1>g, MergeTypes, Appended DEF DiffBeforeBase
  <2> QED BY <1>e, <1>f, <1>g, <1>10, <2>1 DEF DiffBeforeBase
<1>11. CASE BaseInsideDiff
  BY <1>e, <1>f, <1>g, <1>11 DEF BaseInsideDiff, Overlap
<1>12. ASSUME Overlap, TakeDiffCutBase, merged' \in Seq(BuildMap) PROVE TypeOK'
  <2>1. End(base) > End(diff) =>
          /\ [baseMapping EXCEPT ![baseIdx] = RightBase] \in Seq(BuildMap)
          /\ Len([baseMapping EXCEPT ![baseIdx] = RightBase]) = Len(baseMapping)
    BY <1>12, <1>g, MergeTypes, ExceptSeq DEF Overlap, Merging
  <2> QED BY <1>e, <1>f, <1>g, <1>12, <2>1 DEF TakeDiffCutBase, Overlap
<1>13. Overlap => WithLeftBase \in Seq(BuildMap)
  BY <1>g, MergeTypes, Appended DEF WithLeftBase, Overlap
<1>14. CASE DiffInsideBase
  BY <1>12, <1>13, <1>14, MergeTypes, Appended DEF DiffInsideBase, Overlap
<1>15. CASE DiffOverlapsStart
  BY <1>12, <1>15, <1>g, MergeTypes, Appended DEF DiffOverlapsStart, Overlap
<1>16. CASE DiffOverlapsEnd
  BY <1>e, <1>f, <1>g, <1>13, <1>16 DEF DiffOverlapsEnd, Overlap
<1>17. CASE HeaderMade
  <2>0. build + 1 \in Builds
    BY <1>a, <1>17 DEF HeaderMade, BuildsOK
  <2>1. BuildsOK'
    BY <1>a, <1>17, <2>0 DEF HeaderMade, BuildsOK, Builds
  <2>2. FilesOK'
    BY <1>a, <1>17, <2>0, MergedType DEF HeaderMade, FilesOK
  <2>3. LoopsOK'
    BY <1>a, <1>b, <1>17 DEF HeaderMade, MergeForgotten, LoopsOK
  <2> QED BY <2>1, <2>2, <2>3 DEF TypeOK
<1>18. CASE UNCHANGED vars
  BY <1>a, <1>c, <1>d, <1>18 DEF TypeOK, vars, BuildsOK, file
<1> QED BY <1>1, <1>2, <1>3, <1>4, <1>5, <1>6, <1>7, <1>8, <1>9, <1>10, <1>11, <1>14,
           <1>15, <1>16, <1>17, <1>18
        DEF Next, CreateDiff, CreateMapping, MergeMappings

-----------------------------------------------------------------------------
(* The invariant.                                                           *)

\* The range m leads to contents, in the files f, that are those of the disk d;
\* the builds it names are no newer than hi.
Right(f, m, d, hi) ==
  /\ m.BuildId <= hi
  /\ \A b \in Block : In(b, m) =>
       LET at == m.BuildStorageOffset + (b - m.Offset) + 1 IN
       /\ at <= Len(f[m.BuildId])
       /\ f[m.BuildId][at] = <<d[b], b>>

SnapshotsRight ==
  \A g \in 0 .. build :
    /\ Ordered(mappings[g]) /\ Covers(mappings[g])
    /\ \A i \in DOMAIN mappings[g] : Right(files, mappings[g][i], disks[g], g)

CleanIsParents == \A b \in Block : b \notin dirty => disk[b] = disks[parent][b]

diffFile == files[build + 1]
Limit    == IF pc = "diff" THEN cursor ELSE Blocks

\* The diff file holds the dirty blocks below the limit, in order.
DiffFileRight ==
  pc # "run" =>
    /\ \A i, j \in DOMAIN diffFile : i < j => diffFile[i][2] < diffFile[j][2]
    /\ \A i \in DOMAIN diffFile : /\ diffFile[i][2] \in dirty /\ diffFile[i][2] < Limit
                                  /\ diffFile[i] = Content(diffFile[i][2])
    /\ \A b \in dirty : b < Limit => \E i \in DOMAIN diffFile : diffFile[i][2] = b

\* A range of the new diff: its blocks are dirty and in the diff file.
DirtyRange(m) == Right(files, m, disk, build + 1) /\ \A b \in Block : In(b, m) => b \in dirty

stored == buildStorageOffset + blockLength

CreateRight ==
  pc = "create" =>
    /\ startBlock + blockLength = cursor /\ cursor <= Blocks
    /\ (blockLength = 0 => startBlock = 0 /\ buildStorageOffset = 0 /\ diffMapping = <<>>)
    /\ stored <= Len(diffFile)
    /\ \A i \in DOMAIN diffFile : i <= stored <=> diffFile[i][2] < cursor
    /\ DirtyRange(Run)
    /\ Ordered(diffMapping)
    /\ \A i \in DOMAIN diffMapping : Before(diffMapping[i], Run) /\ DirtyRange(diffMapping[i])
    /\ \A b \in dirty : b < cursor =>
         In(b, Run) \/ \E i \in DOMAIN diffMapping : In(b, diffMapping[i])

DiffsRight ==
  /\ Ordered(diffMapping)
  /\ \A k \in DOMAIN diffMapping : DirtyRange(diffMapping[k])

\* The merge has taken the ranges out; the base's ranges from bi on and the
\* diff's from di on are left.
TakenRight(out) == Ordered(out) /\ \A i \in DOMAIN out : Right(files, out[i], disk, build + 1)

BaseLeftRight(bs, bi) ==
  Ordered(bs) /\ \A j \in DOMAIN bs : bi <= j => Right(files, bs[j], disks[parent], build)

TakenBeforeBase(out, bs, bi) ==
  \A j \in DOMAIN bs : bi <= j => \A i \in DOMAIN out : End(out[i]) <= bs[j].Offset

TakenBeforeDiff(out, di) ==
  \A k \in DOMAIN diffMapping : di <= k => \A i \in DOMAIN out : End(out[i]) <= diffMapping[k].Offset

StillCovered(out, bs, bi, di) ==
  \A b \in Block :
    \/ \E i \in DOMAIN out : In(b, out[i])
    \/ \E k \in DOMAIN diffMapping : di <= k /\ In(b, diffMapping[k])
    \/ b \notin dirty /\ \E j \in DOMAIN bs : bi <= j /\ In(b, bs[j])

MergeState(out, bs, bi, di) ==
  /\ TakenRight(out) /\ BaseLeftRight(bs, bi)
  /\ TakenBeforeBase(out, bs, bi) /\ TakenBeforeDiff(out, di)
  /\ StillCovered(out, bs, bi, di)

MergeRight == pc = "merge" => DiffsRight /\ MergeState(merged, baseMapping, baseIdx, diffIdx)

NoDiffsYet == pc \in {"run", "diff"} => diffMapping = <<>>

Inv == /\ TypeOK /\ SnapshotsRight /\ CleanIsParents /\ DiffFileRight
       /\ NoDiffsYet /\ CreateRight /\ MergeRight

-----------------------------------------------------------------------------
(* It implies what the runs check.                                          *)

LEMMA InvReads == TypeOK /\ SnapshotsRight => MappingIsValid /\ ReadsBack
<1> SUFFICES ASSUME TypeOK, SnapshotsRight PROVE MappingIsValid /\ ReadsBack
  OBVIOUS
<1>1. MappingIsValid
  BY DEF SnapshotsRight, MappingIsValid
<1>2. ASSUME NEW g \in 0 .. build, NEW b \in Block, NEW s \in Block, NEW i \in DOMAIN mappings[g],
             IsPreviousSet(mappings[g], b, s), IsStartMap(mappings[g], s, i)
      PROVE  Served(g, b, s, i)
  <2> DEFINE mapping == mappings[g]
             m == mappings[g][i]
  <2>0. g \in Builds
    BY DEF TypeOK, BuildsOK, Builds
  <2>1. mapping \in Seq(BuildMap)
    BY <2>0 DEF TypeOK, FilesOK
  <2>2. /\ DOMAIN mapping \subseteq Nat
        /\ \A j \in DOMAIN mapping : mapping[j] \in BuildMap
    BY <2>1, LenProperties
  <2>3. Ordered(mapping) /\ Covers(mapping) /\ Right(files, m, disks[g], g)
    BY DEF SnapshotsRight
  <2>4. /\ s = m.Offset /\ s <= b
        /\ \A j \in DOMAIN mapping : mapping[j].Offset <= b => mapping[j].Offset <= s
    BY <1>2 DEF IsPreviousSet, IsStartMap
  <2> HIDE DEF mapping
  <2>5. PICK j \in DOMAIN mapping : In(b, mapping[j])
    BY <2>3 DEF Covers
  <2>6. i \in DOMAIN mapping /\ m = mapping[i]
    BY DEF mapping
  <2> HIDE DEF m
  <2>7. i = j
    <3>1. m \in BuildMap /\ mapping[j] \in BuildMap /\ i \in Nat /\ j \in Nat
      BY <2>2, <2>5, <2>6
    <3>2. m.Length > 0 /\ mapping[j].Length > 0
      BY <2>3, <2>5, <2>6 DEF Ordered
    <3>3. mapping[j].Offset <= b /\ b < End(mapping[j]) /\ mapping[j].Offset <= s
      BY <2>4, <2>5 DEF In
    <3>4. CASE i < j
      <4>1. Before(m, mapping[j])
        BY <2>3, <2>5, <2>6, <3>4 DEF Ordered
      <4> QED BY <2>4, <3>1, <3>2, <3>3, <4>1 DEF Before, End, BuildMap
    <3>5. CASE j < i
      <4>1. Before(mapping[j], m)
        BY <2>3, <2>5, <2>6, <3>5 DEF Ordered
      <4> QED BY <2>4, <3>1, <3>2, <3>3, <4>1 DEF Before, End, BuildMap, Block
    <3> QED BY <3>1, <3>4, <3>5
  <2>8. m \in BuildMap /\ In(b, m) /\ End(m) <= Blocks
    BY <2>2, <2>3, <2>5, <2>6, <2>7 DEF Ordered
  <2>9. b - s < m.Length
    BY <2>4, <2>8 DEF In, End, BuildMap, Block
  <2>10. ASSUME NEW n \in 0 .. m.Length - (b - s) - 1
         PROVE  LET at == m.BuildStorageOffset + (b - s) + n + 1 IN
                /\ m.BuildId <= g /\ at <= Len(files[m.BuildId])
                /\ files[m.BuildId][at] = <<disks[g][b + n], b + n>>
    <3>1. b + n \in Block /\ In(b + n, m)
      BY <2>4, <2>8 DEF In, End, BuildMap, Block
    <3>2. m.BuildStorageOffset + (b - s) + n + 1 = m.BuildStorageOffset + ((b + n) - m.Offset) + 1
      BY <2>4, <2>8 DEF BuildMap, Block
    <3> QED BY <2>3, <3>1, <3>2 DEF Right
  <2> QED BY <2>9, <2>10 DEF m, Served
<1>3. ReadsBack
  <2> SUFFICES ASSUME NEW g \in 0 .. build, NEW b \in Block, NEW s \in Block, NEW i \in DOMAIN mappings[g],
                      IsPreviousSet(mappings[g], b, s), IsStartMap(mappings[g], s, i)
               PROVE  Served(g, b, s, i)
    BY DEF ReadsBack
  <2> QED BY <1>2
<1> QED BY <1>1, <1>3

-----------------------------------------------------------------------------
(* Lists of ranges.                                                         *)

\* The numbers of a range.
LEMMA RangeTypes ==
  \A m \in BuildMap :
         /\ m.Offset \in Nat /\ m.Length \in Nat /\ End(m) \in Nat
         /\ m.BuildId \in Nat /\ m.BuildStorageOffset \in Nat
         /\ End(m) = m.Offset + m.Length
BY DEF BuildMap, End

\* A range put behind all others of an ordered list.
LEMMA OrderedAppend ==
  ASSUME NEW q \in Seq(BuildMap), NEW m \in BuildMap, Ordered(q),
         m.Length > 0, End(m) <= Blocks, \A i \in DOMAIN q : Before(q[i], m)
  PROVE  Ordered(Append(q, m))
<1> DEFINE p == Append(q, m)
<1>1. /\ DOMAIN p = 1 .. Len(q) + 1 /\ DOMAIN q = 1 .. Len(q) /\ Len(q) \in Nat
      /\ \A i \in DOMAIN q : p[i] = q[i]
      /\ p[Len(q) + 1] = m
  BY Appended
<1> HIDE DEF p
<1>2. ASSUME NEW i \in DOMAIN p PROVE p[i].Length > 0 /\ End(p[i]) <= Blocks
  <2>1. i \in DOMAIN q \/ i = Len(q) + 1
    BY <1>1
  <2> QED BY <1>1, <2>1 DEF Ordered
<1>3. ASSUME NEW i \in DOMAIN p, NEW j \in DOMAIN p, i < j PROVE Before(p[i], p[j])
  <2>1. i \in DOMAIN q /\ (j \in DOMAIN q \/ j = Len(q) + 1)
    BY <1>1, <1>3
  <2> QED BY <1>1, <1>3, <2>1 DEF Ordered
<1>4. Ordered(p)
  BY <1>2, <1>3 DEF Ordered
<1> QED BY <1>4 DEF p

\* The range r is the part of m from lo to hi.
Part(r, m, lo, hi) ==
  /\ r \in BuildMap
  /\ lo \in Nat /\ hi \in Nat /\ m.Offset <= lo /\ lo < hi /\ hi <= End(m)
  /\ r.Offset = lo /\ End(r) = hi /\ r.BuildId = m.BuildId
  /\ r.BuildStorageOffset = m.BuildStorageOffset + (lo - m.Offset)

\* A part of a range leads where the range leads.
LEMMA PartFacts ==
  ASSUME NEW m \in BuildMap, NEW r, NEW lo, NEW hi, Part(r, m, lo, hi)
  PROVE  /\ r \in BuildMap /\ r.Length > 0 /\ r.Offset = lo /\ End(r) = hi
         /\ lo \in Nat /\ hi \in Nat /\ m.Offset <= lo /\ lo < hi /\ hi <= End(m)
         /\ \A b \in Block : In(b, r) <=> lo <= b /\ b < hi
         /\ \A f, d, h : Right(f, m, d, h) => Right(f, r, d, h)
<1>1. /\ r \in BuildMap /\ r.Length > 0 /\ r.Offset = lo /\ End(r) = hi
      /\ lo \in Nat /\ hi \in Nat /\ m.Offset <= lo /\ lo < hi /\ hi <= End(m)
  BY DEF Part, End, BuildMap
<1>2. \A b \in Block : In(b, r) <=> lo <= b /\ b < hi
  BY <1>1 DEF In
<1>3. ASSUME NEW f, NEW d, NEW h, Right(f, m, d, h) PROVE Right(f, r, d, h)
  <2>1. r.BuildId = m.BuildId /\ m.BuildId <= h
    BY <1>3 DEF Part, Right
  <2>2. ASSUME NEW b \in Block, In(b, r)
        PROVE  /\ In(b, m)
               /\ r.BuildStorageOffset + (b - r.Offset) + 1 = m.BuildStorageOffset + (b - m.Offset) + 1
    BY <2>2 DEF In, End, BuildMap, Block, Part
  <2> QED BY <1>3, <2>1, <2>2 DEF Right
<1> QED BY <1>1, <1>2, <1>3

\* A range of an ordered list of which only a part is kept.
LEMMA OrderedPart ==
  ASSUME NEW q \in Seq(BuildMap), NEW k \in DOMAIN q, Ordered(q),
         NEW r, NEW lo, NEW hi, Part(r, q[k], lo, hi)
  PROVE  Ordered([q EXCEPT ![k] = r])
<1> DEFINE p == [q EXCEPT ![k] = r]
           m == q[k]
<1>1. /\ DOMAIN p = DOMAIN q /\ p[k] = r /\ \A i \in DOMAIN q : i # k => p[i] = q[i]
      /\ \A i \in DOMAIN q : q[i] \in BuildMap /\ q[i].Offset \in Nat /\ End(q[i]) \in Nat
      /\ DOMAIN q \subseteq Nat
  BY LenProperties, RangeTypes
<1>2. /\ r.Length > 0 /\ r.Offset \in Nat /\ End(r) \in Nat
      /\ m.Offset <= r.Offset /\ End(r) <= End(m) /\ m.Offset \in Nat /\ End(m) \in Nat
  BY <1>1, PartFacts
<1> HIDE DEF p, m
<1>3. ASSUME NEW i \in DOMAIN p PROVE p[i].Length > 0 /\ End(p[i]) <= Blocks
  <2>1. q[i].Length > 0 /\ End(q[i]) <= Blocks
    BY <1>1 DEF Ordered
  <2>2. CASE i = k
    BY <1>1, <1>2, <2>1, <2>2 DEF m
  <2>3. CASE i # k
    BY <1>1, <2>1, <2>3
  <2> QED BY <2>2, <2>3
<1>4. ASSUME NEW i \in DOMAIN p, NEW j \in DOMAIN p, i < j PROVE Before(p[i], p[j])
  <2>1. End(q[i]) <= q[j].Offset /\ End(q[i]) \in Nat /\ q[j].Offset \in Nat
    BY <1>1, <1>4 DEF Ordered, Before
  <2>2. i \in Nat /\ j \in Nat
    BY <1>1
  <2>3. CASE i = k
    <3>1. p[i] = r /\ p[j] = q[j] /\ q[i] = m
      BY <1>1, <1>4, <2>2, <2>3 DEF m
    <3> QED BY <1>2, <2>1, <3>1 DEF Before
  <2>4. CASE j = k
    <3>1. p[j] = r /\ p[i] = q[i] /\ q[j] = m
      BY <1>1, <1>4, <2>2, <2>4 DEF m
    <3> QED BY <1>2, <2>1, <3>1 DEF Before
  <2>5. CASE i # k /\ j # k
    BY <1>1, <2>1, <2>5 DEF Before
  <2> QED BY <2>3, <2>4, <2>5
<1>5. Ordered(p)
  BY <1>3, <1>4 DEF Ordered
<1> QED BY <1>5 DEF p

-----------------------------------------------------------------------------
(* The moves of the merge, of which its cases are made.                     *)

\* Clean blocks of a base range may be taken as they are.
LEMMA CleanRight ==
  ASSUME NEW m \in BuildMap, build \in Nat, CleanIsParents, Right(files, m, disks[parent], build),
         \A b \in Block : In(b, m) => b \notin dirty
  PROVE  Right(files, m, disk, build + 1)
BY DEF Right, CleanIsParents, BuildMap

\* What lies between the ranges taken and the first diff left is clean.
LEMMA BeforeDiffIsClean ==
  ASSUME NEW out \in Seq(BuildMap), NEW bs, NEW bi, NEW di \in DOMAIN diffMapping,
         diffMapping \in Seq(BuildMap), DiffsRight, MergeState(out, bs, bi, di),
         NEW b \in Block, b < diffMapping[di].Offset, \A i \in DOMAIN out : End(out[i]) <= b
  PROVE  b \notin dirty
<1>1. ~ \E i \in DOMAIN out : In(b, out[i])
  <2>1. \A i \in DOMAIN out : out[i] \in BuildMap
    BY LenProperties
  <2> QED BY <2>1 DEF In, End, BuildMap, Block
<1>2. ASSUME NEW k \in DOMAIN diffMapping, di <= k, In(b, diffMapping[k]) PROVE FALSE
  <2>1. diffMapping[k] \in BuildMap /\ diffMapping[di] \in BuildMap /\ k \in Nat /\ di \in Nat
    BY LenProperties
  <2>2. k # di => End(diffMapping[di]) <= diffMapping[k].Offset
    BY <1>2, <2>1 DEF DiffsRight, Ordered, Before
  <2>3. diffMapping[k].Offset <= b /\ b \in Nat
    BY <1>2 DEF In, Block
  <2>4. /\ diffMapping[di].Offset \in Nat /\ diffMapping[k].Offset \in Nat
        /\ End(diffMapping[di]) = diffMapping[di].Offset + diffMapping[di].Length
        /\ diffMapping[di].Length \in Nat
    BY <2>1, RangeTypes
  <2> QED BY <2>1, <2>2, <2>3, <2>4
<1> QED BY <1>1, <1>2 DEF MergeState, StillCovered

\* What the moves know of a state of the merge.
Moving(out, bs, bi, di) ==
  /\ out \in Seq(BuildMap) /\ bs \in Seq(BuildMap) /\ diffMapping \in Seq(BuildMap)
  /\ bi \in Nat \ {0} /\ di \in Nat \ {0} /\ build \in Nat
  /\ DiffsRight /\ CleanIsParents /\ MergeState(out, bs, bi, di)

LEMMA MovingTypes ==
  ASSUME NEW out, NEW bs, NEW bi, NEW di, Moving(out, bs, bi, di)
  PROVE  /\ DOMAIN bs \subseteq Nat /\ DOMAIN diffMapping \subseteq Nat
         /\ \A j \in DOMAIN bs : /\ bs[j] \in BuildMap
                                 /\ bs[j].Offset \in Nat /\ End(bs[j]) \in Nat
                                 /\ End(bs[j]) <= Blocks
                                 /\ bi < j => End(bs[bi]) <= bs[j].Offset
         /\ \A i \in DOMAIN out : /\ out[i] \in BuildMap
                                  /\ out[i].Offset \in Nat /\ End(out[i]) \in Nat
         /\ \A k \in DOMAIN diffMapping : 
               /\ diffMapping[k] \in BuildMap
               /\ diffMapping[k].Offset \in Nat /\ End(diffMapping[k]) \in Nat
               /\ diffMapping[k].Offset < End(diffMapping[k]) /\ End(diffMapping[k]) <= Blocks
               /\ di < k => End(diffMapping[di]) <= diffMapping[k].Offset
<1>1. /\ out \in Seq(BuildMap) /\ bs \in Seq(BuildMap) /\ diffMapping \in Seq(BuildMap)
      /\ bi \in Nat \ {0} /\ di \in Nat \ {0}
      /\ Ordered(bs) /\ Ordered(diffMapping)
  BY DEF Moving, MergeState, BaseLeftRight, DiffsRight
<1>2. /\ DOMAIN bs = 1 .. Len(bs) /\ DOMAIN diffMapping = 1 .. Len(diffMapping)
      /\ Len(bs) \in Nat /\ Len(diffMapping) \in Nat
      /\ \A j \in DOMAIN bs : bs[j] \in BuildMap
      /\ \A i \in DOMAIN out : out[i] \in BuildMap
      /\ \A k \in DOMAIN diffMapping : diffMapping[k] \in BuildMap
  BY <1>1, LenProperties
<1>3. \A i \in DOMAIN out : out[i].Offset \in Nat /\ End(out[i]) \in Nat
  BY <1>2, RangeTypes
<1>4. \A j \in DOMAIN bs : /\ bs[j].Offset \in Nat /\ End(bs[j]) \in Nat
                           /\ End(bs[j]) <= Blocks
                           /\ bi < j => End(bs[bi]) <= bs[j].Offset
  <2>1. \A j \in DOMAIN bs : bs[j].Offset \in Nat /\ End(bs[j]) \in Nat /\ End(bs[j]) <= Blocks
    BY <1>1, <1>2, RangeTypes DEF Ordered
  <2>2. ASSUME NEW j \in DOMAIN bs, bi < j PROVE End(bs[bi]) <= bs[j].Offset
    <3>1. bi \in DOMAIN bs
      BY <1>1, <1>2, <2>2
    <3> QED BY <1>1, <2>2, <3>1 DEF Ordered, Before
  <2> QED BY <2>1, <2>2
<1>5. \A k \in DOMAIN diffMapping :
        /\ diffMapping[k].Offset \in Nat /\ End(diffMapping[k]) \in Nat
        /\ diffMapping[k].Offset < End(diffMapping[k]) /\ End(diffMapping[k]) <= Blocks
        /\ di < k => End(diffMapping[di]) <= diffMapping[k].Offset
  <2>1. ASSUME NEW k \in DOMAIN diffMapping
        PROVE  /\ diffMapping[k].Offset \in Nat /\ End(diffMapping[k]) \in Nat
               /\ diffMapping[k].Offset < End(diffMapping[k]) /\ End(diffMapping[k]) <= Blocks
    <3>1. diffMapping[k].Length > 0 /\ End(diffMapping[k]) <= Blocks
      BY <1>1 DEF Ordered
    <3> QED BY <1>2, <3>1 DEF BuildMap, End
  <2>2. ASSUME NEW k \in DOMAIN diffMapping, di < k
        PROVE  End(diffMapping[di]) <= diffMapping[k].Offset
    <3>1. di \in DOMAIN diffMapping
      BY <1>1, <1>2, <2>2
    <3> QED BY <1>1, <2>2, <3>1 DEF Ordered, Before
  <2> QED BY <2>1, <2>2
<1> QED BY <1>2, <1>3, <1>4, <1>5

\* A range taken behind the ones taken before.
LEMMA Take ==
  ASSUME NEW out, NEW bs, NEW bi, NEW di, Moving(out, bs, bi, di),
         NEW m \in BuildMap, Right(files, m, disk, build + 1),
         m.Length > 0, End(m) <= Blocks, \A i \in DOMAIN out : End(out[i]) <= m.Offset
  PROVE  LET p == Append(out, m) IN
         /\ p \in Seq(BuildMap) /\ TakenRight(p)
         /\ \A i \in DOMAIN p : End(p[i]) \in Nat /\ End(p[i]) <= End(m)
         /\ \A b \in Block : (\E i \in DOMAIN p : In(b, p[i])) <=>
                               (\E i \in DOMAIN out : In(b, out[i])) \/ In(b, m)
<1> DEFINE p == Append(out, m)
<1>1. out \in Seq(BuildMap) /\ TakenRight(out)
  BY DEF Moving, MergeState
<1>2. /\ DOMAIN p = 1 .. Len(out) + 1 /\ DOMAIN out = 1 .. Len(out) /\ Len(out) \in Nat
      /\ \A i \in DOMAIN out : p[i] = out[i]
      /\ p[Len(out) + 1] = m /\ p \in Seq(BuildMap)
  BY <1>1, Appended
<1>3. Ordered(p)
  BY <1>1, OrderedAppend DEF TakenRight, Before
<1> HIDE DEF p
<1>4. \A i \in DOMAIN p : i \in DOMAIN out \/ i = Len(out) + 1
  BY <1>2
<1>5. Len(out) + 1 \in DOMAIN p /\ \A i \in DOMAIN out : i \in DOMAIN p
  BY <1>2
<1>6. TakenRight(p)
  BY <1>1, <1>2, <1>3, <1>4 DEF TakenRight
<1>7. ASSUME NEW i \in DOMAIN p PROVE End(p[i]) \in Nat /\ End(p[i]) <= End(m)
  <2>1. m.Offset \in Nat /\ End(m) \in Nat /\ m.Offset <= End(m)
    BY DEF BuildMap, End
  <2>2. CASE i \in DOMAIN out
    <3>1. End(out[i]) \in Nat /\ End(out[i]) <= m.Offset
      BY <2>2, MovingTypes
    <3> QED BY <1>2, <2>1, <2>2, <3>1
  <2>3. CASE i = Len(out) + 1
    BY <1>2, <2>1, <2>3
  <2> QED BY <1>4, <2>2, <2>3
<1>8. \A b \in Block : (\E i \in DOMAIN p : In(b, p[i])) <=>
                         (\E i \in DOMAIN out : In(b, out[i])) \/ In(b, m)
  BY <1>2, <1>4, <1>5
<1> QED BY <1>2, <1>6, <1>7, <1>8 DEF p

\* The base's part before the diff is taken.
LEMMA TakeLeft ==
  ASSUME NEW out, NEW bs, NEW bi, NEW di, Moving(out, bs, bi, di),
         bi \in DOMAIN bs, di \in DOMAIN diffMapping, NEW l, NEW r,
         Part(l, bs[bi], bs[bi].Offset, diffMapping[di].Offset),
         Part(r, bs[bi], diffMapping[di].Offset, End(bs[bi]))
  PROVE  Moving(Append(out, l), [bs EXCEPT ![bi] = r], bi, di)
<1> DEFINE p == Append(out, l)
           cs == [bs EXCEPT ![bi] = r]
           m == bs[bi]
           n == diffMapping[di]
<1>1. /\ out \in Seq(BuildMap) /\ bs \in Seq(BuildMap) /\ bi \in Nat /\ di \in Nat
      /\ TakenRight(out) /\ BaseLeftRight(bs, bi)
      /\ TakenBeforeBase(out, bs, bi) /\ TakenBeforeDiff(out, di)
      /\ StillCovered(out, bs, bi, di)
  BY DEF Moving, MergeState
<1>2. /\ DOMAIN cs = DOMAIN bs /\ cs[bi] = r /\ \A j \in DOMAIN bs : j # bi => cs[j] = bs[j]
  BY <1>1
<1>3. m \in BuildMap /\ m.Offset \in Nat /\ End(m) \in Nat /\ End(m) <= Blocks /\ n.Offset \in Nat
  BY MovingTypes
<1>4. /\ l \in BuildMap /\ l.Length > 0 /\ l.Offset = m.Offset /\ End(l) = n.Offset
      /\ m.Offset < n.Offset /\ n.Offset < End(m)
      /\ \A b \in Block : In(b, l) <=> m.Offset <= b /\ b < n.Offset
      /\ \A f, d, h : Right(f, m, d, h) => Right(f, l, d, h)
  BY <1>3, PartFacts
<1>5. /\ r \in BuildMap /\ r.Offset = n.Offset
      /\ \A b \in Block : In(b, r) <=> n.Offset <= b /\ b < End(m)
      /\ \A f, d, h : Right(f, m, d, h) => Right(f, r, d, h)
  BY <1>3, PartFacts
<1>6. /\ Right(files, m, disks[parent], build)
      /\ \A i \in DOMAIN out : End(out[i]) <= m.Offset /\ End(out[i]) \in Nat
  BY <1>1, MovingTypes DEF BaseLeftRight, TakenBeforeBase
<1>7. cs \in Seq(BuildMap) /\ Ordered(cs)
  BY <1>1, <1>5, OrderedPart, ExceptSeq, LenProperties DEF BaseLeftRight
<1>8. Right(files, l, disk, build + 1)
  <2>1. ASSUME NEW b \in Block, In(b, l) PROVE b \notin dirty
    <3>1. m.Offset <= b /\ b < n.Offset /\ b \in Nat
      BY <1>4, <2>1 DEF Block
    <3>2. \A i \in DOMAIN out : End(out[i]) <= b
      BY <1>3, <1>6, <3>1
    <3> QED BY <3>1, <3>2, BeforeDiffIsClean DEF Moving
  <2> QED BY <1>4, <1>6, <2>1, CleanRight DEF Moving
<1>9. /\ p \in Seq(BuildMap) /\ TakenRight(p)
      /\ \A i \in DOMAIN p : End(p[i]) \in Nat /\ End(p[i]) <= n.Offset
      /\ \A b \in Block : (\E i \in DOMAIN p : In(b, p[i])) <=>
                            (\E i \in DOMAIN out : In(b, out[i])) \/ In(b, l)
  <2>1. End(l) <= Blocks
    BY <1>3, <1>4
  <2> QED BY <1>4, <1>6, <1>8, <2>1, Take
<1> HIDE DEF p, cs
<1>10. BaseLeftRight(cs, bi)
  BY <1>1, <1>2, <1>5, <1>6, <1>7 DEF BaseLeftRight
<1>11. TakenBeforeBase(p, cs, bi)
  <2>1. ASSUME NEW j \in DOMAIN cs, bi <= j PROVE n.Offset <= cs[j].Offset /\ cs[j].Offset \in Nat
    <3>1. CASE j = bi
      BY <1>2, <1>3, <1>5, <3>1
    <3>2. CASE j # bi
      <4>1. End(m) <= bs[j].Offset /\ bs[j].Offset \in Nat /\ cs[j] = bs[j]
        BY <1>1, <1>2, <2>1, <3>2, MovingTypes
      <4> QED BY <1>3, <1>4, <4>1
    <3> QED BY <3>1, <3>2
  <2> QED BY <1>3, <1>9, <2>1 DEF TakenBeforeBase
<1>12. TakenBeforeDiff(p, di)
  <2>1. ASSUME NEW k \in DOMAIN diffMapping, di <= k
        PROVE  n.Offset <= diffMapping[k].Offset /\ diffMapping[k].Offset \in Nat
    <3>1. CASE k = di
      BY <1>3, <3>1
    <3>2. CASE k # di
      <4>1. /\ n.Offset < End(n) /\ End(n) \in Nat
            /\ End(n) <= diffMapping[k].Offset /\ diffMapping[k].Offset \in Nat
        BY <1>1, <2>1, <3>2, MovingTypes
      <4> QED BY <1>3, <4>1
    <3> QED BY <3>1, <3>2
  <2> QED BY <1>3, <1>9, <2>1 DEF TakenBeforeDiff
<1>13. StillCovered(p, cs, bi, di)
  <2>1. ASSUME NEW b \in Block, NEW j \in DOMAIN bs, bi <= j, In(b, bs[j])
        PROVE  In(b, l) \/ \E i \in DOMAIN cs : bi <= i /\ In(b, cs[i])
    <3>1. CASE j # bi
      BY <1>2, <2>1, <3>1
    <3>2. CASE j = bi
      <4>1. m.Offset <= b /\ b < End(m) /\ b \in Nat
        BY <2>1, <3>2 DEF In, Block
      <4>2. In(b, l) \/ In(b, r)
        BY <1>3, <1>4, <1>5, <4>1
      <4> QED BY <1>1, <1>2, <2>1, <3>2, <4>2
    <3> QED BY <3>1, <3>2
  <2> QED BY <1>1, <1>9, <2>1 DEF StillCovered
<1>14. Moving(p, cs, bi, di)
  BY <1>7, <1>9, <1>10, <1>11, <1>12, <1>13 DEF Moving, MergeState
<1> QED BY <1>14 DEF p, cs

\* The base's part after the diff is left.  What is dropped the diff covers.
LEMMA CutBase ==
  ASSUME NEW out, NEW bs, NEW bi, NEW di, Moving(out, bs, bi, di),
         bi \in DOMAIN bs, di \in DOMAIN diffMapping, NEW r,
         diffMapping[di].Offset <= bs[bi].Offset,
         Part(r, bs[bi], End(diffMapping[di]), End(bs[bi]))
  PROVE  Moving(out, [bs EXCEPT ![bi] = r], bi, di)
<1> DEFINE cs == [bs EXCEPT ![bi] = r]
           m == bs[bi]
           n == diffMapping[di]
<1>1. /\ out \in Seq(BuildMap) /\ bs \in Seq(BuildMap) /\ bi \in Nat /\ di \in Nat
      /\ BaseLeftRight(bs, bi) /\ TakenBeforeBase(out, bs, bi)
      /\ StillCovered(out, bs, bi, di)
  BY DEF Moving, MergeState
<1>2. /\ DOMAIN cs = DOMAIN bs /\ cs[bi] = r /\ \A j \in DOMAIN bs : j # bi => cs[j] = bs[j]
  BY <1>1
<1>3. /\ m \in BuildMap /\ m.Offset \in Nat /\ End(m) \in Nat
      /\ n.Offset \in Nat /\ End(n) \in Nat
  BY MovingTypes
<1>4. /\ r \in BuildMap /\ r.Offset = End(n) /\ m.Offset <= End(n)
      /\ \A b \in Block : In(b, r) <=> End(n) <= b /\ b < End(m)
      /\ \A f, d, h : Right(f, m, d, h) => Right(f, r, d, h)
  BY <1>3, PartFacts
<1>5. /\ Right(files, m, disks[parent], build)
      /\ \A i \in DOMAIN out : End(out[i]) <= m.Offset /\ End(out[i]) \in Nat
  BY <1>1, MovingTypes DEF BaseLeftRight, TakenBeforeBase
<1>6. cs \in Seq(BuildMap) /\ Ordered(cs)
  BY <1>1, <1>4, OrderedPart, ExceptSeq, LenProperties DEF BaseLeftRight
<1> HIDE DEF cs
<1>7. BaseLeftRight(cs, bi)
  BY <1>1, <1>2, <1>4, <1>5, <1>6 DEF BaseLeftRight
<1>8. TakenBeforeBase(out, cs, bi)
  <2>1. ASSUME NEW j \in DOMAIN cs, bi <= j, NEW i \in DOMAIN out PROVE End(out[i]) <= cs[j].Offset
    <3>1. CASE j = bi
      BY <1>2, <1>3, <1>4, <1>5, <3>1
    <3>2. CASE j # bi
      BY <1>1, <1>2, <2>1, <3>2 DEF TakenBeforeBase
    <3> QED BY <3>1, <3>2
  <2> QED BY <2>1 DEF TakenBeforeBase
<1>9. StillCovered(out, cs, bi, di)
  <2>1. ASSUME NEW b \in Block, NEW j \in DOMAIN bs, bi <= j, In(b, bs[j])
        PROVE  In(b, n) \/ \E i \in DOMAIN cs : bi <= i /\ In(b, cs[i])
    <3>1. CASE j # bi
      BY <1>2, <2>1, <3>1
    <3>2. CASE j = bi
      <4>1. m.Offset <= b /\ b < End(m) /\ b \in Nat
        BY <2>1, <3>2 DEF In, Block
      <4>2. In(b, n) \/ In(b, r)
        BY <1>3, <1>4, <4>1 DEF In
      <4> QED BY <1>1, <1>2, <2>1, <3>2, <4>2
    <3> QED BY <3>1, <3>2
  <2>2. di <= di
    BY <1>1
  <2> QED BY <1>1, <2>1, <2>2 DEF StillCovered
<1>10. Moving(out, cs, bi, di)
  BY <1>6, <1>7, <1>8, <1>9 DEF Moving, MergeState
<1> QED BY <1>10 DEF cs

\* A base range that the diff covers is left out.
LEMMA DropBase ==
  ASSUME NEW out, NEW bs, NEW bi, NEW di, Moving(out, bs, bi, di),
         bi \in DOMAIN bs, di \in DOMAIN diffMapping,
         diffMapping[di].Offset <= bs[bi].Offset, End(bs[bi]) <= End(diffMapping[di])
  PROVE  Moving(out, bs, bi + 1, di)
<1>1. /\ bs \in Seq(BuildMap) /\ bi \in Nat \ {0} /\ di \in Nat
      /\ BaseLeftRight(bs, bi) /\ TakenBeforeBase(out, bs, bi)
      /\ StillCovered(out, bs, bi, di) /\ DOMAIN bs \subseteq Nat
  BY MovingTypes DEF Moving, MergeState
<1>2. \A j \in DOMAIN bs : bi + 1 <= j <=> bi <= j /\ j # bi
  BY <1>1
<1>3. BaseLeftRight(bs, bi + 1) /\ TakenBeforeBase(out, bs, bi + 1)
  BY <1>1, <1>2 DEF BaseLeftRight, TakenBeforeBase
<1>4. ASSUME NEW b \in Block, In(b, bs[bi]) PROVE In(b, diffMapping[di]) /\ di <= di
  <2>1. /\ bs[bi].Offset \in Nat /\ End(bs[bi]) \in Nat /\ b \in Nat
        /\ diffMapping[di].Offset \in Nat /\ End(diffMapping[di]) \in Nat
    BY MovingTypes DEF Block
  <2> QED BY <1>1, <1>4, <2>1 DEF In
<1>5. StillCovered(out, bs, bi + 1, di)
  BY <1>1, <1>2, <1>4 DEF StillCovered
<1> QED BY <1>1, <1>3, <1>5 DEF Moving, MergeState

\* The diff is taken once no base left begins before its end.
LEMMA TakeDiff ==
  ASSUME NEW out, NEW bs, NEW bi, NEW di, Moving(out, bs, bi, di), di \in DOMAIN diffMapping,
         \A j \in DOMAIN bs : bi <= j => End(diffMapping[di]) <= bs[j].Offset
  PROVE  Moving(Append(out, diffMapping[di]), bs, bi, di + 1)
<1> DEFINE n == diffMapping[di]
           p == Append(out, n)
<1>1. /\ di \in Nat \ {0} /\ TakenBeforeDiff(out, di) /\ StillCovered(out, bs, bi, di)
      /\ DOMAIN diffMapping \subseteq Nat
  BY MovingTypes DEF Moving, MergeState
<1>2. /\ n \in BuildMap /\ n.Length > 0 /\ End(n) \in Nat /\ End(n) <= Blocks
      /\ Right(files, n, disk, build + 1)
  BY MovingTypes DEF Moving, DiffsRight, Ordered, DirtyRange
<1>3. \A i \in DOMAIN out : End(out[i]) <= n.Offset
  BY <1>1 DEF TakenBeforeDiff
<1>4. /\ p \in Seq(BuildMap) /\ TakenRight(p)
      /\ \A i \in DOMAIN p : End(p[i]) \in Nat /\ End(p[i]) <= End(n)
      /\ \A b \in Block : (\E i \in DOMAIN p : In(b, p[i])) <=>
                            (\E i \in DOMAIN out : In(b, out[i])) \/ In(b, n)
  BY <1>2, <1>3, Take
<1> HIDE DEF p
<1>5. TakenBeforeBase(p, bs, bi)
  BY <1>2, <1>4, MovingTypes DEF TakenBeforeBase
<1>6. \A k \in DOMAIN diffMapping : di + 1 <= k <=> di <= k /\ k # di
  BY <1>1
<1>7. TakenBeforeDiff(p, di + 1)
  <2>1. ASSUME NEW k \in DOMAIN diffMapping, di + 1 <= k
        PROVE  End(n) <= diffMapping[k].Offset /\ diffMapping[k].Offset \in Nat
    <3>1. di < k
      BY <1>1, <2>1
    <3> QED BY <3>1, MovingTypes
  <2> QED BY <1>2, <1>4, <2>1 DEF TakenBeforeDiff
<1>8. StillCovered(p, bs, bi, di + 1)
  BY <1>1, <1>4, <1>6 DEF StillCovered
<1>9. Moving(p, bs, bi, di + 1)
  BY <1>1, <1>4, <1>5, <1>7, <1>8 DEF Moving, MergeState
<1> QED BY <1>9 DEF p

\* A base range before all diffs left is taken as it is.
LEMMA TakeBase ==
  ASSUME NEW out, NEW bs, NEW bi, NEW di, Moving(out, bs, bi, di),
         bi \in DOMAIN bs, di \in DOMAIN diffMapping, End(bs[bi]) <= diffMapping[di].Offset
  PROVE  Moving(Append(out, bs[bi]), bs, bi + 1, di)
<1> DEFINE m == bs[bi]
           p == Append(out, m)
<1>1. /\ out \in Seq(BuildMap) /\ bi \in Nat \ {0} /\ di \in Nat \ {0}
      /\ DOMAIN bs \subseteq Nat /\ DOMAIN diffMapping \subseteq Nat
      /\ BaseLeftRight(bs, bi) /\ TakenBeforeBase(out, bs, bi)
      /\ TakenBeforeDiff(out, di) /\ StillCovered(out, bs, bi, di)
  BY MovingTypes DEF Moving, MergeState
<1>2. /\ m \in BuildMap /\ m.Length > 0 /\ m.Offset \in Nat /\ End(m) \in Nat /\ End(m) <= Blocks
      /\ Right(files, m, disks[parent], build)
  BY <1>1, MovingTypes DEF BaseLeftRight, Ordered
<1>3. \A i \in DOMAIN out : End(out[i]) <= m.Offset /\ End(out[i]) \in Nat
  BY <1>1, MovingTypes DEF TakenBeforeBase
<1>4. Right(files, m, disk, build + 1)
  <2>1. ASSUME NEW b \in Block, In(b, m) PROVE b \notin dirty
    <3>1. m.Offset <= b /\ b < End(m) /\ b \in Nat
      BY <2>1 DEF In, Block
    <3>2. b < diffMapping[di].Offset
      BY <1>2, <3>1, MovingTypes
    <3>3. \A i \in DOMAIN out : End(out[i]) <= b
      BY <1>2, <1>3, <3>1
    <3> QED BY <3>2, <3>3, BeforeDiffIsClean DEF Moving
  <2> QED BY <1>2, <2>1, CleanRight DEF Moving
<1>5. /\ p \in Seq(BuildMap) /\ TakenRight(p)
      /\ \A i \in DOMAIN p : End(p[i]) \in Nat /\ End(p[i]) <= End(m)
      /\ \A b \in Block : (\E i \in DOMAIN p : In(b, p[i])) <=>
                            (\E i \in DOMAIN out : In(b, out[i])) \/ In(b, m)
  BY <1>2, <1>3, <1>4, Take
<1> HIDE DEF p
<1>6. \A j \in DOMAIN bs : bi + 1 <= j <=> bi <= j /\ j # bi
  BY <1>1
<1>7. BaseLeftRight(bs, bi + 1)
  BY <1>1, <1>6 DEF BaseLeftRight
<1>8. TakenBeforeBase(p, bs, bi + 1)
  <2>1. ASSUME NEW j \in DOMAIN bs, bi + 1 <= j PROVE End(m) <= bs[j].Offset /\ bs[j].Offset \in Nat
    <3>1. bi < j
      BY <1>1, <2>1
    <3> QED BY <3>1, MovingTypes
  <2> QED BY <1>2, <1>5, <2>1 DEF TakenBeforeBase
<1>9. TakenBeforeDiff(p, di)
  <2>1. ASSUME NEW k \in DOMAIN diffMapping, di <= k
        PROVE  End(m) <= diffMapping[k].Offset /\ diffMapping[k].Offset \in Nat
    <3>1. CASE k = di
      BY <3>1, MovingTypes
    <3>2. CASE k # di
      <4>1. di < k
        BY <1>1, <2>1, <3>2
      <4>2. /\ diffMapping[di].Offset \in Nat /\ diffMapping[di].Offset < End(diffMapping[di])
            /\ End(diffMapping[di]) \in Nat /\ End(diffMapping[di]) <= diffMapping[k].Offset
            /\ diffMapping[k].Offset \in Nat
        BY <4>1, MovingTypes
      <4> QED BY <1>2, <4>2
    <3> QED BY <3>1, <3>2
  <2> QED BY <1>2, <1>5, <2>1 DEF TakenBeforeDiff
<1>10. StillCovered(p, bs, bi + 1, di)
  BY <1>1, <1>5, <1>6 DEF StillCovered
<1>11. Moving(p, bs, bi + 1, di)
  BY <1>1, <1>5, <1>7, <1>8, <1>9, <1>10 DEF Moving, MergeState
<1> QED BY <1>11 DEF p

\* A base range that has been passed may as well be whole.
LEMMA Restored ==
  ASSUME NEW out, NEW bs \in Seq(BuildMap), NEW bi \in DOMAIN bs, NEW di, NEW r, Ordered(bs),
         Moving(out, [bs EXCEPT ![bi] = r], bi + 1, di)
  PROVE  Moving(out, bs, bi + 1, di)
<1> DEFINE cs == [bs EXCEPT ![bi] = r]
<1>1. /\ bi \in Nat /\ DOMAIN bs \subseteq Nat /\ DOMAIN cs = DOMAIN bs
      /\ \A j \in DOMAIN bs : j # bi => cs[j] = bs[j]
  BY LenProperties
<1>2. Moving(out, cs, bi + 1, di)
  OBVIOUS
<1> HIDE DEF cs
<1>3. \A j \in DOMAIN bs : bi + 1 <= j => cs[j] = bs[j]
  BY <1>1
<1>4. /\ BaseLeftRight(cs, bi + 1) /\ TakenBeforeBase(out, cs, bi + 1)
      /\ StillCovered(out, cs, bi + 1, di)
  BY <1>2 DEF Moving, MergeState
<1>5. BaseLeftRight(bs, bi + 1)
  BY <1>1, <1>3, <1>4 DEF BaseLeftRight
<1>6. TakenBeforeBase(out, bs, bi + 1)
  BY <1>1, <1>3, <1>4 DEF TakenBeforeBase
<1>7. StillCovered(out, bs, bi + 1, di)
  BY <1>1, <1>3, <1>4 DEF StillCovered
<1> QED BY <1>2, <1>5, <1>6, <1>7 DEF Moving, MergeState

-----------------------------------------------------------------------------
(* The cases of the merge are made of its moves.                            *)

\* What is left of the base from the diff's start on.
BaseFromDiff ==
  [Offset |-> diff.Offset, Length |-> End(base) - diff.Offset, BuildId |-> base.BuildId,
   BuildStorageOffset |-> base.BuildStorageOffset + (diff.Offset - base.Offset)]

LEMMA Parts ==
  ASSUME base \in BuildMap, diff \in BuildMap
  PROVE  /\ ~Before(base, diff) /\ diff.Offset > base.Offset =>
              /\ Part(LeftBase, base, base.Offset, diff.Offset)
              /\ Part(BaseFromDiff, base, diff.Offset, End(base))
         /\ ~Before(diff, base) /\ End(base) > End(diff) =>
              /\ Part(RightBase, base, End(diff), End(base))
              /\ diff.Length > 0 /\ diff.Offset > base.Offset =>
                   Part(RightBase, BaseFromDiff, End(diff), End(base))
<1> HIDE DEF base, diff
<1>1. /\ base.Offset \in Nat /\ base.Length \in Nat /\ base.BuildStorageOffset \in Nat
      /\ base.BuildId \in Nat /\ diff.Offset \in Nat /\ diff.Length \in Nat
      /\ End(base) = base.Offset + base.Length /\ End(diff) = diff.Offset + diff.Length
  BY RangeTypes
<1>2. ASSUME ~Before(base, diff), diff.Offset > base.Offset
      PROVE  /\ Part(LeftBase, base, base.Offset, diff.Offset)
             /\ Part(BaseFromDiff, base, diff.Offset, End(base))
  <2>1. Part(LeftBase, base, base.Offset, diff.Offset)
    BY <1>1, <1>2 DEF Part, LeftBase, BuildMap, End, Before
  <2>2. Part(BaseFromDiff, base, diff.Offset, End(base))
    BY <1>1, <1>2 DEF Part, BaseFromDiff, BuildMap, End, Before
  <2> QED BY <2>1, <2>2
<1>3. ASSUME ~Before(diff, base), End(base) > End(diff)
      PROVE  /\ Part(RightBase, base, End(diff), End(base))
             /\ diff.Length > 0 /\ diff.Offset > base.Offset =>
                  Part(RightBase, BaseFromDiff, End(diff), End(base))
  <2> DEFINE shift == End(diff) - base.Offset
  <2>1. shift \in Nat /\ shift < base.Length /\ base.Offset + shift = End(diff)
    BY <1>1, <1>3 DEF Before
  <2> HIDE DEF shift
  <2>2. RightBase = [base EXCEPT !.Offset = @ + shift, !.Length = @ - shift,
                                 !.BuildStorageOffset = @ + shift]
    BY DEF RightBase, shift
  <2>6. RightBase = [Offset |-> base.Offset + shift, Length |-> base.Length - shift,
                     BuildId |-> base.BuildId, BuildStorageOffset |-> base.BuildStorageOffset + shift]
    BY <2>2 DEF BuildMap
  <2>3. /\ RightBase \in BuildMap /\ RightBase.Offset = End(diff) /\ End(RightBase) = End(base)
        /\ RightBase.BuildId = base.BuildId
        /\ RightBase.BuildStorageOffset = base.BuildStorageOffset + shift
    BY <1>1, <2>1, <2>6 DEF BuildMap, End
  <2> HIDE DEF RightBase
  <2>4. Part(RightBase, base, End(diff), End(base))
    BY <1>1, <1>3, <2>1, <2>3 DEF Part
  <2>5. ASSUME diff.Length > 0, diff.Offset > base.Offset
        PROVE  Part(RightBase, BaseFromDiff, End(diff), End(base))
    <3>1. /\ BaseFromDiff.Offset = diff.Offset /\ BaseFromDiff.BuildId = base.BuildId
          /\ BaseFromDiff.BuildStorageOffset = base.BuildStorageOffset + (diff.Offset - base.Offset)
          /\ End(BaseFromDiff) = End(base)
      BY <1>1 DEF BaseFromDiff, BuildMap, End
    <3>2. base.BuildStorageOffset + shift
            = base.BuildStorageOffset + (diff.Offset - base.Offset) + (End(diff) - diff.Offset)
      BY <1>1 DEF shift
    <3> HIDE DEF BaseFromDiff
    <3> QED BY <1>1, <1>3, <2>3, <2>5, <3>1, <3>2 DEF Part
  <2> QED BY <2>4, <2>5
<1> QED BY <1>2, <1>3

\* Where the moves start, and what they have to reach.
LEMMA MovingNow ==
  ASSUME TypeOK, CleanIsParents, MergeRight, pc = "merge"
  PROVE  /\ Moving(merged, baseMapping, baseIdx, diffIdx)
         /\ Merging => baseIdx \in DOMAIN baseMapping /\ diffIdx \in DOMAIN diffMapping
<1>1. /\ baseIdx \in Nat \ {0} /\ diffIdx \in Nat \ {0} /\ build \in Nat
      /\ DOMAIN baseMapping = 1 .. Len(baseMapping) /\ DOMAIN diffMapping = 1 .. Len(diffMapping)
      /\ Len(baseMapping) \in Nat /\ Len(diffMapping) \in Nat
  BY LenProperties DEF TypeOK, BuildsOK, LoopsOK, Builds
<1> QED BY <1>1 DEF TypeOK, LoopsOK, Moving, MergeRight, Merging

LEMMA MovedOn ==
  ASSUME Inv, pc = "merge", UNCHANGED <<pc, file, create>>,
         Moving(merged', baseMapping', baseIdx', diffIdx')
  PROVE  SnapshotsRight' /\ CleanIsParents' /\ DiffFileRight' /\ CreateRight' /\ MergeRight'
<1>1. SnapshotsRight'
  BY DEF Inv, SnapshotsRight, file
<1>2. CleanIsParents'
  BY DEF Inv, CleanIsParents, file
<1>3. DiffFileRight'
  BY DEF Inv, DiffFileRight, diffFile, Limit, Content, file, create
<1>4. CreateRight'
  BY DEF CreateRight
<1>5. DiffsRight'
  BY DEF Moving, DiffsRight, DirtyRange, file, create
<1>6. TakenRight(merged)' /\ BaseLeftRight(baseMapping, baseIdx)'
  BY DEF Moving, MergeState, TakenRight, BaseLeftRight, file
<1>7. TakenBeforeBase(merged, baseMapping, baseIdx)' /\ TakenBeforeDiff(merged, diffIdx)'
  BY DEF Moving, MergeState, TakenBeforeBase, TakenBeforeDiff, create
<1>8. StillCovered(merged, baseMapping, baseIdx, diffIdx)'
  BY DEF Moving, MergeState, StillCovered, file, create
<1> QED BY <1>1, <1>2, <1>3, <1>4, <1>5, <1>6, <1>7, <1>8 DEF MergeRight, MergeState

LEMMA MergeKeeps ==
  ASSUME Inv,
         \/ BaseBeforeDiff \/ DiffBeforeBase \/ BaseInsideDiff
         \/ DiffInsideBase \/ DiffOverlapsStart \/ DiffOverlapsEnd
  PROVE  SnapshotsRight' /\ CleanIsParents' /\ DiffFileRight' /\ CreateRight' /\ MergeRight'
<1> DEFINE At(bs, bi) == Moving(merged, bs, bi, diffIdx)
<1>1. Merging /\ pc = "merge" /\ UNCHANGED <<pc, file, create>>
  BY DEF BaseBeforeDiff, DiffBeforeBase, BaseInsideDiff, DiffInsideBase, DiffOverlapsStart,
         DiffOverlapsEnd, Overlap, TakeDiffCutBase, Merging
<1>2. /\ Moving(merged, baseMapping, baseIdx, diffIdx)
      /\ baseIdx \in DOMAIN baseMapping /\ diffIdx \in DOMAIN diffMapping
  BY <1>1, MovingNow DEF Inv
<1>3. /\ base \in BuildMap /\ diff \in BuildMap /\ diff.Length > 0
      /\ base.Offset \in Nat /\ End(base) \in Nat /\ diff.Offset \in Nat /\ End(diff) \in Nat
      /\ diff.Offset < End(diff)
  BY <1>2, MovingTypes, RangeTypes DEF base, diff, Moving, DiffsRight, Ordered
<1>4. baseMapping \in Seq(BuildMap) /\ Ordered(baseMapping)
  BY <1>2 DEF Moving, MergeState, BaseLeftRight
\* After the cut no base left begins before the diff's end.
<1>5. ASSUME NEW out, NEW bs, Moving(out, bs, baseIdx, diffIdx), DOMAIN bs = DOMAIN baseMapping,
             End(diff) <= bs[baseIdx].Offset
      PROVE  Moving(Append(out, diff), bs, baseIdx, diffIdx + 1)
  <2>1. ASSUME NEW j \in DOMAIN bs, baseIdx <= j PROVE End(diff) <= bs[j].Offset
    <3>1. CASE j = baseIdx
      BY <1>5, <3>1
    <3>2. CASE j # baseIdx
      <4>1. baseIdx < j /\ baseIdx \in DOMAIN bs
        BY <1>2, <1>5, <2>1, <3>2, MovingTypes
      <4>2. /\ End(bs[baseIdx]) <= bs[j].Offset /\ bs[j].Offset \in Nat
            /\ bs[baseIdx] \in BuildMap /\ End(bs[baseIdx]) \in Nat
        BY <1>5, <4>1, MovingTypes
      <4>3. bs[baseIdx].Offset \in Nat /\ bs[baseIdx].Offset <= End(bs[baseIdx])
        BY <4>2, RangeTypes
      <4> QED BY <1>3, <1>5, <4>2, <4>3
    <3> QED BY <3>1, <3>2
  <2> QED BY <1>2, <1>5, <2>1, TakeDiff DEF diff
\* What was passed does not matter to the diff.
<1>6. ASSUME NEW out, NEW bs, Moving(out, bs, baseIdx + 1, diffIdx), DOMAIN bs = DOMAIN baseMapping,
             bs \in Seq(BuildMap), Ordered(bs), End(diff) <= End(bs[baseIdx])
      PROVE  Moving(Append(out, diff), bs, baseIdx + 1, diffIdx + 1)
  <2>1. ASSUME NEW j \in DOMAIN bs, baseIdx + 1 <= j PROVE End(diff) <= bs[j].Offset
    <3>1. baseIdx < j /\ baseIdx \in DOMAIN bs
      BY <1>2, <1>6, <2>1, MovingTypes
    <3>2. End(bs[baseIdx]) <= bs[j].Offset
      BY <1>6, <3>1 DEF Ordered, Before
    <3>3. bs[j].Offset \in Nat /\ End(bs[baseIdx]) \in Nat
      BY <1>6, <3>1, MovingTypes
    <3> QED BY <1>3, <1>6, <3>2, <3>3
  <2> QED BY <1>2, <1>6, <2>1, TakeDiff DEF diff
<1>7. CASE BaseBeforeDiff
  <2>1. Moving(merged', baseMapping', baseIdx', diffIdx')
    BY <1>2, <1>7, TakeBase DEF BaseBeforeDiff, Before, base, diff
  <2> QED BY <1>1, <2>1, MovedOn
<1>8. CASE DiffBeforeBase
  <2>1. Moving(merged', baseMapping', baseIdx', diffIdx')
    BY <1>2, <1>5, <1>8 DEF DiffBeforeBase, Before, base
  <2> QED BY <1>1, <2>1, MovedOn
<1>9. CASE BaseInsideDiff
  <2>1. Moving(merged', baseMapping', baseIdx', diffIdx')
    BY <1>2, <1>9, DropBase DEF BaseInsideDiff, Inside, base, diff
  <2> QED BY <1>1, <2>1, MovedOn
\* The diff is taken from the start of the base's range m, a part of base or all of it.
<1>10. ASSUME NEW out, NEW m, merged' = Append(out, diff), TakeDiffCutBase,
              Moving(out, [baseMapping EXCEPT ![baseIdx] = m], baseIdx, diffIdx),
              diff.Offset <= m.Offset, End(m) = End(base), End(diff) <= End(base),
              End(base) > End(diff) => Part(RightBase, m, End(diff), End(base))
       PROVE  Moving(merged', baseMapping', baseIdx', diffIdx')
  <2> DEFINE bs == [baseMapping EXCEPT ![baseIdx] = m]
  <2>1. /\ DOMAIN bs = DOMAIN baseMapping /\ bs[baseIdx] = m /\ diffMapping[diffIdx] = diff
        /\ baseIdx \in DOMAIN bs
        /\ [bs EXCEPT ![baseIdx] = RightBase] = [baseMapping EXCEPT ![baseIdx] = RightBase]
    BY <1>2, <1>4 DEF diff
  <2>2. diffIdx' = diffIdx + 1 /\ Moving(out, bs, baseIdx, diffIdx)
    BY <1>10 DEF TakeDiffCutBase
  <2> HIDE DEF bs
  <2>3. CASE End(base) > End(diff)
    <3>1. baseIdx' = baseIdx /\ baseMapping' = [bs EXCEPT ![baseIdx] = RightBase]
      BY <1>3, <1>10, <2>1, <2>3 DEF TakeDiffCutBase
    <3>2. Moving(out, baseMapping', baseIdx, diffIdx)
      BY <1>2, <1>10, <2>1, <2>2, <2>3, <3>1, CutBase
    <3>3. /\ DOMAIN baseMapping' = DOMAIN baseMapping /\ baseMapping'[baseIdx] = RightBase
          /\ RightBase.Offset = End(diff)
      BY <1>3, <1>10, <2>1, <2>3, <3>1 DEF Part
    <3>4. End(diff) <= baseMapping'[baseIdx].Offset
      BY <1>3, <3>3
    <3>5. Moving(Append(out, diff), baseMapping', baseIdx, diffIdx + 1)
      BY <1>5, <3>2, <3>3, <3>4
    <3> QED BY <1>10, <2>2, <3>1, <3>5
  <2>4. CASE End(base) = End(diff)
    <3>1. baseIdx' = baseIdx + 1 /\ baseMapping' = baseMapping
      BY <1>3, <1>10, <2>4 DEF TakeDiffCutBase
    <3>2. Moving(out, bs, baseIdx + 1, diffIdx)
      BY <1>2, <1>3, <1>10, <2>1, <2>2, <2>4, DropBase
    <3>3. Moving(out, baseMapping, baseIdx + 1, diffIdx)
      BY <1>2, <1>4, <3>2, Restored DEF bs
    <3> QED BY <1>3, <1>4, <1>6, <1>10, <2>2, <2>4, <3>1, <3>3 DEF base
  <2> QED BY <1>3, <1>10, <2>3, <2>4
\* The base's part before the diff is taken first.
<1>11. ASSUME ~Before(base, diff), diff.Offset > base.Offset
       PROVE  /\ WithLeftBase = Append(merged, LeftBase)
              /\ Moving(WithLeftBase, [baseMapping EXCEPT ![baseIdx] = BaseFromDiff], baseIdx, diffIdx)
              /\ BaseFromDiff.Offset = diff.Offset /\ End(BaseFromDiff) = End(base)
  <2>1. /\ Part(LeftBase, base, base.Offset, diff.Offset)
        /\ Part(BaseFromDiff, base, diff.Offset, End(base))
    BY <1>3, <1>11, Parts
  <2>2. WithLeftBase = Append(merged, LeftBase)
    BY <1>11 DEF WithLeftBase
  <2>3. Moving(Append(merged, LeftBase), [baseMapping EXCEPT ![baseIdx] = BaseFromDiff], baseIdx, diffIdx)
    BY <1>2, <2>1, TakeLeft DEF base, diff
  <2> QED BY <2>1, <2>2, <2>3 DEF Part
<1>12. CASE DiffInsideBase
  <2>1. /\ ~Before(base, diff) /\ ~Before(diff, base)
        /\ base.Offset <= diff.Offset /\ End(diff) <= End(base)
        /\ merged' = Append(WithLeftBase, diff) /\ TakeDiffCutBase
    BY <1>12 DEF DiffInsideBase, Overlap, Inside
  <2>2. CASE diff.Offset > base.Offset
    <3>1. End(base) > End(diff) => Part(RightBase, BaseFromDiff, End(diff), End(base))
      BY <1>3, <2>1, <2>2, Parts
    <3>2. diff.Offset <= BaseFromDiff.Offset
      BY <1>3, <1>11, <2>1, <2>2
    <3>3. Moving(merged', baseMapping', baseIdx', diffIdx')
      BY <1>10, <1>11, <2>1, <2>2, <3>1, <3>2
    <3> QED BY <1>1, <3>3, MovedOn
  <2>3. CASE diff.Offset = base.Offset
    <3>1. WithLeftBase = merged
      BY <1>3, <2>3 DEF WithLeftBase
    <3>2. [baseMapping EXCEPT ![baseIdx] = base] = baseMapping
      BY <1>2, <1>4 DEF base
    <3>3. End(base) > End(diff) => Part(RightBase, base, End(diff), End(base))
      BY <1>3, <2>1, Parts
    <3>4. Moving(merged', baseMapping', baseIdx', diffIdx')
      BY <1>2, <1>3, <1>10, <2>1, <2>3, <3>1, <3>2, <3>3
    <3> QED BY <1>1, <3>4, MovedOn
  <2> QED BY <1>3, <2>1, <2>2, <2>3
<1>13. CASE DiffOverlapsStart
  <2>1. /\ ~Before(diff, base) /\ ~Inside(base, diff) /\ base.Offset > diff.Offset
        /\ merged' = Append(merged, diff) /\ TakeDiffCutBase
    BY <1>13 DEF DiffOverlapsStart, Overlap
  <2>2. End(base) > End(diff)
    BY <1>3, <2>1 DEF Inside
  <2>3. [baseMapping EXCEPT ![baseIdx] = base] = baseMapping
    BY <1>2, <1>4 DEF base
  <2>4. Part(RightBase, base, End(diff), End(base))
    BY <1>3, <2>1, <2>2, Parts
  <2>5. diff.Offset <= base.Offset /\ End(diff) <= End(base)
    BY <1>3, <2>1, <2>2
  <2>6. Moving(merged', baseMapping', baseIdx', diffIdx')
    BY <1>2, <1>10, <2>1, <2>3, <2>4, <2>5
  <2> QED BY <1>1, <2>6, MovedOn
<1>14. CASE DiffOverlapsEnd
  <2>1. /\ ~Before(base, diff) /\ ~Inside(diff, base) /\ diff.Offset > base.Offset
        /\ merged' = WithLeftBase /\ baseIdx' = baseIdx + 1 /\ baseMapping' = baseMapping
        /\ diffIdx' = diffIdx
    BY <1>14 DEF DiffOverlapsEnd, Overlap
  <2>2. End(base) <= End(diff)
    BY <1>3, <2>1 DEF Inside
  <2> DEFINE bs == [baseMapping EXCEPT ![baseIdx] = BaseFromDiff]
  <2>3. bs[baseIdx] = BaseFromDiff /\ baseIdx \in DOMAIN bs /\ diffMapping[diffIdx] = diff
    BY <1>2, <1>4 DEF diff
  <2>4. /\ Moving(merged', bs, baseIdx, diffIdx)
        /\ BaseFromDiff.Offset = diff.Offset /\ End(BaseFromDiff) = End(base)
    BY <1>11, <2>1
  <2> HIDE DEF bs
  <2>5. Moving(merged', bs, baseIdx + 1, diffIdx)
    BY <1>2, <1>3, <2>2, <2>3, <2>4, DropBase
  <2>6. Moving(merged', baseMapping', baseIdx', diffIdx')
    BY <1>2, <1>4, <2>1, <2>5, Restored DEF bs
  <2> QED BY <1>1, <2>6, MovedOn
<1> QED BY <1>7, <1>8, <1>9, <1>12, <1>13, <1>14

-----------------------------------------------------------------------------
(* The new header.                                                          *)

\* The ranges left of q are put behind the ones taken.
Joined(p, out, q, k) ==
  /\ p \in Seq(BuildMap) /\ Ordered(p)
  /\ \A i \in DOMAIN p : \/ \E j \in DOMAIN out : p[i] = out[j]
                         \/ \E j \in DOMAIN q : k <= j /\ p[i] = q[j]
  /\ \A j \in DOMAIN out : \E i \in DOMAIN p : p[i] = out[j]
  /\ \A j \in DOMAIN q : k <= j => \E i \in DOMAIN p : p[i] = q[j]

EndsBefore(out, q, k) ==
  \A j \in DOMAIN q : k <= j => \A i \in DOMAIN out : End(out[i]) <= q[j].Offset

LEMMA WithRest ==
  ASSUME NEW out \in Seq(BuildMap), NEW q \in Seq(BuildMap), NEW k \in 1 .. Len(q) + 1,
         Ordered(out), Ordered(q), EndsBefore(out, q, k)
  PROVE  Joined(out \o Rest(q, k), out, q, k)
<1> DEFINE r == Rest(q, k)
           p == out \o r
<1>1. /\ Len(q) \in Nat /\ DOMAIN q = 1 .. Len(q) /\ \A j \in DOMAIN q : q[j] \in BuildMap
      /\ Len(out) \in Nat /\ DOMAIN out = 1 .. Len(out) /\ \A j \in DOMAIN out : out[j] \in BuildMap
  BY LenProperties
<1>2. /\ r \in Seq(BuildMap) /\ Len(r) = Len(q) - k + 1
      /\ \A j \in 1 .. Len(q) - k + 1 : r[j] = q[k + j - 1]
  <2>1. \A j \in k .. Len(q) : q[j] \in BuildMap
    BY <1>1
  <2> QED BY <1>1, <2>1, SubSeqProperties DEF Rest
<1> HIDE DEF r
<1>3. /\ p \in Seq(BuildMap) /\ Len(p) = Len(out) + Len(r)
      /\ \A i \in 1 .. Len(out) + Len(r) : p[i] = IF i <= Len(out) THEN out[i] ELSE r[i - Len(out)]
  <2>1. r \in Seq(BuildMap)
    BY <1>2
  <2> QED BY <2>1, ConcatProperties
<1> HIDE DEF p
<1>4. DOMAIN p = 1 .. Len(out) + (Len(q) - k + 1)
  BY <1>2, <1>3, LenProperties
<1>5. \A j \in DOMAIN out : j \in DOMAIN p /\ p[j] = out[j]
  BY <1>1, <1>2, <1>3, <1>4
<1>6. ASSUME NEW j \in DOMAIN q, k <= j
      PROVE  (Len(out) + (j - k + 1)) \in DOMAIN p /\ p[Len(out) + (j - k + 1)] = q[j]
  <2> DEFINE h == j - k + 1
             i == Len(out) + h
  <2>1. /\ h \in 1 .. Len(q) - k + 1 /\ k + h - 1 = j
        /\ i \in DOMAIN p /\ i - Len(out) = h /\ ~(i <= Len(out))
        /\ i \in 1 .. Len(out) + Len(r)
    BY <1>1, <1>2, <1>4, <1>6
  <2> HIDE DEF h, i
  <2>2. p[i] = r[h]
    BY <1>3, <2>1
  <2>3. r[h] = q[j]
    BY <1>2, <2>1
  <2> QED BY <2>1, <2>2, <2>3 DEF h, i
<1>7. ASSUME NEW i \in DOMAIN p, i \notin DOMAIN out
      PROVE  /\ (i - Len(out) + k - 1) \in DOMAIN q /\ k <= i - Len(out) + k - 1
             /\ p[i] = q[i - Len(out) + k - 1]
  <2>1. /\ (i - Len(out) + k - 1) \in DOMAIN q /\ k <= i - Len(out) + k - 1
        /\ Len(out) + ((i - Len(out) + k - 1) - k + 1) = i
    BY <1>1, <1>4, <1>7
  <2> QED BY <1>6, <2>1
<1>8. ASSUME NEW i \in DOMAIN p PROVE p[i].Length > 0 /\ End(p[i]) <= Blocks
  BY <1>5, <1>7 DEF Ordered
<1>9. ASSUME NEW i \in DOMAIN p, NEW j \in DOMAIN p, i < j PROVE Before(p[i], p[j])
  <2>1. CASE i \in DOMAIN out /\ j \in DOMAIN out
    BY <1>5, <1>9, <2>1 DEF Ordered
  <2>2. CASE i \in DOMAIN out /\ j \notin DOMAIN out
    BY <1>5, <1>7, <2>2 DEF Before, EndsBefore
  <2>3. CASE i \notin DOMAIN out
    <3>1. j \notin DOMAIN out
      BY <1>1, <1>4, <1>9, <2>3
    <3>2. i - Len(out) + k - 1 < j - Len(out) + k - 1
      BY <1>1, <1>4, <1>9
    <3> QED BY <1>7, <2>3, <3>1, <3>2 DEF Ordered
  <2> QED BY <2>1, <2>2, <2>3
<1>10. Ordered(p)
  BY <1>8, <1>9 DEF Ordered
<1>11. p \in Seq(BuildMap)
  BY <1>3
<1>12. \A i \in DOMAIN p : \/ \E j \in DOMAIN out : p[i] = out[j]
                           \/ \E j \in DOMAIN q : k <= j /\ p[i] = q[j]
  BY <1>5, <1>7
<1>13. \A j \in DOMAIN q : k <= j => \E i \in DOMAIN p : p[i] = q[j]
  BY <1>6
<1>14. \A j \in DOMAIN out : \E i \in DOMAIN p : p[i] = out[j]
  BY <1>5
<1>15. Joined(p, out, q, k)
  BY <1>10, <1>11, <1>12, <1>13, <1>14 DEF Joined
<1> QED BY <1>15 DEF p, r

LEMMA MergedRight ==
  ASSUME Inv, pc = "merge", ~Merging
  PROVE  /\ Ordered(Merged) /\ Covers(Merged)
         /\ \A i \in DOMAIN Merged : Right(files, Merged[i], disk, build + 1)
<1>1. Moving(merged, baseMapping, baseIdx, diffIdx)
  BY MovingNow DEF Inv
<1>2. /\ merged \in Seq(BuildMap) /\ baseMapping \in Seq(BuildMap) /\ diffMapping \in Seq(BuildMap)
      /\ baseIdx \in 1 .. Len(baseMapping) + 1 /\ diffIdx \in 1 .. Len(diffMapping) + 1
      /\ Len(baseMapping) \in Nat /\ Len(diffMapping) \in Nat
      /\ DOMAIN baseMapping = 1 .. Len(baseMapping) /\ DOMAIN diffMapping = 1 .. Len(diffMapping)
  BY LenProperties DEF Inv, TypeOK, LoopsOK
<1>3. /\ TakenRight(merged) /\ Ordered(merged) /\ Ordered(baseMapping) /\ DiffsRight
      /\ Ordered(diffMapping) /\ BaseLeftRight(baseMapping, baseIdx)
      /\ TakenBeforeBase(merged, baseMapping, baseIdx) /\ TakenBeforeDiff(merged, diffIdx)
      /\ StillCovered(merged, baseMapping, baseIdx, diffIdx)
  BY <1>1 DEF Moving, MergeState, TakenRight, BaseLeftRight, DiffsRight
<1>4. ASSUME NEW q \in Seq(BuildMap) PROVE Rest(q, Len(q) + 1) = <<>>
  <2>1. Len(q) \in Nat /\ \A j \in Len(q) + 1 .. Len(q) : q[j] \in BuildMap
    BY LenProperties
  <2>2. /\ Rest(q, Len(q) + 1) \in Seq(BuildMap)
        /\ Len(Rest(q, Len(q) + 1)) = 0
    BY <2>1, SubSeqProperties DEF Rest
  <2> QED BY <2>2, EmptySeq
<1>5. Joined(merged \o Rest(diffMapping, diffIdx), merged, diffMapping, diffIdx)
  <2>1. Ordered(merged) /\ Ordered(diffMapping) /\ EndsBefore(merged, diffMapping, diffIdx)
    BY <1>3 DEF EndsBefore, TakenBeforeDiff
  <2>2. merged \in Seq(BuildMap) /\ diffMapping \in Seq(BuildMap) /\ diffIdx \in 1 .. Len(diffMapping) + 1
    BY <1>2
  <2> QED BY ONLY <2>1, <2>2, WithRest
<1>6. Joined(merged \o Rest(baseMapping, baseIdx), merged, baseMapping, baseIdx)
  <2>1. Ordered(merged) /\ Ordered(baseMapping) /\ EndsBefore(merged, baseMapping, baseIdx)
    BY <1>3 DEF EndsBefore, TakenBeforeBase
  <2>2. merged \in Seq(BuildMap) /\ baseMapping \in Seq(BuildMap) /\ baseIdx \in 1 .. Len(baseMapping) + 1
    BY <1>2
  <2> QED BY ONLY <2>1, <2>2, WithRest
<1>7. CASE baseIdx = Len(baseMapping) + 1
  <2>1. Merged = merged \o Rest(diffMapping, diffIdx)
    BY <1>2, <1>4, <1>7, ConcatEmptySeq DEF Merged
  <2>2. Joined(Merged, merged, diffMapping, diffIdx)
    BY <2>1, <1>5
  <2> HIDE DEF Merged
  <2>3. \A j \in DOMAIN baseMapping : ~(baseIdx <= j)
    BY <1>2, <1>7
  <2>4. Covers(Merged)
    BY <1>3, <2>2, <2>3 DEF Covers, StillCovered, Joined
  <2>5. \A i \in DOMAIN Merged : Right(files, Merged[i], disk, build + 1)
    BY <1>3, <2>2 DEF TakenRight, DiffsRight, DirtyRange, Joined
  <2> QED BY <2>2, <2>4, <2>5 DEF Joined
<1>8. CASE diffIdx = Len(diffMapping) + 1
  <2>1. Merged = merged \o Rest(baseMapping, baseIdx)
    <3>1. merged \o Rest(baseMapping, baseIdx) \in Seq(BuildMap)
      BY <1>6 DEF Joined
    <3> QED BY <1>2, <1>4, <1>8, <3>1, ConcatEmptySeq DEF Merged
  <2>2. Joined(Merged, merged, baseMapping, baseIdx)
    BY <2>1, <1>6
  <2> HIDE DEF Merged
  <2>3. \A j \in DOMAIN diffMapping : ~(diffIdx <= j)
    BY <1>2, <1>8
  <2>4. Covers(Merged)
    BY <1>3, <2>2, <2>3 DEF Covers, StillCovered, Joined
  <2>5. ASSUME NEW j \in DOMAIN baseMapping, baseIdx <= j
        PROVE  Right(files, baseMapping[j], disk, build + 1)
    <3>1. ASSUME NEW b \in Block, In(b, baseMapping[j]) PROVE b \notin dirty
      <4>1. ~ \E i \in DOMAIN merged : In(b, merged[i])
        <5>1. ASSUME NEW i \in DOMAIN merged, In(b, merged[i]) PROVE FALSE
          <6>1. End(merged[i]) <= baseMapping[j].Offset
            BY <1>3, <2>5 DEF TakenBeforeBase
          <6>2. End(merged[i]) \in Nat /\ baseMapping[j].Offset \in Nat /\ b \in Nat
            BY <1>1, MovingTypes DEF Block
          <6> QED BY <3>1, <5>1, <6>1, <6>2 DEF In
        <5> QED BY <5>1
      <4> QED BY <1>3, <2>3, <4>1 DEF StillCovered
    <3>2. Right(files, baseMapping[j], disks[parent], build) /\ baseMapping[j] \in BuildMap
      BY <1>1, <1>3, <2>5, MovingTypes DEF BaseLeftRight
    <3> QED BY <1>1, <3>1, <3>2, CleanRight DEF Moving
  <2>6. \A i \in DOMAIN Merged : Right(files, Merged[i], disk, build + 1)
    BY <1>3, <2>2, <2>5 DEF TakenRight, Joined
  <2> QED BY <2>2, <2>4, <2>6 DEF Joined
<1> QED BY <1>2, <1>7, <1>8 DEF Merging

-----------------------------------------------------------------------------
(* The list of the dirty ranges.                                            *)

\* The next dirty block is the next one of the diff file.
LEMMA NextStored ==
  ASSUME Inv, pc = "create", NEW b \in Block, IsNextSet(b)
  PROVE  /\ cursor <= b /\ b \in dirty /\ b < Blocks
         /\ stored + 1 <= Len(diffFile) /\ diffFile[stored + 1] = Content(b)
         /\ \A i \in DOMAIN diffFile : i <= stored + 1 <=> diffFile[i][2] < b + 1
         /\ \A c \in dirty : c < b + 1 => c < cursor \/ c = b
<1>1. /\ b \in dirty /\ cursor <= b /\ b < Blocks /\ b \in Nat /\ cursor \in Nat /\ Blocks \in Nat
      /\ \A c \in dirty : cursor <= c => b <= c
      /\ \A c \in dirty : c \in Nat
  BY DEF Inv, TypeOK, FilesOK, LoopsOK, IsNextSet, Block
<1>2. /\ \A i, j \in DOMAIN diffFile : i < j => diffFile[i][2] < diffFile[j][2]
      /\ \A i \in DOMAIN diffFile : /\ diffFile[i][2] \in dirty
                                    /\ diffFile[i] = Content(diffFile[i][2])
      /\ \E i \in DOMAIN diffFile : diffFile[i][2] = b
  BY <1>1 DEF Inv, DiffFileRight, Limit
<1>3. /\ stored \in Nat /\ stored <= Len(diffFile)
      /\ \A i \in DOMAIN diffFile : i <= stored <=> diffFile[i][2] < cursor
  BY DEF Inv, TypeOK, LoopsOK, CreateRight, stored
<1>4. DOMAIN diffFile = 1 .. Len(diffFile) /\ Len(diffFile) \in Nat
  <2>1. build + 1 \in Builds
    BY DEF Inv, TypeOK, BuildsOK, Builds
  <2>2. diffFile \in Seq(Builds \X Block)
    BY <2>1 DEF Inv, TypeOK, FilesOK, diffFile
  <2> QED BY <2>2, LenProperties
<1> HIDE DEF diffFile, stored
<1>5. PICK i \in DOMAIN diffFile : diffFile[i][2] = b
  BY <1>2
<1>6. i = stored + 1
  <2>1. i > stored /\ stored + 1 \in DOMAIN diffFile
    BY <1>1, <1>3, <1>4, <1>5
  <2>2. ASSUME stored + 1 < i PROVE FALSE
    <3>1. diffFile[stored + 1][2] < b /\ diffFile[stored + 1][2] \in dirty
      BY <1>2, <1>5, <2>1, <2>2
    <3>2. ~(diffFile[stored + 1][2] < cursor)
      BY <1>3, <2>1
    <3> DEFINE c == diffFile[stored + 1][2]
    <3>3. c \in dirty /\ c < b /\ ~(c < cursor) /\ c \in Nat
      BY <1>1, <3>1, <3>2
    <3> HIDE DEF c
    <3> QED BY <1>1, <3>3
  <2> QED BY <1>3, <1>4, <2>1, <2>2
<1>7. \A c \in dirty : c < b + 1 => c < cursor \/ c = b
  BY <1>1
<1>8. ASSUME NEW j \in DOMAIN diffFile PROVE j <= stored + 1 <=> diffFile[j][2] < b + 1
  <2>4. diffFile[j][2] \in dirty
    BY <1>2
  <2>5. diffFile[j][2] \in Nat
    BY <1>1, <2>4
  <2>1. j \in Nat /\ i \in Nat /\ diffFile[j][2] \in Nat
    BY <1>4, <1>5, <2>5
  <2>2. j < i => diffFile[j][2] < b
    BY <1>2, <1>5
  <2>3. i < j => b < diffFile[j][2]
    BY <1>2, <1>5
  <2> QED BY <1>1, <1>3, <1>5, <1>6, <2>1, <2>2, <2>3
<1> QED BY <1>1, <1>2, <1>4, <1>5, <1>6, <1>7, <1>8

\* What the list holds once the current run is put behind it.
LEMMA WithRunRight ==
  ASSUME Inv, pc = "create"
  PROVE  /\ WithRun \in Seq(BuildMap) /\ Ordered(WithRun)
         /\ \A i \in DOMAIN WithRun : End(WithRun[i]) <= cursor /\ DirtyRange(WithRun[i])
         /\ \A b \in dirty : b < cursor => \E i \in DOMAIN WithRun : In(b, WithRun[i])
<1>1. /\ Run \in BuildMap /\ WithRun \in Seq(BuildMap) /\ diffMapping \in Seq(BuildMap)
      /\ blockLength \in Nat /\ startBlock \in Nat
  BY RunType DEF Inv, TypeOK, LoopsOK
<1>2. /\ startBlock + blockLength = cursor /\ cursor <= Blocks
      /\ (blockLength = 0 => startBlock = 0 /\ diffMapping = <<>>)
      /\ DirtyRange(Run) /\ Ordered(diffMapping)
      /\ \A i \in DOMAIN diffMapping : Before(diffMapping[i], Run) /\ DirtyRange(diffMapping[i])
      /\ \A b \in dirty : b < cursor =>
           In(b, Run) \/ \E i \in DOMAIN diffMapping : In(b, diffMapping[i])
  BY DEF Inv, CreateRight
<1>3. Run.Offset = startBlock /\ Run.Length = blockLength /\ End(Run) = cursor
  BY <1>2 DEF Run, End
<1> HIDE DEF Run
<1>4. CASE blockLength = 0
  <2>1. WithRun = <<>> /\ cursor = 0
    BY <1>1, <1>2, <1>4 DEF WithRun
  <2>2. \A b \in dirty : ~(b < 0)
    BY DEF Inv, TypeOK, FilesOK, Block
  <2> QED BY <1>1, <1>2, <2>1, <2>2 DEF Ordered
<1>5. CASE blockLength > 0
  <2>1. WithRun = Append(diffMapping, Run)
    BY <1>5 DEF WithRun
  <2>2. Ordered(WithRun)
    BY <1>1, <1>2, <1>3, <1>5, <2>1, OrderedAppend
  <2>3. /\ DOMAIN WithRun = 1 .. Len(diffMapping) + 1 /\ DOMAIN diffMapping = 1 .. Len(diffMapping)
        /\ Len(diffMapping) \in Nat
        /\ \A i \in DOMAIN diffMapping : WithRun[i] = diffMapping[i]
        /\ WithRun[Len(diffMapping) + 1] = Run
    BY <1>1, <2>1, Appended
  <2> HIDE DEF WithRun
  <2>4. \A i \in DOMAIN WithRun : i \in DOMAIN diffMapping \/ i = Len(diffMapping) + 1
    BY <2>3
  <2>5. \A i \in DOMAIN WithRun : DirtyRange(WithRun[i])
    BY <1>2, <2>3, <2>4
  <2>6. ASSUME NEW i \in DOMAIN WithRun PROVE End(WithRun[i]) <= cursor
    <3>1. CASE i \in DOMAIN diffMapping
      <4>1. End(diffMapping[i]) <= startBlock /\ diffMapping[i] \in BuildMap
        BY <1>1, <1>2, <1>3, <3>1, LenProperties DEF Before
      <4>2. End(diffMapping[i]) \in Nat
        BY <4>1, RangeTypes
      <4> QED BY <1>1, <1>2, <2>3, <3>1, <4>1, <4>2
    <3>2. CASE i = Len(diffMapping) + 1
      BY <1>1, <1>2, <1>3, <2>3, <3>2
    <3> QED BY <2>4, <3>1, <3>2
  <2>7. \A b \in dirty : b < cursor => \E i \in DOMAIN WithRun : In(b, WithRun[i])
    <3>1. /\ Len(diffMapping) + 1 \in DOMAIN WithRun
          /\ \A i \in DOMAIN diffMapping : i \in DOMAIN WithRun
      BY <2>3
    <3> QED BY <1>2, <2>3, <3>1
  <2> QED BY <1>1, <2>2, <2>5, <2>6, <2>7
<1> QED BY <1>1, <1>4, <1>5

LEMMA Remainder == \A x, y, z \in Nat : x + y = z + 1 => y - 1 = z - x
OBVIOUS

\* A block more in a run of the diff file.
LEMMA RunGrows ==
  ASSUME Inv, pc = "create", NEW b \in Block, IsNextSet(b), UNCHANGED <<pc, file>>,
         startBlock' + blockLength' = b + 1, startBlock' <= b, blockLength' \in Nat \ {0},
         startBlock' \in Nat, buildStorageOffset' \in Nat,
         buildStorageOffset' + blockLength' = stored + 1, cursor' = b + 1,
         \/ startBlock' = b
         \/ /\ startBlock' = startBlock /\ b = cursor
            /\ buildStorageOffset' = buildStorageOffset,
         Ordered(diffMapping'),
         \A i \in DOMAIN diffMapping' : End(diffMapping'[i]) <= startBlock' /\ DirtyRange(diffMapping'[i]),
         \A c \in dirty : c < cursor /\ ~(startBlock' <= c) =>
            \E i \in DOMAIN diffMapping' : In(c, diffMapping'[i])
  PROVE  CreateRight'
<1>1. /\ cursor <= b /\ b \in dirty /\ b < Blocks /\ b \in Nat /\ cursor \in Nat
      /\ stored + 1 <= Len(diffFile) /\ diffFile[stored + 1] = Content(b)
      /\ \A i \in DOMAIN diffFile : i <= stored + 1 <=> diffFile[i][2] < b + 1
      /\ \A c \in dirty : c < b + 1 => c < cursor \/ c = b
  BY NextStored DEF Block, Inv, TypeOK, LoopsOK
<1>2. /\ startBlock + blockLength = cursor /\ DirtyRange(Run)
      /\ startBlock \in Nat /\ blockLength \in Nat /\ buildStorageOffset \in Nat /\ build \in Nat
      /\ dirty \subseteq Nat
  BY DEF Inv, CreateRight, TypeOK, LoopsOK, BuildsOK, FilesOK, Builds, Block
<1>3. diffFile' = diffFile /\ stored' = stored + 1
  BY DEF diffFile, file, stored
<1>4. /\ Run'.Offset = startBlock' /\ End(Run') = b + 1 /\ Run'.BuildId = build + 1
      /\ Run'.BuildStorageOffset = buildStorageOffset'
  BY DEF Run, End, file
<1>5. /\ Run.Offset = startBlock /\ End(Run) = cursor /\ Run.BuildId = build + 1
      /\ Run.BuildStorageOffset = buildStorageOffset
  BY <1>2 DEF Run, End
<1> DEFINE R == Run'
<1> HIDE DEF Run, R
<1>6. ASSUME NEW c \in Block, startBlock' <= c, c < b + 1
      PROVE  /\ c \in dirty
             /\ buildStorageOffset' + (c - startBlock') + 1 <= Len(files[build + 1])
             /\ files[build + 1][buildStorageOffset' + (c - startBlock') + 1] = <<disk[c], c>>
  <2>1. CASE c = b
    <3>1. buildStorageOffset' + (c - startBlock') + 1 = stored + 1
      <4>1. stored + 1 \in Nat
        BY <1>2 DEF stored
      <4>3. blockLength' - 1 = b - startBlock'
        BY <1>1, Remainder
      <4>2. buildStorageOffset' + (blockLength' - 1) + 1 = stored + 1
        BY <4>1
      <4> QED BY <2>1, <4>2, <4>3
    <3> QED BY <1>1, <2>1, <3>1 DEF diffFile, Content
  <2>2. CASE c < b
    <3>1. startBlock' = startBlock /\ b = cursor /\ buildStorageOffset' = buildStorageOffset /\ c \in Nat
      BY <1>1, <1>6, <2>2 DEF Block
    <3>2. In(c, Run)
      BY <1>2, <1>5, <1>6, <2>2, <3>1 DEF In
    <3> QED BY <1>2, <1>5, <3>1, <3>2 DEF DirtyRange, Right
  <2>3. c = b \/ c < b
    BY <1>1, <1>6 DEF Block
  <2> QED BY <2>1, <2>2, <2>3
<1>7. DirtyRange(R)
  <2>1. \A c \in Block : In(c, R) => startBlock' <= c /\ c < b + 1
    BY <1>4 DEF In, R
  <2> QED BY <1>2, <1>4, <1>6, <2>1 DEF DirtyRange, Right, R
<1>8. \A c \in dirty : c < b + 1 =>
        In(c, R) \/ \E i \in DOMAIN diffMapping' : In(c, diffMapping'[i])
  <2>1. \A c \in dirty : c < b + 1 /\ startBlock' <= c => In(c, R)
    BY <1>4 DEF In, R
  <2> QED BY <1>1, <1>2, <2>1
<1>9. \A m : DirtyRange(m) <=> DirtyRange(m)'
  BY DEF DirtyRange, file
<1>10. DirtyRange(Run)'
  BY <1>7 DEF DirtyRange, R, file
<1>11. \A i \in DOMAIN diffMapping' : Before(diffMapping'[i], R) /\ DirtyRange(diffMapping'[i])
  BY <1>4 DEF Before, R
<1>12. (\A i \in DOMAIN diffMapping : Before(diffMapping[i], Run) /\ DirtyRange(diffMapping[i]))'
  BY <1>11 DEF DirtyRange, R, file
<1>13. (\A c \in dirty : c < cursor =>
          In(c, Run) \/ \E i \in DOMAIN diffMapping : In(c, diffMapping[i]))'
  BY <1>8 DEF R, file
<1>14. (\A i \in DOMAIN diffFile : i <= stored <=> diffFile[i][2] < cursor)'
  BY <1>1, <1>3
<1>15. /\ (startBlock + blockLength = cursor /\ cursor <= Blocks)'
       /\ (stored <= Len(diffFile))' /\ blockLength' # 0
  <2>1. b + 1 <= Blocks
    <3>1. b \in Nat /\ Blocks \in Nat /\ b < Blocks
      BY <1>1
    <3> QED BY ONLY <3>1
  <2> QED BY <1>1, <1>3, <2>1
<1>16. Ordered(diffMapping)'
  BY DEF Ordered
<1> QED BY <1>10, <1>12, <1>13, <1>14, <1>15, <1>16 DEF CreateRight

LEMMA CreateKeeps ==
  ASSUME Inv
  PROVE  /\ \A b \in Block : LengthenRange(b) \/ NextRange(b) => CreateRight'
         /\ MappingCreated => MergeRight'
<1>0. /\ startBlock \in Nat /\ blockLength \in Nat /\ buildStorageOffset \in Nat /\ cursor \in Nat
      /\ \A b \in dirty : b \in Nat
  BY DEF Inv, TypeOK, LoopsOK, FilesOK, Block
<1>1. ASSUME NEW b \in Block, LengthenRange(b) PROVE CreateRight'
  <2>1. /\ pc = "create" /\ IsNextSet(b) /\ UNCHANGED <<pc, file>> /\ b \in Nat
        /\ startBlock + blockLength = b /\ b = cursor
        /\ startBlock' = startBlock /\ blockLength' = blockLength + 1 /\ cursor' = b + 1
        /\ buildStorageOffset' = buildStorageOffset /\ diffMapping' = diffMapping
    BY <1>1 DEF LengthenRange, Inv, CreateRight, Block
  <2>2. /\ startBlock' + blockLength' = b + 1 /\ startBlock' <= b
        /\ blockLength' \in Nat \ {0} /\ startBlock' \in Nat /\ buildStorageOffset' \in Nat
        /\ buildStorageOffset' + blockLength' = stored + 1
    BY <1>0, <2>1 DEF stored
  <2>3. /\ Ordered(diffMapping')
        /\ \A i \in DOMAIN diffMapping' : End(diffMapping'[i]) <= startBlock' /\ DirtyRange(diffMapping'[i])
    BY <2>1 DEF Inv, CreateRight, Before, Run
  <2>4. \A c \in dirty : c < cursor /\ ~(startBlock' <= c) =>
            \E i \in DOMAIN diffMapping' : In(c, diffMapping'[i])
    BY <2>1 DEF Inv, CreateRight, In, Run
  <2> QED BY <2>1, <2>2, <2>3, <2>4, RunGrows
<1>2. ASSUME NEW b \in Block, NextRange(b) PROVE CreateRight'
  <2>1. /\ pc = "create" /\ IsNextSet(b) /\ UNCHANGED <<pc, file>> /\ b \in Nat
        /\ startBlock' = b /\ blockLength' = 1 /\ cursor' = b + 1
        /\ buildStorageOffset' = stored /\ diffMapping' = WithRun /\ cursor <= b
    BY <1>2 DEF NextRange, stored, IsNextSet, Block
  <2>2. /\ startBlock' + blockLength' = b + 1 /\ startBlock' <= b
        /\ blockLength' \in Nat \ {0} /\ startBlock' \in Nat /\ buildStorageOffset' \in Nat
        /\ buildStorageOffset' + blockLength' = stored + 1
    BY <1>0, <2>1 DEF stored
  <2>3. /\ WithRun \in Seq(BuildMap) /\ Ordered(WithRun)
        /\ \A i \in DOMAIN WithRun : End(WithRun[i]) <= cursor /\ DirtyRange(WithRun[i])
        /\ \A c \in dirty : c < cursor => \E i \in DOMAIN WithRun : In(c, WithRun[i])
    BY <2>1, WithRunRight
  <2>4. \A i \in DOMAIN WithRun : End(WithRun[i]) \in Nat
    BY <2>3, RangeTypes, LenProperties
  <2> HIDE DEF WithRun
  <2>5. \A i \in DOMAIN diffMapping' : End(diffMapping'[i]) <= startBlock' /\ DirtyRange(diffMapping'[i])
    BY <1>0, <2>1, <2>3, <2>4
  <2>6. Ordered(diffMapping') /\ \A c \in dirty : c < cursor /\ ~(startBlock' <= c) =>
            \E i \in DOMAIN diffMapping' : In(c, diffMapping'[i])
    BY <2>1, <2>3
  <2> QED BY <2>1, <2>2, <2>5, <2>6, RunGrows
<1>3. ASSUME MappingCreated PROVE MergeRight'
  <2>1. /\ pc = "create" /\ NoNextSet /\ UNCHANGED file
        /\ diffMapping' = WithRun /\ baseMapping' = mappings[parent]
        /\ baseIdx' = 1 /\ diffIdx' = 1 /\ merged' = <<>>
    BY <1>3 DEF MappingCreated
  <2>2. /\ Ordered(WithRun) /\ \A i \in DOMAIN WithRun : DirtyRange(WithRun[i])
        /\ \A b \in dirty : \E i \in DOMAIN WithRun : In(b, WithRun[i])
        /\ DOMAIN WithRun \subseteq Nat \ {0}
    <3>1. /\ WithRun \in Seq(BuildMap) /\ Ordered(WithRun)
          /\ \A i \in DOMAIN WithRun : DirtyRange(WithRun[i])
          /\ \A b \in dirty : b < cursor => \E i \in DOMAIN WithRun : In(b, WithRun[i])
      BY <2>1, WithRunRight
    <3> QED BY <2>1, <3>1, LenProperties DEF NoNextSet
  <2> HIDE DEF WithRun
  <2>3. DiffsRight'
    <3>1. \A k \in DOMAIN WithRun : Right(files, WithRun[k], disk, build + 1)
                                    /\ \A b \in Block : In(b, WithRun[k]) => b \in dirty
      BY <2>2 DEF DirtyRange
    <3> QED BY <2>1, <2>2, <3>1 DEF DiffsRight, DirtyRange, file
  <2>4. parent \in 0 .. build /\ parent \in Nat /\ build \in Nat /\ mappings[parent] \in Seq(BuildMap)
    BY DEF Inv, TypeOK, BuildsOK, FilesOK, Builds
  <2>5. /\ Ordered(mappings[parent]) /\ Covers(mappings[parent])
        /\ \A i \in DOMAIN mappings[parent] : Right(files, mappings[parent][i], disks[parent], parent)
        /\ DOMAIN mappings[parent] \subseteq Nat \ {0}
        /\ \A i \in DOMAIN mappings[parent] : mappings[parent][i].BuildId \in Nat
    BY <2>4, LenProperties, RangeTypes DEF Inv, SnapshotsRight
  <2>6. \A i \in DOMAIN mappings[parent] : Right(files, mappings[parent][i], disks[parent], build)
    <3>1. ASSUME NEW m, m.BuildId \in Nat, Right(files, m, disks[parent], parent)
          PROVE  Right(files, m, disks[parent], build)
      <4>1. m.BuildId <= build
        BY <2>4, <3>1 DEF Right
      <4> QED BY <3>1, <4>1 DEF Right
    <3> QED BY <2>5, <3>1
  <2>7. TakenRight(merged)'
    BY <2>1 DEF TakenRight, Ordered
  <2>8. BaseLeftRight(baseMapping, baseIdx)'
    BY <2>1, <2>5, <2>6 DEF BaseLeftRight, file
  <2>9. TakenBeforeBase(merged, baseMapping, baseIdx)' /\ TakenBeforeDiff(merged, diffIdx)'
    BY <2>1 DEF TakenBeforeBase, TakenBeforeDiff
  <2>10. \A b \in Block : \/ \E k \in DOMAIN WithRun : 1 <= k /\ In(b, WithRun[k])
                          \/ b \notin dirty /\ \E j \in DOMAIN mappings[parent] :
                                                 1 <= j /\ In(b, mappings[parent][j])
    <3>1. (\A k \in DOMAIN WithRun : 1 <= k) /\ \A k \in DOMAIN mappings[parent] : 1 <= k
      BY <2>2, <2>5
    <3> QED BY <2>2, <2>5, <3>1 DEF Covers
  <2>11. StillCovered(merged, baseMapping, baseIdx, diffIdx)'
    BY <2>1, <2>10 DEF StillCovered, file
  <2> QED BY <2>3, <2>7, <2>8, <2>9, <2>11 DEF MergeRight, MergeState
<1> QED BY <1>1, <1>2, <1>3

-----------------------------------------------------------------------------
(* The diff file and the other steps.                                       *)

\* Older headers do not name the build that is being made.
LEMMA NewFileKeeps ==
  ASSUME TypeOK, SnapshotsRight, NEW x, files' = [files EXCEPT ![build + 1] = x],
         UNCHANGED <<build, mappings, disks>>
  PROVE  SnapshotsRight'
<1>1. build \in Nat /\ DOMAIN files = Builds /\ files[build + 1] = files[build + 1]
  BY DEF TypeOK, BuildsOK, FilesOK, Builds
<1>2. ASSUME NEW g \in 0 .. build, NEW i \in DOMAIN mappings[g]
      PROVE  Right(files', mappings[g][i], disks[g], g)
  <2> DEFINE m == mappings[g][i]
  <2>1. Right(files, m, disks[g], g)
    BY DEF SnapshotsRight
  <2>2. m \in BuildMap
    <3>1. mappings[g] \in Seq(BuildMap)
      BY DEF TypeOK, BuildsOK, FilesOK, Builds
    <3> QED BY <3>1, LenProperties
  <2> HIDE DEF m
  <2>3. m.BuildId # build + 1
    BY <1>1, <2>1, <2>2, RangeTypes DEF Right
  <2>4. files'[m.BuildId] = files[m.BuildId]
    BY <1>1, <2>3
  <2>5. Right(files', m, disks[g], g)
    BY <2>1, <2>4 DEF Right
  <2> QED BY <2>5 DEF m
<1> QED BY <1>2 DEF SnapshotsRight

LEMMA WriteBlockKeeps ==
  ASSUME Inv, NEW b \in Block, WriteBlock(b)
  PROVE  DiffFileRight'
<1>1. /\ pc = "diff" /\ pc' = "diff" /\ IsNextSet(b) /\ cursor' = b + 1 /\ dirty' = dirty
      /\ files' = [files EXCEPT ![build + 1] = Append(@, Content(b))] /\ UNCHANGED <<build, disk>>
  BY DEF WriteBlock
<1>2. /\ b \in Nat /\ cursor \in Nat /\ dirty \subseteq Nat /\ build + 1 \in Builds
      /\ diffFile \in Seq(Builds \X Block) /\ Content(b) \in Builds \X Block
      /\ Content(b)[2] = b
  <2>1. build + 1 \in Builds
    BY <1>1 DEF Inv, TypeOK, BuildsOK, Builds
  <2>2. b \in Nat /\ cursor \in Nat /\ dirty \subseteq Nat
    BY DEF Inv, TypeOK, LoopsOK, FilesOK, Block
  <2>3. diffFile \in Seq(Builds \X Block)
    BY <2>1 DEF Inv, TypeOK, FilesOK, diffFile
  <2>4. Content(b) \in Builds \X Block /\ Content(b)[2] = b
    BY DEF Inv, TypeOK, FilesOK, Content
  <2> QED BY <2>1, <2>2, <2>3, <2>4
<1>3. diffFile' = Append(diffFile, Content(b))
  BY <1>1, <1>2 DEF diffFile, Inv, TypeOK, FilesOK
<1> DEFINE p == diffFile'
<1>4. /\ DOMAIN p = 1 .. Len(diffFile) + 1 /\ DOMAIN diffFile = 1 .. Len(diffFile)
      /\ Len(diffFile) \in Nat
      /\ \A i \in DOMAIN diffFile : p[i] = diffFile[i]
      /\ p[Len(diffFile) + 1] = Content(b)
  BY <1>2, <1>3, Appended
<1>5. /\ \A i, j \in DOMAIN diffFile : i < j => diffFile[i][2] < diffFile[j][2]
      /\ \A i \in DOMAIN diffFile : /\ diffFile[i][2] \in dirty /\ diffFile[i][2] < cursor
                                    /\ diffFile[i] = Content(diffFile[i][2])
      /\ \A c \in dirty : c < cursor => \E i \in DOMAIN diffFile : diffFile[i][2] = c
  BY <1>1 DEF Inv, DiffFileRight, Limit
<1> HIDE DEF diffFile, p
<1>6. \A i \in DOMAIN p : i \in DOMAIN diffFile \/ i = Len(diffFile) + 1
  BY <1>4
<1>7. b \in dirty /\ cursor <= b /\ \A c \in dirty : cursor <= c => b <= c
  BY <1>1 DEF IsNextSet
<1>8. \A i \in DOMAIN diffFile : diffFile[i][2] \in Nat /\ diffFile[i][2] < b
  <2>1. \A i \in DOMAIN diffFile : diffFile[i][2] \in Nat
    BY <1>2, <1>5
  <2> QED BY <1>2, <1>5, <1>7, <2>1
<1>9. ASSUME NEW i \in DOMAIN p, NEW j \in DOMAIN p, i < j PROVE p[i][2] < p[j][2]
  <2>1. i \in DOMAIN diffFile
    BY <1>4, <1>9
  <2>2. CASE j \in DOMAIN diffFile
    BY <1>4, <1>5, <1>9, <2>1, <2>2
  <2>3. CASE j = Len(diffFile) + 1
    BY <1>2, <1>4, <1>8, <2>1, <2>3
  <2> QED BY <1>6, <2>2, <2>3
<1>10. ASSUME NEW i \in DOMAIN p
       PROVE  p[i][2] \in dirty /\ p[i][2] < b + 1 /\ p[i] = Content(p[i][2])
  <2>1. CASE i \in DOMAIN diffFile
    <3>1. diffFile[i][2] < b + 1
      BY <1>2, <1>8, <2>1
    <3> QED BY <1>4, <1>5, <2>1, <3>1
  <2>2. CASE i = Len(diffFile) + 1
    BY <1>2, <1>4, <1>7, <2>2
  <2> QED BY <1>6, <2>1, <2>2
<1>11. ASSUME NEW c \in dirty, c < b + 1 PROVE \E i \in DOMAIN p : p[i][2] = c
  <2>1. CASE c < cursor
    <3>1. PICK i \in DOMAIN diffFile : diffFile[i][2] = c
      BY <1>5, <2>1
    <3>2. i \in DOMAIN p
      BY <1>4
    <3> QED BY <1>4, <3>1, <3>2
  <2>2. CASE ~(c < cursor)
    <3>1. c = b
      BY <1>2, <1>7, <1>11, <2>2
    <3>2. Len(diffFile) + 1 \in DOMAIN p
      BY <1>4
    <3> QED BY <1>2, <1>4, <3>1, <3>2
  <2> QED BY <2>1, <2>2
<1>12. \A c : Content(c)' = Content(c)
  BY <1>1 DEF Content
<1> QED BY <1>1, <1>9, <1>10, <1>11, <1>12 DEF DiffFileRight, Limit, p

-----------------------------------------------------------------------------
(* The invariant holds, and with it what the runs check.                    *)

LEMMA InvInit == Init => Inv
<1> SUFFICES ASSUME Init PROVE Inv
  OBVIOUS
<1>1. TypeOK
  BY TypeInit
<1>2. /\ pc = "run" /\ build = 0 /\ dirty = {} /\ parent = 0 /\ diffMapping = <<>>
      /\ mappings[0] = WholeFile /\ disks[0] = [b \in Block |-> 0]
      /\ files[0] = [i \in 1 .. Blocks |-> <<0, i - 1>>]
      /\ \A b \in Block : disk[b] = 0
  BY DEF Init, Builds
<1>3. SnapshotsRight
  <2> DEFINE m == WholeFile[1]
  <2>1. /\ DOMAIN WholeFile = {1} /\ m.Offset = 0 /\ m.Length = Blocks /\ m.BuildId = 0
        /\ m.BuildStorageOffset = 0 /\ End(m) = Blocks
    BY DEF WholeFile, End
  <2> HIDE DEF m
  <2>2. \A b \in Block : In(b, m)
    BY <2>1 DEF In, Block
  <2>3. Ordered(WholeFile) /\ Covers(WholeFile)
    BY <2>1, <2>2 DEF Ordered, Covers, m
  <2>4. Len(files[0]) = Blocks
    BY <1>2
  <2>5. ASSUME NEW b \in Block
        PROVE  /\ m.BuildStorageOffset + (b - m.Offset) + 1 <= Len(files[0])
               /\ files[0][m.BuildStorageOffset + (b - m.Offset) + 1] = <<disks[0][b], b>>
    <3>1. b \in Nat /\ b + 1 \in 1 .. Blocks /\ (b + 1) - 1 = b
      BY DEF Block
    <3>2. m.BuildStorageOffset + (b - m.Offset) + 1 = b + 1
      BY <2>1, <3>1
    <3>3. files[0][b + 1] = <<0, b>> /\ disks[0][b] = 0
      BY <1>2, <3>1
    <3> QED BY <2>4, <3>1, <3>2, <3>3
  <2>6. Right(files, m, disks[0], 0)
    BY <2>1, <2>5 DEF Right
  <2>7. \A i \in DOMAIN WholeFile : Right(files, WholeFile[i], disks[0], 0)
    BY <2>1, <2>6 DEF m
  <2>8. \A g \in 0 .. build : g = 0
    BY <1>2
  <2> HIDE DEF m
  <2> QED BY <1>2, <2>3, <2>7, <2>8 DEF SnapshotsRight
<1>4. CleanIsParents
  BY <1>2 DEF CleanIsParents
<1> QED BY <1>1, <1>2, <1>3, <1>4
        DEF Inv, DiffFileRight, NoDiffsYet, CreateRight, MergeRight

LEMMA InvStep == Inv /\ [Next]_vars => Inv'
<1> SUFFICES ASSUME Inv, [Next]_vars PROVE Inv'
  OBVIOUS
<1>1. TypeOK /\ TypeOK'
  BY TypeStep DEF Inv
<1>2. /\ build \in Nat /\ parent \in 0 .. build /\ dirty \subseteq Block
      /\ disk \in [Block -> Builds] /\ cursor \in Nat
      /\ disks \in [Builds -> [Block -> Builds]] /\ DOMAIN mappings = Builds
  <2>1. build \in Nat /\ parent \in 0 .. build /\ cursor \in Nat
    BY <1>1 DEF TypeOK, BuildsOK, LoopsOK, Builds
  <2>2. /\ dirty \subseteq Block /\ disk \in [Block -> Builds]
        /\ disks \in [Builds -> [Block -> Builds]] /\ DOMAIN mappings = Builds
    BY <1>1 DEF TypeOK, FilesOK
  <2> QED BY <2>1, <2>2
<1>3. ASSUME NEW b \in Block, Access(b) PROVE Inv'
  <2>1. SnapshotsRight'
    BY <1>3 DEF Access, Inv, SnapshotsRight
  <2>2. CleanIsParents'
    BY <1>2, <1>3 DEF Access, Inv, CleanIsParents
  <2>3. NoDiffsYet' /\ pc' = "run"
    BY <1>3 DEF Access, Inv, NoDiffsYet, create
  <2> QED BY <1>1, <2>1, <2>2, <2>3 DEF Inv, DiffFileRight, CreateRight, MergeRight
<1>4. ASSUME NEW g \in Builds, Resume(g) PROVE Inv'
  <2>1. SnapshotsRight'
    BY <1>4 DEF Resume, Inv, SnapshotsRight
  <2>2. CleanIsParents'
    BY <1>4 DEF Resume, CleanIsParents
  <2>3. NoDiffsYet' /\ pc' = "run"
    BY <1>4 DEF Resume, Inv, NoDiffsYet, create
  <2> QED BY <1>1, <2>1, <2>2, <2>3 DEF Inv, DiffFileRight, CreateRight, MergeRight
<1>5. CASE Pause
  <2>1. SnapshotsRight'
    BY <1>1, <1>5, NewFileKeeps DEF Pause, Inv
  <2>2. CleanIsParents'
    BY <1>5 DEF Pause, Inv, CleanIsParents
  <2>3. /\ NoDiffsYet' /\ pc' = "diff" /\ cursor' = 0 /\ dirty' = dirty
    BY <1>5 DEF Pause, Inv, NoDiffsYet
  <2>4. diffFile' = <<>>
    <3>1. build + 1 \in Builds /\ DOMAIN files = Builds
      BY <1>1, <1>2, <1>5 DEF Pause, TypeOK, FilesOK, Builds
    <3> QED BY <1>5, <3>1 DEF Pause, diffFile
  <2>5. DiffFileRight'
    <3>1. \A b \in dirty : ~(b < 0)
      BY <1>2 DEF Block
    <3> QED BY <2>3, <2>4, <3>1 DEF DiffFileRight, Limit
  <2> QED BY <1>1, <2>1, <2>2, <2>3, <2>5 DEF Inv, CreateRight, MergeRight
<1>6. ASSUME NEW b \in Block, WriteBlock(b) PROVE Inv'
  <2>1. SnapshotsRight'
    BY <1>1, <1>6, NewFileKeeps DEF WriteBlock, Inv
  <2>2. CleanIsParents'
    BY <1>6 DEF WriteBlock, Inv, CleanIsParents
  <2>3. NoDiffsYet' /\ pc' = "diff"
    BY <1>6 DEF WriteBlock, Inv, NoDiffsYet
  <2> QED BY <1>1, <1>6, <2>1, <2>2, <2>3, WriteBlockKeeps DEF Inv, CreateRight, MergeRight
<1>7. CASE DiffWritten
  <2>1. /\ pc = "diff" /\ NoNextSet /\ pc' = "create" /\ UNCHANGED file
        /\ diffMapping' = <<>> /\ cursor' = 0 /\ startBlock' = 0 /\ blockLength' = 0
        /\ buildStorageOffset' = 0
    BY <1>7 DEF DiffWritten, RunForgotten, Inv, NoDiffsYet
  <2>2. SnapshotsRight' /\ CleanIsParents'
    BY <2>1 DEF Inv, SnapshotsRight, CleanIsParents, file
  <2>3. /\ \A b \in dirty : b \in Nat /\ b < Blocks
        /\ \A b \in dirty : b < cursor
    BY <1>2, <2>1 DEF NoNextSet, Block
  <2>4. /\ \A i, j \in DOMAIN diffFile : i < j => diffFile[i][2] < diffFile[j][2]
        /\ \A i \in DOMAIN diffFile : /\ diffFile[i][2] \in dirty
                                      /\ diffFile[i] = Content(diffFile[i][2])
        /\ \A b \in dirty : \E i \in DOMAIN diffFile : diffFile[i][2] = b
    BY <2>1, <2>3 DEF Inv, DiffFileRight, Limit
  <2>5. diffFile' = diffFile /\ \A c : Content(c)' = Content(c)
    BY <2>1 DEF diffFile, Content, file
  <2>6. DOMAIN diffFile = 1 .. Len(diffFile) /\ Len(diffFile) \in Nat
    <3>1. build + 1 \in Builds
      BY <1>1, <2>1 DEF TypeOK, BuildsOK, Builds
    <3>2. diffFile \in Seq(Builds \X Block)
      BY <1>1, <3>1 DEF TypeOK, FilesOK, diffFile
    <3> QED BY <3>2, LenProperties
  <2> HIDE DEF diffFile
  <2>7. DiffFileRight'
    BY <2>1, <2>3, <2>4, <2>5 DEF DiffFileRight, Limit, file
  <2>8. /\ stored' = 0 /\ \A i \in DOMAIN diffFile : ~(i <= 0) /\ ~(diffFile[i][2] < 0)
        /\ \A b \in dirty : ~(b < 0)
    <3>1. \A i \in DOMAIN diffFile : i \in Nat /\ i > 0
      BY <2>6
    <3>2. \A i \in DOMAIN diffFile : diffFile[i][2] \in Nat
      BY <2>3, <2>4
    <3> QED BY <2>1, <2>3, <3>1, <3>2 DEF stored
  <2>9. DirtyRange(Run)'
    <3>1. Run'.Offset = 0 /\ End(Run') = 0 /\ Run'.BuildId = build' + 1 /\ build' \in Nat
      BY <1>2, <2>1 DEF Run, End, file
    <3>2. \A b \in Block : ~In(b, Run')
      BY <3>1 DEF In, Block
    <3> DEFINE R == Run'
    <3> HIDE DEF R
    <3>3. R.BuildId <= build' + 1
      <4>1. R.BuildId = build' + 1
        BY <3>1 DEF R
      <4>2. build' = build /\ build + 1 \in Nat
        BY <1>2, <2>1 DEF file
      <4> QED BY <4>1, <4>2
    <3>4. \A b \in Block : ~In(b, R)
      BY <3>2 DEF R
    <3>5. Right(files', R, disk', build' + 1)
      BY <3>3, <3>4 DEF Right
    <3> QED BY <3>4, <3>5 DEF DirtyRange, R
  <2>10. CreateRight'
    BY <2>1, <2>5, <2>6, <2>8, <2>9 DEF CreateRight, Ordered, file
  <2> QED BY <1>1, <2>1, <2>2, <2>7, <2>10 DEF Inv, NoDiffsYet, MergeRight
<1>8. ASSUME NEW b \in Block, LengthenRange(b) \/ NextRange(b) PROVE Inv'
  <2>1. pc = "create" /\ pc' = "create" /\ UNCHANGED file
    BY <1>8 DEF LengthenRange, NextRange
  <2>2. SnapshotsRight' /\ CleanIsParents'
    BY <2>1 DEF Inv, SnapshotsRight, CleanIsParents, file
  <2>3. DiffFileRight'
    BY <2>1 DEF Inv, DiffFileRight, diffFile, Limit, Content, file
  <2> QED BY <1>1, <1>8, <2>1, <2>2, <2>3, CreateKeeps DEF Inv, NoDiffsYet, MergeRight
<1>9. CASE MappingCreated
  <2>1. pc = "create" /\ pc' = "merge" /\ UNCHANGED file
    BY <1>9 DEF MappingCreated
  <2>2. SnapshotsRight' /\ CleanIsParents'
    BY <2>1 DEF Inv, SnapshotsRight, CleanIsParents, file
  <2>3. DiffFileRight'
    BY <2>1 DEF Inv, DiffFileRight, diffFile, Limit, Content, file
  <2> QED BY <1>1, <1>9, <2>1, <2>2, <2>3, CreateKeeps DEF Inv, NoDiffsYet, CreateRight
<1>10. ASSUME \/ BaseBeforeDiff \/ DiffBeforeBase \/ BaseInsideDiff
              \/ DiffInsideBase \/ DiffOverlapsStart \/ DiffOverlapsEnd
       PROVE  Inv'
  <2>1. pc' = "merge"
    BY <1>10 DEF BaseBeforeDiff, DiffBeforeBase, BaseInsideDiff, DiffInsideBase,
          DiffOverlapsStart, DiffOverlapsEnd, Overlap, TakeDiffCutBase, Merging
  <2> QED BY <1>1, <1>10, <2>1, MergeKeeps DEF Inv, NoDiffsYet
<1>11. CASE HeaderMade
  <2>1. /\ pc' = "run" /\ build' = build + 1 /\ parent' = build + 1 /\ diffMapping' = <<>>
        /\ mappings' = [mappings EXCEPT ![build + 1] = Merged]
        /\ disks' = [disks EXCEPT ![build + 1] = disk] /\ UNCHANGED <<disk, files>>
        /\ build + 1 \in Builds
    BY <1>1, <1>2, <1>11 DEF HeaderMade, MergeForgotten, TypeOK, BuildsOK, Builds
  <2>2. mappings'[build + 1] = Merged /\ disks'[build + 1] = disk
    BY <1>2, <2>1
  <2>3. \A g \in 0 .. build : mappings'[g] = mappings[g] /\ disks'[g] = disks[g]
    BY <1>2, <2>1 DEF Builds
  <2>4. /\ Ordered(Merged) /\ Covers(Merged)
        /\ \A i \in DOMAIN Merged : Right(files, Merged[i], disk, build + 1)
    BY <1>11, MergedRight DEF HeaderMade
  <2> HIDE DEF Merged
  <2>5. \A g \in 0 .. build + 1 : g \in 0 .. build \/ g = build + 1
    BY <1>2
  <2>6. SnapshotsRight'
    BY <2>1, <2>2, <2>3, <2>4, <2>5 DEF Inv, SnapshotsRight
  <2>7. CleanIsParents'
    BY <2>1, <2>2 DEF CleanIsParents
  <2> QED BY <1>1, <2>1, <2>6, <2>7
          DEF Inv, DiffFileRight, NoDiffsYet, CreateRight, MergeRight
<1>12. CASE UNCHANGED vars
  <2>1. SnapshotsRight' /\ CleanIsParents' /\ NoDiffsYet'
    BY <1>12 DEF Inv, SnapshotsRight, CleanIsParents, NoDiffsYet, vars, file, create
  <2>2. DiffFileRight'
    BY <1>12 DEF Inv, DiffFileRight, diffFile, Limit, Content, vars, file, create
  <2>3. CreateRight'
    BY <1>12 DEF Inv, CreateRight, diffFile, stored, DirtyRange, Run, vars, file, create
  <2>4. MergeRight'
    BY <1>12 DEF Inv, MergeRight, DiffsRight, DirtyRange, MergeState, TakenRight, BaseLeftRight,
          TakenBeforeBase, TakenBeforeDiff, StillCovered, vars, file, create, merge
  <2> QED BY <1>1, <2>1, <2>2, <2>3, <2>4 DEF Inv
<1> QED BY <1>3, <1>4, <1>5, <1>6, <1>7, <1>8, <1>9, <1>10, <1>11, <1>12
        DEF Next, CreateDiff, CreateMapping, MergeMappings

\* Every state of the pause has the form its code relies on.
THEOREM TypeCorrect == Spec => []TypeOK
<1>1. Init => TypeOK
  BY TypeInit
<1>2. TypeOK /\ [Next]_vars => TypeOK'
  BY TypeStep
<1> QED BY <1>1, <1>2, PTL DEF Spec

THEOREM InvCorrect == Spec => []Inv
<1>1. Inv /\ [Next]_vars => Inv'
  BY InvStep
<1> QED BY InvInit, <1>1, PTL DEF Spec

\* No header has a gap or an overlap, however many snapshots it was merged from.
THEOREM HeadersAreValid == Spec => []MappingIsValid
<1>1. Inv => MappingIsValid
  BY InvReads DEF Inv
<1> QED BY InvCorrect, <1>1, PTL

\* What was paused is read back, block for block, by every build that inherits it.
THEOREM SnapshotsReadBack == Spec => []ReadsBack
<1>1. Inv => ReadsBack
  BY InvReads DEF Inv
<1> QED BY InvCorrect, <1>1, PTL
=============================================================================
