---------------------------- MODULE HeaderMapping ----------------------------
(***************************************************************************)
(* How a file of a sandbox (its memory or its root filesystem) is kept     *)
(* from pause to pause: shared/pkg/storage/header, as the orchestrator's   *)
(* Sandbox.Snapshot uses it.                                               *)
(*                                                                         *)
(* A build stores the blocks that were dirty when its sandbox was paused,  *)
(* one after the other, in a diff file.  Its header says, for ranges of    *)
(* the whole file, in which build's diff file they are, from which offset. *)
(* A header is made from its parent's: CreateMapping lists the ranges of   *)
(* the dirty blocks, MergeMappings lays them over the parent's ranges.     *)
(* Both loops are here with one action per round or case, so that what     *)
(* they compute can be proved for a file of any size.                      *)
(*                                                                         *)
(* Lengths and offsets count blocks: the code's are multiples of BlockSize *)
(* and ranges of length zero are made by no caller.                        *)
(***************************************************************************)
EXTENDS Integers, Sequences

CONSTANTS
  Blocks,    \* the number of blocks of the file
  MaxBuilds  \* how many snapshots are made: a bound of the model

ASSUME BlocksAssumption == Blocks \in Nat \ {0}
ASSUME MaxBuildsAssumption == MaxBuilds \in Nat

VARIABLES
  pc,        \* what the sandbox is doing: "run", or a loop of its pause
  build,     \* the newest build; build 0 is the template
  parent,    \* the build the sandbox was started from
  disk,      \* block -> the build whose sandbox wrote it last
  dirty,     \* the blocks the next diff will hold
  disks,     \* build -> disk as it was when the build was made
  files,     \* build -> its diff file, the contents of its blocks in order
  mappings,  \* build -> the ranges of its header
  cursor, startBlock, blockLength, buildStorageOffset, diffMapping,
  baseMapping, baseIdx, diffIdx, merged

file   == <<build, parent, disk, dirty, disks, files, mappings>>
create == <<cursor, startBlock, blockLength, buildStorageOffset, diffMapping>>
merge  == <<baseMapping, baseIdx, diffIdx, merged>>
vars   == <<pc, file, create, merge>>

-----------------------------------------------------------------------------
Block  == 0 .. Blocks - 1
Builds == 0 .. MaxBuilds

Content(b) == <<disk[b], b>>

BuildMap == [Offset : Nat, Length : Nat, BuildId : Nat, BuildStorageOffset : Nat]
End(m)   == m.Offset + m.Length
In(b, m) == m.Offset <= b /\ b < End(m)

\* A header without ranges is one range: the template's file is stored whole.
WholeFile == <<[Offset |-> 0, Length |-> Blocks, BuildId |-> 0, BuildStorageOffset |-> 0]>>

\* The start of a range at or before the block: blockStarts.PreviousSet.
IsPreviousSet(mapping, b, s) ==
  /\ s <= b
  /\ \E i \in DOMAIN mapping : mapping[i].Offset = s
  /\ \A i \in DOMAIN mapping : mapping[i].Offset <= b => mapping[i].Offset <= s

\* What startMap keeps for the start s is the last range that has it.
IsStartMap(mapping, s, i) ==
  /\ mapping[i].Offset = s
  /\ \A j \in DOMAIN mapping : mapping[j].Offset = s => j <= i

Init ==
  /\ pc = "run" /\ build = 0 /\ parent = 0
  /\ disk = [b \in Block |-> 0] /\ dirty = {}
  /\ disks = [g \in Builds |-> disk]
  /\ files = [g \in Builds |-> IF g = 0 THEN [i \in 1 .. Blocks |-> <<0, i - 1>>] ELSE <<>>]
  /\ mappings = [g \in Builds |-> IF g = 0 THEN WholeFile ELSE <<>>]
  /\ cursor = 0 /\ startBlock = 0 /\ blockLength = 0 /\ buildStorageOffset = 0
  /\ diffMapping = <<>>
  /\ baseMapping = <<>> /\ baseIdx = 1 /\ diffIdx = 1 /\ merged = <<>>

\* The variables of a loop go when it has ended: they are set back.
RunForgotten == cursor' = 0 /\ startBlock' = 0 /\ blockLength' = 0 /\ buildStorageOffset' = 0
MergeForgotten ==
  /\ diffMapping' = <<>>
  /\ baseMapping' = <<>> /\ baseIdx' = 1 /\ diffIdx' = 1 /\ merged' = <<>>

-----------------------------------------------------------------------------
(* The running sandbox.  A block of memory is dirty when it was requested   *)
(* before the tracker was told that the VM is paused, written or only read; *)
(* a block of the root filesystem when it was written to the cache.  What   *)
(* no pause would save within MaxBuilds is left out.                        *)

Access(b) ==
  /\ pc = "run" /\ build < MaxBuilds
  /\ dirty' = dirty \cup {b}
  /\ disk' \in {disk, [disk EXCEPT ![b] = build + 1]}
  /\ UNCHANGED <<pc, build, parent, disks, files, mappings, create, merge>>

\* Another sandbox is started from a build: every build can be forked.
Resume(g) ==
  /\ pc = "run" /\ g <= build
  /\ parent' = g /\ disk' = disks[g] /\ dirty' = {}
  /\ UNCHANGED <<pc, build, disks, files, mappings, create, merge>>

-----------------------------------------------------------------------------
(* CreateDiff: the dirty blocks are copied to the diff file in order.       *)

IsNextSet(b) == b \in dirty /\ cursor <= b /\ \A c \in dirty : cursor <= c => b <= c
NoNextSet    == \A c \in dirty : c < cursor

Pause ==
  /\ pc = "run" /\ build < MaxBuilds
  /\ pc' = "diff" /\ cursor' = 0
  /\ files' = [files EXCEPT ![build + 1] = <<>>]
  /\ UNCHANGED <<build, parent, disk, dirty, disks, mappings, merge>>
  /\ UNCHANGED <<startBlock, blockLength, buildStorageOffset, diffMapping>>

WriteBlock(b) ==
  /\ pc = "diff" /\ IsNextSet(b)
  /\ files' = [files EXCEPT ![build + 1] = Append(@, Content(b))]
  /\ cursor' = b + 1
  /\ UNCHANGED <<pc, build, parent, disk, dirty, disks, mappings, merge>>
  /\ UNCHANGED <<startBlock, blockLength, buildStorageOffset, diffMapping>>

DiffWritten ==
  /\ pc = "diff" /\ NoNextSet
  /\ pc' = "create" /\ RunForgotten
  /\ UNCHANGED <<file, diffMapping, merge>>

-----------------------------------------------------------------------------
(* CreateMapping: one range for each run of dirty blocks.                   *)

Run == [Offset |-> startBlock, Length |-> blockLength,
        BuildId |-> build + 1, BuildStorageOffset |-> buildStorageOffset]

WithRun == IF blockLength > 0 THEN Append(diffMapping, Run) ELSE diffMapping

LengthenRange(b) ==
  /\ pc = "create" /\ IsNextSet(b)
  /\ startBlock + blockLength = b
  /\ blockLength' = blockLength + 1 /\ cursor' = b + 1
  /\ UNCHANGED <<pc, file, merge, startBlock, buildStorageOffset, diffMapping>>

NextRange(b) ==
  /\ pc = "create" /\ IsNextSet(b)
  /\ startBlock + blockLength # b
  /\ diffMapping' = WithRun
  /\ buildStorageOffset' = buildStorageOffset + blockLength
  /\ startBlock' = b /\ blockLength' = 1 /\ cursor' = b + 1
  /\ UNCHANGED <<pc, file, merge>>

\* The parent's ranges are copied: its header is shared by every sandbox that
\* was started from it.
MappingCreated ==
  /\ pc = "create" /\ NoNextSet
  /\ pc' = "merge"
  /\ diffMapping' = WithRun /\ RunForgotten
  /\ baseMapping' = mappings[parent] /\ baseIdx' = 1 /\ diffIdx' = 1 /\ merged' = <<>>
  /\ UNCHANGED file

-----------------------------------------------------------------------------
(* MergeMappings: the first range left of each list is looked at.           *)

Merging == pc = "merge" /\ baseIdx <= Len(baseMapping) /\ diffIdx <= Len(diffMapping)
base    == baseMapping[baseIdx]
diff    == diffMapping[diffIdx]

Before(m, n) == End(m) <= n.Offset
Inside(m, n) == n.Offset <= m.Offset /\ End(m) <= End(n)

\* Mutants: the subtraction is the wrong way round; the right part keeps the storage
\* offset of the whole range; it is one block too long.
LeftBaseNegative == [base EXCEPT !.Length = base.Offset - diff.Offset]
RightBaseUnshifted ==
  LET shift == End(diff) - base.Offset
  IN  [base EXCEPT !.Offset = @ + shift, !.Length = @ - shift]
RightBaseTooLong ==
  LET shift == End(diff) - base.Offset
  IN  [base EXCEPT !.Offset = @ + shift, !.Length = @ - shift + 1, !.BuildStorageOffset = @ + shift]

\* The part of base before the diff, and the part after it.
LeftBase == [base EXCEPT !.Length = diff.Offset - base.Offset]
RightBase ==
  LET shift == End(diff) - base.Offset
  IN  [base EXCEPT !.Offset = @ + shift, !.Length = @ - shift, !.BuildStorageOffset = @ + shift]

WithLeftBase == IF diff.Offset > base.Offset THEN Append(merged, LeftBase) ELSE merged

\* The diff's range is taken; base keeps what is after it, if anything is.
TakeDiffCutBase ==
  /\ diffIdx' = diffIdx + 1
  /\ \/ /\ End(base) > End(diff)
        /\ baseMapping' = [baseMapping EXCEPT ![baseIdx] = RightBase]
        /\ UNCHANGED baseIdx
     \/ /\ End(base) <= End(diff)
        /\ baseIdx' = baseIdx + 1
        /\ UNCHANGED baseMapping
  /\ UNCHANGED <<pc, file, create>>

BaseBeforeDiff ==
  /\ Merging /\ Before(base, diff)
  /\ merged' = Append(merged, base) /\ baseIdx' = baseIdx + 1
  /\ UNCHANGED <<pc, file, create, baseMapping, diffIdx>>

DiffBeforeBase ==
  /\ Merging /\ ~Before(base, diff) /\ Before(diff, base)
  /\ merged' = Append(merged, diff) /\ diffIdx' = diffIdx + 1
  /\ UNCHANGED <<pc, file, create, baseMapping, baseIdx>>

Overlap == Merging /\ ~Before(base, diff) /\ ~Before(diff, base)

BaseInsideDiff ==
  /\ Overlap /\ Inside(base, diff)
  /\ baseIdx' = baseIdx + 1
  /\ UNCHANGED <<pc, file, create, baseMapping, diffIdx, merged>>

DiffInsideBase ==
  /\ Overlap /\ ~Inside(base, diff) /\ Inside(diff, base)
  /\ merged' = Append(WithLeftBase, diff)
  /\ TakeDiffCutBase

DiffOverlapsStart ==
  /\ Overlap /\ ~Inside(base, diff) /\ ~Inside(diff, base)
  /\ base.Offset > diff.Offset
  /\ merged' = Append(merged, diff)
  /\ TakeDiffCutBase

DiffOverlapsEnd ==
  /\ Overlap /\ ~Inside(base, diff) /\ ~Inside(diff, base)
  /\ diff.Offset > base.Offset
  /\ merged' = WithLeftBase /\ baseIdx' = baseIdx + 1
  /\ UNCHANGED <<pc, file, create, baseMapping, diffIdx>>

Rest(mapping, idx) == SubSeq(mapping, idx, Len(mapping))
Merged == merged \o Rest(baseMapping, baseIdx) \o Rest(diffMapping, diffIdx)

\* The new header is made, and the sandbox is resumed from it.
HeaderMade ==
  /\ pc = "merge" /\ ~Merging
  /\ mappings' = [mappings EXCEPT ![build + 1] = Merged]
  /\ disks' = [disks EXCEPT ![build + 1] = disk]
  /\ build' = build + 1 /\ parent' = build + 1 /\ dirty' = {}
  /\ pc' = "run" /\ MergeForgotten
  /\ UNCHANGED <<disk, files, cursor, startBlock, blockLength, buildStorageOffset>>

-----------------------------------------------------------------------------
CreateDiff    == Pause \/ (\E b \in Block : WriteBlock(b)) \/ DiffWritten
CreateMapping == (\E b \in Block : LengthenRange(b) \/ NextRange(b)) \/ MappingCreated
MergeMappings == \/ BaseBeforeDiff \/ DiffBeforeBase \/ BaseInsideDiff
                 \/ DiffInsideBase \/ DiffOverlapsStart \/ DiffOverlapsEnd
                 \/ HeaderMade

Next ==
  \/ \E b \in Block : Access(b)
  \/ \E g \in Builds : Resume(g)
  \/ CreateDiff \/ CreateMapping \/ MergeMappings

Spec == Init /\ [][Next]_vars

-----------------------------------------------------------------------------
BuildsOK ==
  /\ pc \in {"run", "diff", "create", "merge"}
  /\ build \in Builds /\ parent \in 0 .. build
  /\ (pc # "run" => build < MaxBuilds)

FilesOK ==
  /\ disk \in [Block -> Builds] /\ dirty \in SUBSET Block
  /\ disks \in [Builds -> [Block -> Builds]]
  /\ files \in [Builds -> Seq(Builds \X Block)]
  /\ mappings \in [Builds -> Seq(BuildMap)]

LoopsOK ==
  /\ cursor \in Nat /\ startBlock \in Nat /\ blockLength \in Nat /\ buildStorageOffset \in Nat
  /\ diffMapping \in Seq(BuildMap) /\ baseMapping \in Seq(BuildMap) /\ merged \in Seq(BuildMap)
  /\ baseIdx \in 1 .. Len(baseMapping) + 1 /\ diffIdx \in 1 .. Len(diffMapping) + 1

\* The type invariant: lists hold ranges, and an index is at most one past its list.
TypeOK == BuildsOK /\ FilesOK /\ LoopsOK

\* Ranges in increasing order, none empty, none overlapping another.
Ordered(mapping) ==
  /\ \A i \in DOMAIN mapping : mapping[i].Length > 0 /\ End(mapping[i]) <= Blocks
  /\ \A i, j \in DOMAIN mapping : i < j => Before(mapping[i], mapping[j])

Covers(mapping) == \A b \in Block : \E i \in DOMAIN mapping : In(b, mapping[i])

(***************************************************************************)
(* The ranges of every header are sorted and cover the whole file, without *)
(* gap or overlap: what ValidateMappings tests, and what the lookup by the *)
(* previous start relies on.                                               *)
(***************************************************************************)
MappingIsValid == \A g \in 0 .. build : Ordered(mappings[g]) /\ Covers(mappings[g])

\* Block b of build g, found in the i-th range, which starts at s, is in the diff file
\* with all the blocks of the range that come after it.
Served(g, b, s, i) ==
  LET m == mappings[g][i]
      shift == b - s
  IN  /\ shift < m.Length
      /\ \A n \in 0 .. m.Length - shift - 1 :
           LET at == m.BuildStorageOffset + shift + n + 1 IN
           /\ m.BuildId <= g /\ at <= Len(files[m.BuildId])
           /\ files[m.BuildId][at] = <<disks[g][b + n], b + n>>

(***************************************************************************)
(* Reading any block of any build through its header, by GetShiftedMapping *)
(* and however far File.ReadAt may go with what it returned, finds in the  *)
(* diff files what the block held when the build's sandbox was paused,     *)
(* whatever was paused before and after it, from the same parent or not.   *)
(***************************************************************************)
ReadsBack ==
  \A g \in 0 .. build, b, s \in Block :
    \A i \in DOMAIN mappings[g] :
      (IsPreviousSet(mappings[g], b, s) /\ IsStartMap(mappings[g], s, i)) => Served(g, b, s, i)

=============================================================================
