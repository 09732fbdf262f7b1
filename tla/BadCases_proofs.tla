--------------------------- MODULE BadCases_proofs ---------------------------
(***************************************************************************)
(* The datasets stay clean for any candidates, names, exporters and        *)
(* mergers, however their file operations interleave and wherever one of   *)
(* them dies: what a merge writes was validated as it was read, and the    *)
(* dataset it writes back is one that was clean when it was read.          *)
(***************************************************************************)
EXTENDS BadCases, FiniteSetTheorems, TLAPS

Case == [name : CaseNames, from : Candidates]

Clean(cases) == cases \in Seq(Case) /\ NamedOnce(cases)

\* A file of the export directory, completed or not.
HasFile(files, c) == files[c] \in {"placeholder"} \cup CaseNames

\* A merge over these files when those cases have been written.
MergeOK(m, files, done) ==
  /\ DOMAIN m = {"at", "todo", "name", "read"}
  /\ m.at # "idle" => /\ m.todo \in Seq(Candidates) /\ m.todo # <<>>
                      /\ \A i \in 1..Len(m.todo) : HasFile(files, m.todo[i])
  /\ m.at \in {"dataset", "write"} => m.name \in CaseNames
  /\ m.at = "write" => Clean(m.read)
  /\ m.at = "mark" => Head(m.todo) \in done

RowsOK ==
  /\ DOMAIN candidate = Candidates
  /\ \A c \in Candidates :
       DOMAIN candidate[c] = {"status", "target"} /\ candidate[c].target \in Targets

IInv ==
  /\ RowsOK
  /\ skeleton \in [Candidates -> SkeletonStates]
  /\ DOMAIN dataset = Targets /\ \A t \in Targets : Clean(dataset[t])
  /\ DOMAIN merge = Mergers /\ \A g \in Mergers : MergeOK(merge[g], skeleton, written)
  /\ MergedWasWritten

-----------------------------------------------------------------------------
(* The operators.                                                          *)

\* A case that is put into a clean dataset leaves it clean.
LEMMA MergedClean ==
  ASSUME NEW cases, Clean(cases), NEW name \in CaseNames, NEW c \in Candidates
  PROVE  Clean(Merged(cases, name, c))
<1> DEFINE same == {i \in DOMAIN cases : cases[i].name = name}
           new == [name |-> name, from |-> c]
<1>1. new \in Case /\ new.name = name
  BY DEF Case
<1> HIDE DEF new
<1>2. cases \in Seq(Case) /\ DOMAIN cases = 1..Len(cases) /\ Len(cases) \in Nat
  BY DEF Clean
<1>3. \A i, j \in DOMAIN cases : cases[i].name = cases[j].name => i = j
  BY DEF Clean, NamedOnce
<1>4. CASE same = {}
  <2>1. Merged(cases, name, c) = Append(cases, new)
    BY <1>4 DEF Merged, new
  <2> DEFINE long == Append(cases, new)
  <2>2. /\ long \in Seq(Case) /\ DOMAIN long = 1..(Len(cases) + 1)
        /\ \A i \in 1..Len(cases) : long[i] = cases[i]
        /\ long[Len(cases) + 1] = new
    BY <1>1, <1>2
  <2> HIDE DEF long
  <2>3. NamedOnce(long)
    <3> SUFFICES ASSUME NEW i \in DOMAIN long, NEW j \in DOMAIN long, long[i].name = long[j].name
                 PROVE  i = j
      BY DEF NamedOnce
    <3>1. \A k \in 1..Len(cases) : long[k].name # name
      BY <1>2, <1>4, <2>2
    <3>2. long[Len(cases) + 1].name = name
      BY <1>1, <2>2
    <3>3. CASE i = Len(cases) + 1 /\ j = Len(cases) + 1
      BY <3>3
    <3>4. CASE i \in 1..Len(cases) /\ j \in 1..Len(cases)
      BY <1>2, <1>3, <2>2, <3>4
    <3> QED
      BY <1>2, <2>2, <3>1, <3>2, <3>3, <3>4
  <2> QED
    BY <2>1, <2>2, <2>3 DEF Clean, long
<1>5. CASE same # {}
  <2> DEFINE k == CHOOSE i \in same : \A j \in same : i <= j
             changed == [cases EXCEPT ![k] = new]
  <2>1. k \in same
    <3>1. PICK i : i \in same
      BY <1>5
    <3>2. i \in Nat /\ \A j \in same : i = j
      BY <1>2, <1>3, <3>1
    <3>3. \A j \in same : i <= j
      BY <3>2
    <3> QED
      BY <3>1, <3>3
  <2>2. Merged(cases, name, c) = changed
    BY <1>5 DEF Merged, new
  <2> HIDE DEF k
  <2>3. /\ changed \in Seq(Case) /\ DOMAIN changed = DOMAIN cases
        /\ \A i \in DOMAIN cases : changed[i].name = cases[i].name
    BY <1>1, <1>2, <2>1
  <2>4. NamedOnce(changed)
    BY <1>3, <2>3 DEF NamedOnce
  <2> QED
    BY <2>2, <2>3, <2>4 DEF Clean
<1> QED
  BY <1>4, <1>5

\* The files of a merge, in whatever order they are given.
LEMMA OrderOfFiles ==
  ASSUME NEW files, files \subseteq Candidates, NEW order \in SetToSeqs(files), order # <<>>
  PROVE  /\ order \in Seq(Candidates)
         /\ \A i \in 1..Len(order) : order[i] \in files
<1>1. Cardinality(files) \in Nat
  BY BadCasesAssumptions, FS_Subset, FS_CardinalityType
<1>2. order \in [1..Cardinality(files) -> files]
  BY DEF SetToSeqs
<1>3. order \in Seq(files)
  BY <1>1, <1>2
<1> QED
  BY <1>3

\* A status is written; "merged" only for a case that was.
LEMMA StatusKeeps ==
  ASSUME RowsOK, MergedWasWritten, NEW c, NEW status,
         candidate' = [candidate EXCEPT ![c].status = status],
         status = "merged" => c \in written' \/ c \in marked',
         written \subseteq written', marked \subseteq marked'
  PROVE  RowsOK' /\ MergedWasWritten'
<1>1. ASSUME NEW d \in Candidates
      PROVE  /\ DOMAIN candidate'[d] = {"status", "target"}
             /\ candidate'[d].target = candidate[d].target
             /\ candidate'[d].status = IF d = c THEN status ELSE candidate[d].status
  <2>1. CASE d = c
    <3>1. candidate'[d] = [candidate[d] EXCEPT !.status = status]
      BY <1>1, <2>1 DEF RowsOK
    <3> QED
      BY <1>1, <2>1, <3>1 DEF RowsOK
  <2>2. CASE d # c
    BY <1>1, <2>2 DEF RowsOK
  <2> QED
    BY <2>1, <2>2
<1>2. ASSUME NEW d \in Candidates, candidate'[d].status = "merged"
      PROVE  d \in written' \/ d \in marked'
  <2>1. CASE d = c
    BY <1>1, <1>2, <2>1
  <2>2. CASE d # c
    BY <1>1, <1>2, <2>2 DEF MergedWasWritten
  <2> QED
    BY <2>1, <2>2
<1>3. RowsOK'
  <2>1. DOMAIN candidate' = Candidates
    BY DEF RowsOK
  <2> QED
    BY <1>1, <2>1 DEF RowsOK
<1> QED
  BY <1>2, <1>3 DEF MergedWasWritten

\* A merge under way is not disturbed by what becomes of the files and by what others write.
LEMMA MergeUndisturbed ==
  ASSUME NEW m, NEW files, NEW done, MergeOK(m, files, done), NEW newFiles, NEW moreDone,
         \A c \in Candidates : HasFile(files, c) => HasFile(newFiles, c), done \subseteq moreDone
  PROVE  MergeOK(m, newFiles, moreDone)
<1>1. m.todo \in Seq(Candidates) => \A i \in 1..Len(m.todo) : m.todo[i] \in Candidates
  OBVIOUS
<1> QED
  BY <1>1 DEF MergeOK

-----------------------------------------------------------------------------
(* The steps.                                                              *)

LEMMA TwoFields ==
  ASSUME NEW f, NEW g \in DOMAIN f, NEW at, NEW todo
  PROVE  [f EXCEPT ![g].at = at, ![g].todo = todo] =
         [f EXCEPT ![g] = [[f[g] EXCEPT !.at = at] EXCEPT !.todo = todo]]
<1> DEFINE half == [f[g] EXCEPT !.at = at]
           whole == [half EXCEPT !.todo = todo]
           h == [f EXCEPT ![g] = half]
<1>1. [f EXCEPT ![g].at = at, ![g].todo = todo] = [h EXCEPT ![g] = [h[g] EXCEPT !.todo = todo]]
  OBVIOUS
<1> HIDE DEF half
<1>2. h[g] = half
  OBVIOUS
<1> HIDE DEF h
<1>3. [h EXCEPT ![g] = [h[g] EXCEPT !.todo = todo]] = [h EXCEPT ![g] = whole]
  BY <1>2
<1> HIDE DEF whole
<1>4. [h EXCEPT ![g] = whole] = [f EXCEPT ![g] = whole]
  BY DEF h
<1> QED
  BY <1>1, <1>3, <1>4 DEF whole, half

LEMMA ReadField ==
  ASSUME NEW f, NEW g \in DOMAIN f, NEW at, NEW read
  PROVE  [f EXCEPT ![g].at = at, ![g].read = read] =
         [f EXCEPT ![g] = [[f[g] EXCEPT !.at = at] EXCEPT !.read = read]]
<1> DEFINE half == [f[g] EXCEPT !.at = at]
           whole == [half EXCEPT !.read = read]
           h == [f EXCEPT ![g] = half]
<1>1. [f EXCEPT ![g].at = at, ![g].read = read] = [h EXCEPT ![g] = [h[g] EXCEPT !.read = read]]
  OBVIOUS
<1> HIDE DEF half
<1>2. h[g] = half
  OBVIOUS
<1> HIDE DEF h
<1>3. [h EXCEPT ![g] = [h[g] EXCEPT !.read = read]] = [h EXCEPT ![g] = whole]
  BY <1>2
<1> HIDE DEF whole
<1>4. [h EXCEPT ![g] = whole] = [f EXCEPT ![g] = whole]
  BY DEF h
<1> QED
  BY <1>1, <1>3, <1>4 DEF whole, half

LEMMA InitEstablishes == BadCasesInit => IInv
<1> SUFFICES ASSUME BadCasesInit PROVE IInv
  OBVIOUS
<1>1. /\ candidate = [c \in Candidates |-> NoCandidate]
      /\ skeleton = [c \in Candidates |-> "none"]
      /\ dataset = [t \in Targets |-> <<>>]
      /\ merge = [g \in Mergers |-> NoMerge]
  BY DEF BadCasesInit
<1>2. RowsOK /\ MergedWasWritten
  BY <1>1 DEF RowsOK, NoCandidate, Targets, MergedWasWritten
<1>3. Clean(<<>>)
  BY DEF Clean, NamedOnce
<1>4. \A g \in Mergers : MergeOK(merge[g], skeleton, written)
  BY <1>1 DEF MergeOK, NoMerge
<1> QED
  BY <1>1, <1>2, <1>3, <1>4 DEF IInv, SkeletonStates

\* The steps of exporters and of people: no dataset and no merge is touched.
LEMMA OutsideMerge ==
  ASSUME IInv, UNCHANGED <<dataset, merge, written>>,
         RowsOK', MergedWasWritten',
         skeleton' \in [Candidates -> SkeletonStates],
         \A c \in Candidates : HasFile(skeleton, c) => HasFile(skeleton', c)
  PROVE  IInv'
<1>1. \A g \in Mergers : MergeOK(merge[g], skeleton', written)
  BY MergeUndisturbed DEF IInv
<1> QED
  BY <1>1 DEF IInv

LEMMA FileWritten ==
  ASSUME IInv, NEW c, NEW text \in {"placeholder"} \cup CaseNames,
         skeleton' = [skeleton EXCEPT ![c] = text]
  PROVE  /\ skeleton' \in [Candidates -> SkeletonStates]
         /\ \A d \in Candidates : HasFile(skeleton, d) => HasFile(skeleton', d)
BY DEF IInv, SkeletonStates, HasFile

LEMMA PeopleKeep ==
  ASSUME IInv, NEW c \in Candidates, CreateCandidate(c) \/ SetExportStatus(c) \/ Curate(c)
  PROVE  IInv'
<1>1. RowsOK /\ MergedWasWritten /\ skeleton \in [Candidates -> SkeletonStates]
  BY DEF IInv
<1>2. CASE CreateCandidate(c)
  <2> PICK row \in CreatableRows : candidate' = [candidate EXCEPT ![c] = row]
    BY <1>2 DEF CreateCandidate
  <2>1. DOMAIN row = {"status", "target"} /\ row.status = "pending" /\ row.target \in Targets
    BY DEF CreatableRows
  <2>2. UNCHANGED <<skeleton, dataset, merge, written, marked>>
    BY <1>2 DEF CreateCandidate
  <2>3. RowsOK' /\ MergedWasWritten'
    BY <1>1, <2>1, <2>2 DEF RowsOK, MergedWasWritten
  <2> QED
    BY <1>1, <2>2, <2>3, OutsideMerge
<1>3. CASE SetExportStatus(c)
  <2> PICK status \in ExportStatuses : candidate' = [candidate EXCEPT ![c].status = status]
    BY <1>3 DEF SetExportStatus
  <2>1. marked' = marked \cup {c} /\ UNCHANGED <<skeleton, dataset, merge, written>>
    BY <1>3 DEF SetExportStatus
  <2>2. status = "merged" => c \in marked'
    BY <2>1
  <2>3. RowsOK' /\ MergedWasWritten'
    BY <1>1, <2>1, <2>2, StatusKeeps
  <2> QED
    BY <1>1, <2>1, <2>3, OutsideMerge
<1>4. CASE Curate(c)
  <2> PICK name \in CaseNames : skeleton' = [skeleton EXCEPT ![c] = name]
    BY <1>4 DEF Curate
  <2>1. UNCHANGED <<candidate, dataset, merge, written, marked>>
    BY <1>4 DEF Curate
  <2>2. RowsOK' /\ MergedWasWritten'
    BY <1>1, <2>1 DEF RowsOK, MergedWasWritten
  <2> QED
    BY <2>1, <2>2, FileWritten, OutsideMerge
<1> QED
  BY <1>2, <1>3, <1>4

LEMMA ExportKeeps ==
  ASSUME IInv, NEW x, StartExport(x) \/ WriteSkeleton(x) \/ MarkExported(x) \/ ExporterDies(x)
  PROVE  IInv'
<1>1. RowsOK /\ MergedWasWritten /\ skeleton \in [Candidates -> SkeletonStates]
  BY DEF IInv
<1>2. CASE StartExport(x) \/ ExporterDies(x)
  <2>1. UNCHANGED <<candidate, skeleton, dataset, merge, written, marked>>
    BY <1>2, Zenon DEF StartExport, ExporterDies
  <2>2. RowsOK' /\ MergedWasWritten'
    BY <1>1, <2>1 DEF RowsOK, MergedWasWritten
  <2> QED
    BY <1>1, <2>1, <2>2, OutsideMerge
<1>3. CASE WriteSkeleton(x)
  <2>1. /\ skeleton' = [skeleton EXCEPT ![Head(export[x].todo)] = "placeholder"]
        /\ UNCHANGED <<candidate, dataset, merge, written, marked>>
    BY <1>3 DEF WriteSkeleton
  <2>2. RowsOK' /\ MergedWasWritten'
    BY <1>1, <2>1 DEF RowsOK, MergedWasWritten
  <2> QED
    BY <2>1, <2>2, FileWritten, OutsideMerge
<1>4. CASE MarkExported(x)
  <2> PICK c : c = Head(export[x].todo)
    OBVIOUS
  <2>1. /\ candidate' = [candidate EXCEPT ![c].status = "exported"]
        /\ UNCHANGED <<skeleton, dataset, merge, written, marked>>
    BY <1>4 DEF MarkExported
  <2>2. /\ "exported" = "merged" => c \in written' \/ c \in marked'
        /\ written \subseteq written' /\ marked \subseteq marked'
    BY <2>1
  <2>3. RowsOK' /\ MergedWasWritten'
    BY <1>1, <2>1, <2>2, StatusKeeps, Zenon
  <2> QED
    BY <1>1, <2>1, <2>3, OutsideMerge
<1> QED
  BY <1>2, <1>3, <1>4

\* The steps of a merge that leave rows, files and datasets alone.
LEMMA MergeMoves ==
  ASSUME IInv, NEW g \in Mergers, NEW m, MergeOK(m, skeleton, written),
         merge' = [merge EXCEPT ![g] = m],
         UNCHANGED <<candidate, skeleton, dataset, written, marked>>
  PROVE  IInv'
<1>1. RowsOK' /\ MergedWasWritten'
  BY DEF IInv, RowsOK, MergedWasWritten
<1>2. DOMAIN merge' = Mergers /\ \A h \in Mergers : MergeOK(merge'[h], skeleton, written)
  BY DEF IInv
<1> QED
  BY <1>1, <1>2 DEF IInv

LEMMA IdleMerge == \A files, done : MergeOK(NoMerge, files, done)
BY DEF MergeOK, NoMerge

LEMMA StartMergeKeeps ==
  ASSUME IInv, NEW g \in Mergers, StartMerge(g)
  PROVE  IInv'
<1> DEFINE files == {c \in Candidates : skeleton[c] # "none"}
<1> PICK order \in SetToSeqs(files) :
      /\ order # <<>>
      /\ merge' = [merge EXCEPT ![g].at = "file", ![g].todo = order]
      /\ UNCHANGED <<candidate, skeleton, dataset, written, marked>>
  BY Zenon DEF StartMerge
<1>1. order \in Seq(Candidates) /\ \A i \in 1..Len(order) : order[i] \in files
  BY OrderOfFiles
<1>2. \A c \in files : HasFile(skeleton, c)
  BY DEF IInv, SkeletonStates, HasFile
<1> PICK m : m = [[merge[g] EXCEPT !.at = "file"] EXCEPT !.todo = order]
  OBVIOUS
<1>3. merge' = [merge EXCEPT ![g] = m]
  BY TwoFields DEF IInv
<1>4. DOMAIN m = {"at", "todo", "name", "read"} /\ m.at = "file" /\ m.todo = order
  BY DEF IInv, MergeOK
<1>5. MergeOK(m, skeleton, written)
  BY <1>1, <1>2, <1>4 DEF MergeOK
<1> QED
  BY <1>3, <1>5, MergeMoves

\* What is read of a file is a name, and the name is validated as it was read.
LEMMA ReadSkeletonKeeps ==
  ASSUME IInv, NEW g \in Mergers, ReadSkeleton(g)
  PROVE  IInv'
<1> PICK file : file = skeleton[Head(merge[g].todo)]
  OBVIOUS
<1>1. /\ merge[g].at = "file" /\ UNCHANGED <<candidate, skeleton, dataset, written, marked>>
      /\ merge' = [merge EXCEPT ![g] =
           IF file = "placeholder" THEN NoMerge ELSE [@ EXCEPT !.at = "dataset", !.name = file]]
  BY DEF ReadSkeleton
<1>2. MergeOK(merge[g], skeleton, written) /\ DOMAIN merge = Mergers
  BY DEF IInv
<1>3. CASE file = "placeholder"
  BY <1>1, <1>2, <1>3, IdleMerge, MergeMoves
<1>4. CASE file # "placeholder"
  <2> PICK m : m = [merge[g] EXCEPT !.at = "dataset", !.name = file]
    OBVIOUS
  <2>1. merge' = [merge EXCEPT ![g] = m]
    BY <1>1, <1>4
  <2>2. /\ DOMAIN m = {"at", "todo", "name", "read"}
        /\ m.at = "dataset" /\ m.name = file /\ m.todo = merge[g].todo
    BY <1>2 DEF MergeOK
  <2>3. /\ m.todo \in Seq(Candidates) /\ m.todo # <<>>
        /\ \A i \in 1..Len(m.todo) : HasFile(skeleton, m.todo[i])
    BY <1>1, <1>2, <2>2 DEF MergeOK
  <2>4. Head(m.todo) = m.todo[1] /\ 1 \in 1..Len(m.todo)
    BY <2>3
  <2>5. file \in CaseNames
    BY <1>4, <2>2, <2>3, <2>4 DEF HasFile
  <2>6. MergeOK(m, skeleton, written)
    BY <2>2, <2>3, <2>5 DEF MergeOK
  <2> QED
    BY <1>1, <2>1, <2>6, MergeMoves
<1> QED
  BY <1>3, <1>4

\* A dataset that is read is clean.
LEMMA ReadDatasetKeeps ==
  ASSUME IInv, NEW g \in Mergers, ReadDataset(g)
  PROVE  IInv'
<1> PICK t : t = candidate[Head(merge[g].todo)].target
  OBVIOUS
<1>1. /\ merge[g].at = "dataset" /\ UNCHANGED <<candidate, skeleton, dataset, written, marked>>
      /\ merge' = [merge EXCEPT ![g].at = "write", ![g].read = dataset[t]]
  BY DEF ReadDataset
<1>2. MergeOK(merge[g], skeleton, written) /\ DOMAIN merge = Mergers
  BY DEF IInv
<1>3. /\ merge[g].todo \in Seq(Candidates) /\ merge[g].todo # <<>>
      /\ \A i \in 1..Len(merge[g].todo) : HasFile(skeleton, merge[g].todo[i])
      /\ merge[g].name \in CaseNames
  BY <1>1, <1>2 DEF MergeOK
<1>4. Head(merge[g].todo) \in Candidates
  BY <1>3
<1>5. Clean(dataset[t])
  BY <1>4 DEF IInv, RowsOK
<1> PICK m : m = [[merge[g] EXCEPT !.at = "write"] EXCEPT !.read = dataset[t]]
  OBVIOUS
<1>6. merge' = [merge EXCEPT ![g] = m]
  BY <1>1, <1>2, ReadField
<1>7. /\ DOMAIN m = {"at", "todo", "name", "read"}
      /\ m.at = "write" /\ m.read = dataset[t] /\ m.todo = merge[g].todo /\ m.name = merge[g].name
  BY <1>2 DEF MergeOK
<1>8. MergeOK(m, skeleton, written)
  BY <1>3, <1>5, <1>7 DEF MergeOK
<1> QED
  BY <1>1, <1>6, <1>8, MergeMoves

\* What is written is the clean dataset that was read, with the case put in.
LEMMA WriteDatasetKeeps ==
  ASSUME IInv, NEW g \in Mergers, WriteDataset(g)
  PROVE  IInv'
<1> PICK c, t : c = Head(merge[g].todo) /\ t = candidate[c].target
  OBVIOUS
<1> PICK cases : cases = Merged(merge[g].read, merge[g].name, c)
  OBVIOUS
<1>1. /\ merge[g].at = "write" /\ UNCHANGED <<candidate, skeleton, marked>>
      /\ dataset' = [dataset EXCEPT ![t] = cases]
      /\ written' = written \cup {c}
      /\ merge' = [merge EXCEPT ![g].at = "mark"]
  BY DEF WriteDataset
<1>2. MergeOK(merge[g], skeleton, written) /\ DOMAIN merge = Mergers
  BY DEF IInv
<1>3. /\ merge[g].todo \in Seq(Candidates) /\ merge[g].todo # <<>>
      /\ \A i \in 1..Len(merge[g].todo) : HasFile(skeleton, merge[g].todo[i])
      /\ merge[g].name \in CaseNames /\ Clean(merge[g].read)
  BY <1>1, <1>2 DEF MergeOK
<1>4. c \in Candidates
  BY <1>3
<1>5. Clean(cases)
  BY <1>3, <1>4, MergedClean
<1>6. DOMAIN dataset' = Targets /\ \A u \in Targets : Clean(dataset'[u])
  BY <1>1, <1>5 DEF IInv
<1> PICK m : m = [merge[g] EXCEPT !.at = "mark"]
  OBVIOUS
<1>7. merge' = [merge EXCEPT ![g] = m]
  BY <1>1, <1>2
<1>8. DOMAIN m = {"at", "todo", "name", "read"} /\ m.at = "mark" /\ m.todo = merge[g].todo
  BY <1>2 DEF MergeOK
<1>9. MergeOK(m, skeleton, written')
  BY <1>1, <1>3, <1>8 DEF MergeOK
<1>10. ASSUME NEW h \in Mergers
       PROVE  MergeOK(merge'[h], skeleton, written')
  <2>1. CASE h = g
    BY <1>2, <1>7, <1>9, <2>1
  <2>2. CASE h # g
    <3>1. merge'[h] = merge[h] /\ MergeOK(merge[h], skeleton, written) /\ written \subseteq written'
      BY <1>1, <1>2, <1>7, <2>2 DEF IInv
    <3> QED
      BY <3>1, MergeUndisturbed
  <2> QED
    BY <2>1, <2>2
<1>11. DOMAIN merge' = Mergers
  BY <1>2, <1>7
<1>12. RowsOK' /\ MergedWasWritten'
  BY <1>1 DEF IInv, RowsOK, MergedWasWritten
<1> QED
  BY <1>1, <1>6, <1>10, <1>11, <1>12 DEF IInv

\* A candidate is reported as merged once its case was written; then comes the next file.
LEMMA MarkMergedKeeps ==
  ASSUME IInv, NEW g \in Mergers, MarkMerged(g)
  PROVE  IInv'
<1> PICK c, rest : c = Head(merge[g].todo) /\ rest = Tail(merge[g].todo)
  OBVIOUS
<1> PICK m : m = IF rest = <<>> THEN NoMerge
                 ELSE [merge[g] EXCEPT !.at = "file", !.todo = rest, !.name = "none", !.read = <<>>]
  OBVIOUS
<1>1. /\ merge[g].at = "mark" /\ UNCHANGED <<skeleton, dataset, written, marked>>
      /\ candidate' = [candidate EXCEPT ![c].status = "merged"]
      /\ merge' = [merge EXCEPT ![g] = m]
  BY DEF MarkMerged
<1>2. MergeOK(merge[g], skeleton, written) /\ DOMAIN merge = Mergers
  BY DEF IInv
<1>3. /\ merge[g].todo \in Seq(Candidates) /\ merge[g].todo # <<>>
      /\ \A i \in 1..Len(merge[g].todo) : HasFile(skeleton, merge[g].todo[i])
      /\ c \in written
  BY <1>1, <1>2 DEF MergeOK
<1>4. RowsOK' /\ MergedWasWritten'
  BY <1>1, <1>3, StatusKeeps DEF IInv
<1>5. MergeOK(m, skeleton, written)
  <2>1. CASE rest = <<>>
    BY <2>1, IdleMerge
  <2>2. CASE rest # <<>>
    <3>1. /\ DOMAIN m = {"at", "todo", "name", "read"} /\ m.at = "file" /\ m.todo = rest
      BY <1>2, <2>2 DEF MergeOK
    <3>2. /\ rest \in Seq(Candidates)
          /\ \A i \in 1..Len(rest) : rest[i] = merge[g].todo[i + 1] /\ i + 1 \in 1..Len(merge[g].todo)
      BY <1>3
    <3> QED
      BY <1>3, <2>2, <3>1, <3>2 DEF MergeOK
  <2> QED
    BY <2>1, <2>2
<1>6. DOMAIN merge' = Mergers /\ \A h \in Mergers : MergeOK(merge'[h], skeleton, written)
  BY <1>1, <1>5 DEF IInv
<1> QED
  BY <1>1, <1>4, <1>6 DEF IInv

LEMMA MergerDiesKeeps ==
  ASSUME IInv, NEW g \in Mergers, MergerDies(g)
  PROVE  IInv'
BY IdleMerge, MergeMoves DEF MergerDies

LEMMA NextKeeps ==
  ASSUME IInv, [BadCasesNext]_badCaseVars
  PROVE  IInv'
<1>1. ASSUME NEW c \in Candidates, CreateCandidate(c) \/ SetExportStatus(c) \/ Curate(c)
      PROVE  IInv'
  BY <1>1, PeopleKeep
<1>2. ASSUME NEW x \in Exporters,
             StartExport(x) \/ WriteSkeleton(x) \/ MarkExported(x) \/ ExporterDies(x)
      PROVE  IInv'
  BY <1>2, ExportKeeps
<1>3. ASSUME NEW g \in Mergers,
             \/ StartMerge(g) \/ ReadSkeleton(g) \/ ReadDataset(g)
             \/ WriteDataset(g) \/ MarkMerged(g) \/ MergerDies(g)
      PROVE  IInv'
  BY <1>3, StartMergeKeeps, ReadSkeletonKeeps, ReadDatasetKeeps, WriteDatasetKeeps,
     MarkMergedKeeps, MergerDiesKeeps
<1>4. CASE UNCHANGED badCaseVars
  BY <1>4 DEF badCaseVars, IInv, RowsOK, MergedWasWritten
<1> QED
  BY <1>1, <1>2, <1>3, <1>4 DEF BadCasesNext

-----------------------------------------------------------------------------
(* The theorem.                                                            *)

LEMMA InvImplies == IInv => DatasetsAreClean
<1> SUFFICES ASSUME IInv, NEW t \in Targets
             PROVE  NamedOnce(dataset[t]) /\ Completed(dataset[t])
  BY DEF IInv, DatasetsAreClean
<1>1. dataset[t] \in Seq(Case) /\ NamedOnce(dataset[t])
  BY DEF IInv, Clean
<1>2. \A i \in DOMAIN dataset[t] : dataset[t][i] \in Case
  BY <1>1
<1> QED
  BY <1>1, <1>2 DEF Completed, Case

\* However many exports and merges run beside each other over the same rows and files,
\* and wherever they die: no uncompleted skeleton and no second case of a name enters a
\* dataset, and a merge reports no case as merged before it is written.
THEOREM DatasetsStayClean == BadCasesSpec => []DatasetsAreClean
<1>1. BadCasesInit => IInv
  BY InitEstablishes
<1>2. IInv /\ [BadCasesNext]_badCaseVars => IInv'
  BY NextKeeps
<1>3. IInv => DatasetsAreClean
  BY InvImplies
<1> QED
  BY <1>1, <1>2, <1>3, PTL DEF BadCasesSpec

=============================================================================
