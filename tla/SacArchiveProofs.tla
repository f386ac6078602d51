-------------------------- MODULE SacArchiveProofs --------------------------
(***************************************************************************)
(* The hourly files are the record that Archive promises, headers agree    *)
(* with the samples, the axes with each other, and what is announced is    *)
(* final, for every length of an hour, every trace, any number of restarts *)
(* and labels that go on, stand still, skip seconds or go back; until a    *)
(* file fails to open.                                                     *)
(*                                                                         *)
(* ArchiveInv says which hours the axes write to, HeadInv what their files *)
(* hold at each step of a block, TimeInv which labels, CoverInv which      *)
(* extrema, KnownInv what is announced; each rests on those before it.     *)
(***************************************************************************)
EXTENDS SacArchive, TLAPS

Elements == [npts : Int, start : Int, max : Int, min : Int] \cup [label : Int]
FileType == [exists : BOOLEAN, content : Seq(Elements)]

(* Files that nothing went wrong with.                                     *)
InOrder(f) ==
    /\ f.exists \/ f.content = <<>>
    /\ f.content # <<>> => HasHeader(f)

-----------------------------------------------------------------------------
(* What the calls of sacsubc.c do to a file.                               *)
LEMMA ElementKinds ==
    /\ \A n, s, x, y \in Int : /\ Header(n, s, x, y) \in Elements
                               /\ "npts" \in DOMAIN Header(n, s, x, y)
    /\ \A l \in Int : /\ Block(l) \in Elements
                      /\ "npts" \notin DOMAIN Block(l)
                      /\ Block(l).label = l
  BY DEF Header, Block, Elements

LEMMA CreatedFile ==
    ASSUME NEW f
    PROVE  /\ CreateFile(f) \in FileType
           /\ InOrder(CreateFile(f))
           /\ CreateFile(f).exists
           /\ CreateFile(f).content = <<>>
           /\ Labels(CreateFile(f)) = <<>>
  BY DEF CreateFile, File, FileType, InOrder, Labels, Blocks, HasHeader

(* A header over a header, or in an empty file, keeps the blocks.          *)
LEMMA HeaderOver ==
    ASSUME NEW f \in FileType, NEW h \in Elements, "npts" \in DOMAIN h
    PROVE  /\ UpdateHeaders(f, h) \in FileType
           /\ InOrder(f) => /\ InOrder(UpdateHeaders(f, h))
                            /\ Blocks(UpdateHeaders(f, h)) = Blocks(f)
           /\ f.exists => /\ UpdateHeaders(f, h).exists
                          /\ HasHeader(UpdateHeaders(f, h))
                          /\ UpdateHeaders(f, h).content[1] = h
  <1>0. f.content \in Seq(Elements) /\ f.exists \in BOOLEAN
    BY DEF FileType
  <1>1. CASE ~f.exists
    BY <1>1 DEF UpdateHeaders
  <1>2. CASE f.exists /\ f.content = <<>>
    <2>0. SubSeq(f.content, HeaderBlocks + 1, Len(f.content)) = <<>> /\ ~HasHeader(f)
      <3>1. Len(f.content) = 0
        BY <1>2
      <3>2. HeaderBlocks + 1 > 0 /\ HeaderBlocks + 1 \in Nat
        BY SacFileAssumption
      <3> QED BY <1>0, <1>2, <3>1, <3>2 DEF HasHeader
    <2>1. UpdateHeaders(f, h) = File(<<h>>)
      <3>1. UpdateHeaders(f, h) = File(<<h>> \o <<>>)
        BY <1>2, <2>0 DEF UpdateHeaders
      <3>2. <<h>> \o <<>> = <<h>>
        OBVIOUS
      <3> QED BY <3>1, <3>2
    <2>2. /\ File(<<h>>) \in FileType /\ File(<<h>>).exists /\ HasHeader(File(<<h>>))
          /\ InOrder(File(<<h>>)) /\ Blocks(File(<<h>>)) = <<>> /\ File(<<h>>).content[1] = h
      BY DEF File, FileType, HasHeader, InOrder, Blocks
    <2>3. Blocks(f) = <<>>
      BY <1>2 DEF Blocks, HasHeader
    <2> QED BY <1>2, <2>1, <2>2, <2>3
  <1>3. CASE f.exists /\ f.content # <<>>
    <2> DEFINE rest == IF HasHeader(f) THEN Tail(f.content)
                       ELSE SubSeq(f.content, HeaderBlocks + 1, Len(f.content))
               new == <<h>> \o rest
    <2>1. UpdateHeaders(f, h) = File(new)
      BY <1>3 DEF UpdateHeaders
    <2>2. rest \in Seq(Elements)
      <3>1. Tail(f.content) \in Seq(Elements)
        BY <1>0, <1>3
      <3>2. SubSeq(f.content, HeaderBlocks + 1, Len(f.content)) \in Seq(Elements)
        BY <1>0, SacFileAssumption
      <3> QED BY <3>1, <3>2
    <2>3. InOrder(f) => rest = Tail(f.content) /\ Blocks(f) = Tail(f.content)
      BY <1>3 DEF InOrder, Blocks
    <2> HIDE DEF rest
    <2>4. new \in Seq(Elements) /\ new # <<>> /\ new[1] = h /\ Tail(new) = rest
      BY <2>2
    <2> HIDE DEF new
    <2>5. /\ File(new) \in FileType /\ File(new).exists /\ HasHeader(File(new))
          /\ InOrder(File(new)) /\ Blocks(File(new)) = rest
          /\ File(new).content[1] = h
      BY <2>4 DEF File, FileType, HasHeader, InOrder, Blocks
    <2> QED BY <1>3, <2>1, <2>3, <2>5
  <1> QED BY <1>0, <1>1, <1>2, <1>3

(* Samples go behind what is there.                                        *)
LEMMA BlockBehind ==
    ASSUME NEW f \in FileType, NEW l \in Int
    PROVE  /\ UpdateData(f, Block(l)) \in FileType
           /\ UpdateData(f, Block(l)).exists
           /\ HasHeader(f) => /\ InOrder(UpdateData(f, Block(l)))
                              /\ HasHeader(UpdateData(f, Block(l)))
                              /\ UpdateData(f, Block(l)).content[1] = f.content[1]
                              /\ Blocks(UpdateData(f, Block(l))) = Append(Blocks(f), Block(l))
                              /\ Labels(UpdateData(f, Block(l))) = Append(Labels(f), l)
  <1>0. f.content \in Seq(Elements) /\ Block(l) \in Elements /\ Block(l).label = l
    BY ElementKinds DEF FileType
  <1> DEFINE new == Append(f.content, Block(l))
  <1>1. UpdateData(f, Block(l)) = File(new)
    BY DEF UpdateData
  <1>2. new \in Seq(Elements) /\ new # <<>>
    BY <1>0
  <1>3. ASSUME HasHeader(f)
        PROVE  new[1] = f.content[1] /\ Tail(new) = Append(Tail(f.content), Block(l))
    <2>1. f.content # <<>>
      BY <1>3 DEF HasHeader
    <2> QED BY <1>0, <2>1
  <1> HIDE DEF new
  <1>4. File(new) \in FileType /\ File(new).exists
    BY <1>2 DEF File, FileType
  <1>5. ASSUME HasHeader(f)
        PROVE  /\ InOrder(File(new)) /\ HasHeader(File(new))
               /\ File(new).content[1] = f.content[1]
               /\ Blocks(File(new)) = Append(Blocks(f), Block(l))
               /\ Labels(File(new)) = Append(Labels(f), l)
    <2>1. HasHeader(File(new)) /\ File(new).content[1] = f.content[1]
      BY <1>2, <1>3, <1>5 DEF File, HasHeader
    <2>2. Blocks(File(new)) = Append(Blocks(f), Block(l))
      BY <1>3, <1>5, <2>1 DEF File, Blocks
    <2>3. Blocks(f) \in Seq(Elements)
      BY <1>0, <1>5 DEF Blocks, HasHeader
    <2>4. [i \in 1 .. Len(Append(Blocks(f), Block(l))) |-> Append(Blocks(f), Block(l))[i].label]
            = Append([i \in 1 .. Len(Blocks(f)) |-> Blocks(f)[i].label], l)
      BY <1>0, <2>3
    <2> QED BY <2>1, <2>2, <2>4 DEF InOrder, Labels, File
  <1> QED BY <1>1, <1>4, <1>5

-----------------------------------------------------------------------------
(* Hours.                                                                  *)
LEMMA HourParts ==
    ASSUME NEW t \in Nat
    PROVE  /\ Hour(t) \in Nat
           /\ t = Hour(t) * HourSeconds + (t % HourSeconds)
           /\ t % HourSeconds \in 0 .. HourSeconds - 1
  <1>0. HourSeconds \in Nat \ {0}
    BY SacArchiveAssumption
  <1>1. t \div HourSeconds \in Nat
    BY <1>0
  <1>2. t % HourSeconds \in 0 .. HourSeconds - 1
    BY <1>0
  <1>3. t = HourSeconds * (t \div HourSeconds) + (t % HourSeconds)
    BY <1>0
  <1>4. HourSeconds * (t \div HourSeconds) = (t \div HourSeconds) * HourSeconds
    BY <1>0, <1>1
  <1> QED BY <1>1, <1>2, <1>3, <1>4 DEF Hour

(* Fewer hours are fewer seconds, by an hour at least.                     *)
LEMMA HoursApart ==
    ASSUME NEW a \in Nat, NEW b \in Nat, a < b
    PROVE  a * HourSeconds + HourSeconds <= b * HourSeconds
  <1>0. HourSeconds \in Nat \ {0}
    BY SacArchiveAssumption
  <1> DEFINE d == b - (a + 1)
  <1>1. d \in Nat /\ b = (a + 1) + d
    OBVIOUS
  <1>2. b * HourSeconds = (a + 1) * HourSeconds + d * HourSeconds
    BY <1>0, <1>1
  <1>3. d * HourSeconds \in Nat /\ (a + 1) * HourSeconds = a * HourSeconds + HourSeconds
        /\ a * HourSeconds \in Nat
    BY <1>0, <1>1
  <1> QED BY <1>0, <1>2, <1>3

LEMMA HourOrder ==
    ASSUME NEW t \in Nat, NEW u \in Nat, t <= u
    PROVE  /\ Hour(t) <= Hour(u)
           /\ t < u /\ u % HourSeconds = 0 => Hour(t) < Hour(u)
  <1>0. HourSeconds \in Nat \ {0}
    BY SacArchiveAssumption
  <1> DEFINE a == Hour(t)
             b == Hour(u)
  <1>1. /\ a \in Nat /\ t = a * HourSeconds + (t % HourSeconds)
        /\ t % HourSeconds \in 0 .. HourSeconds - 1
    BY HourParts
  <1>2. /\ b \in Nat /\ u = b * HourSeconds + (u % HourSeconds)
        /\ u % HourSeconds \in 0 .. HourSeconds - 1
    BY HourParts
  <1> HIDE DEF a, b
  <1>3. a * HourSeconds \in Nat /\ b * HourSeconds \in Nat
    BY <1>0, <1>1, <1>2
  <1>4. ASSUME b < a PROVE FALSE
    <2>1. b * HourSeconds + HourSeconds <= a * HourSeconds
      BY <1>1, <1>2, <1>4, HoursApart
    <2> QED BY <1>0, <1>1, <1>2, <1>3, <2>1
  <1>5. ASSUME t < u, u % HourSeconds = 0, a = b PROVE FALSE
    BY <1>0, <1>1, <1>2, <1>3, <1>5
  <1>6. a <= b
    BY <1>1, <1>2, <1>4
  <1> QED BY <1>1, <1>2, <1>5, <1>6 DEF a, b

(* An hour's first second is in that hour.                                 *)
LEMMA FirstSecond ==
    ASSUME NEW n \in Nat
    PROVE  (n * HourSeconds) % HourSeconds = 0 /\ (n * HourSeconds) \div HourSeconds = n
  <1>0. HourSeconds \in Nat \ {0}
    BY SacArchiveAssumption
  <1> QED BY <1>0

LEMMA HourType ==
    ASSUME NEW t \in 0 .. MaxTime
    PROVE  t \in Nat /\ Hour(t) \in Hours /\ Hour(t) \in Nat
  <1>1. t \in Nat /\ MaxTime \in Nat /\ t <= MaxTime
    BY SacArchiveAssumption
  <1>2. Hour(t) <= Hour(MaxTime) /\ Hour(t) \in Nat /\ Hour(MaxTime) \in Nat
    BY <1>1, HourOrder, HourParts
  <1> QED BY <1>1, <1>2 DEF Hours

-----------------------------------------------------------------------------
(* Which hour each axis writes to.  While the files are created the axes   *)
(* before axis are in the hour at hand, or all are where they were.        *)
Begins == dir[Axes[axis]] = NoDir \/ NewHour

DirsOK ==
    /\ step = "create" =>
         /\ \A k, j \in 1 .. Last : k >= axis /\ j >= axis => dir[Axes[k]] = dir[Axes[j]]
         /\ \A k \in 1 .. Last : k < axis =>
               dir[Axes[k]] = IF Begins THEN Hour(label) ELSE dir[Axes[axis]]
    /\ step # "create" => \A a, b \in Axis : dir[a] = dir[b]
    /\ step \in {"sample", "header", "data"} => \A a \in Axis : dir[a] # NoDir

StateTypes ==
    /\ step \in {"idle", "create", "sample", "header", "data"}
    /\ axis \in 1 .. Last
    /\ label \in 0 .. MaxTime
    /\ dir \in [Axis -> Hours \cup {NoDir}]
    /\ npts \in Int /\ start \in Int /\ depmax \in Int /\ depmin \in Int
    /\ uploads \subseteq Hours /\ again \subseteq Hours
    /\ faults \in Nat
    /\ disk \in [Hours -> [Axis -> FileType]]

(* No axis writes to an hour that is announced, if it did not begin again. *)
AnnouncedAreLeft == \A h \in uploads \ again : \A a \in Axis : dir[a] # h

DiskOK ==
    faults = 0 =>
        /\ \A h \in Hours, a \in Axis : InOrder(disk[h][a])
        /\ \A a \in Axis : dir[a] # NoDir => disk[dir[a]][a].exists
        /\ step = "data" => HasHeader(disk[dir[Axes[axis]]][Axes[axis]])

LEMMA AxesAre ==
    /\ Last = 3 /\ Axis = {"BH2", "BH1", "BHZ"}
    /\ Axes[1] = "BH2" /\ Axes[2] = "BH1" /\ Axes[3] = "BHZ"
    /\ \A k \in 1 .. Last : Axes[k] \in Axis
    /\ \A a \in Axis : \E k \in 1 .. Last : a = Axes[k]
    /\ \A k, j \in 1 .. Last : Axes[k] = Axes[j] => k = j
  <1>1. Last = 3 /\ Axes[1] = "BH2" /\ Axes[2] = "BH1" /\ Axes[3] = "BHZ"
    BY DEF Last, Axes
  <1>2. 1 .. 3 = {1, 2, 3}
    OBVIOUS
  <1> QED BY <1>1, <1>2 DEF Axis

-----------------------------------------------------------------------------
(* The types.                                                              *)
LEMMA DiskType ==
    ASSUME NEW d \in [Hours -> [Axis -> FileType]], NEW g, NEW b, NEW f,
           g \in Hours /\ b \in Axis => f \in FileType
    PROVE  [d EXCEPT ![g][b] = f] \in [Hours -> [Axis -> FileType]]
  <1> DEFINE row == [d[g] EXCEPT ![b] = f]
  <1>1. g \in Hours => row \in [Axis -> FileType]
    OBVIOUS
  <1>2. [d EXCEPT ![g][b] = f] = [d EXCEPT ![g] = row]
    OBVIOUS
  <1> HIDE DEF row
  <1> QED BY <1>1, <1>2

LEMMA DatesAreInt ==
    ASSUME NEW t \in 0 .. MaxTime, NEW d \in SacDate[t]
    PROVE  d \in Int
  BY SacArchiveAssumption

LEMMA StepTypes == StateTypes /\ [Next]_vars => StateTypes'
  <1> SUFFICES ASSUME StateTypes, [Next]_vars PROVE StateTypes'
    OBVIOUS
  <1>0. /\ Hour(label) \in Hours /\ label \in Nat /\ label \in Int
        /\ Axes[axis] \in Axis /\ axis \in {1, 2, 3} /\ Last = 3
    BY HourType, AxesAre DEF StateTypes
  <1>1. ASSUME NEW written \in [Hours -> [Axis -> FileType]], Writes(written)
        PROVE  faults' \in Nat /\ disk' \in [Hours -> [Axis -> FileType]]
    BY <1>1 DEF Writes, StateTypes
  <1>2. ASSUME NEW then \in {"idle", "sample"}, NextAxis(then)
        PROVE  axis' \in 1 .. Last /\ step' \in {"idle", "create", "sample", "header", "data"}
    BY <1>0, <1>2 DEF NextAxis, StateTypes
  <1>3. ASSUME NewFile(Axes[axis])
        PROVE  /\ dir' \in [Axis -> Hours \cup {NoDir}]
               /\ npts' \in Int /\ start' \in Int /\ depmax' \in Int /\ depmin' \in Int
               /\ faults' \in Nat /\ disk' \in [Hours -> [Axis -> FileType]]
    <2>0. start' \in Int
      BY <1>3, DatesAreInt DEF NewFile, StateTypes
    <2> DEFINE written == [disk EXCEPT ![Hour(label)][Axes[axis]] = CreateFile(@)]
    <2>1. written \in [Hours -> [Axis -> FileType]]
      BY <1>0, CreatedFile DEF StateTypes
    <2>2. Writes(written)
      BY <1>3 DEF NewFile
    <2> HIDE DEF written
    <2>3. faults' \in Nat /\ disk' \in [Hours -> [Axis -> FileType]]
      BY <1>1, <2>1, <2>2
    <2> QED BY <1>0, <1>3, <2>0, <2>3 DEF NewFile, StateTypes
  <1>4. CASE TakeBlock
    BY <1>0, <1>4 DEF TakeBlock, StateTypes, memory, told
  <1>5. CASE FirstFile
    <2>1. again' \subseteq Hours
      BY <1>0, <1>5 DEF FirstFile, Begun, StateTypes
    <2> QED BY <1>2, <1>3, <1>5, <2>1 DEF FirstFile, StateTypes
  <1>6. CASE HourFile
    <2>1. uploads' \subseteq Hours /\ again' \subseteq Hours
      BY <1>0, <1>6 DEF HourFile, Begun, StateTypes
    <2> QED BY <1>2, <1>3, <1>6, <2>1 DEF HourFile, StateTypes
  <1>7. CASE SameFile
    BY <1>2, <1>7 DEF SameFile, StateTypes, memory, told
  <1>8. CASE CountBlock
    BY <1>8 DEF CountBlock, StateTypes, told
  <1>9. CASE WriteHeader
    <2> DEFINE a == Axes[axis]
               written == [disk EXCEPT ![dir[a]][a] =
                             UpdateHeaders(@, Header(npts, start, depmax', depmin'))]
    <2>1. depmax' \in Int /\ depmin' \in Int
      <3>1. Trace[a][label] \in Int
        BY <1>0, SacArchiveAssumption DEF StateTypes, Axis, Axes, Last
      <3> QED BY <1>9, <3>1 DEF WriteHeader, FoldExtrema, StateTypes
    <2>2. Header(npts, start, depmax', depmin') \in Elements
          /\ "npts" \in DOMAIN Header(npts, start, depmax', depmin')
      BY <2>1, ElementKinds DEF StateTypes
    <2>3. \A f \in FileType : UpdateHeaders(f, Header(npts, start, depmax', depmin')) \in FileType
      BY <2>2, HeaderOver
    <2>4. written \in [Hours -> [Axis -> FileType]]
      <3> DEFINE h == Header(npts, start, depmax', depmin')
      <3>1. dir[a] \in Hours /\ a \in Axis
              => UpdateHeaders(disk[dir[a]][a], h) \in FileType
        BY <2>3 DEF StateTypes
      <3>2. [disk EXCEPT ![dir[a]][a] = UpdateHeaders(disk[dir[a]][a], h)]
              \in [Hours -> [Axis -> FileType]]
        <4> HIDE DEF h, a
        <4> QED BY <3>1, DiskType DEF StateTypes
      <3> QED BY <3>2
    <2>5. Writes(written)
      BY <1>9 DEF WriteHeader
    <2> HIDE DEF written
    <2>6. faults' \in Nat /\ disk' \in [Hours -> [Axis -> FileType]]
      BY <1>1, <2>4, <2>5
    <2> QED BY <1>9, <2>1, <2>6 DEF WriteHeader, StateTypes, told
  <1>10. CASE WriteData
    <2> DEFINE a == Axes[axis]
               written == [disk EXCEPT ![dir[a]][a] = UpdateData(@, Block(label))]
    <2>1. \A f \in FileType : UpdateData(f, Block(label)) \in FileType
      BY <1>0, BlockBehind
    <2>2. written \in [Hours -> [Axis -> FileType]]
      <3>1. dir[a] \in Hours /\ a \in Axis
              => UpdateData(disk[dir[a]][a], Block(label)) \in FileType
        BY <2>1 DEF StateTypes
      <3>2. [disk EXCEPT ![dir[a]][a] = UpdateData(disk[dir[a]][a], Block(label))]
              \in [Hours -> [Axis -> FileType]]
        <4> HIDE DEF a
        <4> QED BY <3>1, DiskType DEF StateTypes
      <3> QED BY <3>2
    <2>3. Writes(written)
      BY <1>10 DEF WriteData
    <2> HIDE DEF written
    <2>4. faults' \in Nat /\ disk' \in [Hours -> [Axis -> FileType]]
      BY <1>1, <2>2, <2>3
    <2>5. axis' \in 1 .. Last /\ step' \in {"idle", "create", "sample", "header", "data"}
      BY <1>0, <1>10 DEF WriteData
    <2> QED BY <1>10, <2>4, <2>5 DEF WriteData, StateTypes, memory, told
  <1>11. CASE CrashAndRestart
    BY <1>0, <1>11 DEF CrashAndRestart, StateTypes, told
  <1>12. CASE OutOfTime \/ UNCHANGED vars
    BY <1>12 DEF OutOfTime, vars, memory, told, StateTypes
  <1> QED BY <1>4, <1>5, <1>6, <1>7, <1>8, <1>9, <1>10, <1>11, <1>12 DEF Next

-----------------------------------------------------------------------------
(* The directories, and what is announced.                                 *)
LEMMA StepDirs ==
    StateTypes /\ DirsOK /\ AnnouncedAreLeft /\ [Next]_vars => DirsOK' /\ AnnouncedAreLeft'
  <1> SUFFICES ASSUME StateTypes, DirsOK, AnnouncedAreLeft, [Next]_vars
               PROVE  DirsOK' /\ AnnouncedAreLeft'
    OBVIOUS
  <1>0. /\ Hour(label) \in Hours /\ NoDir \notin Hours
        /\ Last = 3 /\ axis \in {1, 2, 3} /\ 1 .. Last = {1, 2, 3}
    BY HourType, AxesAre DEF StateTypes, Hours, NoDir
  <1>1. CASE TakeBlock
    <2>1. /\ step = "idle" /\ step' = "create" /\ axis' = 1
          /\ UNCHANGED <<dir, uploads, again>>
      BY <1>1 DEF TakeBlock, memory, told
    <2>2. \A k, j \in 1 .. Last : dir'[Axes[k]] = dir'[Axes[j]]
      BY <2>1, AxesAre DEF DirsOK
    <2> QED BY <2>1, <2>2, AxesAre DEF DirsOK, AnnouncedAreLeft
  <1>2. CASE FirstFile \/ HourFile
    <2> DEFINE a == Axes[axis]
    <2>1. /\ step = "create" /\ label' = label
          /\ dir' = [dir EXCEPT ![a] = Hour(label)]
          /\ NextAxis("sample")
          /\ Begins
          /\ uploads' = uploads \/ (axis = Last /\ uploads \subseteq uploads')
          /\ again' = IF Hour(label) \in uploads' THEN again \cup {Hour(label)} ELSE again
      BY <1>2 DEF FirstFile, HourFile, NewFile, Begins, Begun
    <2>2. /\ \A b \in Axis \ {a} : dir'[b] = dir[b]
          /\ dir'[a] = Hour(label) /\ a \in Axis
      BY <2>1, AxesAre DEF StateTypes
    <2>3. \A k \in 1 .. Last : k <= axis => dir'[Axes[k]] = Hour(label)
      BY <1>0, <2>1, <2>2, AxesAre DEF DirsOK
    <2>4. \A k \in 1 .. Last : k > axis => dir'[Axes[k]] = dir[a]
      BY <1>0, <2>1, <2>2, AxesAre DEF DirsOK
    <2>5. CASE axis < Last
      <3>1. step' = "create" /\ axis' = axis + 1
        BY <2>1, <2>5 DEF NextAxis
      <3>2. axis + 1 \in 1 .. Last /\ dir'[Axes[axis + 1]] = dir[a]
        BY <1>0, <2>4, <2>5
      <3>3. Begins'
        BY <2>1, <3>1, <3>2 DEF Begins, NewHour
      <3>4. DirsOK'
        BY <1>0, <2>1, <2>3, <2>4, <3>1, <3>3 DEF DirsOK
      <3>5. uploads' = uploads
        BY <1>0, <2>1, <2>5
      <3>6. AnnouncedAreLeft'
        BY <2>1, <2>2, <3>5 DEF AnnouncedAreLeft
      <3> QED BY <3>4, <3>6
    <2>6. CASE axis = Last
      <3>1. step' = "sample" /\ axis' = 1
        BY <1>0, <2>1, <2>6 DEF NextAxis
      <3>2. \A b \in Axis : dir'[b] = Hour(label)
        BY <1>0, <2>3, <2>6, AxesAre
      <3>3. DirsOK'
        BY <1>0, <3>1, <3>2 DEF DirsOK
      <3>4. AnnouncedAreLeft'
        BY <2>1, <3>2 DEF AnnouncedAreLeft
      <3> QED BY <3>3, <3>4
    <2> QED BY <1>0, <2>5, <2>6
  <1>3. CASE SameFile
    <2>1. /\ step = "create" /\ ~Begins /\ NextAxis("sample")
          /\ UNCHANGED <<label, dir, uploads, again>>
      BY <1>3 DEF SameFile, Begins, memory, told
    <2>2. \A k \in 1 .. Last : dir[Axes[k]] = dir[Axes[axis]]
      <3>1. ASSUME NEW k \in 1 .. Last, k < axis PROVE dir[Axes[k]] = dir[Axes[axis]]
        BY <2>1, <3>1 DEF DirsOK
      <3>2. ASSUME NEW k \in 1 .. Last, k >= axis PROVE dir[Axes[k]] = dir[Axes[axis]]
        BY <1>0, <2>1, <3>2 DEF DirsOK
      <3> QED BY <1>0, <3>1, <3>2
    <2>3. \A b, c \in Axis : dir[b] = dir[c] /\ dir[b] # NoDir
      BY <1>0, <2>1, <2>2, AxesAre DEF Begins
    <2>4. axis' \in 1 .. Last /\ (step' = "create" \/ step' = "sample")
      BY <1>0, <2>1 DEF NextAxis
    <2>5. DirsOK'
      <3>1. \A k \in 1 .. Last : dir'[Axes[k]] = dir'[Axes[axis']] /\ dir'[Axes[k]] # NoDir
        BY <2>1, <2>3, <2>4, AxesAre
      <3>2. ~Begins'
        BY <2>1, <2>4, <3>1 DEF Begins, NewHour
      <3> QED BY <2>1, <2>3, <2>4, <3>1, <3>2 DEF DirsOK
    <2>6. AnnouncedAreLeft'
      BY <2>1 DEF AnnouncedAreLeft
    <2> QED BY <2>5, <2>6
  <1>4. CASE CountBlock \/ WriteHeader \/ WriteData
    <2>1. /\ UNCHANGED <<label, dir, uploads, again>>
          /\ step \in {"sample", "header", "data"}
          /\ step' \in {"header", "data", "idle"}
      BY <1>0, <1>4 DEF CountBlock, WriteHeader, WriteData, memory, told
    <2> QED BY <2>1 DEF DirsOK, AnnouncedAreLeft
  <1>5. CASE CrashAndRestart
    <2>1. /\ step' = "idle" /\ uploads' = uploads /\ again' = again
          /\ dir' = [a \in Axis |-> NoDir]
      BY <1>5 DEF CrashAndRestart, told
    <2> QED BY <1>0, <2>1 DEF DirsOK, AnnouncedAreLeft, StateTypes
  <1>6. CASE OutOfTime \/ UNCHANGED vars
    <2>1. UNCHANGED <<step, axis, label, dir, uploads, again>>
      BY <1>6 DEF OutOfTime, vars, memory, told
    <2> QED BY <2>1 DEF DirsOK, Begins, NewHour, AnnouncedAreLeft
  <1> QED BY <1>1, <1>2, <1>3, <1>4, <1>5, <1>6 DEF Next

-----------------------------------------------------------------------------
(* The files, as long as none has failed to open.                          *)
Record == [h \in Hours |-> [a \in Axis |-> Labels(disk[h][a])]]

(* A call changes one file.                                                *)
Puts(h, a, f) == disk' = [disk EXCEPT ![h][a] = f]

LEMMA OneFile ==
    ASSUME StateTypes, NEW h \in Hours, NEW a \in Axis, NEW f, Puts(h, a, f)
    PROVE  /\ disk'[h][a] = f
           /\ \A g \in Hours, b \in Axis : g # h \/ b # a => disk'[g][b] = disk[g][b]
  <1>1. disk = [g \in Hours |-> disk[g]] /\ \A g \in Hours : disk[g] = [b \in Axis |-> disk[g][b]]
    BY DEF StateTypes
  <1> QED BY <1>1 DEF Puts

LEMMA OneRecord ==
    ASSUME StateTypes, NEW h \in Hours, NEW a \in Axis, NEW f, Puts(h, a, f)
    PROVE  Record' = [Record EXCEPT ![h][a] = Labels(f)]
  <1> DEFINE R == Record
             new == [g \in Hours |-> [b \in Axis |-> Labels(disk'[g][b])]]
  <1>1. \A g \in Hours, b \in Axis :
           Labels(disk'[g][b]) = IF g = h /\ b = a THEN Labels(f) ELSE Labels(disk[g][b])
    BY OneFile
  <1>2. /\ R = [g \in Hours |-> [b \in Axis |-> Labels(disk[g][b])]]
        /\ Record' = new
    BY DEF Record
  <1>3. new = [g \in Hours |-> [b \in Axis |-> IF g = h /\ b = a THEN Labels(f)
                                                ELSE Labels(disk[g][b])]]
    BY <1>1
  <1>4. [R EXCEPT ![h][a] = Labels(f)]
          = [g \in Hours |-> [b \in Axis |-> IF g = h /\ b = a THEN Labels(f)
                                             ELSE Labels(disk[g][b])]]
    <2> HIDE DEF R
    <2> QED BY <1>2
  <1> QED BY <1>2, <1>3, <1>4

(* What an action writes if nothing fails.                                 *)
LEMMA Unfailing ==
    ASSUME StateTypes, Next, faults' = 0
    PROVE  /\ faults = 0
           /\ \A written : Writes(written) => disk' = written
  <1>1. faults \in Nat
    BY DEF StateTypes
  <1>2. \A written : Writes(written) =>
           (disk' = written /\ faults' = faults) \/ faults' = faults + 1
    BY DEF Writes
  <1>3. faults' = faults \/ faults' = faults + 1
    <2>1. CASE TakeBlock \/ SameFile \/ CountBlock \/ CrashAndRestart \/ OutOfTime
      BY <2>1 DEF TakeBlock, SameFile, CountBlock, CrashAndRestart, OutOfTime, vars
    <2>2. CASE FirstFile \/ HourFile \/ WriteHeader \/ WriteData
      BY <1>2, <2>2 DEF FirstFile, HourFile, NewFile, WriteHeader, WriteData
    <2> QED BY <2>1, <2>2 DEF Next
  <1> QED BY <1>1, <1>2, <1>3

(* The file that is written to.                                            *)
LEMMA Created ==
    ASSUME StateTypes, FirstFile \/ HourFile, faults' = 0
    PROVE  /\ Hour(label) \in Hours /\ Axes[axis] \in Axis
           /\ dir' = [dir EXCEPT ![Axes[axis]] = Hour(label)]
           /\ \E f : /\ f \in FileType /\ InOrder(f) /\ f.exists
                     /\ f.content = <<>> /\ Labels(f) = <<>>
                     /\ Puts(Hour(label), Axes[axis], f)
  <1>1. Hour(label) \in Hours /\ Axes[axis] \in Axis
    BY HourType, AxesAre DEF StateTypes
  <1>2. NewFile(Axes[axis])
    BY DEF FirstFile, HourFile
  <1>3. disk' = [disk EXCEPT ![Hour(label)][Axes[axis]] = CreateFile(@)]
    BY <1>2, Unfailing DEF NewFile, Next
  <1> DEFINE f == CreateFile(disk[Hour(label)][Axes[axis]])
  <1>4. Puts(Hour(label), Axes[axis], f)
    BY <1>1, <1>3 DEF StateTypes, Puts
  <1>5. f \in FileType /\ InOrder(f) /\ f.exists /\ f.content = <<>> /\ Labels(f) = <<>>
    BY CreatedFile
  <1> HIDE DEF f
  <1> QED BY <1>1, <1>2, <1>4, <1>5 DEF NewFile

LEMMA Headed ==
    ASSUME StateTypes, DirsOK, DiskOK, WriteHeader, faults' = 0
    PROVE  /\ dir[Axes[axis]] \in Hours /\ Axes[axis] \in Axis
           /\ \E f : /\ f \in FileType /\ InOrder(f) /\ f.exists /\ HasHeader(f)
                     /\ f.content[1] = Header(npts, start, depmax', depmin')
                     /\ Blocks(f) = Blocks(disk[dir[Axes[axis]]][Axes[axis]])
                     /\ Labels(f) = Labels(disk[dir[Axes[axis]]][Axes[axis]])
                     /\ Puts(dir[Axes[axis]], Axes[axis], f)
  <1> DEFINE a == Axes[axis]
             old == disk[dir[a]][a]
             h == Header(npts, start, depmax', depmin')
             f == UpdateHeaders(old, h)
  <1>1. a \in Axis /\ dir[a] \in Hours
    BY AxesAre DEF StateTypes, DirsOK, WriteHeader
  <1>0. faults = 0
    BY Unfailing DEF Next
  <1>2. old \in FileType /\ InOrder(old) /\ old.exists
    <2>1. dir[a] # NoDir
      BY AxesAre DEF DirsOK, WriteHeader, StateTypes
    <2> QED BY <1>0, <1>1, <2>1 DEF StateTypes, DiskOK
  <1>3. h \in Elements /\ "npts" \in DOMAIN h
    <2>1. Trace[a][label] \in Int
      BY <1>1, SacArchiveAssumption DEF StateTypes, Axis, Axes, Last
    <2>2. depmax' \in Int /\ depmin' \in Int
      BY <2>1 DEF WriteHeader, FoldExtrema, StateTypes
    <2> QED BY <2>2, ElementKinds DEF StateTypes
  <1>4. disk' = [disk EXCEPT ![dir[a]][a] = UpdateHeaders(@, h)]
    BY Unfailing DEF WriteHeader, Next
  <1>5. Puts(dir[a], a, f)
    BY <1>1, <1>4 DEF StateTypes, Puts
  <1>6. /\ f \in FileType /\ InOrder(f) /\ f.exists /\ HasHeader(f)
        /\ f.content[1] = h /\ Blocks(f) = Blocks(old) /\ Labels(f) = Labels(old)
    <2> HIDE DEF h, old
    <2> QED BY <1>2, <1>3, HeaderOver DEF Labels
  <1> HIDE DEF f
  <1> QED BY <1>1, <1>5, <1>6

LEMMA Written ==
    ASSUME StateTypes, DirsOK, DiskOK, WriteData, faults' = 0
    PROVE  /\ dir[Axes[axis]] \in Hours /\ Axes[axis] \in Axis
           /\ HasHeader(disk[dir[Axes[axis]]][Axes[axis]])
           /\ \E f : /\ f \in FileType /\ InOrder(f) /\ f.exists /\ HasHeader(f)
                     /\ f.content[1] = disk[dir[Axes[axis]]][Axes[axis]].content[1]
                     /\ Blocks(f) = Append(Blocks(disk[dir[Axes[axis]]][Axes[axis]]), Block(label))
                     /\ Labels(f) = Append(Labels(disk[dir[Axes[axis]]][Axes[axis]]), label)
                     /\ Puts(dir[Axes[axis]], Axes[axis], f)
  <1> DEFINE a == Axes[axis]
             old == disk[dir[a]][a]
             f == UpdateData(old, Block(label))
  <1>1. a \in Axis /\ dir[a] \in Hours /\ label \in Int
    BY AxesAre, HourType DEF StateTypes, DirsOK, WriteData
  <1>2. old \in FileType /\ HasHeader(old)
    BY <1>1, Unfailing DEF StateTypes, DiskOK, WriteData, Next
  <1>3. disk' = [disk EXCEPT ![dir[a]][a] = UpdateData(@, Block(label))]
    BY Unfailing DEF WriteData, Next
  <1>4. Puts(dir[a], a, f)
    BY <1>1, <1>3 DEF StateTypes, Puts
  <1>5. /\ f \in FileType /\ InOrder(f) /\ f.exists /\ HasHeader(f)
        /\ f.content[1] = old.content[1] /\ Blocks(f) = Append(Blocks(old), Block(label))
        /\ Labels(f) = Append(Labels(old), label)
    <2> HIDE DEF old
    <2> QED BY <1>1, <1>2, BlockBehind
  <1> HIDE DEF f
  <1> QED BY <1>1, <1>2, <1>4, <1>5

LEMMA StepDisk ==
    StateTypes /\ DirsOK /\ DirsOK' /\ DiskOK /\ [Next]_vars => DiskOK'
  <1> SUFFICES ASSUME StateTypes, DirsOK, DirsOK', DiskOK, [Next]_vars, faults' = 0
               PROVE  DiskOK'
    BY DEF DiskOK
  <1>1. CASE FirstFile \/ HourFile
    <2> DEFINE a == Axes[axis]
    <2>1. /\ Hour(label) \in Hours /\ a \in Axis
          /\ dir' = [dir EXCEPT ![a] = Hour(label)]
      BY <1>1, Created
    <2>2. PICK f : /\ InOrder(f) /\ f.exists
                   /\ Puts(Hour(label), a, f)
      BY <1>1, Created
    <2> HIDE DEF a
    <2>3. /\ disk'[Hour(label)][a] = f
          /\ \A g \in Hours, b \in Axis : g # Hour(label) \/ b # a => disk'[g][b] = disk[g][b]
      BY <2>1, <2>2, OneFile
    <2>4. faults = 0
      BY <1>1, Unfailing DEF Next
    <2>5. \A h \in Hours, b \in Axis : InOrder(disk'[h][b])
      BY <2>2, <2>3, <2>4 DEF DiskOK
    <2>6. \A b \in Axis : dir'[b] # NoDir => disk'[dir'[b]][b].exists
      BY <2>1, <2>2, <2>3, <2>4 DEF DiskOK, StateTypes
    <2>7. step' # "data"
      BY <1>1 DEF FirstFile, HourFile, NextAxis
    <2> QED BY <2>5, <2>6, <2>7 DEF DiskOK
  <1>2. CASE WriteHeader
    <2> DEFINE a == Axes[axis]
    <2>1. dir[a] \in Hours /\ a \in Axis /\ UNCHANGED <<dir, axis>>
      BY <1>2, Headed DEF WriteHeader
    <2>2. PICK f : /\ InOrder(f) /\ f.exists /\ HasHeader(f)
                   /\ Puts(dir[a], a, f)
      BY <1>2, Headed
    <2>3. disk'[dir'[Axes[axis']]][Axes[axis']] = disk'[dir[a]][a]
      BY <2>1
    <2> HIDE DEF a
    <2>4. /\ disk'[dir[a]][a] = f
          /\ \A g \in Hours, b \in Axis : g # dir[a] \/ b # a => disk'[g][b] = disk[g][b]
      BY <2>1, <2>2, OneFile
    <2>5. faults = 0
      BY <1>2, Unfailing DEF Next
    <2>6. \A h \in Hours, b \in Axis : InOrder(disk'[h][b])
      BY <2>2, <2>4, <2>5 DEF DiskOK
    <2>7. \A b \in Axis : dir'[b] # NoDir => disk'[dir'[b]][b].exists
      BY <2>1, <2>2, <2>4, <2>5 DEF DiskOK, StateTypes
    <2> QED BY <2>2, <2>3, <2>4, <2>6, <2>7 DEF DiskOK
  <1>3. CASE WriteData
    <2> DEFINE a == Axes[axis]
    <2>1. dir[a] \in Hours /\ a \in Axis /\ UNCHANGED dir /\ step' # "data"
      BY <1>3, Written DEF WriteData, memory
    <2>2. PICK f : /\ InOrder(f) /\ f.exists
                   /\ Puts(dir[a], a, f)
      BY <1>3, Written
    <2> HIDE DEF a
    <2>4. /\ disk'[dir[a]][a] = f
          /\ \A g \in Hours, b \in Axis : g # dir[a] \/ b # a => disk'[g][b] = disk[g][b]
      BY <2>1, <2>2, OneFile
    <2>5. faults = 0
      BY <1>3, Unfailing DEF Next
    <2>6. \A h \in Hours, b \in Axis : InOrder(disk'[h][b])
      BY <2>2, <2>4, <2>5 DEF DiskOK
    <2>7. \A b \in Axis : dir'[b] # NoDir => disk'[dir'[b]][b].exists
      BY <2>1, <2>2, <2>4, <2>5 DEF DiskOK, StateTypes
    <2> QED BY <2>1, <2>6, <2>7 DEF DiskOK
  <1>4. CASE TakeBlock \/ SameFile \/ CountBlock
    BY <1>4 DEF TakeBlock, SameFile, NextAxis, CountBlock, memory, DiskOK
  <1>5. CASE CrashAndRestart
    BY <1>5 DEF CrashAndRestart, DiskOK
  <1>6. CASE OutOfTime \/ UNCHANGED vars
    BY <1>6 DEF OutOfTime, vars, memory, DiskOK
  <1> QED BY <1>1, <1>2, <1>3, <1>4, <1>5, <1>6 DEF Next

-----------------------------------------------------------------------------
(* The refinement.                                                         *)
ArchiveInv == StateTypes /\ DirsOK /\ AnnouncedAreLeft /\ DiskOK

LEMMA InitArchiveInv == Init => ArchiveInv
  <1> SUFFICES ASSUME Init PROVE ArchiveInv
    OBVIOUS
  <1>1. StateTypes
    <2>1. NoFile \in FileType
      BY DEF NoFile, FileType
    <2> QED BY <2>1, AxesAre DEF Init, StateTypes
  <1>2. DirsOK /\ AnnouncedAreLeft
    BY DEF Init, DirsOK, AnnouncedAreLeft, NoDir
  <1>3. InOrder(NoFile)
    BY DEF NoFile, InOrder
  <1>4. DiskOK
    BY <1>3 DEF Init, DiskOK
  <1> QED BY <1>1, <1>2, <1>4 DEF ArchiveInv

LEMMA NextArchiveInv == ArchiveInv /\ [Next]_vars => ArchiveInv'
  BY StepTypes, StepDirs, StepDisk DEF ArchiveInv

LEMMA RecordIs ==
    ASSUME NEW h \in Hours, NEW a \in Axis
    PROVE  Record[h][a] = Labels(disk[h][a])
  BY DEF Record

(* Opening the file of an axis begins its hour.                            *)
LEMMA BeginStep ==
    ASSUME ArchiveInv, FirstFile \/ HourFile, faults' = 0
    PROVE  \E a \in Axis : Abstract!Begin(a)
  <1> DEFINE a == Axes[axis]
  <1>0. StateTypes /\ DirsOK /\ faults = 0 /\ axis \in {1, 2, 3} /\ Last = 3 /\ 1 .. Last = {1, 2, 3}
    BY Unfailing, AxesAre DEF ArchiveInv, Next, StateTypes
  <1>1. /\ Hour(label) \in Hours /\ a \in Axis
        /\ dir' = [dir EXCEPT ![a] = Hour(label)]
    BY <1>0, Created
  <1>2. PICK f : Labels(f) = <<>> /\ Puts(Hour(label), a, f)
    BY <1>0, Created
  <1>3. Record' = [Record EXCEPT ![Hour(label)][a] = <<>>]
    BY <1>0, <1>1, <1>2, OneRecord
  <1>4. /\ step = "create" /\ label' = label
        /\ Begins
        /\ uploads' = IF axis = Last /\ dir[a] # NoDir THEN uploads \cup {dir[a]} ELSE uploads
        /\ again' = IF Hour(label) \in uploads' THEN again \cup {Hour(label)} ELSE again
    BY DEF FirstFile, HourFile, Begins, Begun
  <1>5. dir[a] = NoDir \/ label % HourSeconds = 0
    BY <1>4 DEF Begins, NewHour
  <1>6. a = Axes[Last] => axis = Last
    BY <1>0, AxesAre
  <1>7. a = Axes[Last] => \A b \in Axis \ {a} : dir[b] = Hour(label)
    <2>1. ASSUME axis = Last, NEW k \in 1 .. Last, k # axis PROVE dir[Axes[k]] = Hour(label)
      BY <1>0, <1>4, <2>1 DEF DirsOK
    <2> QED BY <1>6, <2>1, AxesAre
  <1>8. a = Axes[Last] <=> axis = Last
    BY <1>6
  <1>9. faults' = faults
    BY <1>0
  <1> HIDE DEF a
  <1>10. Abstract!Begin(a)
    BY <1>1, <1>3, <1>4, <1>5, <1>7, <1>8, <1>9
       DEF Abstract!Begin, Abstract!None, Abstract!HourOf, Record, NoDir, Hour
  <1> QED BY <1>1, <1>10

(* The samples of a block are its seconds.                                 *)
LEMMA AddStep ==
    ASSUME ArchiveInv, WriteData, faults' = 0
    PROVE  \E a \in Axis : Abstract!Add(a)
  <1> DEFINE a == Axes[axis]
  <1>0. StateTypes /\ DirsOK /\ DiskOK /\ faults' = faults
    BY Unfailing DEF ArchiveInv, Next
  <1>1. dir[a] \in Hours /\ a \in Axis /\ dir[a] # NoDir
    BY <1>0, Written DEF DirsOK, WriteData
  <1>2. PICK f : Labels(f) = Append(Labels(disk[dir[a]][a]), label) /\ Puts(dir[a], a, f)
    BY <1>0, Written
  <1>3. Record' = [Record EXCEPT ![dir[a]][a] = Append(Record[dir[a]][a], label)]
    <2>1. Record' = [Record EXCEPT ![dir[a]][a] = Labels(f)]
      BY <1>0, <1>1, <1>2, OneRecord
    <2>2. Labels(disk[dir[a]][a]) = Record[dir[a]][a]
      BY <1>1 DEF Record
    <2> HIDE DEF a
    <2> QED BY <1>2, <2>1, <2>2
  <1>4. UNCHANGED <<label, dir, uploads, again>>
    BY DEF WriteData, memory, told
  <1> HIDE DEF a
  <1>5. Record' = [Record EXCEPT ![dir[a]][a] = Append(@, label)]
    BY <1>1, <1>3 DEF Record
  <1>6. Abstract!Add(a)
    BY <1>0, <1>1, <1>4, <1>5 DEF Abstract!Add, Abstract!None, Record, NoDir
  <1> QED BY <1>1, <1>6

(* Headers are no part of the record.                                      *)
LEMMA HeaderStep ==
    ASSUME ArchiveInv, WriteHeader, faults' = 0
    PROVE  Record' = Record /\ faults' = faults
  <1> DEFINE a == Axes[axis]
  <1>0. StateTypes /\ DirsOK /\ DiskOK /\ faults' = faults
    BY Unfailing DEF ArchiveInv, Next
  <1>1. dir[a] \in Hours /\ a \in Axis
    BY <1>0, Headed
  <1>2. PICK f : Labels(f) = Labels(disk[dir[a]][a]) /\ Puts(dir[a], a, f)
    BY <1>0, Headed
  <1>3. Record' = [Record EXCEPT ![dir[a]][a] = Record[dir[a]][a]]
    BY <1>0, <1>1, <1>2, OneRecord, RecordIs
  <1> HIDE DEF a
  <1>4. Record = [h \in Hours |-> [b \in Axis |-> Record[h][b]]]
    BY DEF Record
  <1>5. [Record EXCEPT ![dir[a]][a] = Record[dir[a]][a]] = Record
    BY <1>1, <1>4
  <1> QED BY <1>0, <1>3, <1>5

LEMMA ArchiveStep == ArchiveInv /\ [Next]_vars => [Abstract!Next]_(Abstract!rvars)
  <1> SUFFICES ASSUME ArchiveInv, [Next]_vars PROVE [Abstract!Next]_(Abstract!rvars)
    OBVIOUS
  <1>1. CASE faults' # 0
    BY <1>1 DEF Abstract!Next
  <1>2. CASE faults' = 0
    <2>1. CASE FirstFile \/ HourFile
      BY <1>2, <2>1, BeginStep DEF Abstract!Next
    <2>2. CASE WriteData
      BY <1>2, <2>2, AddStep DEF Abstract!Next
    <2>3. CASE WriteHeader
      <3>1. UNCHANGED <<label, dir, Record, uploads, again, faults>>
        BY <1>2, <2>3, HeaderStep DEF WriteHeader, told
      <3> QED BY <3>1 DEF Abstract!rvars, Record
    <2>4. CASE TakeBlock
      <3>1. label' \in Nat
        BY <2>4, HourType DEF TakeBlock
      <3>2. UNCHANGED <<dir, disk, uploads, again, faults>>
        BY <2>4 DEF TakeBlock, memory, told
      <3> QED BY <3>1, <3>2 DEF Abstract!Next, Abstract!Advance
    <2>5. CASE CrashAndRestart
      <3>1. label' >= label
        BY <2>5, HourType DEF CrashAndRestart, ArchiveInv, StateTypes
      <3>2. dir' = [a \in Axis |-> NoDir] /\ UNCHANGED <<disk, uploads, again, faults>>
        BY <2>5 DEF CrashAndRestart, told
      <3> QED BY <3>1, <3>2 DEF Abstract!Next, Abstract!Restart, Abstract!None, NoDir
    <2>6. CASE SameFile \/ CountBlock \/ OutOfTime \/ UNCHANGED vars
      <3>1. UNCHANGED <<label, dir, disk, uploads, again, faults>>
        BY <2>6 DEF SameFile, CountBlock, OutOfTime, vars, memory, told
      <3> QED BY <3>1 DEF Abstract!rvars
    <2> QED BY <2>1, <2>2, <2>3, <2>4, <2>5, <2>6 DEF Next
  <1> QED BY <1>1, <1>2

(* ImplementsArchive: a reader of the labels in the files sees the record  *)
(* that Archive promises, whatever the crashes.                            *)
THEOREM SacArchiveImplementsArchive == Spec => ImplementsArchive
  <1>1. Init => Abstract!Init
    BY HourType, AxesAre
       DEF Init, Abstract!Init, Abstract!None, NoDir, Labels, Blocks, HasHeader, NoFile
  <1>2. ArchiveInv /\ [Next]_vars => ArchiveInv'
    BY NextArchiveInv
  <1>3. ArchiveInv /\ [Next]_vars => [Abstract!Next]_(Abstract!rvars)
    BY ArchiveStep
  <1> QED BY <1>1, <1>2, <1>3, InitArchiveInv, PTL DEF Spec, ImplementsArchive, Abstract!Safety

(* UploadedIsFinal: what is announced is complete.                         *)
THEOREM AnnouncedHoursAreFinal == Spec => UploadedIsFinal
  <1>1. ArchiveInv /\ [Next]_vars => ArchiveInv'
    BY NextArchiveInv
  <1>2. ASSUME ArchiveInv, [Next]_vars, faults' = 0, NEW h \in uploads \ again'
        PROVE  Record'[h] = Record[h]
    <2>1. h \in Hours /\ StateTypes /\ DirsOK /\ DiskOK
      BY <1>2 DEF ArchiveInv, StateTypes
    <2>2. ASSUME NEW g \in Hours, NEW a \in Axis, NEW f, Puts(g, a, f), g # h
          PROVE  Record'[h] = Record[h]
      BY <2>1, <2>2, OneFile DEF Record
    <2>3. CASE FirstFile \/ HourFile
      <3>0. again' = IF Hour(label) \in uploads' THEN again \cup {Hour(label)} ELSE again
        BY <2>3 DEF FirstFile, HourFile, Begun
      <3>1. Hour(label) # h /\ Hour(label) \in Hours /\ Axes[axis] \in Axis
        <4>1. h \in uploads'
          BY <2>3 DEF FirstFile, HourFile
        <4> QED BY <1>2, <2>1, <2>3, <3>0, <4>1, Created
      <3>2. PICK f : Puts(Hour(label), Axes[axis], f)
        BY <1>2, <2>1, <2>3, Created
      <3> QED BY <2>2, <3>1, <3>2
    <2>4. CASE WriteHeader \/ WriteData
      <3>1. dir[Axes[axis]] \in Hours /\ Axes[axis] \in Axis /\ dir[Axes[axis]] # NoDir
        BY <1>2, <2>1, <2>4, Headed, Written, AxesAre DEF DirsOK, WriteHeader, WriteData, StateTypes
      <3>2. PICK f : Puts(dir[Axes[axis]], Axes[axis], f)
        BY <1>2, <2>1, <2>4, Headed, Written
      <3>3. dir[Axes[axis]] # h
        BY <1>2, <2>4, <3>1 DEF ArchiveInv, AnnouncedAreLeft, WriteHeader, WriteData, told
      <3> QED BY <2>2, <3>1, <3>2, <3>3
    <2>5. CASE TakeBlock \/ SameFile \/ CountBlock \/ CrashAndRestart \/ OutOfTime \/ UNCHANGED vars
      BY <2>5 DEF TakeBlock, SameFile, CountBlock, CrashAndRestart, OutOfTime, vars, Record
    <2> QED BY <1>2, <2>3, <2>4, <2>5 DEF Next
  <1>3. ArchiveInv /\ [Next]_vars => [Abstract!KeepsAnnounced]_(Abstract!rvars)
    BY <1>2 DEF Abstract!KeepsAnnounced, Record
  <1> QED BY <1>1, <1>3, InitArchiveInv, PTL
          DEF Spec, UploadedIsFinal, Abstract!AnnouncedIsFinal

-----------------------------------------------------------------------------
(* Labels that advance.  The hour that begins is later than all before it. *)
Advancing == LabelSteps \subseteq Nat \ {0}

OnceInv ==
    /\ again = {}
    /\ \A h \in uploads : h < Hour(label)
    /\ \A a \in Axis : dir[a] <= Hour(label)
    /\ step = "create" /\ NewHour => dir[Axes[axis]] < Hour(label)

LEMMA NextLabel ==
    ASSUME Advancing, StateTypes, TakeBlock
    PROVE  /\ Hour(label) \in Nat /\ Hour(label') \in Nat
           /\ Hour(label) <= Hour(label')
           /\ label' % HourSeconds = 0 => Hour(label) < Hour(label')
  <1>1. label \in Nat /\ label' \in Nat
    BY HourType DEF StateTypes, TakeBlock
  <1>2. label < label'
    BY <1>1 DEF TakeBlock, Advancing
  <1> QED BY <1>1, <1>2, HourOrder, HourParts

LEMMA StepOnceInv ==
    ASSUME Advancing
    PROVE  StateTypes /\ DirsOK /\ OnceInv /\ [Next]_vars => OnceInv'
  <1> SUFFICES ASSUME StateTypes, DirsOK, OnceInv, [Next]_vars PROVE OnceInv'
    OBVIOUS
  <1>0. /\ Hour(label) \in Nat /\ Last = 3 /\ axis \in {1, 2, 3} /\ 1 .. Last = {1, 2, 3}
        /\ \A h \in Hours : h \in Int
        /\ \A a \in Axis : dir[a] \in Int
    BY HourType, AxesAre DEF StateTypes, Hours, NoDir
  <1>1. \A h \in uploads : h \in Int
    BY <1>0 DEF StateTypes
  <1>2. CASE TakeBlock
    <2>1. step' = "create" /\ UNCHANGED <<dir, uploads, again>>
      BY <1>2 DEF TakeBlock, memory, told
    <2>2. /\ Hour(label') \in Nat /\ Hour(label) <= Hour(label')
          /\ NewHour' => Hour(label) < Hour(label')
      BY <1>2, NextLabel DEF NewHour
    <2>3. Axes[axis'] \in Axis
      BY <1>2, AxesAre DEF TakeBlock
    <2> QED BY <1>0, <1>1, <2>1, <2>2, <2>3 DEF OnceInv
  <1>3. CASE FirstFile \/ HourFile
    <2> DEFINE a == Axes[axis]
    <2>1. /\ step = "create" /\ label' = label
          /\ dir' = [dir EXCEPT ![a] = Hour(label)]
          /\ NextAxis("sample")
          /\ uploads' = uploads \/ (NewHour /\ uploads' = uploads \cup {dir[a]})
          /\ again' = IF Hour(label) \in uploads' THEN again \cup {Hour(label)} ELSE again
      BY <1>3 DEF FirstFile, HourFile, NewFile, Begun
    <2>2. a \in Axis /\ \A b \in Axis : dir'[b] = IF b = a THEN Hour(label) ELSE dir[b]
      BY <2>1, AxesAre DEF StateTypes
    <2>3. \A h \in uploads' : h < Hour(label)
      BY <2>1 DEF OnceInv
    <2>4. again' = {}
      BY <1>0, <2>1, <2>3 DEF OnceInv
    <2>5. \A b \in Axis : dir'[b] <= Hour(label)
      BY <1>0, <2>2 DEF OnceInv
    <2>6. ASSUME step' = "create", NewHour' PROVE dir'[Axes[axis']] < Hour(label')
      <3>1. axis' = axis + 1 /\ axis + 1 \in 1 .. Last
        BY <1>0, <2>1, <2>6 DEF NextAxis
      <3>2. dir[Axes[axis + 1]] = dir[a] /\ Axes[axis + 1] # a /\ Axes[axis + 1] \in Axis
        BY <1>0, <2>1, <3>1, AxesAre DEF DirsOK
      <3>3. NewHour
        BY <2>1, <2>6 DEF NewHour
      <3> QED BY <2>1, <2>2, <3>1, <3>2, <3>3 DEF OnceInv
    <2> QED BY <2>1, <2>3, <2>4, <2>5, <2>6 DEF OnceInv
  <1>4. CASE SameFile
    <2>1. ~NewHour' /\ UNCHANGED <<label, dir, uploads, again>>
      BY <1>4 DEF SameFile, NewHour, memory, told
    <2> QED BY <2>1 DEF OnceInv
  <1>5. CASE CountBlock \/ WriteHeader \/ WriteData
    <2>1. step' # "create" /\ UNCHANGED <<label, dir, uploads, again>>
      BY <1>5 DEF CountBlock, WriteHeader, WriteData, memory, told
    <2> QED BY <2>1 DEF OnceInv
  <1>6. CASE CrashAndRestart
    <2>1. /\ step' = "idle" /\ UNCHANGED <<uploads, again>>
          /\ \A a \in Axis : dir'[a] = NoDir
      BY <1>6 DEF CrashAndRestart, told
    <2>2. Hour(label') \in Nat /\ Hour(label) <= Hour(label')
      <3>1. label \in Nat /\ label' \in Nat /\ label <= label'
        BY <1>6, HourType DEF CrashAndRestart, StateTypes
      <3> QED BY <3>1, HourOrder, HourParts
    <2> QED BY <1>0, <1>1, <2>1, <2>2 DEF OnceInv, NoDir
  <1>7. CASE OutOfTime \/ UNCHANGED vars
    <2>1. UNCHANGED <<step, axis, label, dir, uploads, again>>
      BY <1>7 DEF OutOfTime, vars, memory, told
    <2> QED BY <2>1 DEF OnceInv, NewHour
  <1> QED BY <1>2, <1>3, <1>4, <1>5, <1>6, <1>7 DEF Next

(* If the labels advance no announced hour begins again: then what is      *)
(* announced is final outright, over restarts, too.                        *)
THEOREM AdvancingLabelsBeginOnce ==
    ASSUME Advancing
    PROVE  Spec => [](again = {})
  <1>1. Init => OnceInv
    <2> SUFFICES ASSUME Init PROVE OnceInv
      OBVIOUS
    <2>1. Hour(label) = 0 /\ \A a \in Axis : dir[a] = NoDir
      BY DEF Init
    <2> QED BY <2>1 DEF Init, OnceInv, NoDir
  <1>2. ArchiveInv /\ [Next]_vars => ArchiveInv'
    BY NextArchiveInv
  <1>3. ArchiveInv /\ OnceInv /\ [Next]_vars => OnceInv'
    BY StepOnceInv DEF ArchiveInv
  <1>4. OnceInv => again = {}
    BY DEF OnceInv
  <1> QED BY <1>1, <1>2, <1>3, <1>4, InitArchiveInv, PTL DEF Spec

-----------------------------------------------------------------------------
(* Headers and samples.  What holds of every file, whoever wrote it and    *)
(* however the program ended:                                              *)
WellHeaded(f) ==
    /\ HasHeader(f) =>
         /\ f.content[1].npts - Len(Blocks(f)) \in {0, 1}
         /\ Blocks(f) # <<>> => f.content[1].start \in SacDate[Labels(f)[1]]
    /\ \A i \in 1 .. Len(Blocks(f)) : Blocks(f)[i] = Block(Labels(f)[i])

(* A file between two blocks: it holds what its header says.  A file whose *)
(* header is a block ahead.                                                *)
Counts(f, n) == HasHeader(f) /\ f.content[1].npts = n /\ f.content[1].start = start

Holds(f, X) ==
    /\ Labels(f) = X
    /\ IF X = <<>> THEN f.content = <<>> ELSE Counts(f, Len(X))

Announces(f, X) == Labels(f) = X /\ Counts(f, Len(X) + 1)

(* X is what each of the current files held before the block at hand: the  *)
(* axes before axis have it, or have begun a new file, the others not yet. *)
Current(k) == disk[dir[Axes[k]]][Axes[k]]

(* The block at hand is the last one, or follows it.                       *)
Follows(X) == IF step = "idle" THEN X[Len(X)] = label
              ELSE label - X[Len(X)] \in LabelSteps

BlockInv(X) ==
    /\ X # <<>> => start \in SacDate[X[1]]
    /\ X # <<>> => Follows(X)
    /\ step \in {"sample", "header", "data"} /\ X = <<>> => start \in SacDate[label]
    /\ step = "idle" /\ dir[Axes[1]] # NoDir =>
         /\ npts = Len(X) /\ X # <<>>
         /\ \A k \in 1 .. Last : Holds(Current(k), X)
    /\ step = "create" =>
         IF Begins THEN /\ X = <<>>
                        /\ axis > 1 => npts = 0 /\ start \in SacDate[label]
                        /\ \A k \in 1 .. Last : k < axis => Holds(Current(k), X)
         ELSE /\ npts = Len(X) /\ X # <<>>
              /\ \A k \in 1 .. Last : Holds(Current(k), X)
    /\ step = "sample" =>
         /\ axis = 1 /\ npts = Len(X)
         /\ \A k \in 1 .. Last : Holds(Current(k), X)
    /\ step \in {"header", "data"} =>
         /\ npts = Len(X) + 1
         /\ \A k \in 1 .. Last :
              IF k < axis THEN Holds(Current(k), Append(X, label))
              ELSE IF k = axis /\ step = "data" THEN Announces(Current(k), X)
              ELSE Holds(Current(k), X)

HeadInv ==
    faults = 0 =>
        /\ \A h \in Hours, a \in Axis : WellHeaded(disk[h][a])
        /\ \E X \in Seq(Int) : BlockInv(X)

LEMMA LabelsAre ==
    ASSUME NEW f \in FileType
    PROVE  /\ Len(Labels(f)) = Len(Blocks(f)) /\ Len(Blocks(f)) \in Nat
           /\ Blocks(f) \in Seq(Elements)
           /\ \A i \in 1 .. Len(Blocks(f)) : Labels(f)[i] = Blocks(f)[i].label
           /\ Labels(f) = <<>> <=> Blocks(f) = <<>>
  <1>1. Blocks(f) \in Seq(Elements)
    BY DEF Blocks, HasHeader, FileType
  <1>2. Len(Blocks(f)) \in Nat
    BY <1>1
  <1>3. Len(Labels(f)) = Len(Blocks(f))
    BY <1>2 DEF Labels
  <1>4. Labels(f) = <<>> <=> Len(Blocks(f)) = 0
    BY <1>2 DEF Labels
  <1>5. Blocks(f) = <<>> <=> Len(Blocks(f)) = 0
    BY <1>1
  <1> QED BY <1>1, <1>2, <1>3, <1>4, <1>5 DEF Labels

(* The current files of the other axes stay as they are.                   *)
LEMMA OthersStay ==
    ASSUME StateTypes, NEW h \in Hours, NEW f, Puts(h, Axes[axis], f),
           NEW k \in 1 .. Last, k # axis,
           dir'[Axes[k]] = dir[Axes[k]], dir[Axes[k]] \in Hours
    PROVE  Current(k)' = Current(k)
  <1>1. Axes[k] \in Axis /\ Axes[axis] \in Axis /\ Axes[k] # Axes[axis]
    BY AxesAre DEF StateTypes
  <1>2. disk'[dir[Axes[k]]][Axes[k]] = disk[dir[Axes[k]]][Axes[k]]
    BY <1>1, OneFile
  <1> QED BY <1>2 DEF Current

(* One file is written, and well.                                          *)
LEMMA OneWellHeaded ==
    ASSUME StateTypes, NEW h \in Hours, NEW a \in Axis, NEW f, Puts(h, a, f),
           WellHeaded(f), \A g \in Hours, b \in Axis : WellHeaded(disk[g][b])
    PROVE  \A g \in Hours, b \in Axis : WellHeaded(disk'[g][b])
  BY OneFile

LEMMA InitHeadInv == Init => HeadInv
  <1> SUFFICES ASSUME Init PROVE HeadInv
    OBVIOUS
  <1>1. WellHeaded(NoFile)
    BY DEF NoFile, WellHeaded, HasHeader, Blocks
  <1>2. BlockInv(<<>>)
    BY AxesAre DEF Init, BlockInv
  <1>3. <<>> \in Seq(Int)
    OBVIOUS
  <1> QED BY <1>1, <1>2, <1>3 DEF Init, HeadInv

LEMMA BeginHeads ==
    ASSUME ArchiveInv, ArchiveInv', HeadInv, FirstFile \/ HourFile, faults' = 0
    PROVE  HeadInv'
  <1> DEFINE a == Axes[axis]
  <1>0. /\ StateTypes /\ DirsOK /\ faults = 0
        /\ Last = 3 /\ axis \in {1, 2, 3} /\ 1 .. Last = {1, 2, 3}
        /\ Hour(label) \in Hours /\ a \in Axis
    BY Unfailing, AxesAre, Created DEF ArchiveInv, Next, StateTypes
  <1>1. /\ step = "create" /\ Begins /\ label' = label
        /\ npts' = 0 /\ start' \in SacDate[label]
        /\ dir' = [dir EXCEPT ![a] = Hour(label)]
        /\ NextAxis("sample")
    BY DEF FirstFile, HourFile, NewFile, Begins
  <1>2. PICK X \in Seq(Int) : BlockInv(X)
    BY <1>0 DEF HeadInv
  <1>3. /\ X = <<>>
        /\ axis > 1 => start \in SacDate[label]
        /\ \A k \in 1 .. Last : k < axis => Holds(Current(k), <<>>)
    BY <1>1, <1>2 DEF BlockInv
  <1>4. PICK f : f \in FileType /\ f.content = <<>> /\ Labels(f) = <<>> /\ Puts(Hour(label), a, f)
    BY <1>0, Created
  <1>5. WellHeaded(f)
    BY <1>4 DEF WellHeaded, HasHeader, Blocks
  <1>6. \A g \in Hours, b \in Axis : WellHeaded(disk'[g][b])
    BY <1>0, <1>4, <1>5, OneWellHeaded DEF HeadInv
  <1>7. ASSUME NEW k \in 1 .. Last, k = axis PROVE Holds(Current(k), <<>>)'
    <2>1. dir'[a] = Hour(label) /\ disk'[Hour(label)][a] = f
      BY <1>0, <1>1, <1>4, OneFile DEF StateTypes
    <2>2. disk'[dir'[Axes[k]]][Axes[k]] = f
      BY <1>7, <2>1
    <2> QED BY <1>4, <2>2 DEF Holds, Current
  <1>8. ASSUME NEW k \in 1 .. Last, k < axis PROVE Holds(Current(k), <<>>)'
    <2>1. dir[Axes[k]] = Hour(label)
      BY <1>0, <1>1, <1>8 DEF DirsOK
    <2>2. dir'[Axes[k]] = dir[Axes[k]] /\ k # axis
      BY <1>0, <1>1, <1>8, AxesAre DEF StateTypes
    <2>3. Current(k)' = Current(k)
      BY <1>0, <1>4, <2>1, <2>2, OthersStay
    <2>4. Holds(Current(k), <<>>)
      BY <1>3, <1>8
    <2> QED BY <2>3, <2>4 DEF Holds
  <1>9. <<>> \in Seq(Int)
    OBVIOUS
  <1> HIDE DEF a
  <1>10. CASE axis < Last
    <2>1. step' = "create" /\ axis' = axis + 1 /\ axis' > 1
      BY <1>0, <1>1, <1>10 DEF NextAxis
    <2>2. Begins'
      <3>1. dir'[Axes[axis + 1]] = dir[Axes[axis + 1]] /\ dir[Axes[axis + 1]] = dir[Axes[axis]]
        BY <1>0, <1>1, <1>10, AxesAre DEF StateTypes, DirsOK, a
      <3> QED BY <1>1, <2>1, <3>1 DEF Begins, NewHour
    <2>3. \A k \in 1 .. Last : k < axis' => Holds(Current(k), <<>>)'
      BY <1>0, <1>7, <1>8, <2>1
    <2>4. BlockInv(<<>>)'
      BY <1>1, <2>1, <2>2, <2>3 DEF BlockInv
    <2> QED BY <1>6, <1>9, <2>4 DEF HeadInv
  <1>11. CASE axis = Last
    <2>1. step' = "sample" /\ axis' = 1
      BY <1>0, <1>1, <1>11 DEF NextAxis
    <2>2. \A k \in 1 .. Last : Holds(Current(k), <<>>)'
      BY <1>0, <1>7, <1>8, <1>11
    <2>3. BlockInv(<<>>)'
      BY <1>1, <2>1, <2>2 DEF BlockInv
    <2> QED BY <1>6, <1>9, <2>3 DEF HeadInv
  <1> QED BY <1>0, <1>10, <1>11

LEMMA StillHolds ==
    ASSUME NEW k \in 1 .. Last, NEW X, Current(k)' = Current(k), start' = start,
           Holds(Current(k), X)
    PROVE  Holds(Current(k), X)'
  BY DEF Holds, Counts

LEMMA HeaderHeads ==
    ASSUME ArchiveInv, HeadInv, WriteHeader, faults' = 0
    PROVE  HeadInv'
  <1> DEFINE a == Axes[axis]
  <1>0. /\ StateTypes /\ DirsOK /\ DiskOK /\ faults = 0
        /\ Last = 3 /\ axis \in {1, 2, 3} /\ 1 .. Last = {1, 2, 3}
        /\ dir[a] \in Hours /\ a \in Axis
    BY Unfailing, AxesAre, Headed DEF ArchiveInv, Next, StateTypes
  <1>1. /\ step = "header" /\ step' = "data"
        /\ UNCHANGED <<axis, label, dir, npts, start>>
    BY DEF WriteHeader
  <1>2. PICK X \in Seq(Int) : BlockInv(X)
    BY <1>0 DEF HeadInv
  <1>3. /\ X # <<>> => start \in SacDate[X[1]] /\ Follows(X)
        /\ X = <<>> => start \in SacDate[label]
        /\ npts = Len(X) + 1
        /\ \A k \in 1 .. Last : k < axis => Holds(Current(k), Append(X, label))
        /\ \A k \in 1 .. Last : k >= axis => Holds(Current(k), X)
    BY <1>0, <1>1, <1>2 DEF BlockInv
  <1>4. PICK f : /\ f \in FileType /\ HasHeader(f)
                 /\ f.content[1] = Header(npts, start, depmax', depmin')
                 /\ Blocks(f) = Blocks(disk[dir[a]][a])
                 /\ Labels(f) = Labels(disk[dir[a]][a])
                 /\ Puts(dir[a], a, f)
    BY <1>0, Headed
  <1>5. Labels(f) = X /\ f.content[1].npts = Len(X) + 1 /\ f.content[1].start = start
    <2>1. Labels(disk[dir[a]][a]) = X
      BY <1>0, <1>3 DEF Holds, Current
    <2> QED BY <1>3, <1>4, <2>1 DEF Header
  <1>6. WellHeaded(f)
    <2>1. Len(Blocks(f)) = Len(X) /\ Len(X) \in Nat /\ (Blocks(f) # <<>> => X # <<>>)
      BY <1>4, <1>5, LabelsAre
    <2>2. \A i \in 1 .. Len(Blocks(f)) : Blocks(f)[i] = Block(Labels(f)[i])
      <3>1. WellHeaded(disk[dir[a]][a])
        BY <1>0 DEF HeadInv
      <3> HIDE DEF a
      <3> QED BY <1>4, <3>1 DEF WellHeaded
    <2> QED BY <1>3, <1>5, <2>1, <2>2 DEF WellHeaded
  <1>7. \A g \in Hours, b \in Axis : WellHeaded(disk'[g][b])
    BY <1>0, <1>4, <1>6, OneWellHeaded DEF HeadInv
  <1>8. ASSUME NEW k \in 1 .. Last, k = axis PROVE Announces(Current(k), X)'
    <2>1. disk'[dir[a]][a] = f
      BY <1>0, <1>4, OneFile
    <2>2. disk'[dir'[Axes[k]]][Axes[k]] = f
      BY <1>1, <1>8, <2>1
    <2> QED BY <1>1, <1>4, <1>5, <2>2 DEF Announces, Counts, Current
  <1>9. ASSUME NEW k \in 1 .. Last, k # axis PROVE Current(k)' = Current(k)
    <2>1. dir[Axes[k]] \in Hours /\ dir'[Axes[k]] = dir[Axes[k]]
      BY <1>0, <1>1, AxesAre DEF DirsOK, StateTypes
    <2> QED BY <1>0, <1>4, <1>9, <2>1, OthersStay
  <1>10. ASSUME NEW k \in 1 .. Last, k < axis PROVE Holds(Current(k), Append(X, label))'
    BY <1>1, <1>3, <1>9, <1>10, <1>0, StillHolds
  <1>11. ASSUME NEW k \in 1 .. Last, k > axis PROVE Holds(Current(k), X)'
    BY <1>1, <1>3, <1>9, <1>11, <1>0, StillHolds
  <1> HIDE DEF a
  <1>12. X # <<>> => Follows(X)'
    BY <1>1, <1>3 DEF Follows
  <1>13. BlockInv(X)'
    BY <1>0, <1>1, <1>3, <1>8, <1>10, <1>11, <1>12 DEF BlockInv
  <1> QED BY <1>7, <1>13 DEF HeadInv

LEMMA DataHeads ==
    ASSUME ArchiveInv, HeadInv, WriteData, faults' = 0
    PROVE  HeadInv'
  <1> DEFINE a == Axes[axis]
  <1>0. /\ StateTypes /\ DirsOK /\ DiskOK /\ faults = 0
        /\ Last = 3 /\ axis \in {1, 2, 3} /\ 1 .. Last = {1, 2, 3}
        /\ dir[a] \in Hours /\ a \in Axis /\ label \in Int
    BY Unfailing, AxesAre, Written, HourType DEF ArchiveInv, Next, StateTypes
  <1>1. /\ step = "data"
        /\ IF axis < Last THEN step' = "header" /\ axis' = axis + 1
                          ELSE step' = "idle" /\ axis' = 1
        /\ UNCHANGED <<label, dir, npts, start>>
    BY DEF WriteData, memory
  <1>2. PICK X \in Seq(Int) : BlockInv(X)
    BY <1>0 DEF HeadInv
  <1>3. /\ X # <<>> => start \in SacDate[X[1]] /\ Follows(X)
        /\ X = <<>> => start \in SacDate[label]
        /\ npts = Len(X) + 1
        /\ \A k \in 1 .. Last : k < axis => Holds(Current(k), Append(X, label))
        /\ \A k \in 1 .. Last : k = axis => Announces(Current(k), X)
        /\ \A k \in 1 .. Last : k > axis => Holds(Current(k), X)
    BY <1>0, <1>1, <1>2 DEF BlockInv
  <1>4. PICK f : /\ f \in FileType /\ HasHeader(f)
                 /\ f.content[1] = disk[dir[a]][a].content[1]
                 /\ Blocks(f) = Append(Blocks(disk[dir[a]][a]), Block(label))
                 /\ Labels(f) = Append(Labels(disk[dir[a]][a]), label)
                 /\ Puts(dir[a], a, f)
    BY <1>0, Written
  <1>5. PICK Y \in Seq(Int) : Y = Append(X, label)
    <2>1. label \in Int
      BY <1>0
    <2>2. Append(X, label) \in Seq(Int)
      BY <2>1
    <2> QED BY <2>2
  <1>6. Y # <<>> /\ Len(Y) = Len(X) + 1 /\ start \in SacDate[Y[1]] /\ Y[Len(Y)] = label
    <2>1. Y # <<>> /\ Len(Y) = Len(X) + 1 /\ Y[Len(Y)] = label
      BY <1>0, <1>5
    <2>2. CASE X = <<>>
      BY <1>0, <1>3, <1>5, <2>2
    <2>3. CASE X # <<>>
      BY <1>0, <1>3, <1>5, <2>3
    <2> QED BY <2>1, <2>2, <2>3
  <1>7. Labels(f) = Y /\ f.content[1].npts = Len(Y) /\ f.content[1].start = start
    <2>1. /\ Labels(disk[dir[a]][a]) = X
          /\ disk[dir[a]][a].content[1].npts = Len(X) + 1
          /\ disk[dir[a]][a].content[1].start = start
      BY <1>0, <1>3 DEF Announces, Counts, Current
    <2> HIDE DEF a
    <2> QED BY <1>4, <1>5, <1>6, <2>1
  <1>8. WellHeaded(f)
    <2> DEFINE old == disk[dir[a]][a]
    <2>1. Len(Blocks(f)) = Len(Y) /\ Len(Y) \in Nat
      BY <1>4, <1>7, LabelsAre
    <2>2. /\ old \in FileType /\ WellHeaded(old)
      BY <1>0 DEF HeadInv, StateTypes
    <2> HIDE DEF old
    <2>3. /\ \A i \in 1 .. Len(Blocks(old)) : Blocks(old)[i] = Block(Labels(old)[i])
          /\ Len(Labels(old)) = Len(Blocks(old)) /\ Len(Blocks(old)) \in Nat
          /\ Blocks(old) \in Seq(Elements) /\ Block(label) \in Elements
      BY <1>0, <2>2, LabelsAre, ElementKinds DEF WellHeaded
    <2>4. Labels(old) = [i \in 1 .. Len(Blocks(old)) |-> Labels(old)[i]]
      BY DEF Labels
    <2>5. Blocks(f) = Append(Blocks(old), Block(label)) /\ Labels(f) = Append(Labels(old), label)
      BY <1>4 DEF old
    <2>6. ASSUME NEW i \in 1 .. Len(Blocks(f)) PROVE Blocks(f)[i] = Block(Labels(f)[i])
      <3>1. Len(Blocks(f)) = Len(Blocks(old)) + 1
        BY <2>3, <2>5
      <3>2. CASE i = Len(Blocks(old)) + 1
        BY <2>3, <2>4, <2>5, <3>2
      <3>3. CASE i \in 1 .. Len(Blocks(old))
        <4>1. Blocks(f)[i] = Blocks(old)[i]
          BY <2>3, <2>5, <3>3
        <4>2. Labels(f)[i] = Labels(old)[i]
          BY <2>3, <2>4, <2>5, <3>3
        <4> QED BY <2>3, <3>3, <4>1, <4>2
      <3> QED BY <2>3, <3>1, <3>2, <3>3
    <2> QED BY <1>6, <1>7, <2>1, <2>6 DEF WellHeaded
  <1>9. \A g \in Hours, b \in Axis : WellHeaded(disk'[g][b])
    BY <1>0, <1>4, <1>8, OneWellHeaded DEF HeadInv
  <1>10. ASSUME NEW k \in 1 .. Last, k = axis PROVE Holds(Current(k), Y)'
    <2>1. disk'[dir[a]][a] = f
      BY <1>0, <1>4, OneFile
    <2>2. disk'[dir'[Axes[k]]][Axes[k]] = f
      BY <1>1, <1>10, <2>1
    <2> QED BY <1>1, <1>4, <1>6, <1>7, <2>2 DEF Holds, Counts, Current
  <1>11. ASSUME NEW k \in 1 .. Last, k # axis PROVE Current(k)' = Current(k)
    <2>1. dir[Axes[k]] \in Hours /\ dir'[Axes[k]] = dir[Axes[k]]
      BY <1>0, <1>1, AxesAre DEF DirsOK, StateTypes
    <2> QED BY <1>0, <1>4, <1>11, <2>1, OthersStay
  <1>12. ASSUME NEW k \in 1 .. Last, k < axis PROVE Holds(Current(k), Y)'
    BY <1>0, <1>1, <1>3, <1>5, <1>11, <1>12, StillHolds
  <1>13. ASSUME NEW k \in 1 .. Last, k > axis PROVE Holds(Current(k), X)'
    BY <1>0, <1>1, <1>3, <1>11, <1>13, StillHolds
  <1> HIDE DEF a
  <1>14. CASE axis < Last
    <2>1. step' = "header" /\ axis' = axis + 1 /\ Append(X, label') = Y
      BY <1>1, <1>5, <1>14
    <2>2. \A k \in 1 .. Last : IF k < axis' THEN Holds(Current(k), Y)' ELSE Holds(Current(k), X)'
      BY <1>0, <1>10, <1>12, <1>13, <2>1
    <2>3. \A k \in 1 .. Last :
             IF k < axis' THEN Holds(Current(k), Append(X, label))'
             ELSE IF k = axis' /\ step' = "data" THEN Announces(Current(k), X)'
             ELSE Holds(Current(k), X)'
      BY <2>1, <2>2 DEF Holds
    <2>4. X # <<>> => Follows(X)'
      BY <1>1, <1>3, <2>1 DEF Follows
    <2>5. BlockInv(X)'
      BY <1>1, <1>3, <2>1, <2>3, <2>4 DEF BlockInv
    <2> QED BY <1>9, <2>5 DEF HeadInv
  <1>15. CASE axis = Last
    <2>1. step' = "idle" /\ axis' = 1
      BY <1>0, <1>1, <1>15
    <2>2. \A k \in 1 .. Last : Holds(Current(k), Y)'
      BY <1>0, <1>10, <1>12, <1>15
    <2>3. BlockInv(Y)'
      BY <1>1, <1>3, <1>6, <2>1, <2>2 DEF BlockInv, Follows
    <2> QED BY <1>5, <1>9, <2>3 DEF HeadInv
  <1> QED BY <1>0, <1>14, <1>15

(* Steps that write nothing.                                               *)
LEMMA SameHolds ==
    ASSUME UNCHANGED <<dir, disk, start>>, NEW X, NEW k \in 1 .. Last
    PROVE  Holds(Current(k), X)' <=> Holds(Current(k), X)
  BY DEF Holds, Counts, Current

LEMMA OtherHeads ==
    ASSUME ArchiveInv, HeadInv, faults' = 0,
           TakeBlock \/ SameFile \/ CountBlock \/ CrashAndRestart
    PROVE  HeadInv'
  <1>0. /\ StateTypes /\ DirsOK /\ faults = 0 /\ disk' = disk
        /\ Last = 3 /\ axis \in {1, 2, 3} /\ 1 .. Last = {1, 2, 3}
    BY AxesAre DEF ArchiveInv, StateTypes, TakeBlock, SameFile, CountBlock, CrashAndRestart, memory
  <1>1. PICK X \in Seq(Int) : BlockInv(X)
    BY <1>0 DEF HeadInv
  <1>2. \A g \in Hours, b \in Axis : WellHeaded(disk'[g][b])
    BY <1>0 DEF HeadInv
  <1>3. <<>> \in Seq(Int) /\ Len(X) \in Nat /\ (X # <<>> => Len(X) # 0)
    OBVIOUS
  <1> SUFFICES \E Y \in Seq(Int) : BlockInv(Y)'
    BY <1>2 DEF HeadInv
  <1>4. CASE TakeBlock
    <2>1. /\ step = "idle" /\ step' = "create" /\ axis' = 1
          /\ UNCHANGED <<dir, disk, npts, start>>
      BY <1>4 DEF TakeBlock, memory
    <2>2. CASE Begins'
      <3>1. BlockInv(<<>>)'
        BY <1>0, <2>1, <2>2 DEF BlockInv
      <3> QED BY <1>3, <3>1
    <2>3. CASE ~Begins'
      <3>1. dir[Axes[1]] # NoDir
        BY <2>1, <2>3 DEF Begins
      <3>2. /\ npts = Len(X) /\ X # <<>> /\ start \in SacDate[X[1]] /\ Follows(X)
            /\ \A k \in 1 .. Last : Holds(Current(k), X)
        BY <1>1, <2>1, <3>1 DEF BlockInv
      <3>3. \A k \in 1 .. Last : Holds(Current(k), X)'
        BY <2>1, <3>2, SameHolds
      <3>4. Follows(X)'
        <4>1. PICK d \in LabelSteps : label' = label + d
          BY <1>4 DEF TakeBlock
        <4>2. label \in Int /\ d \in Int
          BY <1>0, SacArchiveAssumption DEF StateTypes
        <4>3. label' - label = d /\ X[Len(X)] = label
          BY <2>1, <3>2, <4>1, <4>2 DEF Follows
        <4> QED BY <2>1, <4>3 DEF Follows
      <3>5. BlockInv(X)'
        BY <2>1, <2>3, <3>2, <3>3, <3>4 DEF BlockInv
      <3> QED BY <3>5
    <2> QED BY <2>2, <2>3
  <1>5. CASE SameFile
    <2>1. /\ step = "create" /\ ~Begins /\ NextAxis("sample")
          /\ UNCHANGED <<label, dir, disk, npts, start>>
      BY <1>5 DEF SameFile, Begins, memory
    <2>2. /\ npts = Len(X) /\ X # <<>> /\ start \in SacDate[X[1]] /\ Follows(X)
          /\ \A k \in 1 .. Last : Holds(Current(k), X)
      BY <1>1, <2>1 DEF BlockInv
    <2>3. \A k \in 1 .. Last : Holds(Current(k), X)'
      BY <2>1, <2>2, SameHolds
    <2>4. CASE axis < Last
      <3>1. step' = "create" /\ axis' = axis + 1
        BY <2>1, <2>4 DEF NextAxis
      <3>2. dir'[Axes[axis']] = dir[Axes[axis]]
        BY <1>0, <2>1, <2>4, <3>1 DEF DirsOK
      <3>3. ~Begins'
        BY <2>1, <3>2 DEF Begins, NewHour
      <3>4. BlockInv(X)'
        BY <2>1, <2>2, <2>3, <3>1, <3>3 DEF BlockInv, Follows
      <3> QED BY <3>4
    <2>5. CASE axis = Last
      <3>1. step' = "sample" /\ axis' = 1
        BY <1>0, <2>1, <2>5 DEF NextAxis
      <3>2. BlockInv(X)'
        BY <2>1, <2>2, <2>3, <3>1 DEF BlockInv, Follows
      <3> QED BY <3>2
    <2> QED BY <1>0, <2>4, <2>5
  <1>6. CASE CountBlock
    <2>1. /\ step = "sample" /\ step' = "header" /\ npts' = npts + 1
          /\ UNCHANGED <<axis, label, dir, disk, start>>
      BY <1>6 DEF CountBlock
    <2>2. /\ axis = 1 /\ npts = Len(X) /\ (X # <<>> => start \in SacDate[X[1]] /\ Follows(X))
          /\ X = <<>> => start \in SacDate[label]
          /\ \A k \in 1 .. Last : Holds(Current(k), X)
      BY <1>1, <2>1 DEF BlockInv
    <2>3. \A k \in 1 .. Last : Holds(Current(k), X)' /\ ~(k < axis')
      BY <1>0, <2>1, <2>2, SameHolds
    <2>4. BlockInv(X)'
      BY <2>1, <2>2, <2>3 DEF BlockInv, Follows
    <2> QED BY <2>4
  <1>7. CASE CrashAndRestart
    <2>1. step' = "idle" /\ dir'[Axes[1]] = NoDir
      BY <1>7, AxesAre DEF CrashAndRestart
    <2>2. BlockInv(<<>>)'
      BY <2>1 DEF BlockInv
    <2> QED BY <1>3, <2>2
  <1> QED BY <1>4, <1>5, <1>6, <1>7

LEMMA StepHeadInv ==
    ArchiveInv /\ ArchiveInv' /\ HeadInv /\ [Next]_vars => HeadInv'
  <1> SUFFICES ASSUME ArchiveInv, ArchiveInv', HeadInv, [Next]_vars, faults' = 0 PROVE HeadInv'
    BY DEF HeadInv
  <1>1. CASE OutOfTime \/ UNCHANGED vars
    <2>1. UNCHANGED vars
      BY <1>1 DEF OutOfTime
    <2>2. \A h \in Hours, a \in Axis : WellHeaded(disk'[h][a])
      BY <2>1 DEF vars, HeadInv
    <2>3. PICK X \in Seq(Int) : BlockInv(X)
      BY <2>1 DEF vars, HeadInv
    <2>4. BlockInv(X)'
      BY <2>1, <2>3 DEF vars, memory, BlockInv, Follows, Holds, Announces, Counts, Current, Begins, NewHour
    <2> QED BY <2>2, <2>4 DEF HeadInv
  <1> QED BY <1>1, BeginHeads, HeaderHeads, DataHeads, OtherHeads DEF Next

LEMMA AlwaysHeadInv == Spec => [](ArchiveInv /\ HeadInv)
  <1>1. ArchiveInv /\ [Next]_vars => ArchiveInv'
    BY NextArchiveInv
  <1> QED BY <1>1, InitArchiveInv, InitHeadInv, StepHeadInv, PTL DEF Spec

(* HeaderAtMostOneAhead: a crash between the two writes of a block leaves  *)
(* a header that promises one block too many, and never more.              *)
THEOREM HeadersLeadByOne == Spec => []HeaderAtMostOneAhead
  <1>1. ArchiveInv /\ HeadInv => HeaderAtMostOneAhead
    BY DEF ArchiveInv, DiskOK, InOrder, HeadInv, WellHeaded, HeaderAtMostOneAhead, Files
  <1> QED BY <1>1, AlwaysHeadInv, PTL

(* HeaderDatesFirstBlock: the header's date was made from the label of the *)
(* first block in the file, of no later one.                               *)
THEOREM HeadersDateFirstBlock == Spec => []HeaderDatesFirstBlock
  <1>1. ASSUME ArchiveInv, HeadInv, faults = 0, NEW f \in Files, HasHeader(f), Blocks(f) # <<>>
        PROVE  f.content[1].start \in SacDate[Blocks(f)[1].label]
    <2>1. f \in FileType /\ WellHeaded(f)
      BY <1>1 DEF ArchiveInv, StateTypes, HeadInv, Files
    <2>2. 1 \in 1 .. Len(Blocks(f))
      BY <1>1, <2>1, LabelsAre
    <2> QED BY <1>1, <2>1, <2>2, LabelsAre DEF WellHeaded
  <1>2. ArchiveInv /\ HeadInv => HeaderDatesFirstBlock
    BY <1>1 DEF HeaderDatesFirstBlock
  <1> QED BY <1>2, AlwaysHeadInv, PTL

(* AxesAgree: between two blocks the files of the three axes hold the same *)
(* seconds under headers that count the same.                              *)
THEOREM AxesStayTogether == Spec => []AxesAgree
  <1>1. ASSUME ArchiveInv, HeadInv, step = "idle", NEW a \in Axis, NEW b \in Axis
        PROVE  /\ dir[a] = dir[b]
               /\ dir[a] # NoDir /\ faults = 0 =>
                    LET f == disk[dir[a]][a]
                        g == disk[dir[b]][b]
                    IN  /\ Blocks(f) = Blocks(g)
                        /\ HasHeader(f) => /\ f.content[1].npts = g.content[1].npts
                                           /\ f.content[1].start = g.content[1].start
    <2>1. dir[a] = dir[b] /\ dir[a] = dir[Axes[1]] /\ dir[a] \in Hours \cup {NoDir}
      BY <1>1, AxesAre DEF ArchiveInv, DirsOK, StateTypes
    <2>2. ASSUME dir[a] # NoDir, faults = 0
          PROVE  /\ Blocks(disk[dir[a]][a]) = Blocks(disk[dir[b]][b])
                 /\ disk[dir[a]][a].content[1].npts = disk[dir[b]][b].content[1].npts
                 /\ disk[dir[a]][a].content[1].start = disk[dir[b]][b].content[1].start
      <3> DEFINE f == disk[dir[a]][a]
                 g == disk[dir[b]][b]
      <3>1. PICK X \in Seq(Int) : BlockInv(X)
        BY <1>1, <2>2 DEF HeadInv
      <3>2. X # <<>> /\ \A k \in 1 .. Last : Holds(Current(k), X)
        BY <1>1, <2>1, <2>2, <3>1 DEF BlockInv
      <3>3. Holds(f, X) /\ Holds(g, X)
        BY <3>2, AxesAre DEF Current
      <3>4. f \in FileType /\ g \in FileType /\ WellHeaded(f) /\ WellHeaded(g)
        BY <1>1, <2>1, <2>2 DEF ArchiveInv, StateTypes, HeadInv
      <3> HIDE DEF f, g
      <3>5. ASSUME NEW e \in FileType, WellHeaded(e), Holds(e, X)
            PROVE  /\ Blocks(e) = [i \in 1 .. Len(X) |-> Block(X[i])]
                   /\ e.content[1].npts = Len(X) /\ e.content[1].start = start
        <4>1. Labels(e) = X /\ Len(Blocks(e)) = Len(X) /\ Blocks(e) \in Seq(Elements)
          BY <3>5, LabelsAre DEF Holds
        <4>2. \A i \in 1 .. Len(X) : Blocks(e)[i] = Block(X[i])
          BY <3>5, <4>1 DEF WellHeaded
        <4>3. Blocks(e) = [i \in 1 .. Len(X) |-> Blocks(e)[i]]
          BY <4>1
        <4>4. Blocks(e) = [i \in 1 .. Len(X) |-> Block(X[i])]
          BY <4>2, <4>3
        <4> QED BY <3>2, <3>5, <4>4 DEF Holds, Counts
      <3> QED BY <3>3, <3>4, <3>5 DEF f, g
    <2> QED BY <2>1, <2>2
  <1>2. ArchiveInv /\ HeadInv => AxesAgree
    BY <1>1 DEF AxesAgree
  <1> QED BY <1>2, AlwaysHeadInv, PTL

-----------------------------------------------------------------------------
(* Announcements.  As long as the program has not ended, an hour whose     *)
(* last axis has a file is announced or is the one at hand.                *)
KnownInv ==
    /\ crashes \in Nat
    /\ crashes = 0 => \A h \in Hours : disk[h]["BHZ"].exists => h \in uploads \/ h = dir["BHZ"]

LEMMA StepKnownInv == StateTypes /\ KnownInv /\ [Next]_vars => KnownInv'
  <1> SUFFICES ASSUME StateTypes, KnownInv, [Next]_vars PROVE KnownInv'
    OBVIOUS
  <1> DEFINE a == Axes[axis]
  <1>0. a \in Axis /\ "BHZ" \in Axis /\ (a = "BHZ" <=> axis = Last)
    BY AxesAre DEF StateTypes
  <1>1. ASSUME NEW h \in Hours, FirstFile \/ HourFile, h # Hour(label) \/ a # "BHZ"
        PROVE  disk'[h]["BHZ"] = disk[h]["BHZ"]
    <2>1. Writes([disk EXCEPT ![Hour(label)][a] = CreateFile(@)])
      BY <1>1 DEF FirstFile, HourFile, NewFile
    <2> QED BY <1>0, <1>1, <2>1 DEF Writes, StateTypes
  <1>2. ASSUME NEW h \in Hours, WriteHeader \/ WriteData, h # dir[a] \/ a # "BHZ"
        PROVE  disk'[h]["BHZ"] = disk[h]["BHZ"]
    <2>1. CASE WriteHeader
      <3>1. Writes([disk EXCEPT ![dir[a]][a] =
                      UpdateHeaders(@, Header(npts, start, depmax', depmin'))])
        BY <2>1 DEF WriteHeader
      <3> QED BY <1>0, <1>2, <3>1 DEF Writes, StateTypes
    <2>2. CASE WriteData
      <3>1. Writes([disk EXCEPT ![dir[a]][a] = UpdateData(@, Block(label))])
        BY <2>2 DEF WriteData
      <3> QED BY <1>0, <1>2, <3>1 DEF Writes, StateTypes
    <2> QED BY <1>2, <2>1, <2>2
  <1>3. CASE FirstFile
    <2>1. /\ dir[a] = NoDir /\ dir' = [dir EXCEPT ![a] = Hour(label)]
          /\ UNCHANGED <<uploads, crashes>>
      BY <1>3 DEF FirstFile, NewFile
    <2>2. NoDir \notin Hours
      BY DEF NoDir, Hours
    <2>3. dir'["BHZ"] = IF a = "BHZ" THEN Hour(label) ELSE dir["BHZ"]
      BY <1>0, <2>1 DEF StateTypes
    <2> HIDE DEF a
    <2> QED BY <1>1, <1>3, <2>1, <2>2, <2>3 DEF KnownInv
  <1>4. CASE HourFile
    <2>1. /\ dir' = [dir EXCEPT ![a] = Hour(label)]
          /\ uploads' = IF axis = Last THEN uploads \cup {dir[a]} ELSE uploads
          /\ crashes' = crashes
      BY <1>4 DEF HourFile, NewFile
    <2>2. dir'["BHZ"] = IF a = "BHZ" THEN Hour(label) ELSE dir["BHZ"]
      BY <1>0, <2>1 DEF StateTypes
    <2> HIDE DEF a
    <2> QED BY <1>0, <1>1, <1>4, <2>1, <2>2 DEF KnownInv
  <1>5. CASE WriteHeader \/ WriteData
    <2>1. UNCHANGED <<dir, uploads, crashes>>
      BY <1>5 DEF WriteHeader, WriteData, memory, told
    <2> HIDE DEF a
    <2> QED BY <1>2, <1>5, <2>1 DEF KnownInv
  <1>6. CASE TakeBlock \/ SameFile \/ CountBlock
    BY <1>6 DEF TakeBlock, SameFile, CountBlock, memory, told, KnownInv
  <1>7. CASE CrashAndRestart
    BY <1>7 DEF CrashAndRestart, KnownInv
  <1>8. CASE OutOfTime \/ UNCHANGED vars
    BY <1>8 DEF OutOfTime, vars, memory, told, KnownInv
  <1> QED BY <1>3, <1>4, <1>5, <1>6, <1>7, <1>8 DEF Next

(* FullHoursAreUploaded: an hour whose files were begun is announced when  *)
(* the next one has begun, also when files fail to open.                   *)
THEOREM FullHoursAreAnnounced == Spec => []FullHoursAreUploaded
  <1>1. Init => StateTypes /\ KnownInv
    <2> SUFFICES ASSUME Init PROVE StateTypes /\ KnownInv
      OBVIOUS
    <2>1. StateTypes
      BY InitArchiveInv DEF ArchiveInv
    <2>2. "BHZ" \in Axis
      BY AxesAre
    <2>3. \A h \in Hours : disk[h]["BHZ"] = NoFile
      BY <2>2 DEF Init
    <2>4. ~NoFile.exists
      BY DEF NoFile
    <2>5. crashes \in Nat
      BY DEF Init
    <2> QED BY <2>1, <2>3, <2>4, <2>5 DEF KnownInv
  <1>2. StateTypes /\ KnownInv => FullHoursAreUploaded
    <2> SUFFICES ASSUME StateTypes, KnownInv, crashes = 0,
                        NEW h \in Hours, h < dir["BHZ"], disk[h]["BHZ"].exists
                 PROVE  h \in uploads
      BY DEF FullHoursAreUploaded
    <2>1. h # dir["BHZ"]
      BY DEF Hours
    <2> QED BY <2>1 DEF KnownInv
  <1> QED BY <1>1, <1>2, StepTypes, StepKnownInv, PTL DEF Spec

-----------------------------------------------------------------------------
(* Continuity.  A file goes on from label to label, and a label that       *)
(* begins an hour is only in the file of that hour.                        *)
Timed(h, f) ==
    /\ \A i \in 1 .. Len(Labels(f)) - 1 : Labels(f)[i + 1] - Labels(f)[i] \in LabelSteps
    /\ \A i \in 1 .. Len(Labels(f)) :
         /\ Labels(f)[i] \in 0 .. MaxTime
         /\ Labels(f)[i] % HourSeconds = 0 => Hour(Labels(f)[i]) = h

TimeInv ==
    /\ step \in {"sample", "header", "data"} /\ NewHour => \A a \in Axis : dir[a] = Hour(label)
    /\ faults = 0 => \A h \in Hours, a \in Axis : Timed(h, disk[h][a])

LEMMA InitTimeInv == Init => TimeInv
  <1>1. Labels(NoFile) = <<>>
    BY DEF Labels, NoFile, Blocks, HasHeader
  <1>2. \A h : Timed(h, NoFile)
    BY <1>1 DEF Timed
  <1> QED BY <1>2 DEF Init, TimeInv

(* A block goes on from those before it.                                   *)
LEMMA TimedNext ==
    ASSUME NEW h \in Hours, NEW f, NEW g, NEW X \in Seq(Int), NEW l \in 0 .. MaxTime,
           Timed(h, f), Labels(f) = X, Labels(g) = Append(X, l),
           X # <<>> => l - X[Len(X)] \in LabelSteps,
           l % HourSeconds = 0 => Hour(l) = h
    PROVE  Timed(h, g)
  <1>0. l \in Int
    BY HourType
  <1>1. Len(Append(X, l)) = Len(X) + 1 /\ Len(X) \in Nat
    BY <1>0
  <1>2. \A i \in 1 .. Len(X) + 1 : Append(X, l)[i] = IF i = Len(X) + 1 THEN l ELSE X[i]
    BY <1>0
  <1>3. ASSUME NEW i \in 1 .. Len(X) PROVE Append(X, l)[i + 1] - Append(X, l)[i] \in LabelSteps
    <2>1. CASE i = Len(X)
      BY <1>1, <1>2, <2>1
    <2>2. CASE i < Len(X)
      <3>1. i \in 1 .. Len(X) - 1 /\ i + 1 \in 1 .. Len(X)
        BY <1>1, <2>2
      <3>2. X[i + 1] - X[i] \in LabelSteps
        BY <3>1 DEF Timed
      <3> QED BY <1>1, <1>2, <3>1, <3>2
    <2> QED BY <1>1, <2>1, <2>2
  <1>4. ASSUME NEW i \in 1 .. Len(X) + 1
        PROVE  /\ Append(X, l)[i] \in 0 .. MaxTime
               /\ Append(X, l)[i] % HourSeconds = 0 => Hour(Append(X, l)[i]) = h
    <2>1. CASE i = Len(X) + 1
      BY <1>2, <2>1
    <2>2. CASE i \in 1 .. Len(X)
      BY <1>2, <2>2 DEF Timed
    <2> QED BY <1>1, <2>1, <2>2
  <1>5. Len(X) + 1 - 1 = Len(X)
    BY <1>1
  <1> DEFINE Y == Append(X, l)
  <1>6. Labels(g) = Y /\ Len(Y) = Len(X) + 1 /\ Len(Y) - 1 = Len(X)
    BY <1>1, <1>5
  <1>7. \A i \in 1 .. Len(X) : Y[i + 1] - Y[i] \in LabelSteps
    BY <1>3
  <1>8. \A i \in 1 .. Len(X) + 1 : Y[i] \in 0 .. MaxTime
                                   /\ (Y[i] % HourSeconds = 0 => Hour(Y[i]) = h)
    BY <1>4
  <1> HIDE DEF Y
  <1> QED BY <1>6, <1>7, <1>8 DEF Timed

LEMMA StepTimeInv ==
    ArchiveInv /\ ArchiveInv' /\ HeadInv /\ TimeInv /\ [Next]_vars => TimeInv'
  <1> SUFFICES ASSUME ArchiveInv, ArchiveInv', HeadInv, TimeInv, [Next]_vars PROVE TimeInv'
    OBVIOUS
  <1>1. step' \in {"sample", "header", "data"} /\ NewHour' => \A a \in Axis : dir'[a] = Hour(label')
    <2>1. CASE FirstFile \/ HourFile
      <3>1. CASE axis < Last
        BY <2>1, <3>1 DEF FirstFile, HourFile, NextAxis
      <3>2. CASE axis = Last
        <4>1. /\ step = "create" /\ Begins /\ label' = label
              /\ dir' = [dir EXCEPT ![Axes[axis]] = Hour(label)]
          BY <2>1 DEF FirstFile, HourFile, NewFile, Begins
        <4>2. \A k \in 1 .. Last : dir'[Axes[k]] = Hour(label)
          BY <3>2, <4>1, AxesAre, 1 .. 3 = {1, 2, 3} DEF ArchiveInv, DirsOK, StateTypes
        <4> QED BY <4>1, <4>2, AxesAre
      <3> QED BY <3>1, <3>2, AxesAre DEF ArchiveInv, StateTypes
    <2>2. CASE SameFile
      BY <2>2 DEF SameFile, NewHour, NextAxis
    <2>3. CASE CountBlock \/ WriteHeader \/ WriteData
      BY <2>3 DEF CountBlock, WriteHeader, WriteData, memory, NewHour, TimeInv
    <2>4. CASE TakeBlock \/ CrashAndRestart
      BY <2>4 DEF TakeBlock, CrashAndRestart
    <2>5. CASE OutOfTime \/ UNCHANGED vars
      BY <2>5 DEF OutOfTime, vars, memory, NewHour, TimeInv
    <2> QED BY <2>1, <2>2, <2>3, <2>4, <2>5 DEF Next
  <1>2. ASSUME faults' = 0 PROVE \A h \in Hours, a \in Axis : Timed(h, disk'[h][a])
    <2>0. StateTypes /\ DirsOK /\ DiskOK
      BY DEF ArchiveInv
    <2>1. ASSUME faults = 0, NEW g \in Hours, NEW b \in Axis, NEW f, Puts(g, b, f), Timed(g, f)
          PROVE  \A h \in Hours, a \in Axis : Timed(h, disk'[h][a])
      BY <2>0, <2>1, OneFile DEF TimeInv
    <2>2. CASE FirstFile \/ HourFile
      <3>1. PICK f : Labels(f) = <<>> /\ Puts(Hour(label), Axes[axis], f)
        BY <1>2, <2>0, <2>2, Created
      <3>2. Hour(label) \in Hours /\ Axes[axis] \in Axis /\ faults = 0
        BY <1>2, <2>0, <2>2, Created, Unfailing DEF Next
      <3>3. Timed(Hour(label), f)
        BY <3>1 DEF Timed
      <3> QED BY <2>1, <3>1, <3>2, <3>3
    <2>3. CASE WriteHeader
      <3>1. PICK f : /\ Labels(f) = Labels(disk[dir[Axes[axis]]][Axes[axis]])
                     /\ Puts(dir[Axes[axis]], Axes[axis], f)
        BY <1>2, <2>0, <2>3, Headed
      <3>2. dir[Axes[axis]] \in Hours /\ Axes[axis] \in Axis /\ faults = 0
        BY <1>2, <2>0, <2>3, Headed, Unfailing DEF Next
      <3>3. Timed(dir[Axes[axis]], disk[dir[Axes[axis]]][Axes[axis]])
        BY <3>2 DEF TimeInv
      <3>4. Timed(dir[Axes[axis]], f)
        BY <3>1, <3>3 DEF Timed
      <3> QED BY <2>1, <3>1, <3>2, <3>4
    <2>4. CASE WriteData
      <3> DEFINE d == dir[Axes[axis]]
                 old == disk[d][Axes[axis]]
      <3>1. PICK f : Labels(f) = Append(Labels(old), label) /\ Puts(d, Axes[axis], f)
        BY <1>2, <2>0, <2>4, Written
      <3>2. d \in Hours /\ Axes[axis] \in Axis /\ faults = 0 /\ step = "data"
            /\ axis \in 1 .. Last /\ label \in 0 .. MaxTime
        BY <1>2, <2>0, <2>4, Written, Unfailing DEF Next, WriteData, StateTypes
      <3>3. PICK X \in Seq(Int) : BlockInv(X)
        BY <3>2 DEF HeadInv
      <3>4. Labels(old) = X /\ (X # <<>> => label - X[Len(X)] \in LabelSteps)
        BY <3>2, <3>3, ~(axis < axis) DEF BlockInv, Announces, Current, Follows
      <3>5. Timed(d, old) /\ (label % HourSeconds = 0 => Hour(label) = d)
        BY <3>2 DEF TimeInv, NewHour
      <3> HIDE DEF d, old
      <3>6. Timed(d, f)
        BY <3>1, <3>2, <3>4, <3>5, TimedNext
      <3> QED BY <2>1, <3>1, <3>2, <3>6
    <2>5. CASE TakeBlock \/ SameFile \/ CountBlock \/ CrashAndRestart \/ OutOfTime \/ UNCHANGED vars
      <3>1. UNCHANGED <<disk, faults>>
        BY <2>5 DEF TakeBlock, SameFile, CountBlock, CrashAndRestart, OutOfTime, vars, memory
      <3> QED BY <1>2, <3>1 DEF TimeInv
    <2> QED BY <2>2, <2>3, <2>4, <2>5 DEF Next
  <1> QED BY <1>1, <1>2 DEF TimeInv

LEMMA AlwaysTimeInv == Spec => [](ArchiveInv /\ HeadInv /\ TimeInv)
  <1>1. ArchiveInv /\ [Next]_vars => ArchiveInv'
    BY NextArchiveInv
  <1> QED BY <1>1, InitArchiveInv, InitHeadInv, InitTimeInv, StepHeadInv, StepTimeInv, PTL DEF Spec

(* HourIsContinuous: a file goes on as the labels do, and holds blocks of  *)
(* another hour only if the first second of that hour is missing.          *)
THEOREM HoursAreContinuous == Spec => []HourIsContinuous
  <1>1. ASSUME ArchiveInv, TimeInv, faults = 0, NEW h \in Hours, NEW a \in Axis
        PROVE  LET b == Blocks(disk[h][a]) IN
               /\ \A i \in 1 .. Len(b) - 1 : b[i + 1].label - b[i].label \in LabelSteps
               /\ \A i \in 1 .. Len(b) :
                     \/ Hour(b[i].label) = h
                     \/ \A j \in 1 .. Len(b) : b[j].label # Hour(b[i].label) * HourSeconds
    <2> DEFINE f == disk[h][a]
    <2>1. f \in FileType /\ Timed(h, f)
      BY <1>1 DEF ArchiveInv, StateTypes, TimeInv
    <2> HIDE DEF f
    <2>2. /\ Len(Labels(f)) = Len(Blocks(f)) /\ Len(Blocks(f)) \in Nat
          /\ \A i \in 1 .. Len(Blocks(f)) : Labels(f)[i] = Blocks(f)[i].label
      BY <2>1, LabelsAre
    <2>3. ASSUME NEW i \in 1 .. Len(Blocks(f)) - 1
          PROVE  Blocks(f)[i + 1].label - Blocks(f)[i].label \in LabelSteps
      <3>1. i \in 1 .. Len(Blocks(f)) /\ i + 1 \in 1 .. Len(Blocks(f))
        BY <2>2
      <3> QED BY <2>1, <2>2, <3>1 DEF Timed
    <2>4. ASSUME NEW i \in 1 .. Len(Blocks(f)), NEW j \in 1 .. Len(Blocks(f)),
                 Blocks(f)[j].label = Hour(Blocks(f)[i].label) * HourSeconds
          PROVE  Hour(Blocks(f)[i].label) = h
      <3> DEFINE n == Hour(Blocks(f)[i].label)
      <3>1. Blocks(f)[i].label \in 0 .. MaxTime
        BY <2>1, <2>2 DEF Timed
      <3>2. n \in Nat
        BY <3>1, HourType
      <3>3. (n * HourSeconds) % HourSeconds = 0 /\ (n * HourSeconds) \div HourSeconds = n
        BY <3>2, FirstSecond
      <3>4. Labels(f)[j] % HourSeconds = 0 => Hour(Labels(f)[j]) = h
        BY <2>1, <2>2 DEF Timed
      <3>5. Labels(f)[j] = n * HourSeconds
        BY <2>2, <2>4
      <3> HIDE DEF n
      <3>6. n = h
        BY <3>3, <3>4, <3>5 DEF Hour
      <3> QED BY <3>6 DEF n
    <2> QED BY <2>3, <2>4 DEF f
  <1>2. ArchiveInv /\ TimeInv => HourIsContinuous
    BY <1>1 DEF HourIsContinuous
  <1> QED BY <1>2, AlwaysTimeInv, PTL

-----------------------------------------------------------------------------
(* Extrema.  Every header covers the samples of its file, and the record   *)
(* in memory those of the current files of all axes.                       *)
Between(x, lo, hi) == x = 0 \/ (lo <= x /\ x <= hi)
Covers(a, f, lo, hi) ==
    \A i \in 1 .. Len(Labels(f)) :
        Labels(f)[i] \in 0 .. MaxTime /\ Between(Trace[a][Labels(f)[i]], lo, hi)

HeaderCovers(a, f) == HasHeader(f) => Covers(a, f, f.content[1].min, f.content[1].max)

HeadersCover(d) == \A h \in Hours, a \in Axis : HeaderCovers(a, d[h][a])
CurrentCovered(d, hour, lo, hi) ==
    \A a \in Axis : hour[a] # NoDir => Covers(a, d[hour[a]][a], lo, hi)

CoverInv ==
    faults = 0 =>
        /\ HeadersCover(disk)
        /\ CurrentCovered(disk, dir, depmin, depmax)
        /\ step = "data" =>
             LET a == Axes[axis] IN
             /\ disk[dir[a]][a].content[1].min = depmin
             /\ disk[dir[a]][a].content[1].max = depmax
             /\ Between(Trace[a][label], depmin, depmax)

LEMMA TraceType == \A a \in Axis, t \in 0 .. MaxTime : Trace[a][t] \in Int
  BY SacArchiveAssumption, AxesAre DEF Axis, Axes, Last

(* What lay between the extrema still does, and the new value, too.        *)
LEMMA FoldWidens ==
    ASSUME depmax \in Int, depmin \in Int, NEW x \in Int, FoldExtrema(x)
    PROVE  /\ depmax' \in Int /\ depmin' \in Int
           /\ Between(x, depmin', depmax')
           /\ \A y \in Int : Between(y, depmin, depmax) => Between(y, depmin', depmax')
  BY DEF FoldExtrema, Between

(* One file is written; the others, and the other current ones, stay.      *)
LEMMA OneCovered ==
    ASSUME StateTypes, NEW h \in Hours, NEW a \in Axis, NEW f, Puts(h, a, f),
           NEW lo, NEW hi,
           HeadersCover(disk), HeaderCovers(a, f), CurrentCovered(disk, dir, lo, hi),
           Covers(a, f, lo, hi), dir' = [dir EXCEPT ![a] = h]
    PROVE  /\ HeadersCover(disk')
           /\ CurrentCovered(disk', dir', lo, hi)
           /\ dir'[a] = h /\ disk'[h][a] = f
  <1>1. /\ disk'[h][a] = f
        /\ \A g \in Hours, b \in Axis : g # h \/ b # a => disk'[g][b] = disk[g][b]
    BY OneFile
  <1>2. dir'[a] = h /\ \A b \in Axis : b # a => dir'[b] = dir[b]
    BY DEF StateTypes
  <1>3. \A b \in Axis : dir[b] # NoDir => dir[b] \in Hours
    BY DEF StateTypes
  <1>4. ASSUME NEW g \in Hours, NEW b \in Axis PROVE HeaderCovers(b, disk'[g][b])
    BY <1>1 DEF HeadersCover
  <1>5. ASSUME NEW b \in Axis, dir'[b] # NoDir PROVE Covers(b, disk'[dir'[b]][b], lo, hi)
    <2>1. CASE b = a
      BY <1>1, <1>2, <2>1
    <2>2. CASE b # a
      BY <1>1, <1>2, <1>3, <1>5, <2>2 DEF CurrentCovered
    <2> QED BY <2>1, <2>2
  <1> QED BY <1>1, <1>2, <1>4, <1>5 DEF HeadersCover, CurrentCovered

LEMMA AppendedLabel ==
    ASSUME NEW X \in Seq(Int), NEW l \in Int
    PROVE  /\ Len(Append(X, l)) = Len(X) + 1 /\ Len(X) \in Nat
           /\ \A i \in 1 .. Len(X) + 1 : Append(X, l)[i] = IF i = Len(X) + 1 THEN l ELSE X[i]
  OBVIOUS

LEMMA InitCoverInv == Init => CoverInv
  <1>1. \A a : HeaderCovers(a, NoFile)
    BY DEF HeaderCovers, HasHeader, NoFile
  <1> QED BY <1>1 DEF Init, CoverInv, HeadersCover, CurrentCovered

LEMMA StepCoverInv == ArchiveInv /\ CoverInv /\ [Next]_vars => CoverInv'
  <1> SUFFICES ASSUME ArchiveInv, CoverInv, [Next]_vars, faults' = 0 PROVE CoverInv'
    BY DEF CoverInv
  <1>0. StateTypes /\ DirsOK /\ DiskOK
    BY DEF ArchiveInv
  <1>1. CASE FirstFile \/ HourFile
    <2>1. PICK f : f.content = <<>> /\ Labels(f) = <<>> /\ Puts(Hour(label), Axes[axis], f)
      BY <1>0, <1>1, Created
    <2>2. /\ Hour(label) \in Hours /\ Axes[axis] \in Axis
          /\ dir' = [dir EXCEPT ![Axes[axis]] = Hour(label)] /\ faults = 0
      BY <1>0, <1>1, Created, Unfailing DEF Next
    <2>3. /\ HeaderCovers(Axes[axis], f)
          /\ Covers(Axes[axis], f, depmin, depmax)
      BY <2>1 DEF HeaderCovers, HasHeader, Covers
    <2>4. depmin' = depmin /\ depmax' = depmax /\ step' # "data"
      BY <1>1 DEF FirstFile, HourFile, NewFile, NextAxis
    <2>5. /\ HeadersCover(disk) /\ CurrentCovered(disk, dir, depmin, depmax)
      BY <2>2 DEF CoverInv
    <2>6. HeadersCover(disk') /\ CurrentCovered(disk', dir', depmin, depmax)
      BY <1>0, <2>1, <2>2, <2>3, <2>5, OneCovered
    <2> QED BY <2>4, <2>6 DEF CoverInv
  <1>2. CASE WriteHeader
    <2> DEFINE a == Axes[axis]
               d == dir[a]
               old == disk[d][a]
    <2>1. PICK f : /\ f.content[1] = Header(npts, start, depmax', depmin')
                   /\ Labels(f) = Labels(old) /\ Puts(d, a, f)
      BY <1>0, <1>2, Headed
    <2>2. d \in Hours /\ a \in Axis /\ faults = 0 /\ d # NoDir
      BY <1>0, <1>2, Headed, Unfailing DEF Next, Hours, NoDir
    <2>3. FoldExtrema(Trace[a][label]) /\ dir' = dir /\ axis' = axis /\ label' = label
      BY <1>2 DEF WriteHeader
    <2>4. depmax \in Int /\ depmin \in Int /\ Trace[a][label] \in Int
      BY <1>0, <2>2, TraceType DEF StateTypes
    <2>5. /\ Between(Trace[a][label], depmin', depmax')
          /\ \A y \in Int : Between(y, depmin, depmax) => Between(y, depmin', depmax')
      BY <2>3, <2>4, FoldWidens
    <2>6. \A g : \A b \in Axis : Covers(b, g, depmin, depmax) => Covers(b, g, depmin', depmax')
      BY <2>5, TraceType DEF Covers
    <2>7. /\ HeadersCover(disk) /\ CurrentCovered(disk, dir, depmin, depmax)
      BY <2>2 DEF CoverInv
    <2>8. CurrentCovered(disk, dir, depmin', depmax')
      BY <2>6, <2>7 DEF CurrentCovered
    <2>9. Covers(a, f, depmin', depmax')
      <3>1. Covers(a, old, depmin', depmax')
        BY <2>2, <2>8 DEF CurrentCovered
      <3> QED BY <2>1, <3>1 DEF Covers
    <2>10. f.content[1].min = depmin' /\ f.content[1].max = depmax'
      BY <2>1 DEF Header
    <2>11. HeaderCovers(a, f)
      BY <2>9, <2>10 DEF HeaderCovers
    <2>12. dir' = [dir EXCEPT ![a] = d]
      BY <1>0, <2>2, <2>3 DEF StateTypes
    <2> HIDE DEF a, d, old
    <2>13. HeadersCover(disk') /\ CurrentCovered(disk', dir', depmin', depmax')
           /\ dir'[a] = d /\ disk'[d][a] = f
      BY <1>0, <2>1, <2>2, <2>7, <2>8, <2>9, <2>11, <2>12, OneCovered
    <2>14. Axes[axis'] = a
      BY <2>3 DEF a
    <2> QED BY <2>3, <2>5, <2>10, <2>13, <2>14 DEF CoverInv
  <1>3. CASE WriteData
    <2> DEFINE a == Axes[axis]
               d == dir[a]
               old == disk[d][a]
    <2>1. PICK f : /\ f.content[1] = old.content[1]
                   /\ Labels(f) = Append(Labels(old), label) /\ Puts(d, a, f)
      BY <1>0, <1>3, Written
    <2>2. d \in Hours /\ a \in Axis /\ faults = 0 /\ d # NoDir
      BY <1>0, <1>3, Written, Unfailing DEF Next, Hours, NoDir
    <2>3. step = "data" /\ dir' = dir /\ depmin' = depmin /\ depmax' = depmax /\ step' # "data"
      BY <1>3 DEF WriteData, memory
    <2>4. /\ HeadersCover(disk) /\ CurrentCovered(disk, dir, depmin, depmax)
          /\ old.content[1].min = depmin /\ old.content[1].max = depmax
          /\ Between(Trace[a][label], depmin, depmax)
      BY <2>2, <2>3 DEF CoverInv
    <2>5. Covers(a, old, depmin, depmax)
      BY <2>2, <2>4 DEF CurrentCovered
    <2>6. Covers(a, f, depmin, depmax)
      <3>1. old \in FileType /\ label \in 0 .. MaxTime
        BY <1>0, <2>2 DEF StateTypes
      <3>2. Labels(old) \in Seq(Int)
        <4>1. \A i \in 1 .. Len(Labels(old)) : Labels(old)[i] \in Int
          BY <2>5 DEF Covers
        <4>2. Len(Labels(old)) = Len(Blocks(old)) /\ Len(Blocks(old)) \in Nat
          BY <3>1, LabelsAre
        <4>3. Labels(old) = [i \in 1 .. Len(Blocks(old)) |-> Labels(old)[i]]
          BY DEF Labels
        <4> QED BY <4>1, <4>2, <4>3
      <3> DEFINE X == Labels(old)
      <3>3. /\ Len(Labels(f)) = Len(X) + 1 /\ Len(X) \in Nat
            /\ \A i \in 1 .. Len(X) + 1 : Labels(f)[i] = IF i = Len(X) + 1 THEN label ELSE X[i]
        <4>1. label \in Int /\ X \in Seq(Int) /\ Labels(f) = Append(X, label)
          BY <2>1, <3>1, <3>2, HourType
        <4> HIDE DEF X
        <4> QED BY <4>1, AppendedLabel
      <3>4. \A i \in 1 .. Len(X) : X[i] \in 0 .. MaxTime /\ Between(Trace[a][X[i]], depmin, depmax)
        BY <2>5 DEF Covers
      <3> HIDE DEF X
      <3>5. ASSUME NEW i \in 1 .. Len(X) + 1
            PROVE  Labels(f)[i] \in 0 .. MaxTime /\ Between(Trace[a][Labels(f)[i]], depmin, depmax)
        <4>1. CASE i = Len(X) + 1
          BY <2>4, <3>1, <3>3, <4>1
        <4>2. CASE i \in 1 .. Len(X)
          <5>1. Labels(f)[i] = X[i]
            BY <3>3, <4>2
          <5> QED BY <3>4, <4>2, <5>1
        <4> QED BY <3>3, <4>1, <4>2
      <3> QED BY <3>3, <3>5 DEF Covers
    <2>7. HeaderCovers(a, f)
      BY <2>1, <2>4, <2>6 DEF HeaderCovers
    <2>8. dir' = [dir EXCEPT ![a] = d]
      BY <1>0, <2>2, <2>3 DEF StateTypes
    <2> HIDE DEF a, d, old
    <2>9. HeadersCover(disk') /\ CurrentCovered(disk', dir', depmin, depmax)
      <3>1. StateTypes /\ d \in Hours /\ a \in Axis /\ Puts(d, a, f)
        BY <1>0, <2>1, <2>2
      <3>2. HeadersCover(disk) /\ CurrentCovered(disk, dir, depmin, depmax)
        BY <2>4
      <3> QED BY <2>6, <2>7, <2>8, <3>1, <3>2, OneCovered
    <2> QED BY <2>3, <2>9 DEF CoverInv
  <1>4. CASE TakeBlock \/ SameFile \/ CountBlock
    BY <1>4 DEF TakeBlock, SameFile, CountBlock, NextAxis, memory, CoverInv
  <1>5. CASE CrashAndRestart
    BY <1>5 DEF CrashAndRestart, CoverInv, CurrentCovered
  <1>6. CASE OutOfTime \/ UNCHANGED vars
    BY <1>6 DEF OutOfTime, vars, memory, CoverInv
  <1> QED BY <1>1, <1>2, <1>3, <1>4, <1>5, <1>6 DEF Next

(* ExtremaCoverTrace: although one record of extrema serves all axes and   *)
(* files and is never reset, a header's extrema enclose the samples of its *)
(* file, but for zeros.                                                    *)
THEOREM ExtremaCoverSamples == Spec => []ExtremaCoverTrace
  <1>1. ASSUME ArchiveInv, CoverInv, faults = 0, NEW h \in Hours, NEW a \in Axis,
               HasHeader(disk[h][a]), NEW i \in 1 .. Len(Blocks(disk[h][a]))
        PROVE  LET f == disk[h][a]
                   x == Trace[a][Blocks(f)[i].label]
               IN  x = 0 \/ x \in f.content[1].min .. f.content[1].max
    <2> DEFINE f == disk[h][a]
               x == Trace[a][Blocks(f)[i].label]
    <2>1. f \in FileType
      BY <1>1 DEF ArchiveInv, StateTypes
    <2>2. Len(Labels(f)) = Len(Blocks(f)) /\ Labels(f)[i] = Blocks(f)[i].label
      BY <1>1, <2>1, LabelsAre
    <2>3. Covers(a, f, f.content[1].min, f.content[1].max)
      BY <1>1 DEF CoverInv, HeadersCover, HeaderCovers
    <2>4. Blocks(f)[i].label \in 0 .. MaxTime /\ Between(x, f.content[1].min, f.content[1].max)
      BY <1>1, <2>2, <2>3 DEF Covers
    <2>5. x \in Int
      BY <2>4, TraceType
    <2>6. f.content[1].min \in Int /\ f.content[1].max \in Int
      BY <1>1, <2>1 DEF HasHeader, FileType, Elements
    <2> HIDE DEF f, x
    <2>7. x = 0 \/ x \in f.content[1].min .. f.content[1].max
      BY <2>4, <2>5, <2>6 DEF Between
    <2> QED BY <2>7 DEF f, x
  <1>2. ArchiveInv /\ CoverInv => ExtremaCoverTrace
    BY <1>1 DEF ExtremaCoverTrace
  <1>3. ArchiveInv /\ [Next]_vars => ArchiveInv'
    BY NextArchiveInv
  <1> QED BY <1>2, <1>3, InitArchiveInv, InitCoverInv, StepCoverInv, PTL DEF Spec

-----------------------------------------------------------------------------
(* What stays when a call fails to open its file.  Nothing is assumed of   *)
(* the labels, nor of the files but their types: a header goes over a      *)
(* header, samples go behind, and only a file that begins is emptied.      *)
Keeps(f, g) == HasHeader(f) => Len(Blocks(g)) >= Len(Blocks(f))

LEMMA HeaderKeeps ==
    ASSUME NEW f \in FileType, NEW h \in Elements, "npts" \in DOMAIN h
    PROVE  Keeps(f, UpdateHeaders(f, h))
  <1>1. CASE ~f.exists
    <2>1. UpdateHeaders(f, h) = f
      BY <1>1 DEF UpdateHeaders
    <2>2. Len(Blocks(f)) \in Nat
      BY DEF Blocks, FileType
    <2> QED BY <2>1, <2>2 DEF Keeps
  <1>2. CASE f.exists /\ HasHeader(f)
    <2>1. Blocks(UpdateHeaders(f, h)) = Blocks(f)
      BY <1>2, HeaderOver DEF InOrder
    <2>2. Len(Blocks(f)) \in Nat
      BY <1>2 DEF Blocks, FileType, HasHeader
    <2> QED BY <2>1, <2>2 DEF Keeps
  <1> QED BY <1>1, <1>2 DEF Keeps

LEMMA DataKeeps ==
    ASSUME NEW f \in FileType, NEW l \in Int
    PROVE  Keeps(f, UpdateData(f, Block(l)))
  <1> SUFFICES ASSUME HasHeader(f)
               PROVE  Len(Blocks(UpdateData(f, Block(l)))) >= Len(Blocks(f))
    BY DEF Keeps
  <1>1. Blocks(UpdateData(f, Block(l))) = Append(Blocks(f), Block(l))
    BY BlockBehind
  <1>2. Blocks(f) \in Seq(Elements) /\ Block(l) \in Elements
    BY ElementKinds DEF Blocks, FileType, HasHeader
  <1> QED BY <1>1, <1>2

(* A call that may fail changes the file of one hour and axis, or none.    *)
LEMMA WritesOne ==
    ASSUME StateTypes, NEW g, NEW b, NEW f, disk' = disk \/ Puts(g, b, f),
           NEW h \in Hours, NEW a \in Axis
    PROVE  disk'[h][a] = disk[h][a] \/ (h = g /\ a = b /\ disk'[h][a] = f)
  <1>1. CASE Puts(g, b, f)
    <2>1. disk'[h] = IF h = g THEN [disk[h] EXCEPT ![b] = f] ELSE disk[h]
      BY <1>1 DEF StateTypes, Puts
    <2>2. disk[h] \in [Axis -> FileType]
      BY DEF StateTypes
    <2> QED BY <2>1, <2>2
  <1>2. CASE disk' = disk
    BY <1>2
  <1> QED BY <1>1, <1>2

(* HeaderKeepsBlocks: samples under a header stay, whatever fails, unless  *)
(* their hour begins or the program has been started anew.                 *)
THEOREM HeadersKeepBlocks == Spec => HeaderKeepsBlocks
  <1> DEFINE Excused(h, a) == h = Hour(label) /\ (dir[a] = NoDir \/ NewHour)
             Kept == \A h \in Hours, a \in Axis :
                        Keeps(disk[h][a], disk'[h][a]) \/ Excused(h, a)
  <1>1. StateTypes /\ [Next]_vars => Kept
    <2> SUFFICES ASSUME StateTypes, [Next]_vars, NEW h \in Hours, NEW a \in Axis
                 PROVE  Keeps(disk[h][a], disk'[h][a]) \/ Excused(h, a)
      OBVIOUS
    <2>1. /\ disk[h][a] \in FileType /\ label \in Int
          /\ Axes[axis] \in Axis
      BY HourType, AxesAre DEF StateTypes
    <2>2. ASSUME disk'[h][a] = disk[h][a] PROVE Keeps(disk[h][a], disk'[h][a])
      <3>1. Len(Blocks(disk[h][a])) \in Nat
        BY <2>1 DEF Blocks, FileType, HasHeader
      <3> QED BY <2>2, <3>1 DEF Keeps
    <2>3. CASE FirstFile \/ HourFile
      <3> DEFINE b == Axes[axis]
                 f == CreateFile(disk[Hour(label)][b])
      <3>1. disk' = disk \/ Puts(Hour(label), b, f)
        BY <2>3 DEF FirstFile, HourFile, NewFile, Writes, Puts
      <3>2. disk'[h][a] = disk[h][a] \/ (h = Hour(label) /\ a = b)
        <4> HIDE DEF f
        <4> QED BY <3>1, WritesOne
      <3>3. dir[b] = NoDir \/ NewHour
        BY <2>3 DEF FirstFile, HourFile
      <3> QED BY <2>2, <3>2, <3>3
    <2>4. CASE WriteHeader
      <3> DEFINE b == Axes[axis]
                 e == Header(npts, start, depmax', depmin')
                 f == UpdateHeaders(disk[dir[b]][b], e)
      <3>1. disk' = disk \/ Puts(dir[b], b, f)
        BY <2>4 DEF WriteHeader, Writes, Puts
      <3>2. e \in Elements /\ "npts" \in DOMAIN e
        <4>1. StateTypes'
          BY StepTypes
        <4> QED BY <4>1, ElementKinds DEF StateTypes
      <3>3. disk'[h][a] = disk[h][a] \/ (h = dir[b] /\ a = b /\ disk'[h][a] = f)
        <4> HIDE DEF f
        <4> QED BY <3>1, WritesOne
      <3>4. Keeps(disk[h][a], UpdateHeaders(disk[h][a], e))
        <4> HIDE DEF e
        <4> QED BY <2>1, <3>2, HeaderKeeps
      <3> HIDE DEF e
      <3> QED BY <2>2, <3>3, <3>4
    <2>5. CASE WriteData
      <3> DEFINE b == Axes[axis]
                 f == UpdateData(disk[dir[b]][b], Block(label))
      <3>1. disk' = disk \/ Puts(dir[b], b, f)
        BY <2>5 DEF WriteData, Writes, Puts
      <3>2. disk'[h][a] = disk[h][a] \/ (h = dir[b] /\ a = b /\ disk'[h][a] = f)
        <4> HIDE DEF f
        <4> QED BY <3>1, WritesOne
      <3>3. Keeps(disk[h][a], UpdateData(disk[h][a], Block(label)))
        BY <2>1, DataKeeps
      <3> QED BY <2>2, <3>2, <3>3
    <2>6. CASE TakeBlock \/ SameFile \/ CountBlock \/ CrashAndRestart \/ OutOfTime
               \/ UNCHANGED vars
      <3>1. disk' = disk
        BY <2>6 DEF TakeBlock, SameFile, CountBlock, CrashAndRestart, OutOfTime, vars
      <3> QED BY <2>2, <3>1
    <2> QED BY <2>3, <2>4, <2>5, <2>6 DEF Next
  <1>2. StateTypes /\ [Next]_vars =>
          [ \A h \in Hours, a \in Axis :
              HasHeader(disk[h][a]) =>
                \/ Len(Blocks(disk'[h][a])) >= Len(Blocks(disk[h][a]))
                \/ h = Hour(label) /\ (dir[a] = NoDir \/ NewHour) ]_vars
    BY <1>1 DEF Keeps
  <1>3. Init => StateTypes
    BY InitArchiveInv DEF ArchiveInv
  <1> QED BY <1>2, <1>3, StepTypes, PTL DEF Spec, HeaderKeepsBlocks

=============================================================================
