----------------------------- MODULE SacArchive -----------------------------
(***************************************************************************)
(* The hourly files of the continuous record: createDirRtc and writeSac of *)
(* SensorIoT.c as readAnalogInputsAndSaveData calls them for the three      *)
(* axes, one block a second.  The files stay on the disk when the program  *)
(* ends; the directory names and strDepValues do not.                      *)
(***************************************************************************)
EXTENDS SacFile, Integers

CONSTANTS
    HourSeconds,    \* seconds of an hour
    LabelSteps,     \* how far one block's label is from the previous one
    SacDate,        \* the dates that getSacFormatDate may make of each label
    Trace,          \* the samples: the value of each axis's block of each label
    MaxTime,        \* bound: the last label
    MaxNpts,        \* bound: blocks of one file
    MaxJumps,       \* bound: labels that are not one second after the last
    MaxCrashes,     \* bound: how often the program ends and is started again
    MaxFaults       \* bound: how often a call fails to open its file

ASSUME SacArchiveAssumption ==
    /\ HourSeconds \in Nat \ {0}
    /\ LabelSteps \subseteq Int
    /\ SacDate \in [0 .. MaxTime -> SUBSET Int \ {{}}]
    /\ Trace \in [{"BH2", "BH1", "BHZ"} -> [0 .. MaxTime -> Int]]
    /\ MaxTime \in Nat
    /\ MaxNpts \in Nat
    /\ MaxJumps \in Nat
    /\ MaxCrashes \in Nat
    /\ MaxFaults \in Nat

Axes == <<"BH2", "BH1", "BHZ">>     \* X, Y and Z, in the order they are handled
Last == Len(Axes)
Axis == {Axes[k] : k \in 1 .. Last}

Hour(t) == t \div HourSeconds
Hours == 0 .. Hour(MaxTime)
NoDir == -1

(***************************************************************************)
(* label is the time of the block at hand, in seconds since some hour      *)
(* began; dir[a] is the hour that currentDirectory names.  A block's work  *)
(* is cut at the calls that change a file: step says which one is next and *)
(* axis for which axis.  npts counts blocks.  again is a history variable. *)
(***************************************************************************)
VARIABLES
    step, axis, label,
    dir, npts, start,   \* currentDirectoryX/Y/Z, strDepValues.npts, strFullDate
    depmax, depmin,     \* strDepValues: the extrema, of all axes and files
    disk,               \* the file of every hour and axis
    uploads,            \* the hours that UPLOAD_FILES has announced
    again,              \* those whose files were created again afterwards
    jumps, crashes, faults      \* how often, so far

memory == <<dir, npts, start, depmax, depmin>>
told == <<uploads, again>>
vars == <<step, axis, label, memory, disk, told, jumps, crashes, faults>>

Init ==
    /\ step = "idle"
    /\ axis = 1
    /\ label \in {t \in 0 .. MaxTime : Hour(t) = 0}
    /\ dir = [a \in Axis |-> NoDir]
    /\ npts = 0
    /\ start = 0
    /\ depmax = 0 /\ depmin = 0
    /\ disk = [h \in Hours |-> [a \in Axis |-> NoFile]]
    /\ uploads = {}
    /\ again = {}
    /\ jumps = 0
    /\ crashes = 0
    /\ faults = 0

-----------------------------------------------------------------------------
(* The next block has its label and readAnalogInputsAndSaveData begins.    *)
TakeBlock ==
    /\ step = "idle"
    /\ npts < MaxNpts
    /\ \E d \in LabelSteps :
         /\ label + d \in 0 .. MaxTime
         /\ label' = label + d
         /\ jumps' = IF d = 1 THEN jumps ELSE jumps + 1
    /\ jumps' <= MaxJumps
    /\ step' = "create"
    /\ axis' = 1
    /\ UNCHANGED <<memory, disk, told, crashes, faults>>

(* After the last axis the next part of the work begins.                   *)
NextAxis(then) ==
    IF axis < Last THEN step' = step /\ axis' = axis + 1
    ELSE step' = then /\ axis' = 1

(* A file is opened and written, or opening it fails and the program goes  *)
(* on as if it had not.                                                    *)
Writes(written) ==
    \/ disk' = written /\ UNCHANGED faults
    \/ faults < MaxFaults /\ faults' = faults + 1 /\ UNCHANGED disk

(* Mutants: the counter, the start time are not set anew.                  *)
NewFile_KeepsCount(a) ==
    /\ dir' = [dir EXCEPT ![a] = Hour(label)]
    /\ start' \in SacDate[label]
    /\ Writes([disk EXCEPT ![Hour(label)][a] = CreateFile(@)])
    /\ UNCHANGED <<npts, depmax, depmin>>
NewFile_KeepsStart(a) ==
    /\ dir' = [dir EXCEPT ![a] = Hour(label)]
    /\ npts' = 0
    /\ Writes([disk EXCEPT ![Hour(label)][a] = CreateFile(@)])
    /\ UNCHANGED <<start, depmax, depmin>>

(* The file of this axis is about to be named and created: the counters    *)
(* that the axes share start again, but not the extrema.  What             *)
(* getSacFormatDate makes of the label is a choice: it counts the days of  *)
(* no leap year, and converts arrays that end in whatever follows them.    *)
NewFile(a) ==
    /\ dir' = [dir EXCEPT ![a] = Hour(label)]
    /\ npts' = 0
    /\ start' \in SacDate[label]
    /\ Writes([disk EXCEPT ![Hour(label)][a] = CreateFile(@)])
    /\ UNCHANGED <<depmax, depmin>>

(* An hour that has been announced begins again.                            *)
Begun == again' = IF Hour(label) \in uploads' THEN again \cup {Hour(label)} ELSE again

(* createDirRtc, the branches: the first block since the program started,  *)
(* a block labelled with the first second of an hour, any other block.     *)
FirstFile ==
    LET a == Axes[axis] IN
    /\ step = "create"
    /\ dir[a] = NoDir
    /\ NewFile(a)
    /\ NextAxis("sample")
    /\ UNCHANGED <<label, uploads, jumps, crashes>>
    /\ Begun

(* Mutant: the hour begins a second late.                                   *)
NewHour_Late == label % HourSeconds = 1

NewHour == label % HourSeconds = 0

(* Mutants: the new name is announced; only the last axis changes files.   *)
HourFile_NewDir ==
    LET a == Axes[axis] IN
    /\ step = "create"
    /\ dir[a] # NoDir
    /\ NewHour
    /\ NewFile(a)
    /\ uploads' = IF axis = Last THEN uploads \cup {dir'[a]} ELSE uploads
    /\ Begun
    /\ NextAxis("sample")
    /\ UNCHANGED <<label, jumps, crashes>>
HourFile_OnlyLast ==
    LET a == Axes[axis] IN
    /\ step = "create"
    /\ dir[a] # NoDir
    /\ NewHour
    /\ IF axis = Last THEN NewFile(a) ELSE UNCHANGED <<memory, disk, faults>>
    /\ NextAxis("sample")
    /\ UNCHANGED <<label, told, jumps, crashes>>

HourFile ==
    LET a == Axes[axis] IN
    /\ step = "create"
    /\ dir[a] # NoDir
    /\ NewHour
    /\ uploads' = IF axis = Last THEN uploads \cup {dir[a]} ELSE uploads
    /\ Begun
    /\ NewFile(a)
    /\ NextAxis("sample")
    /\ UNCHANGED <<label, jumps, crashes>>

SameFile ==
    /\ step = "create"
    /\ dir[Axes[axis]] # NoDir
    /\ ~NewHour
    /\ NextAxis("sample")
    /\ UNCHANGED <<label, memory, disk, told, jumps, crashes, faults>>

(* The block has been sampled; it counts before it is written.             *)
CountBlock ==
    /\ step = "sample"
    /\ npts' = npts + 1
    /\ step' = "header"
    /\ UNCHANGED <<axis, label, dir, start, depmax, depmin, disk, told, jumps, crashes, faults>>

(* Mutant: a new maximum replaces the minimum, too.                        *)
FoldExtrema_OnlyUp(x) ==
    IF depmax = 0 /\ depmin = 0 THEN depmax' = x /\ depmin' = 0
    ELSE /\ depmax' = IF x > depmax THEN x ELSE depmax
         /\ depmin' = IF x > depmax THEN x ELSE depmin

(* scmxmn: two zeros stand for extrema that have no value yet.             *)
FoldExtrema(x) ==
    IF depmax = 0 /\ depmin = 0 THEN depmax' = x /\ depmin' = x
    ELSE /\ depmax' = IF x > depmax THEN x ELSE depmax
         /\ depmin' = IF x < depmin THEN x ELSE depmin

(* writeSac, first half: the header of all blocks so far and this one.     *)
WriteHeader ==
    LET a == Axes[axis] IN
    /\ step = "header"
    /\ FoldExtrema(Trace[a][label])
    /\ Writes([disk EXCEPT ![dir[a]][a] =
                 UpdateHeaders(@, Header(npts, start, depmax', depmin'))])
    /\ step' = "data"
    /\ UNCHANGED <<axis, label, dir, npts, start, told, jumps, crashes>>

(* writeSac, second half: the samples of this block.                       *)
WriteData ==
    LET a == Axes[axis] IN
    /\ step = "data"
    /\ Writes([disk EXCEPT ![dir[a]][a] = UpdateData(@, Block(label))])
    /\ IF axis < Last THEN step' = "header" /\ axis' = axis + 1
                      ELSE step' = "idle" /\ axis' = 1
    /\ UNCHANGED <<label, memory, told, jumps, crashes>>

(* The program ends, wherever it is, and is started again some time later: *)
(* what it knew is gone.                                                   *)
CrashAndRestart ==
    /\ crashes < MaxCrashes
    /\ crashes' = crashes + 1
    /\ step' = "idle"
    /\ axis' = 1
    /\ label' \in label .. MaxTime
    /\ dir' = [a \in Axis |-> NoDir]
    /\ npts' = 0
    /\ start' = 0
    /\ depmax' = 0 /\ depmin' = 0
    /\ UNCHANGED <<disk, told, jumps, faults>>

(* The bounds: no block is left to take.                                   *)
OutOfTime ==
    /\ step = "idle"
    /\ \/ npts >= MaxNpts
       \/ \A d \in LabelSteps :
             label + d \notin 0 .. MaxTime \/ (d # 1 /\ jumps = MaxJumps)
    /\ UNCHANGED vars

Next ==
    \/ TakeBlock
    \/ FirstFile
    \/ HourFile
    \/ SameFile
    \/ CountBlock
    \/ WriteHeader
    \/ WriteData
    \/ CrashAndRestart
    \/ OutOfTime

Spec == Init /\ [][Next]_vars

-----------------------------------------------------------------------------
Files == {disk[h][a] : h \in Hours, a \in Axis}

TypeOK ==
    /\ step \in {"idle", "create", "sample", "header", "data"}
    /\ axis \in 1 .. Last
    /\ label \in 0 .. MaxTime
    /\ dir \in [Axis -> Hours \cup {NoDir}]
    /\ npts \in Nat
    /\ start \in Int
    /\ uploads \subseteq Hours /\ again \subseteq uploads
    /\ jumps \in 0 .. MaxJumps
    /\ crashes \in 0 .. MaxCrashes
    /\ faults \in 0 .. MaxFaults
    /\ \A f \in Files : f.exists \/ f.content = <<>>

(* Writing the header before the samples, a file promises at most the      *)
(* block that is being written, and no samples lie beyond what its header  *)
(* promises: this is what a crash between the two may leave behind.        *)
HeaderAtMostOneAhead ==
    faults = 0 =>
        \A f \in Files :
            f.content # <<>> =>
                /\ HasHeader(f)
                /\ f.content[1].npts - Len(Blocks(f)) \in {0, 1}

(* The header's date was made from the label of the first block in the     *)
(* file, however often the header has been written since.  (Whether the    *)
(* conversion gives that second's date is not said: it may not.)            *)
HeaderDatesFirstBlock ==
    faults = 0 =>
        \A f \in Files :
            HasHeader(f) /\ Blocks(f) # <<>> =>
                f.content[1].start \in SacDate[Blocks(f)[1].label]

(* strDepValues and strFullDate are shared by the axes: between two blocks *)
(* the axes write to the same hour, and their current files hold blocks of *)
(* the same seconds under headers that count the same.                     *)
AxesAgree ==
    step = "idle" =>
        \A a, b \in Axis :
            /\ dir[a] = dir[b]
            /\ dir[a] # NoDir /\ faults = 0 =>
                 LET f == disk[dir[a]][a]
                     g == disk[dir[b]][b]
                 IN  /\ Blocks(f) = Blocks(g)
                     /\ HasHeader(f) => /\ f.content[1].npts = g.content[1].npts
                                        /\ f.content[1].start = g.content[1].start

(* When a call fails to open its file, samples that were written under a   *)
(* header still stay: only a file without one has its first block written  *)
(* over, by the header of a later second.                                  *)
HeaderKeepsBlocks ==
    [][ \A h \in Hours, a \in Axis :
          HasHeader(disk[h][a]) =>
            \/ Len(Blocks(disk'[h][a])) >= Len(Blocks(disk[h][a]))
            \/ h = Hour(label) /\ (dir[a] = NoDir \/ NewHour) ]_vars

(* The files are the record that Archive promises: each block is added to  *)
(* the file of the hour the axes are in, only the hour at hand is emptied, *)
(* and an hour is announced when the axes have left it, or when its first  *)
(* second has come twice (createDirRtc does not ask whether the file is    *)
(* another one).                                                            *)
Labels(f) == [i \in 1 .. Len(Blocks(f)) |-> Blocks(f)[i].label]

Abstract == INSTANCE Archive WITH
    AxisNames <- Axis,
    LastAxis <- Axes[Last],
    Length <- HourSeconds,
    now <- label,
    current <- dir,
    record <- [h \in Hours |-> [a \in Axis |-> Labels(disk[h][a])]],
    announced <- uploads,
    again <- again,
    damaged <- faults # 0

ImplementsArchive == Abstract!Safety

(* What is announced is complete: nothing is written to an announced hour  *)
(* afterwards, unless its first second comes again or the program is       *)
(* started in it again.                                                     *)
UploadedIsFinal == Abstract!AnnouncedIsFinal

(* A file goes on from block to block as the labels do; it holds blocks of *)
(* another hour only when that hour's first second is missing from it.     *)
HourIsContinuous ==
    faults = 0 =>
        \A h \in Hours, a \in Axis :
            LET b == Blocks(disk[h][a]) IN
            /\ \A i \in 1 .. Len(b) - 1 : b[i + 1].label - b[i].label \in LabelSteps
            /\ \A i \in 1 .. Len(b) :
                  \/ Hour(b[i].label) = h
                  \/ \A j \in 1 .. Len(b) : b[j].label # Hour(b[i].label) * HourSeconds

(* An hour's files are announced once the next file has begun, if the      *)
(* program did not end in between.                                         *)
FullHoursAreUploaded ==
    step = "idle" /\ crashes = 0 =>
        \A h \in Hours : h < dir["BHZ"] /\ disk[h]["BHZ"].exists => h \in uploads

(* One record of extrema serves three axes and all files, and is never     *)
(* reset: a header's extrema may be another trace's, but those of its own  *)
(* trace lie between them.  Only blocks of nothing but zeros may be left   *)
(* out, because two zeros are taken for no extrema.                        *)
ExtremaCoverTrace ==
    faults = 0 =>
        \A h \in Hours, a \in Axis :
            LET f == disk[h][a] IN
            HasHeader(f) =>
                \A i \in 1 .. Len(Blocks(f)) :
                    LET x == Trace[a][Blocks(f)[i].label] IN
                    x = 0 \/ x \in f.content[1].min .. f.content[1].max

(* What createDirRtc says when it resets the number of samples: it counts  *)
(* again in the next file.  After a restart it is the same file, and what  *)
(* it held is gone.                                                        *)
NothingIsErased ==
    [][ \A h \in Hours, a \in Axis :
          Len(Blocks(disk'[h][a])) >= Len(Blocks(disk[h][a])) ]_vars

=============================================================================
