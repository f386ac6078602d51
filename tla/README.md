# A TLA+ model of the Sensor-IOT acquisition program

The repository holds the software of a seismic sensor on a BeagleBone.  Its core is one
single-threaded C program, `SensorIoT/Sensor/SensorIoT.c`, with the libraries beside it in
`libs/`.  Once a second it takes a block of samples of three axes, labels it with the time of a
GPS receiver or of a real-time clock, appends it to an hourly SAC file per axis, watches each axis
for events with an STA/LTA trigger, writes a file per event, and tells a communication application
over a local socket what it has done.  A second program, the script `connection/components.js`,
uploads the status files that the first one writes.  This directory models both, checks the models
with TLC and proves their safety properties with TLAPS.

## 1. Inventory

| Component | State it keeps | Operations | Talks to |
|---|---|---|---|
| Event detector (`libs/EVENTS/staLta.c`) | `eventData` per axis: `tempData` (window), `preEvent`, `eventSamples`, `postEvent`, their counters, the running sums `sta` and `lta`, `EVENT_ON`, `isEnableAddPostEvent`, `isPendingSaveEvent`, start time | `sta_lta` per block, `inizializeFirstSamples`, `detectEvent` per sample, `checkMinimunDuration`, `addSamplesPreEvent`, `moveRegister` | called by the block handler; hands over to event files through `isPendingSaveEvent` |
| Event files (`createEventFile`) | files under `events/`, the registers it refills | write three parts, refill `preEvent`, clear | detector's struct, socket |
| Hourly archive (`createDirRtc`, `writeSac`, `libs/SAC_FILES`) | `currentDirectoryX/Y/Z`, `strDepValues`, `strFullDate`, the SAC files | create a file per hour, rewrite its header, append a block, announce finished files | labels from acquisition, socket |
| Acquisition loop (`readAndSaveData`, `readWithRTC`) | `flag`, `isData`, `bufTime`, `inicio`, two notice flags | poll PPS, drain the UART, clear the alarm, take a block | GPS, RTC, block handler, socket |
| ADC (`libs/ADC/adc.c`, `readAnalogInputsAndSaveData`) | `recvX/Y/Z`, `dataX/Y/Z`, the converter's input selection and last result | select inputs, START, wait for DRDY, read, thin the block | SPI, pins |
| Startup (`main`, `loadingGpsData`, `checkingPPS`, `sincronizarRtc`, `checkingSYNC`) | counters, watchdog times | wait for each device in turn, set the RTC | GPS, RTC, status files, socket |
| RTC driver (`libs/RTC`) | the DS3231's registers | set time and date in three writes each, arm the alarm, read | I2C |
| GPS and GPIO drivers | device configuration | NMEA parsing, pin reads | devices |
| Status files (`libs/JSON_FILES`) | JSON files | truncate and rewrite | read by the uploader |
| Socket (`libs/SOCKET`, `sendMsg`) | one connection | send, result ignored | communication application (not in the repository) |
| Status uploader (`connection/components.js`, `auth.js`, `exit.js`) | token, callbacks in flight, exit handlers | log in, read and post each file, ask for CTRL+C or exit | status files, web service |

What is hard about it: registers that are shifted, refilled and reset in different functions and
must still hold the right samples; running sums in which a first mistake stays for ever; durations
computed from whole-second labels of a day; two clocks that take turns; files written in several
steps while the process may end, or the other process may read, at any of them; errors that are
noticed and then ignored.  There are no threads: interleaving means clocks, devices, crashes and the
script against the loop, and within the script its callbacks.

What makes each part correct:

- detector: recording, following and saving never overlap; a kept event lasted the minimum; a
  written file is complete; a kept event is written; every register holds the samples it should; the
  sums are those of the windows;
- hourly archive: header and data agree up to the block being written; the axes agree; nothing of an
  announced hour changes; samples are lost only where the code empties the current hour;
- acquisition: blocks keep coming, the labels of one clock are fresh and advance, those of the other go
  on from them as well as the clocks agree, and the server is told each change of clock once;
- ADC: a failing transfer or pin spoils the sample it is about and no other, and sampling goes on;
- startup: each check ends when its device works and reports once per silence when it does not;
- RTC: after setting, the registers hold the moment that the sentence names;
- uploader: it ends, and when it ends by itself every file it could read was accepted.

## 2. Modules

| Module | Models |
|---|---|
| `EventLifecycle` | abstract specification of a detector: warm up, listen, record, then close and save, or drop, or lose |
| `EventDetector` | control of one axis: one action per branch of `sta_lta`/`detectEvent`, and `createEventFile` with the next block |
| `EventRegisters` | extends `EventDetector` action by action with the contents of the registers and of the file written |
| `StaLta` | the running sums of the two windows in exact arithmetic |
| `Adc` | reading a block: inputs, START, DRDY, result, each of which may fail |
| `Sampling` | composes `Adc` and `StaLta`: a block is read, thinned, handed to the detector |
| `Archive` | abstract specification of the hourly record: which seconds each hour holds, when it is final |
| `SacFile` | the three file operations of `sacsubc.c` on one SAC file |
| `SacArchive` | `createDirRtc` and `writeSac` for three axes, one action per call that changes a file, crashes, failing opens |
| `Acquisition` | the main loop against receiver, UART, RTC alarm and I2C bus |
| `Startup` | the four loops before sampling: polls, silences, reports in file and message |
| `Uploader` | the script: login, one task per status file, exceptions and `preExitFunc` |
| `Status` | composes `Startup` and `Uploader`: files are truncated and filled in two steps, and read in between |
| `RtcSetting` | setting the RTC register by register while it runs and the bus may fail |
| `EventDetectorProofs`, `EventRegistersProofs`, `StaLtaProofs`, `SamplingProofs`, `SacArchiveProofs`, `AcquisitionProofs`, `StatusProofs`, `RtcSettingProofs` | theorems about the module in the name (`StatusProofs`: about `Startup`, `Uploader` and `Status`) |
| `MC*` | constants of the runs |

### EventDetector and EventRegisters

The variables have the names of the fields of `eventData`; `count` is the loop variable of
`sta_lta`.  One action is one sample:

| Action | Code (`staLta.c`) |
|---|---|
| `FillSample` | the window is filling (59-77) |
| `PendingSample`, `PostSample`, `PostComplete` | a file waits; the post-event part grows; it is full (189-213) |
| `QuietSample` | nothing happens; the block's last sample adds the block to `preEvent` (227-231) |
| `Trigger`, `TriggerWhenFull` | the ratio reaches `thOn` (215-222), and the sample is recorded, or the buffer is full at once (258-263) |
| `RecordSample`, `Overrun` | the event goes on; `MAX_LENGTH_EVENT` is reached (258-267) |
| `CloseEvent`, `DiscardEvent` | the ratio falls to `thOff`: long enough or not (233-252) |
| `NextBlock`, `SaveEvent` | the main loop after a block: nothing to save, or `createEventFile` (`SensorIoT.c` 787-797, 999-1072) |

The ratio of the two averages is any value: only its comparison with two thresholds matters here,
and since `main` rejects `thOn <= thOff` a sample is "on", "off" or neither.  Labels advance by any
of `LabelSteps` modulo `DaySeconds`.  `getSeconds` converts two digits without a terminator, which
is undefined in C; `Skews` holds what it may add (0 in the runs, any set of naturals in the
theorems that do not say otherwise).  `EventRegisters` replaces each sample by its number, so
"contiguous", "newest" and "repeated" can be said of arrays; its history variable `quiet` counts
whole blocks in a row that went to `preEvent`.

### StaLta, Adc and Sampling

In `StaLta` an average is its sum, so that the arithmetic is exact; the rounding of the floats is left
out.  `Fill` fills the window, `InizializeFirstSamples` is one iteration of the loop over its first
contents, `Slide` a sample afterwards: the sample that leaves a window is found in the block or in
the register, as `LeavesSTA` and `LeavesLTA` translate from the index arithmetic of the code.  The
history variable `total` holds all prefix sums, so that `Window(k)` is what a reference would
compute.  `WindowErrorIsFixed` states exactly how the two differ: by the samples that the first loop
left out, always the same ones.

In `Adc` the program's steps are `StartConversion` (inputs and START) and `ReadResult` (a poll of DRDY
that finds it low, and the transfer); `Convert` is the converter, outside the program.  A sample is
named by where and when it was converted, so that a wrong input or a result read twice can be told.
Failures may come in any of the transfers and pins; the callers ignore the results.  One of them cannot be
ignored: `readGPIO` (gpio.c:85-88) passes what `fopen` returned on unseen, so a DRDY file that cannot be
opened ends the program (`DrdyNotOpened`).  `Sampling`
hands the thinned block to `StaLta` and follows a single impulse: the sums are linear in the
signal.

### SacArchive

A block is cut at its file operations: `TakeBlock`, then per axis `FirstFile`, `HourFile` or
`SameFile` (the three branches of `createDirRtc`), `CountBlock` (`npts += dataNumber`), then per axis
`WriteHeader` (with the extrema, `scmxmn`) and `WriteData` (`writeSac`).  `CrashAndRestart` may come
between any two: globals are lost, files stay.  `Writes` lets an `fopen` fail; the code prints and goes
on.  A file is a sequence whose first place may be a header, which is replaced when it is rewritten in
place ("r+").  In a file without one the 632 bytes of the header cover the first `HeaderBlocks` blocks, the
last of them perhaps in part: none of them can be read any more.  The step from one label to the next is any of
`LabelSteps`: a second may be repeated or skipped and time may go back.  `createDirRtc` does not ask whether a block
labelled hh0000 is the first one: when that label is repeated the hour's file is announced, emptied and
written again.  `Archive` says so, and `again` notes the hours that began after they were announced.
`ImplementsArchive` maps the labels of each file to `Archive`'s record.

`getSacFormatDate` (904-951) makes the header's date of a label with a table that knows no leap year and with
`atoi` on two bytes without a terminator.  What comes out is not modelled: `SacDate[t]` holds the dates that
may be made of label `t`, and `NewFile` chooses one.  `HeaderDatesFirstBlock` therefore says which label the date
was made from, not that the date is right.

The extrema are kept in one record for three axes, never reset, and two zeros stand for "no extrema
yet"; the comment at SensorIoT.c:958 speaks of the extrema of the trace.  `ExtremaCoverTrace` is what
is left of that: a header's extrema enclose the samples of its file, except that zeros may lie outside.

### Acquisition

`Tick`, `Report` and `RtcTick` are the clocks: a second begins (the receiver chooses what it does
in it), the pulse ends and the sentences arrive, the RTC's second begins and its alarm pulls SYNC
low.  The receiver may have a position ("fix"), none ("nofix"), pulse without sentences ("mute"),
send sentences without pulses ("nopulse") or be "dead".  The actions of the loop are the ways
through one iteration of it: `GpsBlock`, `PulseWithoutFix`, `PulseWithoutClock`, `PulseWithoutSentence`,
`PulseWithoutAnything`, `NoPulse`; `BlockDone` ends `readAnalogInputsAndSaveData`.  Times are ages
(seconds ago), so that behaviours are endless and the state space finite.  The history variable
`calm` counts the seconds since anything went wrong: a pulse that did not come or was not seen, a
lost sentence, a failing bus, a block that lasted into the next second.

Nothing sets the RTC again once the program samples.  `behind` is by how many seconds it is wrong, from what
`sincronizarRtc` left or because it drifted (`RtcGains`: two of its seconds begin between two pulses, `RtcLoses`:
none), and ranges over `RtcErrors`.  Ages are counted by the pulses, so that the label of an RTC that is ahead may
have a negative age.

### Startup, Uploader and Status

`Startup` has one action per thing a poll may find: `Altitude`, `Position`, `OtherSentence`
(`loadingGpsData`), `Pulse` (`checkingPPS`), `Setting` (`sincronizarRtc`), `Alarm` (`checkingSYNC`),
or nothing.  Then the silence decides: `Quiet`, or a report in the order of the code, file first
(`ReportInFile`, `ThenSend`) or message first (`ReportToServer`, `ThenWrite`); `Last` is the message
that ends a loop.  `Second` is the clock: every loop polls at least once a second.  Status files
hold anything at first, since they outlive the program.  `NotOpened` ends the program: neither
`writeFileJson` (filesJ.c:26) nor `readGPIO` looks at what `fopen` returned, so a status file or a pin that cannot
be opened is the last thing it does.  What the server was told before may then never reach the file.

`Uploader` is the event loop of the script: `session` goes from reading the serial number to posting
it to "open" or "denied", then each file is a task of its own (`FileRead` or `FileMissing`, `Callback`,
`Answered`) and the callbacks come in any order.  An exception in one ends all.  `Status` cuts each
write of a status file of `Startup` in two, `Open` (truncated) and `Close` (filled); all other steps are
those of `Startup` (`Plain`), and the script may be started and may read at any time.

### RtcSetting

It opens `Setting` up.  `lines` are the valid RMC sentences that wait in the UART, each a second:
`SentencePulse` and `OtherPulse` begin a second, after the sentence of the one before has come or not.
`ReadSentence` reads the oldest line and begins a setting; it may do so several times in a pulse, or not at
all, when the loop misses it.  `WriteRegister` is one transfer, `Roll` the RTC's own second, which may end between
any two transfers until the seconds are written, `WriteFails` a failing transfer with the 0 that the code then
writes to the seconds.  A time is the number of its second in a calendar of uniform months, a register a digit of
it; writing one changes that digit only.  `Misreads` stands for what `strtol` makes of two digits without a
terminator; the repository's object files put two bytes of padding behind each array, and what they hold is
not determined.  The history variable `setting` says what came between: a misread digit or a failed transfer
("spoilt"), or a minute of the RTC that ended after the hours were written and before the seconds were ("carried").
It is taken that a sentence comes after the end of its pulse, that the twelve bytes of a setting are written within
the second, and that the RTC keeps step with the pulses for the few seconds of the loop.

## 3. Runs

| Run | Question | Result |
|---|---|---|
| `event_detector` | flags, counters, durations, `EventLifecycle` implemented, kept events written | holds |
| `event_registers` | which samples the registers and files hold, file names, how sample counts relate to the duration test | holds |
| `event_overrun` | staLta.c:259: recorded samples are "para luego ser guardadas" | violated: at `MAX_LENGTH_EVENT` they are neither saved nor cleared, and the axis never saves an event again |
| `event_midnight` | staLta.c:19: an event that exceeds the minimum is stored | violated by an event that crosses midnight |
| `sampling` | what failures of converter and pins spoil, what the sums hold, whether sampling goes on | holds, unless a failure leaves the loop waiting for a conversion that was never started or DRDY cannot be opened, which `SamplingGoesOn` allows |
| `sta_lta_quiet` | staLta.c:17: an event starts when the ratio of STA and LTA exceeds `thOn` | violated: the first sums lack all but two samples, so a signal that never changes triggers |
| `sac_archive` | headers, axes, extrema, announced hours, continuity, `Archive` implemented, with a second that is skipped, repeated or an hour before, dates made wrongly, one crash, one failing open | holds |
| `sac_archive_restart` | SensorIoT.c:867: the count starts again "en el siguiente archivo" | violated: after a restart it is the same file, emptied |
| `acquisition` | under every fault and with an RTC that drifts: next block, notices; two undisturbed seconds later: freshness and order of labels, return of the GPS | holds |
| `status` | silences are reported, messages agree with files, sampling begins unless a file cannot be opened; what the uploader reads and how it ends | holds |
| `rtc_setting` | what the RTC says after each setting in which nothing failed or was misread, whatever came before | the second of the sentence, or a minute or hour too much if a minute of the RTC ended meanwhile |
| `rtc_follows_gps` | SensorIoT.c:521: the call synchronises RTC and GPS | violated without any fault or missed pulse, at the first second of a minute |

Further behaviour that properties state as their exact condition: a file's pre-event part joins the
event only after `preSeconds` of quiet (`QuietFilesJoin`: after a saved or dropped event the refill
at SensorIoT.c:1057 and staLta.c:242-248 repeats or misses samples); one sample is missing between event and
post-event part (`EventHasOneGap`); the register keeps its length only if `-b` does not exceed `-l`
(`PreEventFits`); an hour without a block at its first second is appended to the file before
(`HourIsContinuous`); whole seconds decide up to one second (`SamplesDecide`); two files may share a
name only in the first `preSeconds` of a day (`FileNamesDiffer`); the first report of `checkingPPS` comes
before its file (`ToldIsWritten`), and the error it writes is never taken back (`FilesSayHowItWent`); a
file read while it is being rewritten ends the script by an exception, which can happen only while the
program checks its devices (`SamplingSparesUploads`).

An event of exactly the minimum is kept (staLta.c:280 compares with `>=`), while the comment at staLta.c:19 says
that it has to exceed it ("exceder").  No property decides between the two: `OnlyMidnightDropsLongEvents` speaks of
events that lasted longer than the minimum, `KeptEventsLasted` of those that lasted less.

**Bounds.** *Events:* blocks of two samples, windows of two seconds, days of six to nine seconds and a
buffer of five samples: enough for an event inside a block, across blocks, across midnight, beyond
the buffer, and for a second event before the register has recovered from the first; `MaxBlocks`
(12) allows two complete events.  *Sampling:* eight readings thinned to four, windows of 3 and 8
samples, three blocks with up to two failures each, an impulse anywhere: the first block fills half
the window, the second completes it and runs the first sums, the third slides.  *Archive:* hours of three seconds and
labels to 6 give two hours and the first second of a third; one label may be repeated, skipped or an hour
before, anywhere, so that an hour is skipped into, begins twice or is come back to; one crash and one failing
open are each tried at every step; a header reaches into two blocks; the first second of the second hour may be dated
rightly or wrongly; the three traces rise, fall and stand, and begin with a second of zeros.
*Acquisition:* the UART holds two reports, so one can be lost to overflow and two be read at once;
ages stop at 3 and undisturbed seconds at 2, beyond what any property tells apart; the RTC is right or a second
ahead and drifts between the two, so that the hand-over to the GPS goes back (the theorems have any set of errors).
*Status:* the
silences go to 5 seconds with limits of 2 and 1, so a later silence meets a `diff` greater than
itself; the script reads two files, so callbacks of two tasks interleave while the program rewrites
either of them.
*RtcSetting:* minutes of three seconds and two values of every other register; the RTC starts anywhere; six settings
as in the code, so that each kind is followed by others; a sentence waits for up to two pulses, so that two may be
written in one; one failing transfer, and any digit may be misread.

Each property has a mutant, a plausible slip in one mapped definition, under which the run fails.

**Fairness.** `EventDetector`: weak fairness of `Next`, because the loop never ends and clocks deliver a
block a second (that they do is `BlocksKeepComing`).  `Acquisition`: weak fairness of each clock
and of the loop, which polls without blocking; and strong fairness of an iteration that takes a
block, which says that the I2C bus does not fail every single time it is used.  It grants nothing
about how the loop gets there: with an iteration that only waits for the flag (a mutant)
`BlocksKeepComing` fails.  `GpsComesBack` asks that the receiver keep its position and that no second
be disturbed any more: when a block labelled by the RTC lasts past every pulse, the loop never sees
one, and the code does not rule that out.  `Sampling`: the converter ends a conversion that it began,
and the program goes on with a step that does not fail whenever there is one, since failures are
counted for each block, unless it has ended.  `Status`: strong fairness of what each loop waits for, that is, each device says it
again and again, in whatever order (without that the code waits forever, which it reports except in
`sincronizarRtc`), weak fairness of the program's own steps and of the script's, whose posts the
platform answers.

**Limits of the label properties.** `BlocksAreFresh` and `LabelsAdvance` speak of blocks after two
undisturbed seconds.  Nearer to a disturbance both fail in the model: while the RTC stands in nobody
reads the UART, and the first pulse afterwards takes the time of the last sentence before the
silence.  Even undisturbed, labels of different clocks agree only as far as the clocks do: the RTC is not set again
after the start, drifts, and may have been left a minute or an hour ahead (`rtc_follows_gps`).  `BlocksAreFresh` says
nothing of the RTC's labels, and `LabelsAdvance` lets a hand-over repeat a second (an RTC that is right begins its
seconds after the pulses) or go back by what the RTC is wrong: from an RTC that is ahead to the GPS, or from the GPS to
one that is behind.  That labels repeat or go back is why `SacArchive` takes them in any order.
The hazards are listed; no document of the repository claims the contrary, so they are not findings.

## 4. Theorems

All are proved for every value of the constants that the module's named assumption allows; what they
assume beyond it is said here.

`EventDetectorProofs`:

- `TypeCorrect`: every counter stays in its array;
- `ModesAreExclusive`, from the inductive `ModeInv` (types, `ModesExclusive`, and that a pending
  file has a full `postEvent`): `ModesExclusive` alone is not inductive, since `CloseEvent` needs to know that
  `postEvent` is empty while an event is on;
- `OnlyOverrunsDo`: samples are stranded only by an overrun;
- `PreEventAlwaysFits` and `FilesAreComplete`, from `DetectorInv`, which adds that while the window is
  filling `countPreEvent` is the lesser of the whole blocks seen and its capacity; multiples of `freq`
  and the lemmas `BlocksOrder` and `RegisterStep` carry the arithmetic;
- `KeptEventsLast`: if labels never go back and `getSeconds` returns what it is given, an event is
  kept only after the minimum of label time, also over midnight; the invariant is that `elapsed` is at
  least the difference of the seconds of the day;
- `OnlyMidnightDrops` and `SamplesDecideWithinASecond`, for labels that do not go back and the hypothesis
  `EventsEndWithinADay`: the blocks for which `eventSamples` has room span less than a day of labels.  The
  code has room for 240000 samples, which is less than a day of one-second blocks from 3 samples per second on;
  the constants of both runs satisfy it.  `SpanInv` counts the blocks since the trigger: samples so far are whole
  blocks and what was left of the first, `elapsed` is at most that many label steps, and so the label is the
  start time plus `elapsed`, at most once less a day;
- `DetectorImplementsLifecycle`: every behaviour satisfies the safety part of `EventLifecycle` under the
  mapping `phase`, one lemma per step.

`EventRegistersProofs` first shows that every step of the registers is one of `EventDetector`
(`StepOfDetector`), so that `ModeInv` is at hand.  `RegistersAreCounted` is proved for every
`preSeconds`, also where `-b` exceeds `-l` and the runs say nothing.  `RecordingSkipsNothing` and
`EventsHaveOneGap` come from `EventInv`: the event buffer is an interval of sample numbers that ends before the
sample at hand, and what follows the event begins two later.  `WindowHoldsTheNewest`
comes from `NewestWindow`, which gives the contents of the window also while it fills and within a block.
`QuietRegistersAreNewest` comes from `QuietInv`: after `quiet` whole blocks the last `quiet * freq` samples of the
register are the newest that it may have, which while an event is on are those before its first sample.  Samples
behind those may be anything, which is what a refill leaves; `quiet` at its limit makes them none.
`QuietFilesAreJoined` follows at the save, under `preSeconds <= ltaSeconds` (`-b` not above `-l`, the case in which
`PreEventFits` holds at all: a longer register is not full at the first trigger).  `FilesHaveNewNames`, for labels
that advance by less than a day (`LabelsAdvance`, as in the run; labels that repeat are not covered), comes from `NameInv`:
the last file's name lies before the label, an event's start time is not the one in it unless that one was not
moved back.

`StaLtaProofs` proves `WindowErrorStaysFixed` from `WindowInv`: types, the phase of the first sums,
the contents of block and register in terms of `total`, and the partial sums of the first loop.  The cases are
whether the sample that leaves is in the block or the register; `Multiple`, `WholeWindow` and
`AlignedEnd` say that a window ends with a block.  `SamplingProofs` carries it over to the composition
(`WindowErrorStaysFixedWhileReading`: every step of `Sampling` is one of `StaLta` or leaves it alone)
and proves `FaultsSpoilFew` from `FaultInv`: spoiled samples plus the one that an earlier failure already
condemned (`Owed`) are at most the failures; cardinalities grow by one sample at a time (`OneMore`).

`SacArchiveProofs`, for labels in any order (`LabelSteps` any set of integers) unless said otherwise:

- `SacArchiveImplementsArchive` and `AnnouncedHoursAreFinal`, from `ArchiveInv`: the axes before the one at
  hand are in the hour of the block, the others where they all were, an announced hour is one that all axes have left or
  one that began `again`, and, as long as no file failed to open, files are headed before they hold samples.
  "Final" excepts the hours in `again`; `AdvancingLabelsBeginOnce` shows that there are none if labels advance
  (`Advancing`, the only theorem that assumes it);
- `HeadersLeadByOne`, `HeadersDateFirstBlock`, `AxesStayTogether`, from `HeadInv`: there is a
  sequence X of labels that every current file held before the block at hand, and `step` and `axis` say
  which files have it, which have the header that announces the block, and which have the block;
- `HoursAreContinuous`, from `TimeInv`: a file goes on as the labels do and a label that begins an
  hour is only in that hour's file;
- `ExtremaCoverSamples`, from `CoverInv`: the record in memory covers the current files of all axes
  although it is shared, because folding a value in only widens it (`FoldWidens`);
- `FullHoursAreAnnounced`, from `KnownInv`, also with failing files;
- `HeadersKeepBlocks`, also with failing files: a call changes one file (`WritesOne`), and a header
  written over a header, or a block, leaves at least the blocks that were there (`Keeps`).

`AcquisitionProofs`, under every fault and for every UART capacity: `AcquisitionTypes`; `NoticesMatch` and
`NoticesTakeTurns` from `NoticeInv`, which ties the two flags to the last notice; `CalmBlocksAreFresh` and
`CalmLabelsAdvance`, for any set of `RtcErrors`, from `AgeInv`, which bounds the ages of label and sentences by how long
it has been calm, whatever happened before, and `BlockInv`, which says how old the last block of each clock can be.

`StatusProofs`, about `Startup`: `StartupTypes`; `SilencesAreReported`, for which the invariant `SilenceInv` says that
past the limit `diff` is the silence of the last poll, so that what an earlier silence left in it
lasts one poll only; `ReportsAgree` and `StatusFilesSayHowItWent`, from `ReportInv`, which ties the
pending half of a report to its loop and to the side that is already known.

About `Status`: `StatusImplementsStartup` (cutting the writes in two and running the script beside them
changes nothing for the program, so that the theorems about `Startup` hold here, too);
`LateUploadsReadWholeFiles` from `FilesInv`; `SilentEndsAreComplete` from `UploadInv`.

`RtcSettingProofs`: `SettingsAreExactOrCarried`, for registers of any size, any calendar time in them, any number of
faults and waiting sentences, and any `Misreads`; nothing is assumed.  `WrittenInv` says what each register that is
already written says in a setting that was not spoilt: the sentence's digit, or, if the RTC's second has ended
since the pulse and with it a minute, what the carry makes of it.  A second one cannot come between, and none after the
seconds are written (`rolled`).  The lemmas before it are about digits of a number in a mixed
radix: `PutDigit` (what lies above and below a digit that is replaced), `Successor` (one more carries or not),
`SameBelow`, `Nested`, `SameDate`.

Only model-checked: liveness (`KeptEventIsWritten`, `SamplingGoesOn`, `BlocksKeepComing`, `GpsComesBack`,
`StartupEnds`, `UploaderSettles`, the fairness of `EventLifecycle`), which under fairness is beyond the
prover's reach.  Every invariant and action property of the passing runs has a theorem.

## 5. Not modelled

More than 95 % of the lines in the repository are not this program: two wireless drivers, mbedTLS, MQTT and
socket libraries, earlier copies of the program, trials.  The sensor itself is about 5000 lines
of C and 400 of JavaScript, and what follows is about those.

- The options of `main` and `testAcelerometer`: read once; the assumptions on constants say what `main`
  checks.  One check compares `-s` with `-l` before `-l` is rounded (listed as a hazard).
- The calendar: labels are seconds, so leap years and names of directories are left out; `SacDate` stands for what
  `getSacFormatDate` makes of them.
- GPS parsing, the pins' files and the ADC's configuration: characters and constants without a state of
  their own.  What a failing pin does to a sample is in `Adc`.  That a pin whose file cannot be opened ends the program
  is in `Adc` and `Startup`; in `Acquisition` and `RtcSetting`, which poll pins too, it is left out: the properties
  there are about a program that runs, and an end at any step is what `CrashAndRestart` of `SacArchive` is.
- Rounding of the floats in the sums and the conversion of samples.
- The status files of the accelerometer, the ADC, wifi, CPU and battery: written once or by other parts.
  The script reads its files from the directory it is started in, which is taken to be the program's.
- The socket and the communication application: messages are sent and their result is ignored, the
  other end is not in the repository.  Messages are recorded where properties speak of them.
- `EventDetector` takes any ratio, and `SacArchive` and `EventDetector` take labels by `LabelSteps`: they are not
  composed with `StaLta` and `Acquisition`.  The steps of the run of `SacArchive` include a repeated label, a skipped
  one and one an hour before.  Those of the runs of `EventDetector` advance or repeat; labels that go back, which
  `Acquisition` gives at a hand-over or right after a disturbance, are not among them.
