----------------------------- MODULE RtcSetting -----------------------------
(***************************************************************************)
(* How the program sets the RTC before it begins to sample: sincronizarRtc *)
(* of SensorIoT.c, setTimeRtc and setDateRtc of libs/RTC/rtc.c.  As long   *)
(* as the pulse lasts, the oldest sentence that waits in the UART is read  *)
(* and written to the DS3231: hours, minutes, seconds, day, month, year,   *)
(* one transfer each, while the clock goes on.                             *)
(*                                                                         *)
(* A time is the number of its second in a calendar of uniform months that *)
(* starts again after its last year; a register is a digit of it.          *)
(***************************************************************************)
EXTENDS Integers, Sequences

CONSTANTS
    Radix,      \* how many values each register of the RTC has
    LastCount,  \* count at which the loop ends: 5 in the code
    Misreads,   \* what strtol may make of two digits without a terminator
    MaxMissed,  \* bound: how many pulses a sentence waits beyond the first
    MaxFaults   \* bound: how often the I2C bus fails

(* The registers in the order in which they are written.  Mutant: the date *)
(* comes first.                                                            *)
Registers_DateFirst == <<"day", "month", "year", "hour", "min", "sec">>
Registers == <<"hour", "min", "sec", "day", "month", "year">>

Register == {Registers[i] : i \in 1 .. Len(Registers)}
Written == Len(Registers) + 1

ASSUME RtcSettingAssumption ==
    /\ Radix \in [Register -> Nat \ {0}]
    /\ LastCount \in Nat
    /\ Misreads \subseteq Nat
    /\ MaxMissed \in Nat
    /\ MaxFaults \in Nat

Minute == Radix["sec"]
Hour == Minute * Radix["min"]
Day == Hour * Radix["hour"]
Month == Day * Radix["day"]
Year == Month * Radix["month"]
Total == Year * Radix["year"]
Weight == [sec |-> 1, min |-> Minute, hour |-> Hour,
           day |-> Day, month |-> Month, year |-> Year]

Digit(t, r) == (t \div Weight[r]) % Radix[r]
WithDigit(t, r, v) == t + (v - Digit(t, r)) * Weight[r]

VARIABLES
    now,        \* the second that began with the last pulse
    rtc,        \* what the registers say
    rolled,     \* whether the RTC has begun a new second since the pulse
    lines,      \* the seconds that the waiting sentences name, oldest first
    sentence,   \* the second that the sentence at hand names
    next,       \* place of the next register to write; 0 between settings
    count, done,
    faults,
    setting     \* history: what came between while the registers are written

vars == <<now, rtc, rolled, lines, sentence, next, count, done, faults, setting>>

(* clearUartBuffer leaves no sentence behind.                              *)
Init ==
    /\ now = 0
    /\ rtc \in 0 .. Total - 1
    /\ rolled = TRUE
    /\ lines = <<>>
    /\ sentence = 0
    /\ next = 0
    /\ count = 0
    /\ done = FALSE
    /\ faults = 0
    /\ setting = "exact"

-----------------------------------------------------------------------------
(* A pulse.  Before it the sentence of the second that ends may have come. *)
(* Sentences without a valid position are read and nothing else: they are  *)
(* left out.  A pulse is missed when the loop does not get to run in it.   *)
MayWait == lines # <<>> => (now - Head(lines)) % Total <= MaxMissed

Pulse ==
    /\ next = 0
    /\ rolled
    /\ now' = (now + 1) % Total
    /\ rolled' = FALSE
    /\ UNCHANGED <<rtc, sentence, next, count, done, faults, setting>>

SentencePulse == ~done /\ MayWait /\ Pulse /\ lines' = Append(lines, now)
OtherPulse == (done \/ MayWait) /\ Pulse /\ UNCHANGED lines

(* The pulse lasts: the oldest line is read, and a setting begins.  There  *)
(* may be several in one pulse.                                            *)
ReadSentence ==
    /\ ~done
    /\ next = 0
    /\ lines # <<>>
    /\ sentence' = Head(lines)
    /\ lines' = Tail(lines)
    /\ next' = 1
    /\ UNCHANGED <<now, rtc, rolled, count, done, faults, setting>>

(* The RTC's own second begins.  The history notes a minute that ends      *)
(* after the hours are written and before the seconds are.                 *)
EndsMinute == Digit(rtc, "sec") = Radix["sec"] - 1
Roll ==
    /\ ~rolled
    /\ rolled' = TRUE
    /\ rtc' = (rtc + 1) % Total
    /\ setting' = IF next \in 2 .. 3 /\ EndsMinute /\ setting = "exact"
                  THEN "carried" ELSE setting
    /\ UNCHANGED <<now, lines, sentence, next, count, done, faults>>

(* A register is written; the RTC counts a whole second from the moment    *)
(* that its seconds are.                                                   *)
Put(r, v) ==
    /\ rtc' = WithDigit(rtc, r, v % Radix[r])
    /\ rolled' = (rolled \/ r = "sec")

WriteRegister ==
    LET r == Registers[next]
        digit == Digit(sentence, r)
    IN
    /\ next \in 1 .. Len(Registers)
    /\ \E v \in {digit} \cup Misreads :
          Put(r, v) /\ setting' = IF v = digit THEN setting ELSE "spoilt"
    /\ next' = next + 1
    /\ UNCHANGED <<now, lines, sentence, count, done, faults>>

(* A transfer fails: the rest of the time, or of the date, is not written, *)
(* and 0 goes to the seconds, unless that transfer fails as well.          *)
WriteFails ==
    /\ next \in 1 .. Len(Registers)
    /\ faults < MaxFaults
    /\ faults' = faults + 1
    /\ Put("sec", 0) \/ UNCHANGED <<rtc, rolled>>
    /\ next' = IF next <= 3 THEN 4 ELSE Written
    /\ setting' = "spoilt"
    /\ UNCHANGED <<now, lines, sentence, count, done>>

(* Nobody looks at what the two calls returned: a setting counts.  What is *)
(* left in the buffer is overwritten before it is used.                    *)
Settled ==
    /\ next = Written
    /\ next' = 0
    /\ sentence' = 0
    /\ setting' = "exact"
    /\ IF count = LastCount THEN done' = TRUE /\ UNCHANGED count
                            ELSE count' = count + 1 /\ UNCHANGED done
    /\ UNCHANGED <<now, rtc, rolled, lines, faults>>

Next ==
    \/ SentencePulse
    \/ OtherPulse
    \/ ReadSentence
    \/ Roll
    \/ WriteRegister
    \/ WriteFails
    \/ Settled

Spec == Init /\ [][Next]_vars

-----------------------------------------------------------------------------
(* Whatever the RTC said before, however old the sentence is and whatever  *)
(* became of earlier settings: one without a failed transfer or a misread  *)
(* digit leaves the RTC at the second of the sentence, unless a minute of  *)
(* the RTC ended after the hours were written and before the seconds were. *)
(* Even then the date is right, and the time of day a minute or an hour    *)
(* too far at most.                                                        *)
TimeOfDay(t) == t % Day
TooFar ==
    /\ rtc \div Day = sentence \div Day
    /\ TimeOfDay(rtc) \in {TimeOfDay(sentence + d) : d \in {Minute, Hour}}
SettingIsExactOrCarried ==
    (next = Written /\ setting # "spoilt") =>
        rtc = sentence \/ (setting = "carried" /\ TooFar)

(* "setTimeRtc(timeBuf); // Sincroniza RTC y GPS." (SensorIoT.c:521): when *)
(* the loop has ended and the bus never failed, the RTC says what the GPS  *)
(* sentences say, one second behind the pulse, until its own second ends.  *)
RtcFollowsGps ==
    (done /\ faults = 0) => rtc = (now - IF rolled THEN 1 ELSE 2) % Total

=============================================================================
