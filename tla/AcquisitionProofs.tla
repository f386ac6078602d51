------------------------- MODULE AcquisitionProofs -------------------------
(***************************************************************************)
(* The acquisition loop's types, notices and labels for every receiver,    *)
(* every error of the RTC, every size of the UART and every bound on ages  *)
(* and calm.                                                               *)
(***************************************************************************)
EXTENDS Acquisition, TLAPS

Reports3 == [rmc : {"fix", "nofix", "nopulse", "lost"}, age : 0 .. MaxAge]

(* TypeOK in two parts: the clocks with the UART, and the program.         *)
EnvOK ==
    /\ gps \in GpsModes
    /\ pps \in {"LOW", "HIGH"} /\ sync \in {"LOW", "HIGH"}
    /\ reported \in BOOLEAN /\ ticked \in BOOLEAN
    /\ uart \in Seq(Reports3)
    /\ Len(uart) <= UartCapacity
    /\ behind \in RtcErrors

ProgOK ==
    /\ pc \in {"poll", "sampling"} /\ ticks \in {0, 1} /\ inicio \in 0 .. 3
    /\ bufTime \in 0 .. Never
    /\ isData \in {-1, 0, 11}
    /\ isData = 0 <=> bufTime = Never
    /\ flag \in {0, 1} /\ sendNotiPPS \in {0, 1} /\ sendNotiSYNC \in {0, 1}
    /\ block \in [source : {"none", "GPS", "RTC"}, age : Int]
    /\ notice \in [source : {"none", "GPS", "RTC"}, copy : {0, 1}]
    /\ calm \in 0 .. MaxCalm

LEMMA TypeParts == TypeOK <=> EnvOK /\ ProgOK
  BY DEF TypeOK, EnvOK, ProgOK, Reports3

(* The RTC's age, and what is one second older: it is not saturated.        *)
LEMMA RtcAgeType ==
    ASSUME EnvOK
    PROVE  /\ behind \in Int /\ RtcAge \in Int /\ behind + 3 <= MaxAge
           /\ RtcAge = IF ticked THEN behind + 1 ELSE behind + 2
  BY AcquisitionAssumption DEF EnvOK, RtcAge

(* What gets older stays an age, and is not of this second any more.       *)
LEMMA OlderType ==
    /\ \A a \in 0 .. MaxAge : Older(a) \in 1 .. MaxAge
    /\ \A a \in 0 .. Never : Older(a) \in 1 .. Never
    /\ Older(0) = 1 /\ Older(1) = 2
  BY AcquisitionAssumption DEF Older, Never

LEMMA OlderInt ==
    ASSUME NEW a \in Int
    PROVE  /\ Older(a) \in Int
           /\ Older(a) = a + 1 \/ Older(a) >= MaxAge
           /\ a = MaxAge => Older(a) = MaxAge
  BY AcquisitionAssumption DEF Older

(* The sentences in the UART get older one by one.                         *)
OlderUart == [i \in 1 .. Len(uart) |-> [uart[i] EXCEPT !.age = Older(@)]]

LEMMA OlderUartType ==
    ASSUME uart \in Seq(Reports3)
    PROVE  /\ OlderUart \in Seq(Reports3)
           /\ Len(OlderUart) = Len(uart)
           /\ \A i \in 1 .. Len(uart) : /\ OlderUart[i].rmc = uart[i].rmc
                                        /\ OlderUart[i].age = Older(uart[i].age)
  <1>1. Len(uart) \in Nat /\ \A i \in 1 .. Len(uart) : uart[i] \in Reports3
    OBVIOUS
  <1>2. \A i \in 1 .. Len(uart) : [uart[i] EXCEPT !.age = Older(@)] \in Reports3
    <2>1. ASSUME NEW r \in Reports3 PROVE [r EXCEPT !.age = Older(@)] \in Reports3
      <3>1. r.age \in 0 .. MaxAge
        BY DEF Reports3
      <3>2. Older(r.age) \in 0 .. MaxAge
        BY <3>1, OlderType, AcquisitionAssumption
      <3> QED BY <3>2 DEF Reports3
    <2> QED BY <1>1, <2>1
  <1>3. OlderUart \in [1 .. Len(uart) -> Reports3]
    BY <1>2 DEF OlderUart
  <1>4. OlderUart \in Seq(Reports3) /\ Len(OlderUart) = Len(uart)
    BY <1>1, <1>3
  <1>5. \A i \in 1 .. Len(uart) : /\ OlderUart[i].rmc = uart[i].rmc
                                  /\ OlderUart[i].age = Older(uart[i].age)
    BY <1>1 DEF OlderUart, Reports3
  <1> QED BY <1>4, <1>5

(* A notice is one of the two that the server may get.                     *)
LEMMA SendType ==
    ASSUME ProgOK, NEW who \in {"GPS", "RTC"}, Send(who)
    PROVE  /\ notice' \in [source : {"none", "GPS", "RTC"}, copy : {0, 1}]
           /\ notice'.source = who
  BY DEF ProgOK, Send

(* The sentences that are read leave a label and whether it has a position. *)
LEMMA ReadSentencesType ==
    ASSUME EnvOK, ProgOK, ReadSentences
    PROVE  /\ bufTime' \in 0 .. Never
           /\ isData' \in {-1, 0, 11}
           /\ isData' = 0 <=> bufTime' = Never
           /\ uart' = <<>>
           /\ \A k \in Nat : (\A i \in 1 .. Len(uart) : uart[i].age >= k /\ uart[i].rmc # "lost")
                => bufTime' >= k
  <1>1. CASE Rmcs = {} /\ UNCHANGED <<bufTime, isData>>
    <2>1. Len(uart) \in Nat \ {0}
      BY DEF ReadSentences, EnvOK
    <2>2. uart[1].rmc = "lost"
      BY <1>1, <2>1 DEF Rmcs
    <2> QED BY <1>1, <2>1, <2>2 DEF ReadSentences, ProgOK
  <1>2. ASSUME NEW i \in Rmcs, bufTime' = uart[i].age,
               isData' = IF uart[i].rmc = "nofix" THEN -1 ELSE 11
        PROVE  /\ bufTime' \in 0 .. MaxAge
               /\ isData' \in {-1, 11}
               /\ \A k \in Nat : (\A j \in 1 .. Len(uart) : uart[j].age >= k) => bufTime' >= k
    <2>1. i \in 1 .. Len(uart) /\ uart[i] \in Reports3
      BY DEF Rmcs, EnvOK
    <2> QED BY <1>2, <2>1 DEF Reports3
  <1>3. MaxAge \in Nat /\ Never = MaxAge + 1
    BY AcquisitionAssumption DEF Never
  <1> QED BY <1>1, <1>2, <1>3 DEF ReadSentences

LEMMA InitTypeOK == Init => TypeOK
  <1> SUFFICES ASSUME Init PROVE EnvOK /\ ProgOK
    BY TypeParts
  <1>1. EnvOK
    BY AcquisitionAssumption DEF Init, EnvOK
  <1>2. ProgOK
    BY AcquisitionAssumption DEF Init, ProgOK, Never
  <1> QED BY <1>1, <1>2

(* One iteration: what each branch of the loop does to the variables, in    *)
(* the terms that the invariants need.                                     *)
LEMMA CalmType ==
    ASSUME ProgOK, NEW b \in BOOLEAN, StillCalm(b)
    PROVE  calm' \in 0 .. MaxCalm /\ (calm' # 0 => calm' = calm /\ b)
  BY AcquisitionAssumption DEF ProgOK, StillCalm

(* A turn of the RTC sends at most one notice and leaves sync, pc and block *)
(* as they were or takes a block with the clock's label.                   *)
LEMMA ReadWithRTCType ==
    ASSUME EnvOK, ProgOK, ReadWithRTC
    PROVE  /\ sync' \in {"LOW", "HIGH"}
           /\ pc' \in {"poll", "sampling"} /\ ticks' \in {0, 1}
           /\ sendNotiPPS' = 1 /\ sendNotiSYNC' = 0
           /\ block' \in [source : {"none", "GPS", "RTC"}, age : Int]
           /\ notice' \in [source : {"none", "GPS", "RTC"}, copy : {0, 1}]
           /\ calm' \in 0 .. MaxCalm
           /\ IF sendNotiSYNC = 1 THEN notice'.source = "RTC" ELSE notice' = notice
           /\ \/ pc' = "sampling" /\ block' = [source |-> "RTC", age |-> RtcAge] /\ ticks' = 0
              \/ pc' = pc /\ ticks' = ticks /\ block' = block /\ calm' = 0
           /\ calm' # 0 => calm' = calm /\ sync' = "HIGH" /\ pc' = "sampling"
  <1>1. PICK cleared \in BOOLEAN, read \in BOOLEAN :
           /\ sync' = IF cleared THEN "HIGH" ELSE sync
           /\ IF read THEN SampleBlock("RTC", RtcAge) ELSE UNCHANGED <<pc, ticks, block>>
           /\ StillCalm(cleared /\ read)
    BY DEF ReadWithRTC, RtcTransfers, MaySucceed
  <1>2. calm' \in 0 .. MaxCalm /\ (calm' # 0 => calm' = calm /\ cleared /\ read)
    BY <1>1, CalmType
  <1>3. notice' \in [source : {"none", "GPS", "RTC"}, copy : {0, 1}]
        /\ IF sendNotiSYNC = 1 THEN notice'.source = "RTC" ELSE notice' = notice
    BY SendType DEF ReadWithRTC, ProgOK
  <1>4. RtcAge \in Int
    BY RtcAgeType
  <1>5. \/ pc' = "sampling" /\ block' = [source |-> "RTC", age |-> RtcAge] /\ ticks' = 0
        \/ pc' = pc /\ ticks' = ticks /\ block' = block /\ calm' = 0
    <2>1. CASE read
      BY <1>1, <2>1 DEF SampleBlock
    <2>2. CASE ~read
      BY <1>1, <1>2, <2>2
    <2> QED BY <2>1, <2>2
  <1>6. calm' # 0 => calm' = calm /\ sync' = "HIGH" /\ pc' = "sampling"
    BY <1>1, <1>2 DEF SampleBlock
  <1>7. sync' \in {"LOW", "HIGH"}
    BY <1>1 DEF EnvOK
  <1>8. /\ pc' \in {"poll", "sampling"} /\ ticks' \in {0, 1}
        /\ block' \in [source : {"none", "GPS", "RTC"}, age : Int]
    BY <1>4, <1>5 DEF ProgOK
  <1> QED BY <1>2, <1>3, <1>5, <1>6, <1>7, <1>8 DEF ReadWithRTC

-----------------------------------------------------------------------------
(* Each action leaves the types as they are.                               *)
LEMMA NextTypeOK == TypeOK /\ [Next]_vars => TypeOK'
  <1> SUFFICES ASSUME EnvOK, ProgOK, [Next]_vars PROVE EnvOK' /\ ProgOK'
    BY TypeParts DEF TypeOK, EnvOK, ProgOK, Reports3
  <1>0. MaxAge \in Nat \ {0, 1} /\ MaxCalm \in Nat \ {0} /\ Never = MaxAge + 1
        /\ UartCapacity \in Nat \ {0}
    BY AcquisitionAssumption DEF Never
  <1>1. CASE Tick
    <2>1. uart' = OlderUart
      BY <1>1 DEF Tick, OlderUart
    <2>2. uart' \in Seq(Reports3) /\ Len(uart') = Len(uart)
      BY <2>1, OlderUartType DEF EnvOK
    <2>3. bufTime' \in 0 .. Never /\ (isData' = 0 <=> bufTime' = Never)
      <3>1. bufTime \in 0 .. Never /\ (isData = 0 <=> bufTime = Never)
        BY DEF ProgOK
      <3>2. isData' = isData /\ bufTime' = IF bufTime = Never THEN Never ELSE Older(bufTime)
        BY <1>1 DEF Tick
      <3> QED BY <1>0, <3>1, <3>2, OlderType
    <2>4. block' \in [source : {"none", "GPS", "RTC"}, age : Int]
      <3>1. block.age \in Int
        BY DEF ProgOK
      <3>2. Older(block.age) \in Int
        BY <3>1, OlderInt
      <3> QED BY <1>1, <3>2 DEF Tick, ProgOK
    <2>5. calm' \in 0 .. MaxCalm
      BY <1>0, <1>1 DEF Tick, ProgOK
    <2>6. EnvOK'
      BY <1>1, <2>2 DEF Tick, EnvOK
    <2>7. ProgOK'
      BY <1>1, <2>3, <2>4, <2>5 DEF Tick, ProgOK, notis
    <2> QED BY <2>6, <2>7
  <1>2. CASE Report
    <2>1. calm' \in 0 .. MaxCalm
      BY <1>2, CalmType DEF Report
    <2>2. uart' \in Seq(Reports3) /\ Len(uart') <= UartCapacity
      <3>1. CASE UNCHANGED uart
        BY <3>1 DEF EnvOK
      <3>2. CASE /\ Len(uart) < UartCapacity
                 /\ \E r \in {"fix", "nofix", "nopulse", "lost"} :
                      uart' = Append(uart, [rmc |-> r, age |-> 0])
        <4>1. PICK r \in {"fix", "nofix", "nopulse", "lost"} :
                uart' = Append(uart, [rmc |-> r, age |-> 0])
          BY <3>2
        <4>2. [rmc |-> r, age |-> 0] \in Reports3
          BY <1>0 DEF Reports3
        <4> QED BY <1>0, <3>2, <4>1, <4>2 DEF EnvOK
      <3> QED BY <1>2, <3>1, <3>2 DEF Report, Reports
    <2> QED BY <1>2, <2>1, <2>2 DEF Report, EnvOK, ProgOK, prog, notis
  <1>3. CASE RtcTick \/ RtcGains \/ RtcLoses
    <2>1. /\ UNCHANGED <<gps, pps, reported, uart, prog, calm>>
          /\ ticked' = TRUE /\ behind' \in RtcErrors /\ sync' \in {"LOW", "HIGH"}
      BY <1>3 DEF RtcTick, RtcGains, RtcLoses, EnvOK
    <2>2. EnvOK'
      BY <2>1 DEF EnvOK
    <2>3. ProgOK'
      BY <2>1 DEF ProgOK, prog, notis
    <2> QED BY <2>2, <2>3
  <1>4. CASE GpsBlock
    <2>1. bufTime' \in 0 .. Never /\ isData' \in {-1, 0, 11} /\ uart' = <<>>
          /\ (isData' = 0 <=> bufTime' = Never)
      BY <1>4, ReadSentencesType DEF GpsBlock
    <2>2. /\ notice' \in [source : {"none", "GPS", "RTC"}, copy : {0, 1}]
          /\ sendNotiSYNC' \in {0, 1}
      BY <1>4, SendType DEF GpsBlock, ProgOK
    <2>3. EnvOK'
      BY <1>0, <1>4, <2>1 DEF GpsBlock, SeePulse, EnvOK
    <2> QED BY <1>4, <2>1, <2>2, <2>3 DEF GpsBlock, SeePulse, SampleBlock, ProgOK
  <1>5. CASE PulseWithoutFix
    <2>1. bufTime' \in 0 .. Never /\ isData' \in {-1, 0, 11} /\ uart' = <<>>
          /\ (isData' = 0 <=> bufTime' = Never)
      BY <1>5, ReadSentencesType DEF PulseWithoutFix
    <2>2. ReadWithRTC
      BY <1>5 DEF PulseWithoutFix
    <2> QED BY <1>0, <1>5, <2>1, <2>2, ReadWithRTCType DEF PulseWithoutFix, SeePulse, EnvOK, ProgOK
  <1>6. CASE PulseWithoutClock
    <2>1. bufTime' \in 0 .. Never /\ isData' \in {-1, 0, 11} /\ uart' = <<>>
          /\ (isData' = 0 <=> bufTime' = Never)
      BY <1>6, ReadSentencesType DEF PulseWithoutClock
    <2> QED BY <1>0, <1>6, <2>1 DEF PulseWithoutClock, SeePulse, EnvOK, ProgOK, notis
  <1>7. CASE PulseWithoutSentence
    <2>1. ReadWithRTC
      BY <1>7 DEF PulseWithoutSentence
    <2> QED BY <1>7, <2>1, ReadWithRTCType DEF PulseWithoutSentence, SeePulse, EnvOK, ProgOK
  <1>8. CASE PulseWithoutAnything
    BY <1>8 DEF PulseWithoutAnything, SeePulse, EnvOK, ProgOK, notis
  <1>9. CASE NoPulse
    <2>1. ReadWithRTC
      BY <1>9 DEF NoPulse
    <2> QED BY <1>9, <2>1, ReadWithRTCType DEF NoPulse, EnvOK, ProgOK
  <1>10. CASE BlockDone
    BY <1>10 DEF BlockDone, EnvOK, ProgOK, env, notis
  <1>11. CASE UNCHANGED vars
    BY <1>11 DEF vars, env, prog, notis, EnvOK, ProgOK
  <1> QED BY <1>1, <1>2, <1>3, <1>4, <1>5, <1>6, <1>7, <1>8, <1>9, <1>10, <1>11
          DEF Next, Iterate

(* The variables have their types.                                         *)
THEOREM AcquisitionTypes == Spec => []TypeOK
  <1> QED BY InitTypeOK, NextTypeOK, PTL DEF Spec

-----------------------------------------------------------------------------
(* The two flags tell whose turn the last notice named.                    *)
NoticeInv ==
    /\ sendNotiPPS = 0 <=> notice.source = "GPS"
    /\ sendNotiSYNC = 0 <=> notice.source = "RTC"
    /\ NoticeMatchesBlock

LEMMA InitNotices == Init => NoticeInv
  BY DEF Init, NoticeInv, NoticeMatchesBlock

LEMMA NextNotices == TypeOK /\ NoticeInv /\ [Next]_vars => NoticeInv'
  <1> SUFFICES ASSUME EnvOK, ProgOK, NoticeInv, [Next]_vars PROVE NoticeInv'
    BY TypeParts
  <1> USE DEF NoticeInv, NoticeMatchesBlock
  <1>1. CASE Tick
    <2>1. block'.source = block.source /\ notice' = notice
      BY <1>1 DEF Tick, ProgOK, notis
    <2> QED BY <1>1, <2>1 DEF Tick, notis
  <1>2. CASE GpsBlock
    <2>1. CASE sendNotiPPS = 1
      BY <1>2, <2>1, SendType DEF GpsBlock, SampleBlock
    <2>2. CASE sendNotiPPS = 0
      BY <1>2, <2>2 DEF GpsBlock, SampleBlock
    <2> QED BY <2>1, <2>2 DEF ProgOK
  <1>3. CASE pc = "poll" /\ ReadWithRTC
    <2>1. notice'.source = "RTC"
      BY <1>3, ReadWithRTCType DEF ProgOK
    <2> QED BY <1>3, <2>1, ReadWithRTCType
  <1>4. CASE BlockDone \/ Report \/ RtcTick \/ RtcGains \/ RtcLoses \/ UNCHANGED vars
    BY <1>4 DEF BlockDone, Report, RtcTick, RtcGains, RtcLoses, vars, prog, notis
  <1>5. CASE PulseWithoutClock \/ PulseWithoutAnything
    BY <1>5 DEF PulseWithoutClock, PulseWithoutAnything, notis
  <1> QED BY <1>1, <1>2, <1>3, <1>4, <1>5
          DEF Next, Iterate, PulseWithoutFix, PulseWithoutSentence, NoPulse, SeePulse

(* While a block is sampled, the last notice named the clock of its label. *)
THEOREM NoticesMatch == Spec => []NoticeMatchesBlock
  <1>1. NoticeInv => NoticeMatchesBlock
    BY DEF NoticeInv
  <1> QED BY <1>1, InitTypeOK, NextTypeOK, InitNotices, NextNotices, PTL DEF Spec

(* Two notices in a row name different clocks.                             *)
THEOREM NoticesTakeTurns == Spec => NoticesAlternate
  <1>1. TypeOK /\ NoticeInv /\ [Next]_vars
          => [notice' # notice => notice'.source # notice.source]_vars
    <2> SUFFICES ASSUME EnvOK, ProgOK, NoticeInv, Next, notice' # notice
                 PROVE  notice'.source # notice.source
      BY TypeParts
    <2>1. CASE GpsBlock
      <3>1. sendNotiPPS = 1 /\ notice'.source = "GPS"
        BY <2>1, SendType DEF GpsBlock, ProgOK
      <3> QED BY <3>1 DEF NoticeInv
    <2>2. CASE ReadWithRTC
      <3>1. sendNotiSYNC = 1 /\ notice'.source = "RTC"
        BY <2>2, ReadWithRTCType DEF ProgOK
      <3> QED BY <3>1 DEF NoticeInv
    <2> QED BY <2>1, <2>2 DEF Next, Iterate, Tick, Report, RtcTick, RtcGains, RtcLoses, BlockDone,
               PulseWithoutFix, PulseWithoutClock, PulseWithoutSentence, PulseWithoutAnything, NoPulse, prog, notis
  <1> QED BY <1>1, InitTypeOK, NextTypeOK, InitNotices, NextNotices, PTL
          DEF Spec, NoticesAlternate

-----------------------------------------------------------------------------
(* What is known of ages.  In a calm second (calm >= 1) the pulse is seen   *)
(* and the UART emptied before the report of that second comes, so that at *)
(* the next pulse, if it is calm as well, the UART holds that report or     *)
(* nothing; and an alarm taken before the RTC has begun the second is       *)
(* cleared, so that it is not taken again.                                 *)
AgeInv ==
    /\ reported => pps = "LOW"
    /\ pc = "sampling" /\ ticks = 1 => calm = 0
    /\ calm >= 1 /\ ~reported => pps = "HIGH"
    /\ pps = "HIGH" => \A i \in 1 .. Len(uart) : uart[i].age >= 1
    /\ calm >= 1 /\ pps = "HIGH" => IF inicio = 0 THEN uart = <<>> ELSE pc = "poll"
    /\ calm >= 1 /\ pps = "LOW" =>
         \A i \in 1 .. Len(uart) : uart[i].age = 0 /\ uart[i].rmc # "lost"
    /\ calm >= 2 /\ pps = "HIGH" =>
         \A i \in 1 .. Len(uart) : uart[i].age = 1 /\ uart[i].rmc # "lost"
    /\ bufTime >= 1

(* The last block: no clock has labelled it later than it says now, and an *)
(* alarm that waits in a calm second is taken for a later one.             *)
BlockInv ==
    /\ IF block.source = "RTC" THEN block.age >= RtcAge ELSE block.age >= 1
    /\ block.source = "none" => block.age = MaxAge
    /\ pps = "HIGH" /\ inicio # 0 /\ block.source = "GPS" => block.age >= 2
    /\ calm >= 1 /\ ~ticked /\ block.source = "GPS" /\ block.age = 1 =>
         \/ sync = "HIGH"
         \/ flag = 0 /\ inicio = 0 /\ (pc = "sampling" \/ pps = "LOW")
    /\ calm >= 2 \/ (calm >= 1 /\ (pps = "LOW" \/ inicio = 0)) =>
         (sync = "LOW" /\ block.source = "RTC" => RtcAge < block.age)

LEMMA InitAges == Init => AgeInv /\ BlockInv
  BY AcquisitionAssumption DEF Init, AgeInv, BlockInv, Never

(* What is read at a pulse was not said in this second.                    *)
LEMMA ReadAges ==
    ASSUME EnvOK, ProgOK, AgeInv, ReadSentences, pps = "HIGH"
    PROVE  bufTime' >= 1
  <1>1. \A i \in 1 .. Len(uart) : uart[i].age >= 1
    BY DEF AgeInv
  <1>2. CASE UNCHANGED <<bufTime, isData>>
    BY <1>2 DEF AgeInv
  <1>3. CASE \E i \in Rmcs : bufTime' = uart[i].age
    BY <1>1, <1>3 DEF Rmcs
  <1> QED BY <1>2, <1>3 DEF ReadSentences

(* A turn of the RTC at a pulse or without one.                            *)
LEMMA RtcAges ==
    ASSUME EnvOK, ProgOK, AgeInv, ReadWithRTC, pc = "poll",
           UNCHANGED <<pps, reported>>,
           bufTime' >= 1,
           \/ pps = "LOW" /\ UNCHANGED <<uart, inicio>>
           \/ pps = "HIGH" /\ uart' = <<>> /\ inicio' = 0
    PROVE  AgeInv'
  <1>1. calm' # 0 => calm' = calm /\ sync' = "HIGH" /\ pc' = "sampling"
    BY ReadWithRTCType
  <1>2. calm \in Nat /\ calm' \in Nat
    BY ReadWithRTCType, AcquisitionAssumption DEF ProgOK
  <1>3. pc' = "sampling" /\ ticks' = 1 => calm' = 0
    BY ReadWithRTCType
  <1>4. CASE pps = "LOW" /\ UNCHANGED <<uart, inicio>>
    BY <1>1, <1>2, <1>3, <1>4 DEF AgeInv
  <1>5. CASE pps = "HIGH" /\ uart' = <<>> /\ inicio' = 0
    BY <1>1, <1>2, <1>3, <1>5 DEF AgeInv
  <1> QED BY <1>4, <1>5

LEMMA NextAges == TypeOK /\ AgeInv /\ [Next]_vars => AgeInv'
  <1> SUFFICES ASSUME EnvOK, ProgOK, AgeInv, [Next]_vars PROVE AgeInv'
    BY TypeParts
  <1>0. calm \in Nat /\ bufTime \in Nat /\ MaxAge \in Nat \ {0, 1} /\ Never = MaxAge + 1
    BY AcquisitionAssumption DEF ProgOK, Never
  <1>1. CASE Tick
    <2>1. uart' = OlderUart
      BY <1>1 DEF Tick, OlderUart
    <2>2. /\ Len(uart') = Len(uart)
          /\ \A i \in 1 .. Len(uart) : /\ uart'[i].rmc = uart[i].rmc
                                       /\ uart'[i].age = Older(uart[i].age)
                                       /\ uart[i].age \in 0 .. MaxAge
      <3>0. \A i \in 1 .. Len(uart) : uart[i] \in Reports3
        BY DEF EnvOK
      <3>1. \A i \in 1 .. Len(uart) : uart[i].age \in 0 .. MaxAge
        BY <3>0 DEF Reports3
      <3> QED BY <2>1, <3>1, OlderUartType DEF EnvOK
    <2>3. ~reported' /\ reported
      BY <1>1 DEF Tick
    <2>4. bufTime' >= 1
      BY <1>0, <1>1 DEF Tick, AgeInv, Older
    <2>5. calm' \in Nat /\ (calm' >= 1 => pc = "poll" /\ pps' = "HIGH") /\ (calm' >= 2 => calm >= 1)
      BY <1>0, <1>1, AcquisitionAssumption DEF Tick, ProgOK
    <2>6. inicio' # 0 /\ pc' = pc
      BY <1>1 DEF Tick, ProgOK
    <2>7. pc' = "sampling" => calm' = 0
      BY <2>5, <2>6
    <2>8. \A i \in 1 .. Len(uart') : uart'[i].age >= 1
      <3>1. \A a \in 0 .. MaxAge : Older(a) >= 1
        BY OlderType
      <3> QED BY <2>2, <3>1
    <2>9. calm' >= 2 => \A i \in 1 .. Len(uart') : uart'[i].age = 1 /\ uart'[i].rmc # "lost"
      <3>1. calm' >= 2 => \A i \in 1 .. Len(uart) : uart[i].age = 0 /\ uart[i].rmc # "lost"
        BY <2>3, <2>5 DEF AgeInv
      <3> QED BY <2>2, <3>1, OlderType
    <2>10. ~(calm' >= 1 /\ pps' = "LOW")
      BY <2>5
    <2>11. /\ reported' => pps' = "LOW"
           /\ pc' = "sampling" /\ ticks' = 1 => calm' = 0
           /\ calm' >= 1 /\ ~reported' => pps' = "HIGH"
      BY <2>3, <2>5, <2>7
    <2>12. calm' >= 1 /\ pps' = "HIGH" => IF inicio' = 0 THEN uart' = <<>> ELSE pc' = "poll"
      BY <2>5, <2>6
    <2> QED BY <2>4, <2>8, <2>9, <2>10, <2>11, <2>12 DEF AgeInv
  <1>2. CASE Report
    <2> DEFINE missed == pc = "poll" /\ pps = "HIGH" /\ inicio # 0
               added == \E r \in {gps} \cup {x \in {"lost"} : RmcMayBeLost} :
                          /\ uart' = Append(uart, [rmc |-> r, age |-> 0])
                          /\ StillCalm(~missed /\ r # "lost")
    <2>0. added \/ (UNCHANGED uart /\ StillCalm(~missed))
      BY <1>2 DEF Report
    <2>1. calm' \in Nat /\ (calm' >= 1 => calm' = calm /\ ~missed)
      <3>1. CASE added
        <4>1. PICK r : StillCalm(~missed /\ r # "lost")
          BY <3>1
        <4> QED BY <1>0, <4>1 DEF StillCalm
      <3>2. CASE StillCalm(~missed)
        BY <1>0, <3>2 DEF StillCalm
      <3> QED BY <2>0, <3>1, <3>2
    <2>2. calm' >= 1 => uart = <<>>
      BY <1>0, <1>2, <2>1 DEF Report, AgeInv, ProgOK
    <2>3. calm' >= 1 => \A i \in 1 .. Len(uart') : uart'[i].age = 0 /\ uart'[i].rmc # "lost"
      <3>1. CASE UNCHANGED uart
        BY <2>2, <3>1
      <3>2. CASE added
        <4>1. PICK r \in {gps} \cup {x \in {"lost"} : RmcMayBeLost} :
                   /\ uart' = Append(uart, [rmc |-> r, age |-> 0])
                   /\ StillCalm(~missed /\ r # "lost")
          BY <3>2
        <4>2. calm' >= 1 => r # "lost"
          BY <4>1 DEF StillCalm
        <4>3. calm' >= 1 => uart' = << [rmc |-> r, age |-> 0] >>
          BY <2>2, <4>1
        <4>4. calm' >= 1 => Len(uart') = 1 /\ uart'[1] = [rmc |-> r, age |-> 0]
          BY <4>3
        <4> QED BY <4>2, <4>4
      <3> QED BY <2>0, <3>1, <3>2
    <2>4. UNCHANGED prog /\ pps' = "LOW" /\ reported' = TRUE
      BY <1>2 DEF Report
    <2>5. UNCHANGED <<pc, ticks, inicio, bufTime>>
      BY <2>4 DEF prog
    <2> QED BY <2>1, <2>3, <2>4, <2>5 DEF AgeInv
  <1>3. CASE RtcTick \/ RtcGains \/ RtcLoses
    BY <1>3 DEF RtcTick, RtcGains, RtcLoses, AgeInv, prog
  <1>4. CASE GpsBlock
    <2>1. uart' = <<>> /\ pps = "HIGH" /\ bufTime' >= 1
      BY <1>4, ReadAges DEF GpsBlock, SeePulse, ReadSentences
    <2> QED BY <1>0, <1>4, <2>1 DEF GpsBlock, SeePulse, SampleBlock, AgeInv
  <1>5. CASE PulseWithoutFix
    BY <1>5, ReadAges, RtcAges DEF PulseWithoutFix, SeePulse, ReadSentences
  <1>6. CASE PulseWithoutClock
    <2>1. uart' = <<>> /\ pps = "HIGH" /\ bufTime' >= 1
      BY <1>6, ReadAges DEF PulseWithoutClock, SeePulse, ReadSentences
    <2> QED BY <1>0, <1>6, <2>1 DEF PulseWithoutClock, SeePulse, AgeInv
  <1>7. CASE PulseWithoutSentence
    BY <1>7, RtcAges DEF PulseWithoutSentence, SeePulse, AgeInv
  <1>8. CASE PulseWithoutAnything
    BY <1>0, <1>8 DEF PulseWithoutAnything, SeePulse, AgeInv
  <1>9. CASE NoPulse
    BY <1>9, RtcAges DEF NoPulse, AgeInv
  <1>10. CASE BlockDone
    BY <1>0, <1>10 DEF BlockDone, AgeInv, env, ProgOK
  <1>11. CASE UNCHANGED vars
    BY <1>11 DEF vars, env, prog, AgeInv
  <1> QED BY <1>1, <1>2, <1>3, <1>4, <1>5, <1>6, <1>7, <1>8, <1>9, <1>10, <1>11
          DEF Next, Iterate

(* What is said of the last block stays true.                               *)
LEMMA NextBlocks == TypeOK /\ AgeInv /\ BlockInv /\ [Next]_vars => BlockInv'
  <1> SUFFICES ASSUME EnvOK, ProgOK, AgeInv, BlockInv, [Next]_vars PROVE BlockInv'
    BY TypeParts
  <1>0. /\ calm \in Nat /\ MaxAge \in Nat \ {0, 1} /\ block.age \in Int
        /\ behind \in Int /\ RtcAge \in Int /\ behind + 3 <= MaxAge
        /\ RtcAge = IF ticked THEN behind + 1 ELSE behind + 2
        /\ ticked \in BOOLEAN
    BY AcquisitionAssumption, RtcAgeType DEF ProgOK, EnvOK
  <1>1. CASE Tick
    <2>1. /\ ticked /\ ~ticked' /\ behind' = behind /\ sync' = sync /\ reported
          /\ block'.source = block.source /\ block'.age = Older(block.age)
      BY <1>1 DEF Tick, ProgOK
    <2>2. RtcAge' = RtcAge + 1
      BY <1>0, <2>1 DEF RtcAge
    <2>3. /\ Older(block.age) \in Int
          /\ Older(block.age) = block.age + 1 \/ Older(block.age) >= MaxAge
          /\ block.age = MaxAge => Older(block.age) = MaxAge
      BY <1>0, OlderInt
    <2>4. /\ calm' \in Nat /\ (calm' >= 2 => calm >= 1) /\ inicio' # 0
          /\ calm' >= 1 => pps' = "HIGH"
      <3>1. calm' = 0 \/ (gps' \in Pulses /\ (calm' = calm + 1 \/ calm' = calm))
        BY <1>1 DEF Tick
      <3>2. inicio' # 0 /\ (gps' \in Pulses => pps' = "HIGH")
        BY <1>1 DEF Tick, ProgOK
      <3>3. calm' >= 2 => calm >= 1
        BY <1>0, <3>1
      <3> QED BY <1>0, <3>1, <3>2, <3>3
    <2>5. pps = "LOW"
      BY <2>1 DEF AgeInv
    <2>6. block.source = "RTC" /\ RtcAge < block.age => RtcAge' < block'.age
      BY <1>0, <2>1, <2>2, <2>3
    <2>7. block.source # "RTC" => block'.age >= 2
      BY <1>0, <2>1, <2>3 DEF BlockInv
    <2>8. block.source = "RTC" => block'.age >= RtcAge'
      BY <1>0, <2>1, <2>2, <2>3 DEF BlockInv
    <2> QED BY <2>1, <2>3, <2>4, <2>5, <2>6, <2>7, <2>8 DEF BlockInv
  <1>2. CASE Report
    <2>1. calm' = calm \/ calm' = 0
      BY <1>2 DEF Report, StillCalm
    <2>2. UNCHANGED <<sync, ticked, behind, pc, inicio, flag, block>> /\ RtcAge' = RtcAge
      BY <1>2 DEF Report, prog, RtcAge
    <2>3. pps' = "LOW" /\ ~reported
      BY <1>2 DEF Report
    <2>4. calm' >= 1 => pps = "HIGH" /\ calm >= 1
      BY <1>0, <2>1, <2>3 DEF AgeInv
    <2>5. calm' >= 1 => inicio = 0
      <3>1. StillCalm(~(pc = "poll" /\ pps = "HIGH" /\ inicio # 0)) \/ calm' = 0 \/ ~(pc = "poll" /\ pps = "HIGH" /\ inicio # 0)
        BY <1>2 DEF Report, StillCalm
      <3>2. calm' >= 1 => ~(pc = "poll" /\ pps = "HIGH" /\ inicio # 0)
        BY <3>1 DEF StillCalm
      <3> QED BY <2>4, <3>2 DEF AgeInv
    <2> QED BY <1>0, <2>1, <2>2, <2>3, <2>4, <2>5 DEF BlockInv
  <1>3. CASE RtcTick \/ RtcGains \/ RtcLoses
    <2>1. UNCHANGED <<pps, pc, inicio, flag, block, calm>>
      BY <1>3 DEF RtcTick, RtcGains, RtcLoses, prog
    <2>2. ticked' /\ RtcAge' <= RtcAge /\ RtcAge' \in Int /\ (sync' = sync \/ RtcAge' < RtcAge)
      BY <1>0, <1>3 DEF RtcTick, RtcGains, RtcLoses, RtcAge
    <2> QED BY <1>0, <2>1, <2>2 DEF BlockInv
  <1>4. CASE GpsBlock
    <2>1. bufTime' >= 1 /\ bufTime' \in Int
      BY <1>4, ReadAges, ReadSentencesType, AcquisitionAssumption DEF GpsBlock, SeePulse, Never
    <2>2. /\ block' = [source |-> "GPS", age |-> bufTime'] /\ pc' = "sampling"
          /\ flag' = 0 /\ inicio' = 0 /\ calm' = calm
      BY <1>4 DEF GpsBlock, SeePulse, SampleBlock
    <2> QED BY <2>1, <2>2 DEF BlockInv
  <1>5. CASE ReadWithRTC /\ UNCHANGED <<pps, ticked, behind>> /\ (inicio' = inicio \/ inicio' = 0)
    <2>1. RtcAge' = RtcAge
      BY <1>5 DEF RtcAge
    <2>2. /\ \/ block' = [source |-> "RTC", age |-> RtcAge]
             \/ block' = block
          /\ calm' \in Nat /\ (calm' # 0 => sync' = "HIGH")
      BY <1>5, ReadWithRTCType, AcquisitionAssumption
    <2> QED BY <1>0, <1>5, <2>1, <2>2 DEF BlockInv
  <1>6. CASE PulseWithoutClock \/ PulseWithoutAnything
    <2>1. sync' = "HIGH" /\ UNCHANGED <<ticked, behind, block>> /\ inicio' = 0
      BY <1>6 DEF PulseWithoutClock, PulseWithoutAnything, SeePulse
    <2>2. RtcAge' = RtcAge
      BY <2>1 DEF RtcAge
    <2> QED BY <2>1, <2>2 DEF BlockInv
  <1>7. CASE BlockDone
    <2>1. UNCHANGED <<pps, sync, ticked, behind, inicio, flag, block, calm>> /\ pc = "sampling"
      BY <1>7 DEF BlockDone, env
    <2>2. RtcAge' = RtcAge
      BY <2>1 DEF RtcAge
    <2>3. calm >= 1 => pps = "LOW"
      BY <1>0, <1>7 DEF BlockDone, AgeInv, ProgOK
    <2> QED BY <2>1, <2>2, <2>3 DEF BlockInv
  <1>8. CASE UNCHANGED vars
    BY <1>8 DEF vars, env, prog, BlockInv, RtcAge
  <1> QED BY <1>1, <1>2, <1>3, <1>4, <1>5, <1>6, <1>7, <1>8
          DEF Next, Iterate, PulseWithoutFix, PulseWithoutSentence, NoPulse, SeePulse

(* At a pulse after two calm seconds the sentences are those of the second *)
(* before.                                                                 *)
LEMMA CalmRead ==
    ASSUME EnvOK, ProgOK, AgeInv, ReadSentences, pps = "HIGH", calm >= 2
    PROVE  bufTime' = 1
  <1>1. \A i \in 1 .. Len(uart) : uart[i].age = 1 /\ uart[i].rmc # "lost"
    BY DEF AgeInv
  <1>2. Len(uart) \in Nat \ {0}
    BY DEF ReadSentences, EnvOK
  <1>3. Rmcs # {}
    BY <1>1, <1>2 DEF Rmcs
  <1>4. PICK i \in Rmcs : bufTime' = uart[i].age
    BY <1>3 DEF ReadSentences
  <1> QED BY <1>1, <1>4 DEF Rmcs

(* The actions that begin a block.                                         *)
LEMMA StartsBlock ==
    ASSUME Next, pc = "poll", pc' = "sampling"
    PROVE  GpsBlock \/ (ReadWithRTC /\ (pps = "HIGH" \/ inicio > 2 \/ flag = 1))
  BY DEF Next, Iterate, Tick, Report, RtcTick, RtcGains, RtcLoses, BlockDone, PulseWithoutFix,
         PulseWithoutClock, PulseWithoutSentence, PulseWithoutAnything, NoPulse, SeePulse, prog

(* After two calm seconds labels are fresh: a block that begins with the   *)
(* GPS's time has the label of the second before.                          *)
THEOREM CalmBlocksAreFresh == Spec => BlocksAreFresh
  <1>1. TypeOK /\ AgeInv /\ [Next]_vars
          => [pc = "poll" /\ pc' = "sampling" /\ calm >= 2 =>
               (block'.source = "GPS" => block'.age = 1)]_vars
    <2> SUFFICES ASSUME EnvOK, ProgOK, AgeInv, Next, pc = "poll", pc' = "sampling", calm >= 2,
                        block'.source = "GPS"
                 PROVE  block'.age = 1
      BY TypeParts
    <2>1. CASE GpsBlock
      <3>1. bufTime' = 1
        BY <2>1, CalmRead DEF GpsBlock, SeePulse
      <3> QED BY <2>1, <3>1 DEF GpsBlock, SampleBlock
    <2>2. CASE ReadWithRTC
      <3>1. block' = [source |-> "RTC", age |-> RtcAge]
        BY <2>2, ReadWithRTCType
      <3> QED BY <3>1
    <2> QED BY <2>1, <2>2, StartsBlock
  <1> QED BY <1>1, InitTypeOK, NextTypeOK, InitAges, NextAges, PTL DEF Spec, BlocksAreFresh

(* After two calm seconds the labels of one clock advance, and at a hand-  *)
(* over they go back by no more than the RTC is wrong, whatever its error. *)
THEOREM CalmLabelsAdvance == Spec => LabelsAdvance
  <1>1. TypeOK /\ AgeInv /\ BlockInv /\ [Next]_vars
          => [pc = "poll" /\ pc' = "sampling" /\ calm >= 2 =>
               LET back == block'.age - block.age IN
               \/ back < 0
               \/ block'.source # block.source /\ back = 0
               \/ block.source = "GPS" /\ block'.source = "RTC" /\ back <= behind
               \/ block.source = "RTC" /\ block'.source = "GPS" /\ back <= -behind]_vars
    <2> SUFFICES ASSUME EnvOK, ProgOK, AgeInv, BlockInv, Next,
                        pc = "poll", pc' = "sampling", calm >= 2
                 PROVE  LET back == block'.age - block.age IN
                        \/ back < 0
                        \/ block'.source # block.source /\ back = 0
                        \/ block.source = "GPS" /\ block'.source = "RTC" /\ back <= behind
                        \/ block.source = "RTC" /\ block'.source = "GPS" /\ back <= -behind
      BY TypeParts
    <2>0. /\ block.age \in Int /\ behind \in Int /\ RtcAge \in Int /\ behind + 3 <= MaxAge
          /\ RtcAge = IF ticked THEN behind + 1 ELSE behind + 2
          /\ calm \in Nat /\ MaxAge \in Nat \ {0, 1}
      BY RtcAgeType, AcquisitionAssumption DEF ProgOK
    <2>1. CASE GpsBlock
      <3>1. block' = [source |-> "GPS", age |-> 1]
        <4>1. bufTime' = 1
          BY <2>1, CalmRead DEF GpsBlock, SeePulse
        <4> QED BY <2>1, <4>1 DEF GpsBlock, SampleBlock
      <3>2. CASE block.source = "GPS"
        <4>1. block.age >= 2
          <5>1. uart # <<>> /\ pps = "HIGH"
            BY <2>1 DEF GpsBlock, ReadSentences, SeePulse
          <5>2. inicio # 0
            BY <2>0, <5>1 DEF AgeInv
          <5> QED BY <3>2, <5>1, <5>2 DEF BlockInv
        <4> QED BY <2>0, <3>1, <3>2, <4>1 DEF BlockInv
      <3>3. CASE block.source = "RTC"
        BY <2>0, <3>1, <3>3 DEF BlockInv
      <3>4. CASE block.source = "none"
        BY <2>0, <3>1, <3>4 DEF BlockInv
      <3> QED BY <3>2, <3>3, <3>4 DEF ProgOK
    <2>2. CASE ReadWithRTC /\ (pps = "HIGH" \/ inicio > 2 \/ flag = 1)
      <3>1. block' = [source |-> "RTC", age |-> RtcAge] /\ sync = "LOW"
        BY <2>2, ReadWithRTCType DEF ReadWithRTC
      <3>2. CASE block.source = "GPS"
        <4>1. ~ticked => block.age # 1
          BY <2>0, <2>2, <3>1, <3>2 DEF BlockInv, ProgOK
        <4> QED BY <2>0, <3>1, <3>2, <4>1 DEF BlockInv
      <3>3. CASE block.source = "RTC"
        BY <2>0, <3>1, <3>3 DEF BlockInv
      <3>4. CASE block.source = "none"
        BY <2>0, <3>1, <3>4 DEF BlockInv
      <3> QED BY <3>2, <3>3, <3>4 DEF ProgOK
    <2> QED BY <2>1, <2>2, StartsBlock
  <1> QED BY <1>1, InitTypeOK, NextTypeOK, InitAges, NextAges, NextBlocks, PTL
          DEF Spec, LabelsAdvance

=============================================================================
