------------------------------- MODULE McuProofs -------------------------------
(***************************************************************************)
(* Proofs about the MCU's drivers (McuDrivers) and tasks (McuTasks).         *)
(***************************************************************************)
EXTENDS McuTasks, McuDrivers, SequenceTheorems, TLAPS

-----------------------------------------------------------------------------
(* The ADC                                                                 *)

AdcTypeOK ==
    /\ adc_dma_buf \in [0 .. 1 -> [ch14 : Nat, ch15 : Nat]]
    /\ cndtr \in 1 .. 4
    /\ scan \in Nat \ {0}
    /\ flags \in SUBSET {"HT", "TC"}
    /\ late \in 0 .. 1
    /\ masked \in BOOLEAN /\ adc_frame_ready \in BOOLEAN /\ valid \in BOOLEAN
    /\ adc_frame_idx \in 0 .. 1 /\ idx \in 0 .. 1
    /\ shadow \in [ch14 : Nat, ch15 : Nat]
    /\ pc \in {"out", "ready", "copy14", "copy15", "enable", "return"}
    /\ announced \in Nat /\ floor \in Nat

(* The frame the DMA has completed last, and the flag it raised for it. *)
Newest == IF cndtr > 2 THEN 1 ELSE 0
FlagOf(frame) == IF frame = 1 THEN "TC" ELSE "HT"

(* Frame f holds one whole scan. *)
Whole(f) == adc_dma_buf[f].ch14 = adc_dma_buf[f].ch15

(* The newest complete frame holds the scan before the one being converted; the  *)
(* other one is complete until the DMA has written its first half-word.         *)
BufInv ==
    /\ Whole(Newest) /\ adc_dma_buf[Newest].ch15 = scan - 1
    /\ cndtr \in {2, 4} => Whole(1 - Newest)
    /\ cndtr \in {1, 3} => adc_dma_buf[1 - Newest].ch14 = scan

(* What the interrupt has announced is the newest scan, or its flag is pending   *)
(* and at most one more half-word was written.                                *)
FlagInv ==
    /\ flags = {} => /\ announced = scan - 1
                     /\ announced > 0 => adc_frame_idx = Newest
    /\ flags # {} => /\ announced = scan - 2
                     /\ flags = {FlagOf(Newest)}
                     /\ masked => late = 1
                     /\ cndtr \in {1, 3} => late = 1 /\ ~masked
    /\ adc_frame_ready => announced > 0

(* With interrupts off the index names a complete frame with the scan announced. *)
MaskInv ==
    /\ masked <=> pc \in {"copy14", "copy15", "enable"}
    /\ pc \in {"ready", "copy14", "copy15"} => adc_frame_ready
    /\ masked => /\ announced > 0
                 /\ idx = adc_frame_idx
                 /\ Whole(idx) /\ adc_dma_buf[idx].ch15 = announced
                 /\ flags # {} => idx = 1 - Newest

(* What was copied. *)
ShadowInv ==
    /\ pc # "out" => floor <= announced
    /\ ~adc_frame_ready => IF valid THEN shadow.ch15 = announced ELSE announced = 0
    /\ pc = "copy15" => shadow.ch14 = announced
    /\ pc = "enable" => shadow.ch14 = announced /\ shadow.ch15 = announced /\ valid
    /\ valid /\ pc # "copy15" => shadow.ch14 = shadow.ch15

AdcInv ==
    /\ AdcTypeOK /\ BufInv /\ FlagInv /\ MaskInv /\ ShadowInv
    /\ PairOfOneScan /\ NewestScanReturned

LEMMA InitAdcInv == AdcInit => AdcInv
<1> SUFFICES ASSUME AdcInit PROVE AdcInv
  OBVIOUS
<1>1. adc_dma_buf \in [0 .. 1 -> [ch14 : Nat, ch15 : Nat]] /\ shadow \in [ch14 : Nat, ch15 : Nat]
  BY DEF AdcInit
<1>2. \A f \in 0 .. 1 : adc_dma_buf[f].ch14 = 0 /\ adc_dma_buf[f].ch15 = 0
  BY DEF AdcInit
<1>3. AdcTypeOK
  <2>1. masked \in BOOLEAN /\ adc_frame_ready \in BOOLEAN /\ valid \in BOOLEAN
    BY Zenon DEF AdcInit
  <2> QED
    BY <1>1, <2>1 DEF AdcInit, AdcTypeOK
<1>4. BufInv
  BY <1>2 DEF AdcInit, BufInv, Newest, Whole
<1> QED
  BY <1>3, <1>4 DEF AdcInit, AdcInv, FlagInv, MaskInv, ShadowInv,
                    PairOfOneScan, NewestScanReturned

(* One case for each place of the DMA in its round. *)
LEMMA DmaKeepsAdcInv == AdcInv /\ dmaWrites => AdcInv'
<1> SUFFICES ASSUME AdcInv, dmaWrites PROVE AdcInv'
  OBVIOUS
<1> USE LatencyAssumption
    DEF AdcInv, AdcTypeOK, BufInv, FlagInv, MaskInv, ShadowInv, Newest, Whole, FlagOf,
        PairOfOneScan, NewestScanReturned
<1>1. CASE cndtr = 4
  <2>1. /\ adc_dma_buf'[0].ch14 = scan /\ adc_dma_buf'[0].ch15 = adc_dma_buf[0].ch15
        /\ adc_dma_buf'[1] = adc_dma_buf[1]
        /\ adc_dma_buf' \in [0 .. 1 -> [ch14 : Nat, ch15 : Nat]]
        /\ cndtr' = 3 /\ scan' = scan /\ flags' = flags
    BY <1>1 DEF dmaWrites, FrameOf, Channel
  <2> QED
    BY <1>1, <2>1 DEF dmaWrites
<1>2. CASE cndtr = 3
  BY <1>2 DEF dmaWrites, FrameOf, Channel
<1>3. CASE cndtr = 2
  <2>1. /\ adc_dma_buf'[1].ch14 = scan /\ adc_dma_buf'[1].ch15 = adc_dma_buf[1].ch15
        /\ adc_dma_buf'[0] = adc_dma_buf[0]
        /\ adc_dma_buf' \in [0 .. 1 -> [ch14 : Nat, ch15 : Nat]]
        /\ cndtr' = 1 /\ scan' = scan /\ flags' = flags
    BY <1>3 DEF dmaWrites, FrameOf, Channel
  <2> QED
    BY <1>3, <2>1 DEF dmaWrites
<1>4. CASE cndtr = 1
  BY <1>4 DEF dmaWrites, FrameOf, Channel
<1> QED
  BY <1>1, <1>2, <1>3, <1>4

LEMMA NextAdcInv == AdcInv /\ [AdcNext]_adcVars => AdcInv'
<1> SUFFICES ASSUME AdcInv, [AdcNext]_adcVars PROVE AdcInv'
  OBVIOUS
<1> USE DEF AdcInv, AdcTypeOK, BufInv, FlagInv, MaskInv, ShadowInv, Newest, Whole, FlagOf,
            PairOfOneScan, NewestScanReturned
<1>1. CASE dmaWrites
  BY <1>1, DmaKeepsAdcInv
<1>2. CASE DMA1_Channel1_IRQHandler
  BY <1>2 DEF DMA1_Channel1_IRQHandler
<1>3. CASE testsReady
  BY <1>3 DEF testsReady, At
<1>4. CASE disable_irq
  BY <1>4 DEF disable_irq, At
<1>5. CASE copies14
  <2>1. /\ shadow'.ch14 = announced /\ shadow'.ch15 = shadow.ch15
        /\ shadow' \in [ch14 : Nat, ch15 : Nat]
    BY <1>5 DEF copies14, At
  <2> QED
    BY <1>5, <2>1 DEF copies14, At
<1>6. CASE copies15
  <2>1. /\ shadow'.ch14 = announced /\ shadow'.ch15 = announced
        /\ shadow' \in [ch14 : Nat, ch15 : Nat]
    BY <1>6 DEF copies15, At
  <2> QED
    BY <1>6, <2>1 DEF copies15, At
<1>7. CASE enable_irq
  <2>1. masked /\ masked' = FALSE /\ pc' = "return" /\ valid /\ announced > 0
    BY <1>7 DEF enable_irq, At
  <2>2. UNCHANGED <<adc_dma_buf, cndtr, scan, flags, adc_frame_ready, adc_frame_idx, shadow, valid,
                    idx, announced, floor>>
    BY <1>7 DEF enable_irq
  <2>3. AdcTypeOK'
    <3>1. masked' \in BOOLEAN
      BY <2>1, Zenon
    <3>2. late' \in 0 .. 1
      BY <1>7 DEF enable_irq
    <3> QED
      BY <2>1, <2>2, <3>1, <3>2
  <2>4. BufInv' /\ FlagInv'
    BY <1>7, <2>1, <2>2 DEF enable_irq
  <2>5. MaskInv' /\ ShadowInv' /\ PairOfOneScan' /\ NewestScanReturned'
    BY <1>7, <2>1, <2>2 DEF enable_irq, At
  <2> QED
    BY <2>3, <2>4, <2>5
<1>8. CASE returns
  BY <1>8 DEF returns, At
<1>9. CASE UNCHANGED adcVars
  BY <1>9 DEF adcVars
<1> QED
  BY <1>1, <1>2, <1>3, <1>4, <1>5, <1>6, <1>7, <1>8, <1>9 DEF AdcNext

(* The ADC driver, whose steps leave the PWM alone and the other way round. *)
LEMMA AdcInvariant == DriverSpec => []AdcInv
<1>1. AdcInit => AdcInv
  BY InitAdcInv
<1>2. AdcInv /\ [AdcNext \/ PwmNext]_<<adcVars, pwmVars>> => AdcInv'
  <2>1. [AdcNext \/ PwmNext]_<<adcVars, pwmVars>> => [AdcNext]_adcVars
    BY DEF PwmNext, RPC_PWM_Setout
  <2> QED
    BY <2>1, NextAdcInv
<1> QED
  BY <1>1, <1>2, PTL DEF DriverSpec

(* The two values BKEL_BSW_ADC_GetValue returns are of one scan, although the DMA   *)
(* goes on writing while it copies them.                                            *)
THEOREM AdcPairIsWhole == DriverSpec => []PairOfOneScan
<1>1. AdcInv => PairOfOneScan
  BY DEF AdcInv
<1> QED
  BY <1>1, AdcInvariant, PTL

(* They are of the newest scan that was complete when it was asked for. *)
THEOREM AdcPairIsNewest == DriverSpec => []NewestScanReturned
<1>1. AdcInv => NewestScanReturned
  BY DEF AdcInv
<1> QED
  BY <1>1, AdcInvariant, PTL

-----------------------------------------------------------------------------
(* The PWM output                                                          *)

Capped(duty) == IF duty > 100 THEN 100 ELSE duty

(* The registers are what the last setting makes of them; BKEL_PWM_Init puts one *)
(* less into ARR than RPC_PWM_Setout would.                                    *)
PwmInv ==
    /\ setting \in (1 .. 255) \X (0 .. 255)
    /\ arr = 1000000 \div (setting[1] * 1000) \/ (setting[1] = 1 /\ arr = 999)
    /\ ccr1 = ((arr + 1) * Capped(setting[2])) \div 100

(* What \div promises. *)
LEMMA DivBounds ==
  ASSUME NEW n \in Nat, NEW a \in Nat, a > 0
  PROVE  /\ n \div a \in Nat
         /\ (n \div a) * a <= n
         /\ n < (n \div a) * a + a
  BY Z3

(* Rounding the compare value and rounding again when it is read back cost at     *)
(* most six per cent of duty, as long as the counter has 16 steps or more.       *)
LEMMA DutyWithinSix ==
  ASSUME NEW a \in Nat, NEW d \in Nat, NEW c \in Nat, NEW q \in Nat,
         a >= 16, d <= 100,
         c * 100 <= (a + 1) * d, (a + 1) * d < c * 100 + 100,
         q * a <= c * 100, c * 100 < q * a + a
  PROVE  q \in d - 6 .. d + 6
<1>1. (a + 1) * d = d * a + d
  OBVIOUS
<1>2. q <= d + 6
  <2> SUFFICES ASSUME q >= d + 7 PROVE FALSE
    OBVIOUS
  <2>1. PICK e \in Nat : q = d + 7 + e
    OBVIOUS
  <2>2. q * a = d * a + 7 * a + e * a /\ e * a >= 0
    BY <2>1
  <2> QED
    BY <1>1, <2>2
<1>3. q >= d - 6
  <2> SUFFICES ASSUME d >= q + 7 PROVE FALSE
    OBVIOUS
  <2>1. PICK e \in Nat : d = q + 7 + e
    OBVIOUS
  <2>2. d * a = q * a + 7 * a + e * a /\ e * a >= 0
    BY <2>1
  <2> QED
    BY <1>1, <2>1, <2>2
<1> QED
  BY <1>2, <1>3

(* Every period up to 62 leaves a counter of 16 steps or more, and is read back   *)
(* within what the property allows.                                            *)
LEMMA PeriodReadBack ==
  ASSUME NEW p \in 1 .. 62, NEW a \in Int,
         a = 1000000 \div (p * 1000) \/ (p = 1 /\ a = 999)
  PROVE  /\ a \in 16 .. 1000
         /\ ((1000000 \div a) % 65536) \div 999 \in p .. p + 3
         /\ p <= 35 => ((1000000 \div a) % 65536) \div 999 = p
  BY SMTT(60)

LEMMA PwmInvReadsBack == PwmInv => PwmReadsBack
<1> SUFFICES ASSUME PwmInv, setting[1] <= 62 PROVE PwmReadsBack
  BY SMT DEF PwmInv, PwmReadsBack
<1> DEFINE p == setting[1]
           d == Capped(setting[2])
           q == (ccr1 * 100) \div arr
<1>1. p \in 1 .. 62 /\ d \in 0 .. 100
  BY SMT DEF PwmInv, Capped
<1>2. arr \in Int /\ (arr = 1000000 \div (p * 1000) \/ (p = 1 /\ arr = 999))
  BY <1>1, SMT DEF PwmInv
<1>3. /\ arr \in 16 .. 1000
      /\ ((1000000 \div arr) % 65536) \div 999 \in p .. p + 3
      /\ p <= 35 => ((1000000 \div arr) % 65536) \div 999 = p
  <2>1. PICK a \in Int : a = arr
    BY <1>2, SMT
  <2>2. p \in 1 .. 62 /\ (a = 1000000 \div (p * 1000) \/ (p = 1 /\ a = 999))
    BY <1>1, <1>2, <2>1, SMT
  <2> HIDE DEF p
  <2>3. /\ a \in 16 .. 1000
        /\ ((1000000 \div a) % 65536) \div 999 \in p .. p + 3
        /\ p <= 35 => ((1000000 \div a) % 65536) \div 999 = p
    BY <2>2, PeriodReadBack, SMTT(60)
  <2> QED
    BY <2>1, <2>3, SMT
<1>4. BKEL_PWM_ReadPeriod \in p .. p + 3 /\ (p <= 35 => BKEL_PWM_ReadPeriod = p)
  BY <1>1, <1>3, SMT DEF BKEL_PWM_ReadPeriod
<1>5. /\ (arr + 1) * d \in Nat
      /\ ccr1 = ((arr + 1) * d) \div 100
  BY <1>1, <1>3, SMT DEF PwmInv
<1>6. /\ ccr1 \in Nat /\ ccr1 * 100 \in Nat
      /\ ccr1 * 100 <= (arr + 1) * d
      /\ (arr + 1) * d < ccr1 * 100 + 100
  BY <1>5, DivBounds
<1>7. q \in Nat /\ q * arr <= ccr1 * 100 /\ ccr1 * 100 < q * arr + arr
  BY <1>3, <1>6, DivBounds
<1>8. q \in d - 6 .. d + 6
  <2>1. arr \in Nat /\ arr >= 16 /\ d \in Nat /\ d <= 100
    BY <1>1, <1>3
  <2> HIDE DEF q, d
  <2> QED
    BY <2>1, <1>6, <1>7, DutyWithinSix, SMT
<1>9. BKEL_PWM_ReadDuty = q
  <2>1. q \in 0 .. 106
    BY <1>1, <1>7, <1>8
  <2> QED
    BY <1>3, <2>1 DEF BKEL_PWM_ReadDuty
<1> QED
  BY <1>1, <1>4, <1>8, <1>9 DEF PwmReadsBack, Capped

LEMMA NextPwmInv == PwmInv /\ [PwmNext]_pwmVars => PwmInv'
<1> SUFFICES ASSUME PwmInv, [PwmNext]_pwmVars PROVE PwmInv'
  OBVIOUS
<1>1. CASE UNCHANGED pwmVars
  BY <1>1, SMT DEF pwmVars, PwmInv, Capped
<1>2. ASSUME NEW s \in Settings, RPC_PWM_Setout(s[1], s[2])
      PROVE  PwmInv'
  <2>1. s[1] \in 0 .. 255 /\ s[2] \in 0 .. 255
    BY SettingAssumption
  <2>2. CASE s[1] = 0
    <3>1. setting' = <<setting[1], s[2]>> /\ arr' = arr
      BY <1>2, <2>2, SMT DEF RPC_PWM_Setout
    <3> QED
      BY <1>2, <2>1, <3>1, SMT DEF RPC_PWM_Setout, PwmInv, Capped
  <2>3. CASE s[1] # 0
    <3>1. setting' = <<s[1], s[2]>> /\ arr' = 1000000 \div (s[1] * 1000)
      BY <1>2, <2>3, SMT DEF RPC_PWM_Setout
    <3> QED
      BY <1>2, <2>1, <2>3, <3>1, SMT DEF RPC_PWM_Setout, PwmInv, Capped
  <2> QED
    BY <2>2, <2>3
<1> QED
  BY <1>1, <1>2 DEF PwmNext

(* For every setting an RPC may carry, in any order: the period that            *)
(* BKEL_PWM_ReadPeriod reports is the one set, and so is the duty, within the     *)
(* tolerances PwmReadsBack names.                                              *)
THEOREM PwmIsReadBack == DriverSpec => []PwmReadsBack
<1>1. PwmInit => PwmInv
  BY SMT DEF PwmInit, PwmInv, Capped
<1>2. PwmInv /\ [AdcNext \/ PwmNext]_<<adcVars, pwmVars>> => PwmInv'
  <2>1. [AdcNext \/ PwmNext]_<<adcVars, pwmVars>> => [PwmNext]_pwmVars
    BY DEF AdcNext, dmaWrites, DMA1_Channel1_IRQHandler, testsReady, disable_irq, copies14,
           copies15, enable_irq, returns
  <2> QED
    BY <2>1, NextPwmInv
<1> QED
  BY <1>1, <1>2, PwmInvReadsBack, PTL DEF DriverSpec

-----------------------------------------------------------------------------
(* The tasks: lemmas                                                       *)

LEMMA TaskSet ==
  /\ Task = {"advertise", "command", "diag", "rpc"}
  /\ Priority["advertise"] = 5 /\ Priority["command"] = 11
  /\ Priority["diag"] = 12 /\ Priority["rpc"] = 12
  BY DEF Task, Priority

(* Which tasks the scheduler has found not ready when a task runs. *)
LEMMA RunsAlone ==
  /\ Runs("command") => ~Ready("diag") /\ ~Ready("rpc")
  /\ Runs("advertise") => ~Ready("command") /\ ~Ready("diag") /\ ~Ready("rpc")
  BY TaskSet DEF Runs

(* When a task that is up is ready. *)
LEMMA ReadyTasks ==
  ASSUME boot \in Off .. Running
  PROVE  /\ boot >= DiagExists => (Ready("diag") <=> tx["diag"] # Idle \/ "diag" \in notified)
         /\ boot >= Running => (Ready("rpc") <=> \/ tx["rpc"] # Idle \/ "rpc" \in notified
                                                \/ executing # "none")
         /\ boot >= CommandExists =>
              (Ready("command") <=> \/ tx["command"] # Idle \/ parsing
                                    \/ rxStream # <<>> \/ "command" \in notified)
<1>1. boot >= CommandExists => ~(boot < StreamExists)
  BY DEF CommandExists, StreamExists, Off, Running
<1> QED
  BY <1>1 DEF Ready, Exists

LEMMA RestOfRound ==
  ASSUME NEW a \in Nat, NEW b \in Nat, b > 0
  PROVE  a % b \in Nat /\ a % b <= a
  BY Z3

LEMMA MinOfTwo ==
  ASSUME NEW a \in Int, NEW b \in Int
  PROVE  Min({a, b}) = IF a <= b THEN a ELSE b
  BY DEF Min

(* A part of a sequence has its type. *)
LEMMA PartOfSeq ==
  ASSUME NEW S, NEW s \in Seq(S), NEW m \in Nat \ {0}, NEW n \in Int, n <= Len(s)
  PROVE  /\ SubSeq(s, m, n) \in Seq(S)
         /\ Len(SubSeq(s, m, n)) = IF m <= n THEN n - m + 1 ELSE 0
<1>1. \A i \in m .. n : s[i] \in S
  OBVIOUS
<1> QED
  BY <1>1, SubSeqProperties

-----------------------------------------------------------------------------
(* The tasks: reception                                                    *)

RxTypeOK ==
    /\ toArrive \in [Uart -> Seq(RequestByte)]
    /\ rxStream \in Seq(RequestByte) /\ Len(rxStream) <= StreamSize
    /\ rx_buf \in Seq(RequestByte)
    /\ accepted \subseteq Requests

LEMMA IrqKeepsRxType ==
  ASSUME RxTypeOK, NEW u \in Uart, NEW n \in 1 .. Len(toArrive[u]), USART_IRQHandler(u, n)
  PROVE  RxTypeOK'
<1> USE DEF RxTypeOK
<1> DEFINE burst == SubSeq(toArrive[u], 1, n)
           bytes == Received(burst)
<1>1. toArrive[u] \in Seq(RequestByte) /\ Len(toArrive[u]) \in Nat
  OBVIOUS
<1>2. burst \in Seq(RequestByte) /\ Len(burst) \in Nat
  <2>1. burst \in Seq(RequestByte)
    BY <1>1, PartOfSeq
  <2> QED
    BY <2>1, LenProperties
<1>3. bytes \in Seq(RequestByte) /\ Len(bytes) \in Nat
  <2> HIDE DEF burst
  <2>1. Len(burst) % DmaSize \in Nat /\ Len(burst) % DmaSize <= Len(burst)
    <3>1. DmaSize \in Nat /\ DmaSize > 0
      BY SizeAssumption
    <3> QED
      BY <1>2, <3>1, RestOfRound
  <2>2. Len(burst) - (Len(burst) % DmaSize) + 1 \in Nat \ {0}
    BY <1>2, <2>1
  <2>3. Received(burst) \in Seq(RequestByte)
    BY <1>2, <2>2, PartOfSeq DEF Received
  <2> QED
    BY <2>3, LenProperties
<1> HIDE DEF bytes
<1>4. Taken(bytes) \in Seq(RequestByte) /\ Len(Taken(bytes)) <= StreamSize - Len(rxStream)
  <2> DEFINE m == Min({Len(bytes), StreamSize - Len(rxStream)})
  <2>1. StreamSize \in Nat /\ Len(rxStream) \in Nat
    BY SizeAssumption
  <2>2. m \in Nat /\ m <= Len(bytes) /\ m <= StreamSize - Len(rxStream)
    <3>1. Len(bytes) \in Int /\ StreamSize - Len(rxStream) \in Nat
      BY <1>3, <2>1
    <3>2. PICK room \in Nat : room = StreamSize - Len(rxStream)
      BY <3>1
    <3>3. Min({Len(bytes), room}) = IF Len(bytes) <= room THEN Len(bytes) ELSE room
      <4>1. Len(bytes) \in Int /\ room \in Int
        BY <3>1
      <4> QED
        BY <4>1, MinOfTwo, Zenon
    <3>4. m = Min({Len(bytes), room})
      BY <3>2, Zenon
    <3> HIDE DEF m
    <3> QED
      BY <1>3, <3>2, <3>3, <3>4
  <2> HIDE DEF m
  <2>3. SubSeq(bytes, 1, m) \in Seq(RequestByte) /\ Len(SubSeq(bytes, 1, m)) = m
    BY <1>3, <2>2, PartOfSeq
  <2> QED
    BY <2>2, <2>3 DEF Taken, m
<1>5. /\ toArrive' \in [Uart -> Seq(RequestByte)]
      /\ rx_buf' = rx_buf
  <2>1. n + 1 \in Nat \ {0} /\ Len(toArrive[u]) \in Int
    BY <1>1
  <2>2. SubSeq(toArrive[u], n + 1, Len(toArrive[u])) \in Seq(RequestByte)
    BY <1>1, <2>1, PartOfSeq
  <2> QED
    BY <2>2 DEF USART_IRQHandler, cmdVars
<1>6. /\ rxStream' \in Seq(RequestByte) /\ Len(rxStream') <= StreamSize
      /\ accepted' \subseteq Requests
  <2>1. CASE rxStream' = rxStream /\ accepted' = accepted
    BY <2>1
  <2>2. CASE /\ rxStream' = rxStream \o Taken(bytes)
             /\ accepted' \subseteq accepted \cup WholeIn(Taken(bytes))
    <3>1. rxStream \o Taken(bytes) \in Seq(RequestByte)
      BY <1>4, ConcatProperties
    <3>2. Len(rxStream \o Taken(bytes)) = Len(rxStream) + Len(Taken(bytes))
      BY <1>4, ConcatProperties
    <3>3. Len(rxStream) \in Nat /\ Len(Taken(bytes)) \in Nat /\ StreamSize \in Nat
      BY <1>4, SizeAssumption
    <3> QED
      BY <1>4, <2>2, <3>1, <3>2, <3>3 DEF WholeIn
  <2> QED
    BY <2>1, <2>2 DEF USART_IRQHandler, bytes
<1> QED
  BY <1>5, <1>6

LEMMA ReceiveKeepsRxType ==
  ASSUME RxTypeOK, xStreamBufferReceive
  PROVE  RxTypeOK'
<1> USE DEF RxTypeOK
<1> DEFINE n == Min({Len(rxStream), TempSize})
<1>1. Len(rxStream) \in Nat /\ TempSize \in Nat /\ StreamSize \in Nat
  BY SizeAssumption
<1>2. n \in Nat /\ n <= Len(rxStream)
  BY <1>1, MinOfTwo
<1>3. /\ rx_buf' = rx_buf \o SubSeq(rxStream, 1, n)
      /\ rxStream' = SubSeq(rxStream, n + 1, Len(rxStream))
      /\ UNCHANGED <<toArrive, accepted>>
  BY DEF xStreamBufferReceive
<1> HIDE DEF n
<1>4. SubSeq(rxStream, 1, n) \in Seq(RequestByte)
  BY <1>2, PartOfSeq
<1>5. /\ SubSeq(rxStream, n + 1, Len(rxStream)) \in Seq(RequestByte)
      /\ Len(SubSeq(rxStream, n + 1, Len(rxStream))) <= Len(rxStream)
  <2>1. n + 1 \in Nat \ {0} /\ Len(rxStream) \in Int
    BY <1>1, <1>2
  <2>2. /\ SubSeq(rxStream, n + 1, Len(rxStream)) \in Seq(RequestByte)
        /\ Len(SubSeq(rxStream, n + 1, Len(rxStream)))
             = IF n + 1 <= Len(rxStream) THEN Len(rxStream) - (n + 1) + 1 ELSE 0
    BY <2>1, PartOfSeq
  <2> QED
    BY <1>1, <1>2, <2>2
<1>6. rx_buf' \in Seq(RequestByte)
  BY <1>3, <1>4, ConcatProperties
<1>7. Len(rxStream') \in Nat
  BY <1>3, <1>5, LenProperties
<1> QED
  BY <1>1, <1>3, <1>5, <1>6, <1>7

LEMMA HandleKeepsRxType ==
  ASSUME RxTypeOK, handle_frame
  PROVE  RxTypeOK' /\ Head(rx_buf)[1] \in Requests
<1> USE DEF RxTypeOK
<1>1. rx_buf # <<>>
  BY DEF handle_frame, Intact, Complete, Candidate
<1>2. Head(rx_buf) \in RequestByte
  BY <1>1, HeadTailProperties
<1>3. Head(rx_buf)[1] \in Requests
  BY <1>2 DEF RequestByte
<1>4. PICK k \in Nat \ {0} : k = ReqLen[Head(rx_buf)[1]] + 1
  BY <1>3, RequestAssumption
<1>5. rx_buf' = SubSeq(rx_buf, k, Len(rx_buf))
  BY <1>4 DEF handle_frame
<1>6. Len(rx_buf) \in Int /\ rx_buf \in Seq(RequestByte)
  OBVIOUS
<1>7. rx_buf' \in Seq(RequestByte)
  BY <1>5, <1>6, PartOfSeq
<1> QED
  BY <1>3, <1>7 DEF handle_frame, rxVars

LEMMA NextRxType == RxTypeOK /\ [Next]_taskVars => RxTypeOK'
<1> SUFFICES ASSUME RxTypeOK, [Next]_taskVars PROVE RxTypeOK'
  OBVIOUS
<1> USE DEF RxTypeOK
<1>1. ASSUME NEW u \in Uart, NEW n \in 1 .. Len(toArrive[u]),
             USART_IRQHandler(u, n) \/ lineIgnored(u, n)
      PROVE  RxTypeOK'
  <2>1. CASE lineIgnored(u, n)
    <3>1. n + 1 \in Nat \ {0} /\ toArrive[u] \in Seq(RequestByte) /\ Len(toArrive[u]) \in Int
      OBVIOUS
    <3>2. SubSeq(toArrive[u], n + 1, Len(toArrive[u])) \in Seq(RequestByte)
      BY <3>1, PartOfSeq
    <3> QED
      BY <2>1, <3>2 DEF lineIgnored, cmdVars
  <2> QED
    BY <1>1, <2>1, IrqKeepsRxType
<1>2. CASE xStreamBufferReceive
  BY <1>2, ReceiveKeepsRxType
<1>3. CASE parseDrops
  <2>1. Tail(rx_buf) \in Seq(RequestByte)
    BY <1>3, HeadTailProperties DEF parseDrops
  <2> QED
    BY <1>3, <2>1 DEF parseDrops, rxVars
<1>4. CASE handle_frame
  BY <1>4, HandleKeepsRxType
<1>5. CASE BKEL_RPC_MCU_Reset
  <2>1. <<>> \in Seq(RequestByte) /\ Len(<<>>) = 0
    BY EmptySeq
  <2>2. StreamSize \in Nat
    BY SizeAssumption
  <2> QED
    BY <1>5, <2>1, <2>2 DEF BKEL_RPC_MCU_Reset
<1>6. CASE UNCHANGED <<toArrive, rxStream, rx_buf, accepted>>
  BY <1>6
<1>7. \/ UNCHANGED taskVars \/ startUp \/ delayEnds \/ AppService_SendAdvertise \/ parseEnds
      \/ f_sendDataTask \/ f_RPCTask \/ rpcActs \/ (\E u \in Uart : shift(u))
      \/ (\E t \in Task : txTests(t) \/ txWrites(t))
      => UNCHANGED <<toArrive, rxStream, rx_buf, accepted>>
  BY DEF taskVars, rxVars, cmdVars, startUp, delayEnds, AppService_SendAdvertise, parseEnds,
         f_sendDataTask, f_RPCTask, rpcActs, shift, txTests, txWrites
<1> QED
  BY <1>1, <1>2, <1>3, <1>4, <1>5, <1>6, <1>7 DEF Next, TaskStep

-----------------------------------------------------------------------------
(* The tasks: the shared packet                                            *)

PacketTypeOK ==
    /\ boot \in Off .. Running
    /\ parsed_packet \in Packets
    /\ notified \subseteq {"diag", "rpc"}
    /\ notices \in Seq(Requests) /\ served \in Seq(Packets)

(* A worker that has something to do exists. *)
WorkerInv ==
    /\ "diag" \in notified => boot >= DiagExists
    /\ "rpc" \in notified \/ executing # "none" => boot >= Running

(* Nobody is notified of anything: all notices are served.  Or one worker is, of   *)
(* the packet as it is now, and has not acted yet.                             *)
PacketInv ==
    \/ served = notices /\ notified = {} /\ executing = "none"
    \/ /\ notices = Append(served, parsed_packet) /\ parsed_packet \in Requests
       /\ \/ notified = {"diag"} /\ executing = "none" /\ Kind[parsed_packet] \in Diag
          \/ notified = {"rpc"} /\ executing = "none" /\ Kind[parsed_packet] \in Rpc
          \/ notified = {} /\ executing = Kind[parsed_packet] /\ Kind[parsed_packet] \in Rpc

PacketsInv == PacketTypeOK /\ WorkerInv /\ PacketInv

LEMMA HandleKeepsPacket ==
  ASSUME RxTypeOK, PacketsInv, handle_frame
  PROVE  PacketsInv'
<1> USE DEF PacketsInv, PacketTypeOK, WorkerInv
<1> DEFINE r == Head(rx_buf)[1]
<1>1. r \in Requests
  BY HandleKeepsRxType
<1>2. notified = {} /\ executing = "none" /\ served = notices
  <2>1. ~Ready("diag") /\ ~Ready("rpc")
    BY RunsAlone DEF handle_frame
  <2>2. "diag" \notin notified /\ "rpc" \notin notified /\ executing = "none"
    BY <2>1, ReadyTasks
  <2> QED
    BY <2>2 DEF PacketInv, Rpc
<1>3. UNCHANGED <<boot, executing, served>>
  BY DEF handle_frame
<1>4. CASE UNCHANGED <<parsed_packet, notices, notified>>
  BY <1>2, <1>3, <1>4 DEF PacketInv
<1>5. CASE /\ Kind[r] \in Diag \cup Rpc
           /\ parsed_packet' = r
           /\ \/ HandleSet(WorkerOf(r)) /\ xTaskNotify(WorkerOf(r), r)
              \/ UNCHANGED <<notices, notified>>
  <2> HIDE DEF r
  <2>1. WorkerOf(r) \in {"diag", "rpc"}
    BY DEF WorkerOf
  <2>2. CASE UNCHANGED <<notices, notified>>
    BY <1>1, <1>2, <1>3, <1>5, <2>2 DEF PacketInv, Packets
  <2>3. CASE HandleSet(WorkerOf(r)) /\ xTaskNotify(WorkerOf(r), r)
    <3>1. /\ notices' = Append(served, r) /\ notified' = {WorkerOf(r)} /\ executing' = "none"
          /\ Exists(WorkerOf(r))
      BY <1>2, <1>3, <2>3 DEF xTaskNotify, HandleSet
    <3>2. notices' \in Seq(Requests)
      BY <1>1, <1>2, <3>1, AppendProperties
    <3>3. PacketInv'
      BY <1>1, <1>3, <1>5, <3>1 DEF PacketInv, WorkerOf, Exists
    <3>4. WorkerInv'
      BY <1>3, <2>1, <3>1 DEF Exists
    <3> QED
      BY <1>1, <1>3, <1>5, <2>1, <3>1, <3>2, <3>3, <3>4 DEF Packets
  <2> QED
    BY <1>5, <2>2, <2>3
<1> QED
  BY <1>4, <1>5 DEF handle_frame

(* A worker that runs without sending was notified, or is in its function; it    *)
(* finds the packet it was notified of.                                       *)
LEMMA WorkerFindsPacket ==
  ASSUME PacketsInv
  PROVE  /\ f_sendDataTask =>
              /\ notified = {"diag"} /\ executing = "none"
              /\ notices = Append(served, parsed_packet)
              /\ parsed_packet \in Requests /\ Kind[parsed_packet] \in Diag
         /\ f_RPCTask =>
              /\ notified = {"rpc"} /\ notices = Append(served, parsed_packet)
              /\ parsed_packet \in Requests /\ Kind[parsed_packet] \in Rpc
         /\ rpcActs \/ BKEL_RPC_MCU_Reset =>
              /\ notified = {} /\ notices = Append(served, parsed_packet)
              /\ parsed_packet \in Requests
<1> USE DEF PacketsInv
<1>1. ASSUME f_sendDataTask PROVE "diag" \in notified
  BY <1>1 DEF f_sendDataTask, Runs, Ready
<1>2. ASSUME f_RPCTask PROVE "rpc" \in notified
  BY <1>2 DEF f_RPCTask, Runs, Ready
<1>3. ASSUME rpcActs \/ BKEL_RPC_MCU_Reset PROVE executing # "none"
  BY <1>3 DEF rpcActs, BKEL_RPC_MCU_Reset
<1> QED
  BY <1>1, <1>2, <1>3 DEF PacketInv

LEMMA WorkersKeepPacket ==
  ASSUME PacketsInv, f_sendDataTask \/ f_RPCTask \/ rpcActs \/ BKEL_RPC_MCU_Reset
  PROVE  PacketsInv'
<1> USE DEF PacketsInv, PacketTypeOK
<1>1. parsed_packet \in Packets /\ Append(served, parsed_packet) \in Seq(Packets)
  BY AppendProperties
<1>2. CASE f_sendDataTask
  <2>1. /\ served' = Append(served, parsed_packet) /\ notified' = {} /\ executing' = "none"
        /\ UNCHANGED <<boot, parsed_packet, notices>>
    BY <1>2, WorkerFindsPacket DEF f_sendDataTask, cmdVars
  <2> QED
    BY <1>1, <1>2, <2>1, WorkerFindsPacket DEF PacketInv, WorkerInv
<1>3. CASE f_RPCTask
  <2>1. /\ executing' = Kind[parsed_packet] /\ notified' = {}
        /\ UNCHANGED <<boot, parsed_packet, notices, served>>
    BY <1>3, WorkerFindsPacket DEF f_RPCTask, cmdVars
  <2>2. WorkerInv'
    BY <1>3, <2>1, WorkerFindsPacket DEF WorkerInv
  <2> QED
    BY <1>3, <2>1, <2>2, WorkerFindsPacket DEF PacketInv
<1>4. CASE rpcActs
  <2>1. /\ served' = Append(served, parsed_packet) /\ notified' = {} /\ executing' = "none"
        /\ UNCHANGED <<boot, parsed_packet, notices>>
    BY <1>4, WorkerFindsPacket DEF rpcActs, cmdVars
  <2> QED
    BY <1>1, <1>4, <2>1, WorkerFindsPacket DEF PacketInv, WorkerInv
<1>5. CASE BKEL_RPC_MCU_Reset
  <2>1. /\ served' = Append(served, parsed_packet) /\ notified' = {} /\ executing' = "none"
        /\ boot' = Off /\ parsed_packet' = NoByte /\ notices' = notices
    BY <1>5 DEF BKEL_RPC_MCU_Reset
  <2> QED
    BY <1>1, <1>5, <2>1, WorkerFindsPacket DEF PacketInv, WorkerInv, Packets, Off, Running
<1> QED
  BY <1>2, <1>3, <1>4, <1>5

LEMMA NextPackets == RxTypeOK /\ PacketsInv /\ [Next]_taskVars => PacketsInv'
<1> SUFFICES ASSUME RxTypeOK, PacketsInv, [Next]_taskVars PROVE PacketsInv'
  OBVIOUS
<1>1. CASE startUp
  <2>1. /\ boot < Running /\ boot' = boot + 1
        /\ UNCHANGED <<parsed_packet, notified, executing, notices, served>>
    BY <1>1 DEF startUp, cmdVars
  <2> QED
    BY <2>1 DEF PacketsInv, PacketTypeOK, WorkerInv, PacketInv, Off, Running, DiagExists
<1>2. CASE handle_frame
  BY <1>2, HandleKeepsPacket
<1>3. CASE f_sendDataTask \/ f_RPCTask \/ rpcActs \/ BKEL_RPC_MCU_Reset
  BY <1>3, WorkersKeepPacket
<1>4. CASE UNCHANGED <<boot, parsed_packet, notified, executing, notices, served>>
  BY <1>4 DEF PacketsInv, PacketTypeOK, WorkerInv, PacketInv
<1>5. \/ UNCHANGED taskVars \/ delayEnds \/ AppService_SendAdvertise \/ xStreamBufferReceive
      \/ parseDrops \/ parseEnds
      \/ (\E u \in Uart : \/ shift(u)
                          \/ \E n \in 1 .. Len(toArrive[u]) :
                                USART_IRQHandler(u, n) \/ lineIgnored(u, n))
      \/ (\E t \in Task : txTests(t) \/ txWrites(t))
      => UNCHANGED <<boot, parsed_packet, notified, executing, notices, served>>
  BY DEF taskVars, cmdVars, delayEnds, AppService_SendAdvertise, xStreamBufferReceive, parseDrops,
         parseEnds, shift, USART_IRQHandler, lineIgnored, txTests, txWrites
<1> QED
  BY <1>1, <1>2, <1>3, <1>4, <1>5 DEF Next, TaskStep

LEMMA InitPackets == Init => RxTypeOK /\ PacketsInv
<1> SUFFICES ASSUME Init PROVE RxTypeOK /\ PacketsInv
  OBVIOUS
<1>1. \A S : <<>> \in Seq(S) /\ Len(<<>>) = 0
  BY EmptySeq
<1>2. RxTypeOK
  BY <1>1, ScriptAssumption, SizeAssumption DEF Init, RxTypeOK
<1>3. PacketsInv
  BY <1>1 DEF Init, PacketsInv, PacketTypeOK, WorkerInv, PacketInv, Packets, Off, Running
<1> QED
  BY <1>2, <1>3

(* What an appended packet means for PacketServedAsNotified. *)
LEMMA PacketsServed == PacketsInv => PacketServedAsNotified
<1> SUFFICES ASSUME PacketsInv PROVE PacketServedAsNotified
  OBVIOUS
<1> USE DEF PacketsInv, PacketTypeOK
<1>1. served \in Seq(Packets) /\ Len(served) \in Nat
  BY LenProperties
<1>2. CASE served = notices
  BY <1>1, <1>2 DEF PacketServedAsNotified, IsPrefix
<1>3. CASE notices = Append(served, parsed_packet)
  <2>1. /\ Len(notices) = Len(served) + 1
        /\ \A k \in 1 .. Len(served) : notices[k] = served[k]
        /\ notices[Len(served) + 1] = parsed_packet
    BY <1>1, <1>3, AppendProperties
  <2>2. SubSeq(served, 1, Len(served)) = SubSeq(notices, 1, Len(served))
    <3>1. \A k \in 1 .. Len(served) : served[k] \in Packets /\ notices[k] \in Packets
      BY <1>1, <2>1
    <3> DEFINE a == SubSeq(served, 1, Len(served))
               b == SubSeq(notices, 1, Len(served))
    <3>2. /\ a \in Seq(Packets) /\ Len(a) = Len(served)
          /\ \A k \in 1 .. Len(served) : a[k] = served[k]
      BY <1>1, <3>1, SubSeqProperties
    <3>3. /\ b \in Seq(Packets) /\ Len(b) = Len(served)
          /\ \A k \in 1 .. Len(served) : b[k] = notices[k]
      BY <1>1, <3>1, SubSeqProperties
    <3> HIDE DEF a, b
    <3>4. a = b
      BY <2>1, <3>2, <3>3, SeqEqual
    <3> QED
      BY <3>4 DEF a, b
  <2> QED
    BY <1>1, <2>1, <2>2 DEF PacketServedAsNotified, IsPrefix, Last
<1> QED
  BY <1>2, <1>3 DEF PacketInv

(* For every arrival of bytes at the two USARTs: the one parsed_packet that        *)
(* handle_frame shares with the workers still holds, when a worker acts, the       *)
(* request it was notified of.                                                *)
THEOREM PacketIsShared == Spec => []PacketServedAsNotified
<1>1. RxTypeOK /\ PacketsInv /\ [Next]_taskVars => (RxTypeOK /\ PacketsInv)'
  BY NextRxType, NextPackets
<1> QED
  BY <1>1, InitPackets, PacketsServed, PTL DEF Spec

(* What FreeRTOS asserts of the calls in the tasks holds in every order in which     *)
(* rtos_taskinit, the tasks it has created and the interrupts can run: the command   *)
(* task finds rxStream, and the worker it notifies has a handle.                    *)
THEOREM TasksKeepAssertions == Spec => []AssertionsHold
<1>1. Init => AssertionsHold
  BY DEF Init, AssertionsHold
<1>2. RxTypeOK /\ PacketsInv /\ AssertionsHold /\ [Next]_taskVars => AssertionsHold'
  <2> SUFFICES ASSUME PacketsInv, AssertionsHold, [Next]_taskVars PROVE AssertionsHold'
    OBVIOUS
  <2> USE DEF AssertionsHold
  <2>0. boot \in Off .. Running
    BY DEF PacketsInv, WorkerInv, PacketTypeOK
  <2>1. ASSUME NEW u \in Uart, NEW n \in 1 .. Len(toArrive[u]), USART_IRQHandler(u, n)
        PROVE  AssertionsHold'
    <3>1. boot' = boot /\ boot >= InterruptsOn /\ (hung' => boot < StreamExists)
      BY <2>1, Zenon DEF USART_IRQHandler
    <3> QED
      BY <2>0, <3>1 DEF InterruptsOn, StreamExists, Off, Running
  <2>2. CASE startUp \/ BKEL_RPC_MCU_Reset
    BY <2>2 DEF startUp, BKEL_RPC_MCU_Reset, Runs
  <2>3. CASE xStreamBufferReceive
    <3>1. boot >= CommandExists
      BY <2>3 DEF xStreamBufferReceive, Runs, Ready, Exists
    <3>2. ~(boot < StreamExists)
      BY <2>0, <3>1 DEF CommandExists, StreamExists, Off, Running
    <3> QED
      BY <2>3, <3>2 DEF xStreamBufferReceive
  <2>4. CASE handle_frame
    <3>1. ~hung
      BY <2>4 DEF handle_frame, Runs
    <3>2. hung' = hung \/ hung' = FALSE
      BY <2>4 DEF handle_frame, HandleSet, xTaskNotify
    <3> QED
      BY <3>1, <3>2
  <2>5. CASE UNCHANGED <<hung, boot>>
    BY <2>5
  <2>6. \/ UNCHANGED taskVars \/ delayEnds \/ AppService_SendAdvertise
        \/ parseDrops \/ parseEnds \/ f_sendDataTask \/ f_RPCTask \/ rpcActs
        \/ (\E u \in Uart : shift(u) \/ \E n \in 1 .. Len(toArrive[u]) : lineIgnored(u, n))
        \/ (\E t \in Task : txTests(t) \/ txWrites(t))
        => UNCHANGED <<hung, boot>>
    BY DEF taskVars, delayEnds, AppService_SendAdvertise, parseDrops, parseEnds, f_sendDataTask,
           f_RPCTask, rpcActs, shift, lineIgnored, txTests, txWrites
  <2> QED
    BY <2>1, <2>2, <2>3, <2>4, <2>5, <2>6 DEF Next, TaskStep
<1> QED
  BY <1>1, <1>2, InitPackets, NextRxType, NextPackets, PTL DEF Spec

-----------------------------------------------------------------------------
(* The tasks: sending                                                      *)

FrameByte == FrameIds \X (1 .. TxLen)

TxTypeOK ==
    /\ tx \in [Task -> {Idle} \cup [frame : FrameIds, uart : Uart, byte : 1 .. TxLen, txe : BOOLEAN]]
    /\ dr \in [Uart -> {NoByte} \cup FrameByte]
    /\ wire \in [Uart -> Seq(FrameByte)]
    /\ advLeft \in 0 .. AdvFrames /\ advSent \in Nat
    /\ split \subseteq FrameIds /\ aborted \subseteq FrameIds

Senders == {"command", "diag", "rpc"}
Sending(t) == tx[t] # Idle

(* Advertisements aside, one task at a time is in BKEL_UART_Tx, and while it is     *)
(* no worker has anything else to do.                                           *)
SenderInv ==
    /\ Sending("advertise") \/ Sending("command") => boot >= CommandExists
    /\ Sending("diag") => boot >= DiagExists
    /\ Sending("rpc") => boot >= Running
    /\ Sending("command") => ~Sending("diag") /\ ~Sending("rpc") /\ executing = "none"
    /\ Sending("diag") => ~Sending("rpc") /\ executing = "none"
    /\ \A t \in Senders : Sending(t) => notified = {}

(* Which frames are sent by whom; an advertisement another task has started to     *)
(* send into is split.                                                         *)
FrameInv ==
    /\ Sending("advertise") => tx["advertise"].frame = <<"adv", advSent>>
    /\ \A t \in Senders : Sending(t) => tx[t].frame[1] # "adv"
    /\ \A f \in split : f[1] = "adv"
    /\ \A t \in Senders : Sending("advertise") /\ Sending(t) => tx["advertise"].frame \in split

(* What u has sent and is about to send. *)
Sent(u) == IF dr[u] = NoByte THEN wire[u] ELSE Append(wire[u], dr[u])

(* A frame in one piece goes on where it left off, into an empty register. *)
PieceInv ==
    \A t \in Task, u \in Uart : Sending(t) /\ tx[t].uart = u /\ tx[t].frame \notin split =>
        /\ tx[t].byte > 1 => /\ Len(Sent(u)) > 0
                             /\ Sent(u)[Len(Sent(u))] = <<tx[t].frame, tx[t].byte - 1>>
        /\ tx[t].txe => dr[u] = NoByte

(* What an advertisement may overwrite: the last byte of another frame on USART2. *)
RegisterInv ==
    /\ \A t \in Senders :
          Sending(t) /\ tx[t].txe /\ tx[t].uart = 2 /\ tx[t].byte = TxLen => dr[1] = NoByte
    /\ LET adv == tx["advertise"]
       IN  Sending("advertise") /\ adv.txe /\ (\A t \in Senders : ~Sending(t)) =>
              \/ dr[adv.uart] = NoByte
              \/ adv.uart = 2 /\ dr[2][1][1] # "adv" /\ dr[2][2] = TxLen

FollowInv ==
    \A u \in Uart : \A p \in DOMAIN Sent(u) :
        Sent(u)[p][1] \notin split /\ Sent(u)[p][2] > 1 =>
            p > 1 /\ Sent(u)[p - 1] = <<Sent(u)[p][1], Sent(u)[p][2] - 1>>

(* How much of a frame f that t is sending is out. *)
FrameProgress(t, f) ==
    \A u \in Uart, i \in 1 .. TxLen :
        /\ Sending(t) /\ tx[t].frame = f
        /\ \/ t = "advertise" /\ (u < tx[t].uart \/ (u = tx[t].uart /\ i < tx[t].byte))
           \/ t \in Senders /\ u = 1 /\ tx[t].uart = 2 /\ i = TxLen
        => Out(u, f, i)

(* How much of a frame f is out that nobody is sending. *)
FrameDone(f) ==
    (\A t \in Task : Sending(t) => tx[t].frame # f) =>
        /\ f[1] = "adv" => \A u \in Uart, i \in 1 .. TxLen : Out(u, f, i)
        /\ f[1] # "adv" /\ (\E u \in Uart : Out(u, f, 1)) =>
              Out(1, f, TxLen) /\ Out(2, f, TxLen - 1)

ProgressInv == \A t \in Task, f \in FrameIds : FrameProgress(t, f)
DoneInv == \A f \in FrameIds \ aborted : FrameDone(f)

(* The bytes of an advertisement are sent in order. *)
OrderInv ==
    \A u \in Uart :
        /\ \A p, q \in DOMAIN Sent(u) :
              Sent(u)[p][1][1] = "adv" /\ Sent(u)[p][1] = Sent(u)[q][1] /\ p < q =>
                  Sent(u)[p][2] < Sent(u)[q][2]
        /\ LET adv == tx["advertise"]
           IN  Sending("advertise") => \A p \in DOMAIN Sent(u) : Sent(u)[p][1] = adv.frame =>
                  u <= adv.uart /\ (u = adv.uart => Sent(u)[p][2] < adv.byte)

-----------------------------------------------------------------------------
(* The tasks: steps of sending                                             *)

LEMMA NotEmpty ==
  /\ \A f, u, b, x : [frame |-> f, uart |-> u, byte |-> b, txe |-> x] # Idle
  /\ \A f, i : <<f, i>> # NoByte
  BY DEF Idle, NoByte

(* A place in BKEL_UART_Tx, and the updates of it. *)
Place == [frame : FrameIds, uart : Uart, byte : 1 .. TxLen, txe : BOOLEAN]

LEMMA UpdatesTyped ==
  ASSUME NEW F, NEW U, NEW B, NEW X, NEW r \in [frame : F, uart : U, byte : B, txe : X],
         NEW u \in U, NEW b \in B, NEW x \in X
  PROVE  /\ [r EXCEPT !.txe = x] \in [frame : F, uart : U, byte : B, txe : X]
         /\ [r EXCEPT !.byte = b, !.txe = x] \in [frame : F, uart : U, byte : B, txe : X]
         /\ [r EXCEPT !.uart = u, !.byte = b, !.txe = x] \in [frame : F, uart : U, byte : B, txe : X]
  OBVIOUS

LEMMA TestedPlace ==
  ASSUME NEW r \in Place
  PROVE  LET q == [r EXCEPT !.txe = TRUE]
         IN  q \in Place /\ q.frame = r.frame /\ q.uart = r.uart /\ q.byte = r.byte /\ q.txe
<1>1. TRUE \in BOOLEAN
  OBVIOUS
<1>2. r.uart \in Uart /\ r.byte \in 1 .. TxLen
  BY DEF Place
<1> DEFINE q == [r EXCEPT !.txe = TRUE]
<1>3. q \in Place
  BY <1>1, <1>2, UpdatesTyped, Zenon DEF Place
<1>4. q.frame = r.frame /\ q.uart = r.uart /\ q.byte = r.byte
  BY DEF Place
<1>5. q.txe
  BY DEF Place
<1> QED
  BY <1>3, <1>4, <1>5

LEMMA NextPlace ==
  ASSUME NEW r \in Place, r.byte < TxLen
  PROVE  LET q == [r EXCEPT !.byte = @ + 1, !.txe = FALSE]
         IN  q \in Place /\ q.frame = r.frame /\ q.uart = r.uart /\ q.byte = r.byte + 1 /\ ~q.txe
<1>1. FALSE \in BOOLEAN
  OBVIOUS
<1>2. r.uart \in Uart /\ r.byte + 1 \in 1 .. TxLen
  BY LengthAssumption DEF Place
<1> DEFINE q == [r EXCEPT !.byte = @ + 1, !.txe = FALSE]
<1>3. q \in Place
  BY <1>1, <1>2, UpdatesTyped, Zenon DEF Place
<1>4. q.frame = r.frame /\ q.uart = r.uart /\ q.byte = r.byte + 1
  BY DEF Place
<1>5. ~q.txe
  BY DEF Place
<1> QED
  BY <1>3, <1>4, <1>5

LEMMA SecondPlace ==
  ASSUME NEW r \in Place
  PROVE  LET q == [r EXCEPT !.uart = 2, !.byte = 1, !.txe = FALSE]
         IN  q \in Place /\ q.frame = r.frame /\ q.uart = 2 /\ q.byte = 1 /\ ~q.txe
<1>1. FALSE \in BOOLEAN
  OBVIOUS
<1>2. 2 \in Uart /\ 1 \in 1 .. TxLen
  BY LengthAssumption DEF Uart
<1> DEFINE q == [r EXCEPT !.uart = 2, !.byte = 1, !.txe = FALSE]
<1>3. q \in Place
  BY <1>1, <1>2, UpdatesTyped, Zenon DEF Place
<1>4. q.frame = r.frame /\ q.uart = 2 /\ q.byte = 1
  BY DEF Place
<1>5. ~q.txe
  BY DEF Place
<1> QED
  BY <1>3, <1>4, <1>5

LEMMA PlaceNotIdle == \A q \in Place : q # Idle
<1> SUFFICES ASSUME NEW q \in Place PROVE q # Idle
  OBVIOUS
<1>1. DOMAIN q = {"frame", "uart", "byte", "txe"} /\ DOMAIN Idle = {}
  BY DEF Place, Idle
<1> QED
  BY <1>1

LEMMA FrameIdsGrow ==
  ASSUME advSent \in Nat, advSent' \in {advSent, advSent + 1}
  PROVE  /\ FrameIds \subseteq FrameIds'
         /\ \A f \in FrameIds' \ FrameIds : f = <<"adv", advSent'>> /\ advSent' = advSent + 1
         /\ FrameByte \subseteq FrameByte'
  BY DEF FrameIds, FrameByte

LEMMA SendingPlace ==
  ASSUME TxTypeOK, NEW t \in Task, Sending(t)
  PROVE  /\ tx[t] \in Place
         /\ tx[t].frame \in FrameIds /\ tx[t].uart \in Uart /\ tx[t].byte \in 1 .. TxLen
<1>1. tx[t] \in Place
  BY DEF TxTypeOK, Sending, Place
<1> QED
  BY <1>1 DEF Place

LEMMA StartShape ==
  ASSUME TxTypeOK, NEW t \in Task, NEW f, Transmit(t, f)
  PROVE  /\ tx'[t].frame = f /\ tx'[t].uart = 1 /\ tx'[t].byte = 1 /\ ~tx'[t].txe
         /\ Sending(t)'
         /\ \A s \in Task \ {t} : tx'[s] = tx[s]
         /\ f \in FrameIds' /\ FrameIds \subseteq FrameIds'
              => tx' \in [Task -> {Idle} \cup Place']
<1> DEFINE q == [frame |-> f, uart |-> 1, byte |-> 1, txe |-> FALSE]
<1>1. tx' = [tx EXCEPT ![t] = q] /\ tx \in [Task -> {Idle} \cup Place]
  BY DEF Transmit, TxTypeOK, Place
<1>2. q.frame = f /\ q.uart = 1 /\ q.byte = 1 /\ q # Idle
  BY NotEmpty
<1>3. ~q.txe
  OBVIOUS
<1>4. ASSUME f \in FrameIds', FrameIds \subseteq FrameIds'
      PROVE  q \in Place' /\ Place \subseteq Place'
  <2>1. FALSE \in BOOLEAN /\ 1 \in Uart /\ 1 \in 1 .. TxLen
    BY LengthAssumption DEF Uart
  <2>2. q \in Place'
    BY <1>4, <2>1 DEF Place
  <2>3. Place \subseteq Place'
    BY <1>4 DEF Place
  <2> QED
    BY <2>2, <2>3
<1> HIDE DEF q
<1>5. tx'[t] = q /\ \A s \in Task \ {t} : tx'[s] = tx[s]
  BY <1>1
<1>6. ASSUME f \in FrameIds', FrameIds \subseteq FrameIds'
      PROVE  tx' \in [Task -> {Idle} \cup Place']
  BY <1>1, <1>4, <1>6
<1> QED
  BY <1>2, <1>3, <1>5, <1>6 DEF Sending

LEMMA TestShape ==
  ASSUME TxTypeOK, NEW t \in Task, txTests(t)
  PROVE  /\ Sending(t) /\ Sending(t)'
         /\ tx'[t].frame = tx[t].frame /\ tx'[t].uart = tx[t].uart /\ tx'[t].byte = tx[t].byte
         /\ tx'[t].txe
         /\ \A s \in Task \ {t} : tx'[s] = tx[s]
         /\ tx' \in [Task -> {Idle} \cup Place]
<1> DEFINE q == [tx[t] EXCEPT !.txe = TRUE]
<1>1. tx' = [tx EXCEPT ![t] = q] /\ tx \in [Task -> {Idle} \cup Place] /\ Sending(t)
  BY DEF txTests, TxTypeOK, Place, Sending
<1>2. /\ q \in Place /\ q.frame = tx[t].frame /\ q.uart = tx[t].uart /\ q.byte = tx[t].byte
      /\ q.txe
  BY <1>1, SendingPlace, TestedPlace, Zenon
<1>3. q # Idle
  BY <1>2, PlaceNotIdle
<1> HIDE DEF q
<1> QED
  BY <1>1, <1>2, <1>3 DEF Sending

LEMMA WriteShape ==
  ASSUME TxTypeOK, NEW t \in Task, txWrites(t)
  PROVE  /\ Sending(t)
         /\ \/ /\ tx[t].byte < TxLen /\ Sending(t)'
               /\ tx'[t].frame = tx[t].frame /\ tx'[t].uart = tx[t].uart
               /\ tx'[t].byte = tx[t].byte + 1 /\ ~tx'[t].txe
            \/ /\ tx[t].byte = TxLen /\ tx[t].uart = 1 /\ Sending(t)'
               /\ tx'[t].frame = tx[t].frame /\ tx'[t].uart = 2
               /\ tx'[t].byte = 1 /\ ~tx'[t].txe
            \/ tx[t].byte = TxLen /\ tx[t].uart = 2 /\ ~Sending(t)'
         /\ \A s \in Task \ {t} : tx'[s] = tx[s]
         /\ tx' \in [Task -> {Idle} \cup Place]
<1> DEFINE r == tx[t]
           n == [r EXCEPT !.byte = @ + 1, !.txe = FALSE]
           m == [r EXCEPT !.uart = 2, !.byte = 1, !.txe = FALSE]
<1>1. /\ tx' = [tx EXCEPT ![t] = IF r.byte < TxLen THEN n ELSE IF r.uart = 1 THEN m ELSE Idle]
      /\ tx \in [Task -> {Idle} \cup Place]
      /\ Sending(t)
  <2>1. tx' = [tx EXCEPT ![t] = IF r.byte < TxLen THEN n ELSE IF r.uart = 1 THEN m ELSE Idle]
    BY Zenon DEF txWrites
  <2> QED
    BY <2>1, Zenon DEF txWrites, TxTypeOK, Place, Sending
<1>2. r \in Place /\ r.uart \in Uart /\ r.byte \in 1 .. TxLen
  BY <1>1, SendingPlace
<1> HIDE DEF r
<1>3. r.byte < TxLen => /\ n \in Place /\ n.frame = r.frame /\ n.uart = r.uart
                        /\ n.byte = r.byte + 1 /\ ~n.txe
  BY <1>2, NextPlace, Zenon
<1>4. m \in Place /\ m.frame = r.frame /\ m.uart = 2 /\ m.byte = 1 /\ ~m.txe
  BY <1>2, SecondPlace, Zenon
<1> HIDE DEF n, m
<1>5. r.byte < TxLen \/ (r.byte = TxLen /\ r.uart = 1) \/ (r.byte = TxLen /\ r.uart = 2)
  BY <1>2, LengthAssumption DEF Uart
<1>6. \A q \in Place : q # Idle
  BY PlaceNotIdle
<1> DEFINE q == IF r.byte < TxLen THEN n ELSE IF r.uart = 1 THEN m ELSE Idle
<1>7. /\ tx'[t] = q
      /\ \A s \in Task \ {t} : tx'[s] = tx[s]
      /\ tx' \in [Task -> {Idle} \cup Place]
  <2>1. q \in {Idle} \cup Place
    BY <1>3, <1>4
  <2> HIDE DEF q
  <2>2. tx' = [tx EXCEPT ![t] = q]
    BY <1>1 DEF q
  <2> QED
    BY <1>1, <2>1, <2>2
<1>8. CASE r.byte < TxLen
  BY <1>1, <1>3, <1>6, <1>7, <1>8 DEF r, Sending
<1>9. CASE r.byte = TxLen /\ r.uart = 1
  BY <1>1, <1>4, <1>6, <1>7, <1>9, LengthAssumption DEF r, Sending
<1>10. CASE r.byte = TxLen /\ r.uart = 2
  BY <1>1, <1>6, <1>7, <1>10, LengthAssumption DEF r, Sending
<1> QED
  BY <1>5, <1>8, <1>9, <1>10

-----------------------------------------------------------------------------
(* The tasks: one sender at a time                                         *)

(* No task but an advertisement can be in BKEL_UART_Tx when one enters it. *)
LEMMA StartsAlone ==
  ASSUME PacketsInv, SenderInv
  PROVE  /\ Runs("advertise") => \A t \in Senders : ~Sending(t)
         /\ Runs("command") /\ ~Sending("command") =>
              (\A t \in Senders : ~Sending(t)) /\ notified = {} /\ executing = "none"
         /\ notified # {} => \A t \in Senders : ~Sending(t)
<1> USE DEF SenderInv, Senders, CommandExists, DiagExists, Running
<1>1. boot \in 0 .. 5 /\ notified \subseteq {"diag", "rpc"}
  BY DEF PacketsInv, PacketTypeOK, Off
<1>2. /\ Sending("diag") \/ "diag" \in notified => Ready("diag")
      /\ Sending("rpc") \/ "rpc" \in notified \/ executing # "none" => Ready("rpc")
      /\ Sending("command") => Ready("command")
  BY <1>1, ReadyTasks DEF Sending, PacketsInv, WorkerInv, Off
<1>3. Runs("advertise") => \A t \in Senders : ~Sending(t)
  BY <1>2, RunsAlone
<1>4. Runs("command") /\ ~Sending("command") =>
              (\A t \in Senders : ~Sending(t)) /\ notified = {} /\ executing = "none"
  BY <1>1, <1>2, RunsAlone
<1> QED
  BY <1>3, <1>4

(* The task that goes on sending is the only one that does, but for an             *)
(* advertisement it has cut.                                                    *)
LEMMA SendsAlone ==
  ASSUME PacketsInv, SenderInv, FrameInv, NEW t \in Task, Runs(t), Sending(t),
         NEW s \in Task \ {t}, Sending(s)
  PROVE  s = "advertise" /\ tx[s].frame \in split /\ t \in Senders
<1>1. t = "advertise" => FALSE
  BY StartsAlone, TaskSet DEF Senders
<1>2. t \in Senders
  BY <1>1, TaskSet DEF Senders
<1>3. s \notin Senders
  BY <1>2 DEF SenderInv, Senders
<1> QED
  BY <1>2, <1>3, TaskSet DEF FrameInv, Senders

LEMMA RunningExists ==
  ASSUME PacketsInv, NEW t \in Task, Runs(t)
  PROVE  /\ t \in {"advertise", "command"} => boot >= CommandExists
         /\ t = "diag" => boot >= DiagExists
         /\ t = "rpc" => boot >= Running
  BY DEF Runs, Ready, Exists

LEMMA NextSenders ==
  ASSUME TxTypeOK, PacketsInv, SenderInv, [Next]_taskVars
  PROVE  SenderInv'
<1> USE DEF Senders
<1>0. boot \in 0 .. 5
  BY DEF PacketsInv, PacketTypeOK, Off, Running
<1>1. CASE startUp
  <2>1. boot' = boot + 1 /\ UNCHANGED <<tx, notified, executing>>
    BY <1>1 DEF startUp, txVars
  <2> QED
    BY <1>0, <2>1 DEF SenderInv, Sending, CommandExists, DiagExists, Running
<1>2. ASSUME NEW t \in Task, txTests(t) \/ txWrites(t) PROVE SenderInv'
  <2>1. \A s \in Task : Sending(s)' => Sending(s)
    BY <1>2, TestShape, WriteShape DEF Sending
  <2>2. UNCHANGED <<boot, notified, executing>>
    BY <1>2 DEF txTests, txWrites
  <2> QED
    BY <2>1, <2>2, TaskSet DEF SenderInv
<1>3. CASE AppService_SendAdvertise
  <2>1. \A s \in Task \ {"advertise"} : tx'[s] = tx[s]
    BY <1>3, StartShape, TaskSet DEF AppService_SendAdvertise
  <2>2. UNCHANGED <<boot, notified, executing>> /\ boot >= CommandExists
    BY <1>3, RunningExists, TaskSet DEF AppService_SendAdvertise
  <2> QED
    BY <2>1, <2>2, TaskSet DEF SenderInv, Sending
<1>4. CASE handle_frame
  <2>1. /\ \A t \in Senders : ~Sending(t)
        /\ notified = {} /\ executing = "none" /\ boot >= CommandExists
    BY <1>4, StartsAlone, RunningExists, TaskSet DEF handle_frame, Sending
  <2>2. UNCHANGED <<boot, executing>>
    BY <1>4 DEF handle_frame
  <2>3. UNCHANGED tx \/ (UNCHANGED notified /\ \E f : Transmit("command", f))
    BY <1>4 DEF handle_frame, txVars
  <2>4. \A s \in Task \ {"command"} : tx'[s] = tx[s]
    BY <2>3, StartShape, TaskSet
  <2>5. CASE UNCHANGED tx
    BY <2>1, <2>2, <2>5 DEF SenderInv, Sending
  <2>6. CASE UNCHANGED notified
    BY <2>1, <2>2, <2>4, <2>6, TaskSet DEF SenderInv, Sending
  <2> QED
    BY <2>3, <2>5, <2>6
<1>5. CASE f_sendDataTask
  <2>1. /\ notified = {"diag"} /\ notified' = {} /\ executing = "none" /\ boot >= DiagExists
        /\ UNCHANGED <<boot, executing>>
    BY <1>5, WorkerFindsPacket, RunningExists, TaskSet DEF f_sendDataTask
  <2>2. \A s \in Senders : ~Sending(s)
    BY <2>1, StartsAlone
  <2>3. \A s \in Task \ {"diag"} : tx'[s] = tx[s]
    BY <1>5, StartShape, TaskSet DEF f_sendDataTask, txVars
  <2> QED
    BY <2>1, <2>2, <2>3, TaskSet DEF SenderInv, Sending
<1>6. CASE f_RPCTask
  <2>1. /\ notified = {"rpc"} /\ notified' = {} /\ boot >= Running /\ UNCHANGED boot
    BY <1>6, WorkerFindsPacket, RunningExists, TaskSet DEF f_RPCTask
  <2>2. \A s \in Senders : ~Sending(s)
    BY <2>1, StartsAlone
  <2>3. \A s \in Task \ {"rpc"} : tx'[s] = tx[s]
    BY <1>6, StartShape, TaskSet DEF f_RPCTask, txVars
  <2> QED
    BY <2>1, <2>2, <2>3, TaskSet DEF SenderInv, Sending
<1>7. CASE rpcActs
  BY <1>7 DEF rpcActs, txVars, SenderInv, Sending
<1>8. CASE BKEL_RPC_MCU_Reset
  BY <1>8, TaskSet DEF BKEL_RPC_MCU_Reset, SenderInv, Sending
<1>9. CASE UNCHANGED <<boot, tx, notified, executing>>
  BY <1>9 DEF SenderInv, Sending
<1>10. \/ UNCHANGED taskVars \/ delayEnds \/ xStreamBufferReceive \/ parseDrops \/ parseEnds
       \/ (\E u \in Uart : \/ shift(u)
                           \/ \E n \in 1 .. Len(toArrive[u]) :
                                 USART_IRQHandler(u, n) \/ lineIgnored(u, n))
       => UNCHANGED <<boot, tx, notified, executing>>
  BY DEF taskVars, txVars, delayEnds, xStreamBufferReceive, parseDrops, parseEnds, shift,
         USART_IRQHandler, lineIgnored
<1> QED
  BY <1>1, <1>2, <1>3, <1>4, <1>5, <1>6, <1>7, <1>8, <1>9, <1>10 DEF Next, TaskStep

(* Task t enters BKEL_UART_Tx with f, and no task but an advertisement is in it. *)
Starts(t, f) ==
    /\ Transmit(t, f) /\ f \in FrameIds' /\ UNCHANGED aborted
    /\ ~Sending(t) /\ \A s \in Senders : ~Sending(s)
    /\ \/ t = "advertise" /\ advSent' = advSent + 1 /\ f = <<"adv", advSent'>>
       \/ t \in Senders /\ advSent' = advSent /\ f[1] # "adv"

Quiet == UNCHANGED <<tx, dr, wire, split, aborted, advSent>>

(* What a step does to the USARTs and the tasks that use them. *)
LEMMA StepKinds ==
  ASSUME RxTypeOK, TxTypeOK, PacketsInv, SenderInv, [Next]_taskVars
  PROVE  \/ Quiet
         \/ \E t \in Task, f \in FrameIds' : Starts(t, f)
         \/ \E t \in Task : txTests(t) \/ txWrites(t)
         \/ \E u \in Uart : shift(u)
         \/ BKEL_RPC_MCU_Reset
<1>1. CASE AppService_SendAdvertise
  <2> DEFINE f == <<"adv", advSent + 1>>
  <2>1. Transmit("advertise", f) /\ advSent' = advSent + 1 /\ UNCHANGED aborted
    BY <1>1 DEF AppService_SendAdvertise
  <2>2. f \in FrameIds'
    <3>1. advSent + 1 \in 1 .. advSent'
      BY <2>1 DEF TxTypeOK
    <3> QED
      BY <3>1 DEF FrameIds
  <2>3. ~Sending("advertise") /\ \A s \in Senders : ~Sending(s)
    BY <1>1, StartsAlone DEF AppService_SendAdvertise, Sending
  <2> QED
    BY <2>1, <2>2, <2>3, TaskSet DEF Starts
<1>2. CASE handle_frame
  <2> DEFINE r == Head(rx_buf)[1]
  <2>1. r \in Requests
    BY <1>2 DEF handle_frame, Intact, Complete, Candidate, RxTypeOK, RequestByte
  <2>2. UNCHANGED <<advSent, aborted>>
    BY <1>2 DEF handle_frame, advVars
  <2>3. Transmit("command", <<"text", r>>) \/ UNCHANGED txVars
    BY <1>2 DEF handle_frame
  <2>4. ~Sending("command") /\ \A s \in Senders : ~Sending(s)
    BY <1>2, StartsAlone DEF handle_frame, Sending
  <2>5. <<"text", r>> \in FrameIds' /\ <<"text", r>>[1] # "adv"
    BY <2>1 DEF FrameIds
  <2> QED
    BY <2>2, <2>3, <2>4, <2>5, TaskSet DEF Starts, Senders, Quiet, txVars
<1>3. CASE f_sendDataTask
  <2> DEFINE f == <<"answer", parsed_packet>>
  <2>1. parsed_packet \in Requests /\ notified # {}
    BY <1>3, WorkerFindsPacket
  <2>2. UNCHANGED <<advSent, aborted>> /\ ~Sending("diag")
    BY <1>3 DEF f_sendDataTask, advVars, Sending
  <2>3. Transmit("diag", f) \/ UNCHANGED txVars
    BY <1>3 DEF f_sendDataTask
  <2>4. \A s \in Senders : ~Sending(s)
    BY <2>1, StartsAlone
  <2>5. f \in FrameIds' /\ f[1] # "adv"
    BY <2>1 DEF FrameIds
  <2> QED
    BY <2>2, <2>3, <2>4, <2>5, TaskSet DEF Starts, Senders, Quiet, txVars
<1>4. CASE f_RPCTask
  <2> DEFINE f == <<"text", parsed_packet>>
  <2>1. parsed_packet \in Requests /\ notified # {}
    BY <1>4, WorkerFindsPacket
  <2>2. UNCHANGED <<advSent, aborted>> /\ ~Sending("rpc")
    BY <1>4 DEF f_RPCTask, advVars, Sending
  <2>3. Transmit("rpc", f) \/ UNCHANGED txVars
    BY <1>4 DEF f_RPCTask
  <2>4. \A s \in Senders : ~Sending(s)
    BY <2>1, StartsAlone
  <2>5. f \in FrameIds' /\ f[1] # "adv"
    BY <2>1 DEF FrameIds
  <2> QED
    BY <2>2, <2>3, <2>4, <2>5, TaskSet DEF Starts, Senders, Quiet, txVars
<1>5. \/ UNCHANGED taskVars \/ startUp \/ delayEnds \/ xStreamBufferReceive \/ parseDrops
      \/ parseEnds \/ rpcActs
      \/ (\E u \in Uart : \E n \in 1 .. Len(toArrive[u]) :
             USART_IRQHandler(u, n) \/ lineIgnored(u, n))
      => Quiet
  BY DEF taskVars, txVars, advVars, startUp, delayEnds, xStreamBufferReceive, parseDrops, parseEnds,
         rpcActs, USART_IRQHandler, lineIgnored, Quiet
<1> QED
  BY <1>1, <1>2, <1>3, <1>4, <1>5 DEF Next, TaskStep

LEMMA NextAdvLeft ==
  ASSUME TxTypeOK, PacketsInv, [Next]_taskVars
  PROVE  advLeft' \in 0 .. AdvFrames
<1>1. CASE AppService_SendAdvertise
  <2>0. "advertise" \notin notified
    BY DEF PacketsInv, PacketTypeOK
  <2>1. advLeft > 0 /\ advLeft' = advLeft - 1
    BY <1>1, <2>0 DEF AppService_SendAdvertise, Runs, Ready
  <2>2. advLeft \in 0 .. AdvFrames /\ AdvFrames \in Nat
    BY SizeAssumption DEF TxTypeOK
  <2> QED
    BY <2>1, <2>2
<1>2. CASE delayEnds \/ BKEL_RPC_MCU_Reset
  BY <1>2, SizeAssumption DEF delayEnds, BKEL_RPC_MCU_Reset
<1>3. CASE UNCHANGED advLeft
  BY <1>3 DEF TxTypeOK
<1>4. \/ UNCHANGED taskVars \/ startUp \/ xStreamBufferReceive \/ parseDrops \/ parseEnds
      \/ handle_frame \/ f_sendDataTask \/ f_RPCTask \/ rpcActs
      \/ (\E u \in Uart : \/ shift(u)
                          \/ \E n \in 1 .. Len(toArrive[u]) :
                                USART_IRQHandler(u, n) \/ lineIgnored(u, n))
      \/ (\E t \in Task : txTests(t) \/ txWrites(t))
      => UNCHANGED advLeft
  BY DEF taskVars, advVars, startUp, xStreamBufferReceive, parseDrops, parseEnds, handle_frame,
         f_sendDataTask, f_RPCTask, rpcActs, shift, USART_IRQHandler, lineIgnored, txTests, txWrites
<1> QED
  BY <1>1, <1>2, <1>3, <1>4 DEF Next, TaskStep

LEMMA NextTxType ==
  ASSUME RxTypeOK, TxTypeOK, PacketsInv, SenderInv, [Next]_taskVars
  PROVE  TxTypeOK'
<1> DEFINE Rest == /\ dr \in [Uart -> {NoByte} \cup FrameByte]
                   /\ wire \in [Uart -> Seq(FrameByte)]
                   /\ advSent \in Nat
                   /\ split \subseteq FrameIds /\ aborted \subseteq FrameIds
<1>0. /\ TxTypeOK <=> tx \in [Task -> {Idle} \cup Place] /\ Rest /\ advLeft \in 0 .. AdvFrames
      /\ TxTypeOK' <=> tx' \in [Task -> {Idle} \cup Place'] /\ Rest' /\ advLeft' \in 0 .. AdvFrames
  BY DEF TxTypeOK, Place
<1>1. tx \in [Task -> {Idle} \cup Place] /\ Rest
  BY <1>0
<1>2. advSent' = advSent => FrameIds' = FrameIds /\ FrameByte' = FrameByte /\ Place' = Place
  <2>1. advSent' = advSent => FrameIds' = FrameIds
    BY DEF FrameIds
  <2> QED
    BY <2>1 DEF FrameByte, Place
<1>3. ASSUME Quiet PROVE tx' \in [Task -> {Idle} \cup Place'] /\ Rest'
  BY <1>1, <1>2, <1>3 DEF Quiet
<1>4. ASSUME NEW t \in Task, NEW f \in FrameIds', Starts(t, f)
      PROVE  tx' \in [Task -> {Idle} \cup Place'] /\ Rest'
  <2>1. /\ advSent' \in {advSent, advSent + 1} /\ Transmit(t, f) /\ UNCHANGED aborted
        /\ FrameIds \subseteq FrameIds' /\ FrameByte \subseteq FrameByte'
    BY <1>1, <1>4, FrameIdsGrow DEF Starts
  <2>2. tx' \in [Task -> {Idle} \cup Place']
    BY <1>4, <2>1, StartShape
  <2>3. split' \subseteq split \cup FrameIds
    <3>1. tx["advertise"] # Idle => tx["advertise"].frame \in FrameIds
      BY SendingPlace, TaskSet DEF Sending
    <3> QED
      BY <2>1, <3>1 DEF Transmit
  <2>4. dr' = dr /\ wire' = wire /\ advSent' \in Nat
    BY <1>1, <2>1 DEF Transmit
  <2>5. Seq(FrameByte) \subseteq Seq(FrameByte')
    BY <2>1, SeqDef
  <2> QED
    BY <1>1, <2>1, <2>2, <2>3, <2>4, <2>5
<1>5. ASSUME NEW t \in Task, txTests(t) PROVE tx' \in [Task -> {Idle} \cup Place'] /\ Rest'
  <2>1. UNCHANGED <<dr, wire, split, aborted, advSent>>
    BY <1>5 DEF txTests, advVars
  <2> QED
    BY <1>1, <1>2, <1>5, <2>1, TestShape
<1>6. ASSUME NEW t \in Task, txWrites(t) PROVE tx' \in [Task -> {Idle} \cup Place'] /\ Rest'
  <2>1. UNCHANGED <<wire, split, aborted, advSent>>
    BY <1>6 DEF txWrites, advVars
  <2>2. <<tx[t].frame, tx[t].byte>> \in FrameByte /\ tx[t].uart \in Uart
    BY <1>6, WriteShape, SendingPlace DEF FrameByte
  <2>3. dr' \in [Uart -> {NoByte} \cup FrameByte]
    BY <1>1, <1>6, <2>2 DEF txWrites
  <2> QED
    BY <1>1, <1>2, <1>6, <2>1, <2>3, WriteShape
<1>7. ASSUME NEW u \in Uart, shift(u) PROVE tx' \in [Task -> {Idle} \cup Place'] /\ Rest'
  <2>1. UNCHANGED <<tx, split, aborted, advSent>>
    BY <1>7 DEF shift, advVars
  <2>2. Append(wire[u], dr[u]) \in Seq(FrameByte)
    BY <1>1, <1>7, AppendProperties DEF shift
  <2>3. dr' \in [Uart -> {NoByte} \cup FrameByte] /\ wire' \in [Uart -> Seq(FrameByte)]
    BY <1>1, <1>7, <2>2 DEF shift
  <2> QED
    BY <1>1, <1>2, <2>1, <2>3
<1>8. ASSUME BKEL_RPC_MCU_Reset PROVE tx' \in [Task -> {Idle} \cup Place'] /\ Rest'
  <2>1. UNCHANGED <<wire, split, advSent>>
    BY <1>8 DEF BKEL_RPC_MCU_Reset
  <2>2. \A t \in Task : tx[t] # Idle => tx[t].frame \in FrameIds
    BY SendingPlace DEF Sending
  <2>3. \A u \in Uart : dr[u] # NoByte => dr[u][1] \in FrameIds
    BY <1>1 DEF FrameByte
  <2>4. aborted' \subseteq FrameIds
    BY <1>1, <1>8, <2>2, <2>3 DEF BKEL_RPC_MCU_Reset
  <2>5. tx' \in [Task -> {Idle} \cup Place] /\ dr' \in [Uart -> {NoByte} \cup FrameByte]
    BY <1>8 DEF BKEL_RPC_MCU_Reset
  <2> QED
    BY <1>1, <1>2, <2>1, <2>4, <2>5
<1> HIDE DEF Rest
<1>9. tx' \in [Task -> {Idle} \cup Place'] /\ Rest'
  BY <1>3, <1>4, <1>5, <1>6, <1>7, <1>8, StepKinds
<1> QED
  BY <1>0, <1>9, NextAdvLeft

LEMMA NextFrames ==
  ASSUME RxTypeOK, TxTypeOK, PacketsInv, SenderInv, FrameInv, [Next]_taskVars
  PROVE  FrameInv'
<1> USE DEF FrameInv
<1>1. CASE Quiet
  BY <1>1 DEF Quiet, Sending
<1>2. ASSUME NEW t \in Task, NEW f \in FrameIds', Starts(t, f) PROVE FrameInv'
  <2>1. /\ tx'[t].frame = f /\ Sending(t)'
        /\ \A s \in Task \ {t} : tx'[s] = tx[s] /\ (Sending(s)' <=> Sending(s))
    BY <1>2, StartShape DEF Starts, Sending
  <2>2. CASE t = "advertise"
    <3>1. /\ f = <<"adv", advSent'>> /\ \A s \in Senders : ~Sending(s)
          /\ split' = split
      BY <1>2, <2>2 DEF Starts, Transmit, Senders
    <3>2. \A s \in Senders : ~Sending(s)'
      BY <2>1, <2>2, <3>1, TaskSet DEF Senders
    <3> QED
      BY <2>1, <2>2, <3>1, <3>2, TaskSet DEF Senders
  <2>3. CASE t \in Senders
    <3>1. /\ f[1] # "adv" /\ advSent' = advSent /\ t # "advertise"
          /\ \A s \in Senders : ~Sending(s)
          /\ split' = IF Sending("advertise") THEN split \cup {tx["advertise"].frame} ELSE split
      BY <1>2, <2>3 DEF Starts, Transmit, Senders, Sending
    <3>2. \A s \in Senders \ {t} : ~Sending(s)'
      BY <2>1, <3>1, TaskSet DEF Senders
    <3>3. tx'["advertise"] = tx["advertise"] /\ (Sending("advertise")' <=> Sending("advertise"))
      BY <2>1, <3>1, TaskSet
    <3>4. Sending("advertise") => tx["advertise"].frame[1] = "adv"
      OBVIOUS
    <3> QED
      BY <2>1, <3>1, <3>2, <3>3, <3>4
  <2> QED
    BY <2>2, <2>3, TaskSet DEF Senders
<1>3. ASSUME NEW t \in Task, txTests(t) \/ txWrites(t) PROVE FrameInv'
  <2>1. UNCHANGED <<split, advSent>>
    BY <1>3 DEF txTests, txWrites, advVars
  <2>2. \A s \in Task : Sending(s)' => Sending(s) /\ tx'[s].frame = tx[s].frame
    BY <1>3, TestShape, WriteShape DEF Sending
  <2> QED
    BY <2>1, <2>2, TaskSet DEF Senders
<1>4. ASSUME NEW u \in Uart, shift(u) PROVE FrameInv'
  BY <1>4 DEF shift, advVars, Sending
<1>5. CASE BKEL_RPC_MCU_Reset
  BY <1>5, TaskSet DEF BKEL_RPC_MCU_Reset, Sending, Senders
<1> QED
  BY <1>1, <1>2, <1>3, <1>4, <1>5, StepKinds

-----------------------------------------------------------------------------
(* The tasks: what the USARTs have sent                                    *)

LEMMA SentIs ==
  ASSUME TxTypeOK, NEW u \in Uart
  PROVE  /\ Sent(u) \in Seq(FrameByte) /\ wire[u] \in Seq(FrameByte) /\ Len(wire[u]) \in Nat
         /\ DOMAIN Sent(u) = 1 .. Len(Sent(u)) /\ DOMAIN wire[u] = 1 .. Len(wire[u])
         /\ Len(Sent(u)) = IF dr[u] = NoByte THEN Len(wire[u]) ELSE Len(wire[u]) + 1
         /\ dr[u] # NoByte => Sent(u)[Len(wire[u]) + 1] = dr[u]
         /\ \A p \in 1 .. Len(wire[u]) : Sent(u)[p] = wire[u][p]
         /\ \A p \in DOMAIN Sent(u) : Sent(u)[p] \in FrameByte
<1>1. wire[u] \in Seq(FrameByte) /\ dr[u] \in {NoByte} \cup FrameByte
  BY DEF TxTypeOK
<1>2. CASE dr[u] = NoByte
  <2>1. Sent(u) = wire[u]
    BY <1>2 DEF Sent
  <2> QED
    BY <1>1, <1>2, <2>1, LenProperties
<1>3. CASE dr[u] # NoByte
  <2>1. Sent(u) = Append(wire[u], dr[u]) /\ dr[u] \in FrameByte
    BY <1>1, <1>3 DEF Sent
  <2>2. /\ Sent(u) \in Seq(FrameByte) /\ Len(Sent(u)) = Len(wire[u]) + 1
        /\ \A p \in 1 .. Len(wire[u]) : Sent(u)[p] = wire[u][p]
        /\ Sent(u)[Len(wire[u]) + 1] = dr[u]
    BY <1>1, <2>1, AppendProperties
  <2>3. \A p \in 1 .. Len(Sent(u)) : Sent(u)[p] \in FrameByte
    BY <2>2
  <2> QED
    BY <1>1, <1>3, <2>2, <2>3, LenProperties
<1> QED
  BY <1>2, <1>3

LEMMA OutIsSent ==
  ASSUME TxTypeOK, NEW u \in Uart, NEW f, NEW i
  PROVE  Out(u, f, i) <=> \E p \in DOMAIN Sent(u) : Sent(u)[p] = <<f, i>>
<1>1. Out(u, f, i) <=> (\E p \in 1 .. Len(wire[u]) : wire[u][p] = <<f, i>>) \/ dr[u] = <<f, i>>
  <2>1. DOMAIN wire[u] = 1 .. Len(wire[u])
    BY SentIs
  <2> QED
    BY <2>1 DEF Out, Range
<1>2. dr[u] = <<f, i>> => dr[u] # NoByte
  BY NotEmpty
<1>3. /\ Len(wire[u]) \in Nat /\ DOMAIN Sent(u) = 1 .. Len(Sent(u))
      /\ \A p \in 1 .. Len(wire[u]) : Sent(u)[p] = wire[u][p]
  BY SentIs
<1>4. CASE dr[u] = NoByte
  <2>1. Len(Sent(u)) = Len(wire[u])
    BY <1>4, SentIs
  <2> QED
    BY <1>1, <1>2, <1>3, <1>4, <2>1
<1>5. CASE dr[u] # NoByte
  <2>1. Len(Sent(u)) = Len(wire[u]) + 1 /\ Sent(u)[Len(wire[u]) + 1] = dr[u]
    BY <1>5, SentIs
  <2>2. \A p : p \in DOMAIN Sent(u) <=> p \in 1 .. Len(wire[u]) \/ p = Len(wire[u]) + 1
    BY <1>3, <2>1
  <2> QED
    BY <1>1, <1>3, <2>1, <2>2
<1> QED
  BY <1>4, <1>5

(* Moving a byte on to the shift register does not change it. *)
LEMMA ShiftSent ==
  ASSUME TxTypeOK, NEW v \in Uart, shift(v), NEW u \in Uart
  PROVE  Sent(u)' = Sent(u) /\ dr'[u] \in {NoByte, dr[u]}
<1>1. /\ dr \in [Uart -> {NoByte} \cup FrameByte] /\ wire \in [Uart -> Seq(FrameByte)]
  BY DEF TxTypeOK
<1>2. CASE u = v
  <2>1. dr[u] # NoByte /\ dr'[u] = NoByte /\ wire'[u] = Append(wire[u], dr[u])
    BY <1>1, <1>2 DEF shift
  <2> QED
    BY <2>1 DEF Sent
<1>3. CASE u # v
  <2>1. dr'[u] = dr[u] /\ wire'[u] = wire[u]
    BY <1>1, <1>3 DEF shift
  <2> QED
    BY <2>1 DEF Sent
<1> QED
  BY <1>2, <1>3

(* A byte written to the data register is behind what has left it. *)
LEMMA WriteSent ==
  ASSUME TxTypeOK, NEW t \in Task, txWrites(t),
         NEW u \in Uart, u = tx[t].uart, NEW b, b = <<tx[t].frame, tx[t].byte>>
  PROVE  /\ dr'[u] = b /\ wire'[u] = wire[u]
         /\ Len(Sent(u)') = Len(wire[u]) + 1 /\ DOMAIN Sent(u)' = 1 .. Len(wire[u]) + 1
         /\ Sent(u)'[Len(wire[u]) + 1] = b
         /\ \A p \in 1 .. Len(wire[u]) : Sent(u)'[p] = Sent(u)[p] /\ p \in DOMAIN Sent(u)
         /\ \A v \in Uart \ {u} : dr'[v] = dr[v] /\ Sent(v)' = Sent(v)
<1>1. /\ dr \in [Uart -> {NoByte} \cup FrameByte] /\ wire \in [Uart -> Seq(FrameByte)]
  BY DEF TxTypeOK
<1>2. b \in FrameByte /\ b # NoByte
  BY WriteShape, SendingPlace, NotEmpty DEF FrameByte
<1>3. dr' = [dr EXCEPT ![u] = b] /\ wire' = wire
  BY DEF txWrites
<1>4. dr'[u] = b /\ \A v \in Uart \ {u} : dr'[v] = dr[v]
  BY <1>1, <1>2, <1>3
<1>5. Sent(u)' = Append(wire[u], b)
  BY <1>2, <1>3, <1>4 DEF Sent
<1>6. \A v \in Uart \ {u} : Sent(v)' = Sent(v)
  BY <1>3, <1>4 DEF Sent
<1>7. /\ Len(Sent(u)') = Len(wire[u]) + 1 /\ Sent(u)'[Len(wire[u]) + 1] = b
      /\ Sent(u)' \in Seq(FrameByte)
      /\ \A p \in 1 .. Len(wire[u]) : Sent(u)'[p] = wire[u][p]
  BY <1>1, <1>2, <1>5, AppendProperties
<1>8. \A p \in 1 .. Len(wire[u]) : Sent(u)[p] = wire[u][p] /\ p \in DOMAIN Sent(u)
  <2>1. /\ Len(wire[u]) \in Nat /\ DOMAIN Sent(u) = 1 .. Len(Sent(u))
        /\ Len(Sent(u)) = Len(wire[u]) \/ Len(Sent(u)) = Len(wire[u]) + 1
        /\ \A p \in 1 .. Len(wire[u]) : Sent(u)[p] = wire[u][p]
    BY SentIs
  <2>2. 1 .. Len(wire[u]) \subseteq DOMAIN Sent(u)
    BY <2>1
  <2> QED
    BY <2>1, <2>2
<1>9. DOMAIN Sent(u)' = 1 .. Len(wire[u]) + 1
  BY <1>7, LenProperties
<1> QED
  BY <1>3, <1>4, <1>6, <1>7, <1>8, <1>9

(* Steps that send nothing. *)
LEMMA SameSent ==
  ASSUME UNCHANGED <<dr, wire>>, NEW u \in Uart
  PROVE  Sent(u)' = Sent(u) /\ dr'[u] = dr[u] /\ \A f, i : Out(u, f, i)' <=> Out(u, f, i)
  BY DEF Sent, Out

(* A reset empties the data registers. *)
LEMMA ResetSent ==
  ASSUME TxTypeOK, BKEL_RPC_MCU_Reset, NEW u \in Uart
  PROVE  /\ Sent(u)' = wire[u] /\ Len(wire[u]) <= Len(Sent(u))
         /\ \A p \in 1 .. Len(wire[u]) : p \in DOMAIN Sent(u) /\ Sent(u)'[p] = Sent(u)[p]
         /\ DOMAIN Sent(u)' = 1 .. Len(wire[u])
<1>1. dr'[u] = NoByte /\ wire' = wire
  BY DEF BKEL_RPC_MCU_Reset
<1>2. Sent(u)' = wire[u]
  BY <1>1 DEF Sent
<1> QED
  BY <1>2, SentIs

-----------------------------------------------------------------------------
(* The tasks: frames in one piece                                          *)

LEMMA NextPiece ==
  ASSUME RxTypeOK, TxTypeOK, PacketsInv, SenderInv, FrameInv, PieceInv, [Next]_taskVars
  PROVE  PieceInv'
<1> USE DEF PieceInv
<1>1. CASE Quiet
  BY <1>1, SameSent DEF Quiet, Sending
<1>2. ASSUME NEW t \in Task, NEW f \in FrameIds', Starts(t, f) PROVE PieceInv'
  <2>1. /\ tx'[t].byte = 1 /\ ~tx'[t].txe
        /\ \A s \in Task \ {t} : tx'[s] = tx[s] /\ (Sending(s)' <=> Sending(s))
    BY <1>2, StartShape DEF Starts, Sending
  <2>2. UNCHANGED <<dr, wire>> /\ split \subseteq split'
    BY <1>2 DEF Starts, Transmit
  <2>3. \A u \in Uart : Sent(u)' = Sent(u) /\ dr'[u] = dr[u]
    BY <2>2, SameSent
  <2>4. ASSUME NEW s \in Task \ {t}, NEW u \in Uart, Sending(s)', tx'[s].uart = u,
               tx'[s].frame \notin split'
        PROVE  /\ tx'[s].byte > 1 =>
                     /\ Len(Sent(u)') > 0
                     /\ Sent(u)'[Len(Sent(u)')] = <<tx'[s].frame, tx'[s].byte - 1>>
               /\ tx'[s].txe => dr'[u] = NoByte
    <3>1. /\ s \in Task /\ tx'[s] = tx[s] /\ Sending(s) /\ tx[s].uart = u
          /\ tx[s].frame \notin split
      BY <2>1, <2>2, <2>4
    <3>2. Sent(u)' = Sent(u) /\ dr'[u] = dr[u]
      BY <2>3
    <3> QED
      BY <3>1, <3>2
  <2>5. ~(tx'[t].byte > 1)
    BY <2>1
  <2> QED
    BY <2>1, <2>4, <2>5
<1>3. ASSUME NEW t \in Task, txTests(t) PROVE PieceInv'
  <2>1. /\ tx'[t].frame = tx[t].frame /\ tx'[t].uart = tx[t].uart /\ tx'[t].byte = tx[t].byte
        /\ Sending(t)
        /\ \A s \in Task \ {t} : tx'[s] = tx[s] /\ (Sending(s)' <=> Sending(s))
    BY <1>3, TestShape DEF Sending
  <2>2. UNCHANGED <<dr, wire, split>> /\ dr[tx[t].uart] = NoByte
    BY <1>3 DEF txTests
  <2>3. \A u \in Uart : Sent(u)' = Sent(u) /\ dr'[u] = dr[u]
    BY <2>2, SameSent
  <2>4. ASSUME NEW s \in Task \ {t}, NEW u \in Uart, Sending(s)', tx'[s].uart = u,
               tx'[s].frame \notin split'
        PROVE  /\ tx'[s].byte > 1 =>
                     /\ Len(Sent(u)') > 0
                     /\ Sent(u)'[Len(Sent(u)')] = <<tx'[s].frame, tx'[s].byte - 1>>
               /\ tx'[s].txe => dr'[u] = NoByte
    BY <2>1, <2>2, <2>3, <2>4
  <2>5. ASSUME NEW u \in Uart, tx'[t].uart = u, tx'[t].frame \notin split'
        PROVE  /\ tx'[t].byte > 1 =>
                     /\ Len(Sent(u)') > 0
                     /\ Sent(u)'[Len(Sent(u)')] = <<tx'[t].frame, tx'[t].byte - 1>>
               /\ dr'[u] = NoByte
    BY <2>1, <2>2, <2>3, <2>5
  <2> QED
    BY <2>4, <2>5
<1>4. ASSUME NEW t \in Task, txWrites(t) PROVE PieceInv'
  <2>1. Runs(t) /\ Sending(t) /\ UNCHANGED split
    BY <1>4 DEF txWrites, Sending
  <2>2. ASSUME NEW s \in Task \ {t}, Sending(s)' PROVE tx'[s].frame \in split'
    <3>1. tx'[s] = tx[s] /\ Sending(s)
      BY <1>4, <2>2, WriteShape DEF Sending
    <3> QED
      BY <2>1, <3>1, SendsAlone
  <2>3. ASSUME NEW u \in Uart, Sending(t)', tx'[t].uart = u
        PROVE  /\ tx'[t].byte > 1 =>
                     /\ Len(Sent(u)') > 0
                     /\ Sent(u)'[Len(Sent(u)')] = <<tx'[t].frame, tx'[t].byte - 1>>
               /\ ~tx'[t].txe
    <3>1. CASE tx'[t].byte = 1
      BY <1>4, <2>3, <3>1, WriteShape
    <3>2. CASE tx'[t].byte # 1
      <4>1. /\ tx'[t].frame = tx[t].frame /\ u = tx[t].uart /\ tx'[t].byte = tx[t].byte + 1
            /\ ~tx'[t].txe
        BY <1>4, <2>3, <3>2, WriteShape
      <4>2. PICK b : b = <<tx[t].frame, tx[t].byte>>
        OBVIOUS
      <4>3. /\ Len(Sent(u)') = Len(wire[u]) + 1 /\ Sent(u)'[Len(wire[u]) + 1] = b
        BY <1>4, <4>1, <4>2, WriteSent
      <4>4. Len(wire[u]) \in Nat /\ tx[t].byte \in 1 .. TxLen
        BY <2>1, SentIs, SendingPlace
      <4>5. (tx[t].byte + 1) - 1 = tx[t].byte
        BY <4>4, LengthAssumption
      <4> QED
        BY <4>1, <4>2, <4>3, <4>4, <4>5
    <3> QED
      BY <3>1, <3>2
  <2> QED
    BY <2>2, <2>3
<1>5. ASSUME NEW v \in Uart, shift(v) PROVE PieceInv'
  <2>1. UNCHANGED <<tx, split>>
    BY <1>5 DEF shift
  <2>2. \A u \in Uart : Sent(u)' = Sent(u) /\ dr'[u] \in {NoByte, dr[u]}
    BY <1>5, ShiftSent
  <2> QED
    BY <2>1, <2>2 DEF Sending
<1>6. CASE BKEL_RPC_MCU_Reset
  BY <1>6 DEF BKEL_RPC_MCU_Reset, Sending
<1> QED
  BY <1>1, <1>2, <1>3, <1>4, <1>5, <1>6, StepKinds

(* A byte is written into an empty register, unless it is an advertisement's and      *)
(* the register of USART2 holds the last byte of another frame.                    *)
LEMMA WriteFindsRoom ==
  ASSUME TxTypeOK, PacketsInv, SenderInv, FrameInv, PieceInv, RegisterInv,
         NEW t \in Task, txWrites(t)
  PROVE  \/ dr[tx[t].uart] = NoByte
         \/ t = "advertise" /\ tx[t].uart = 2 /\ dr[2][1][1] # "adv" /\ dr[2][2] = TxLen
<1>1. Runs(t) /\ Sending(t) /\ tx[t].txe
  BY DEF txWrites, Sending
<1>2. CASE t = "advertise"
  BY <1>1, <1>2, StartsAlone DEF RegisterInv
<1>3. CASE t \in Senders
  <2>1. tx[t].frame \notin split /\ tx[t].uart \in Uart
    BY <1>1, <1>3, SendingPlace DEF FrameInv
  <2> QED
    BY <1>1, <2>1 DEF PieceInv
<1> QED
  BY <1>2, <1>3, TaskSet DEF Senders

LEMMA NextRegisters ==
  ASSUME RxTypeOK, TxTypeOK, PacketsInv, SenderInv, FrameInv, PieceInv, RegisterInv, [Next]_taskVars
  PROVE  RegisterInv'
<1> USE DEF RegisterInv
<1>0. Senders \subseteq Task /\ "advertise" \in Task \ Senders
  BY TaskSet DEF Senders
<1>1. CASE Quiet
  BY <1>1 DEF Quiet, Sending
<1>2. ASSUME NEW t \in Task, NEW f \in FrameIds', Starts(t, f) PROVE RegisterInv'
  <2>1. /\ Sending(t)' /\ ~tx'[t].txe
        /\ \A s \in Task \ {t} : tx'[s] = tx[s] /\ (Sending(s)' <=> Sending(s))
    BY <1>2, StartShape DEF Starts, Sending
  <2>2. UNCHANGED dr /\ \A s \in Senders : ~Sending(s)
    BY <1>2 DEF Starts, Transmit
  <2>3. \A s \in Senders \ {t} : ~Sending(s)'
    BY <1>0, <2>1, <2>2
  <2>4. t = "advertise" \/ t \in Senders
    BY TaskSet DEF Senders
  <2> QED
    BY <1>0, <2>1, <2>2, <2>3, <2>4
<1>3. ASSUME NEW t \in Task, txTests(t) PROVE RegisterInv'
  <2>1. /\ tx'[t].uart = tx[t].uart /\ tx'[t].byte = tx[t].byte /\ Sending(t) /\ Sending(t)'
        /\ \A s \in Task \ {t} : tx'[s] = tx[s] /\ (Sending(s)' <=> Sending(s))
    BY <1>3, TestShape DEF Sending
  <2>2. /\ UNCHANGED dr /\ dr[tx[t].uart] = NoByte
        /\ tx[t].uart = 2 /\ tx[t].byte = TxLen => dr[1] = NoByte
    BY <1>3 DEF txTests
  <2>3. \A s \in Senders : Sending(s)' /\ tx'[s].txe /\ tx'[s].uart = 2 /\ tx'[s].byte = TxLen
                              => dr'[1] = NoByte
    BY <1>0, <2>1, <2>2
  <2>4. CASE t = "advertise"
    BY <1>0, <2>1, <2>2, <2>3, <2>4
  <2>5. CASE t # "advertise"
    <3>1. t \in Senders
      BY <2>5, TaskSet DEF Senders
    <3> QED
      BY <1>0, <2>1, <2>2, <2>3, <3>1
  <2> QED
    BY <2>4, <2>5
<1>4. ASSUME NEW t \in Task, txWrites(t) PROVE RegisterInv'
  <2>1. Runs(t) /\ Sending(t) /\ tx[t].txe
    BY <1>4 DEF txWrites, Sending
  <2>2. \A s \in Task \ {t} : tx'[s] = tx[s] /\ (Sending(s)' <=> Sending(s))
    BY <1>4, WriteShape DEF Sending
  <2>3. Sending(t)' => ~tx'[t].txe
    BY <1>4, WriteShape
  <2>4. \A s \in Senders \ {t} : ~Sending(s)'
    BY <1>0, <2>1, <2>2, SendsAlone
  <2>5. CASE t = "advertise"
    BY <1>0, <2>3, <2>4, <2>5
  <2>6. CASE t \in Senders /\ Sending(t)'
    BY <1>0, <2>3, <2>4, <2>6
  <2>7. CASE t \in Senders /\ ~Sending(t)'
    <3>1. tx[t].byte = TxLen /\ tx[t].uart = 2
      BY <1>4, <2>7, WriteShape
    <3>2. dr[1] = NoByte
      BY <2>1, <2>7, <3>1
    <3>3. PICK b : b = <<tx[t].frame, tx[t].byte>>
      OBVIOUS
    <3>4. dr'[2] = b /\ dr'[1] = NoByte
      BY <1>4, <3>1, <3>2, <3>3, WriteSent DEF Uart
    <3>5. dr'[2][1][1] # "adv" /\ dr'[2][2] = TxLen
      BY <2>1, <2>7, <3>1, <3>3, <3>4 DEF FrameInv
    <3>6. Sending("advertise")' => tx'["advertise"].uart \in Uart
      BY <1>0, <2>2, <2>7, SendingPlace
    <3> QED
      BY <2>4, <2>7, <3>4, <3>5, <3>6 DEF Uart
  <2> QED
    BY <2>5, <2>6, <2>7, TaskSet DEF Senders
<1>5. ASSUME NEW v \in Uart, shift(v) PROVE RegisterInv'
  <2>1. UNCHANGED tx
    BY <1>5 DEF shift
  <2>2. \A u \in Uart : dr'[u] \in {NoByte, dr[u]}
    BY <1>5, ShiftSent
  <2>3. Sending("advertise") => tx["advertise"].uart \in Uart
    BY <1>0, SendingPlace
  <2> QED
    BY <2>1, <2>2, <2>3 DEF Sending, Uart
<1>6. CASE BKEL_RPC_MCU_Reset
  BY <1>0, <1>6 DEF BKEL_RPC_MCU_Reset, Sending
<1> QED
  BY <1>1, <1>2, <1>3, <1>4, <1>5, <1>6, StepKinds

LEMMA NextFollows ==
  ASSUME RxTypeOK, TxTypeOK, PacketsInv, SenderInv, FrameInv, PieceInv, FollowInv, [Next]_taskVars
  PROVE  FollowInv'
<1> USE DEF FollowInv
<1>1. ASSUME \A u \in Uart : Sent(u)' = Sent(u), split \subseteq split' PROVE FollowInv'
  BY <1>1
<1>2. CASE Quiet
  BY <1>1, <1>2, SameSent DEF Quiet
<1>3. ASSUME NEW t \in Task, NEW f \in FrameIds', Starts(t, f) PROVE FollowInv'
  <2>1. UNCHANGED <<dr, wire>> /\ split \subseteq split'
    BY <1>3 DEF Starts, Transmit
  <2> QED
    BY <1>1, <2>1, SameSent
<1>4. ASSUME NEW t \in Task, txTests(t) PROVE FollowInv'
  BY <1>1, <1>4, SameSent DEF txTests
<1>5. ASSUME NEW t \in Task, txWrites(t) PROVE FollowInv'
  <2>1. Sending(t) /\ tx[t].txe /\ UNCHANGED split
    BY <1>5 DEF txWrites, Sending
  <2>2. PICK u \in Uart : u = tx[t].uart
    BY <2>1, SendingPlace
  <2>3. PICK b : b = <<tx[t].frame, tx[t].byte>>
    OBVIOUS
  <2>4. PICK n \in Nat : n = Len(wire[u])
    BY SentIs
  <2>5. /\ DOMAIN Sent(u)' = 1 .. n + 1 /\ Sent(u)'[n + 1] = b
        /\ \A p \in 1 .. n : Sent(u)'[p] = Sent(u)[p] /\ p \in DOMAIN Sent(u)
        /\ \A v \in Uart \ {u} : Sent(v)' = Sent(v)
    BY <1>5, <2>2, <2>3, <2>4, WriteSent
  <2>6. ASSUME NEW p \in 1 .. n, Sent(u)'[p][1] \notin split', Sent(u)'[p][2] > 1
        PROVE  p > 1 /\ Sent(u)'[p - 1] = <<Sent(u)'[p][1], Sent(u)'[p][2] - 1>>
    <3>1. p > 1 /\ Sent(u)[p - 1] = <<Sent(u)[p][1], Sent(u)[p][2] - 1>>
      BY <2>1, <2>5, <2>6
    <3>2. p - 1 \in 1 .. n
      BY <3>1
    <3> QED
      BY <2>5, <3>1, <3>2
  <2>7. ASSUME b[1] \notin split, b[2] > 1
        PROVE  n > 0 /\ Sent(u)'[n] = <<b[1], b[2] - 1>>
    <3>1. /\ dr[u] = NoByte /\ Len(Sent(u)) > 0
          /\ Sent(u)[Len(Sent(u))] = <<b[1], b[2] - 1>>
      BY <2>1, <2>2, <2>3, <2>7 DEF PieceInv
    <3>2. Len(Sent(u)) = n
      BY <2>4, <3>1, SentIs
    <3> QED
      BY <2>5, <3>1, <3>2
  <2>8. \A p \in 1 .. n + 1 : p \in 1 .. n \/ p = n + 1
    OBVIOUS
  <2>9. (n + 1) - 1 = n /\ (n > 0 => n + 1 > 1)
    OBVIOUS
  <2>10. ASSUME NEW p \in 1 .. n + 1, Sent(u)'[p][1] \notin split', Sent(u)'[p][2] > 1
         PROVE  p > 1 /\ Sent(u)'[p - 1] = <<Sent(u)'[p][1], Sent(u)'[p][2] - 1>>
    <3>1. CASE p \in 1 .. n
      BY <2>6, <2>10, <3>1
    <3>2. CASE p = n + 1
      BY <2>1, <2>5, <2>7, <2>9, <2>10, <3>2
    <3> QED
      BY <2>8, <3>1, <3>2
  <2>11. ASSUME NEW v \in Uart, v # u, NEW p \in DOMAIN Sent(v)',
                Sent(v)'[p][1] \notin split', Sent(v)'[p][2] > 1
         PROVE  p > 1 /\ Sent(v)'[p - 1] = <<Sent(v)'[p][1], Sent(v)'[p][2] - 1>>
    BY <2>1, <2>5, <2>11
  <2> QED
    BY <2>5, <2>10, <2>11
<1>6. ASSUME NEW v \in Uart, shift(v) PROVE FollowInv'
  BY <1>1, <1>6, ShiftSent DEF shift
<1>7. CASE BKEL_RPC_MCU_Reset
  <2>1. UNCHANGED split
    BY <1>7 DEF BKEL_RPC_MCU_Reset
  <2>2. ASSUME NEW u \in Uart, NEW p \in DOMAIN Sent(u)',
               Sent(u)'[p][1] \notin split', Sent(u)'[p][2] > 1
        PROVE  p > 1 /\ Sent(u)'[p - 1] = <<Sent(u)'[p][1], Sent(u)'[p][2] - 1>>
    <3>1. PICK n \in Nat : n = Len(wire[u])
      BY SentIs
    <3>2. /\ DOMAIN Sent(u)' = 1 .. n
          /\ \A q \in 1 .. n : q \in DOMAIN Sent(u) /\ Sent(u)'[q] = Sent(u)[q]
      BY <1>7, <3>1, ResetSent
    <3>3. p > 1 /\ Sent(u)[p - 1] = <<Sent(u)[p][1], Sent(u)[p][2] - 1>>
      BY <2>1, <2>2, <3>2
    <3>4. p - 1 \in 1 .. n
      BY <3>2, <3>3
    <3> QED
      BY <3>2, <3>3, <3>4
  <2> QED
    BY <2>2
<1> QED
  BY <1>2, <1>3, <1>4, <1>5, <1>6, <1>7, StepKinds

(* An advertisement that begins is a new one. *)
LEMMA NewAdvertisement ==
  ASSUME TxTypeOK, NEW u \in Uart, NEW p \in DOMAIN Sent(u)
  PROVE  Sent(u)[p][1] # <<"adv", advSent + 1>> /\ Sent(u)[p][2] \in 1 .. TxLen
<1>1. Sent(u)[p] \in FrameByte /\ advSent \in Nat
  BY SentIs DEF TxTypeOK
<1>2. Sent(u)[p][1] \in FrameIds /\ Sent(u)[p][2] \in 1 .. TxLen
  BY <1>1 DEF FrameByte
<1>3. \A i \in 1 .. advSent : <<"adv", i>> # <<"adv", advSent + 1>>
  BY <1>1
<1>4. <<"adv", advSent + 1>> \notin FrameIds
  BY <1>3 DEF FrameIds
<1> QED
  BY <1>2, <1>4

-----------------------------------------------------------------------------
(* The tasks: the bytes of an advertisement in order                       *)

(* OrderInv for one USART. *)
Ordered(u) ==
    \A p, q \in DOMAIN Sent(u) :
        Sent(u)[p][1][1] = "adv" /\ Sent(u)[p][1] = Sent(u)[q][1] /\ p < q =>
            Sent(u)[p][2] < Sent(u)[q][2]
Ahead(u) ==
    Sending("advertise") => \A p \in DOMAIN Sent(u) : Sent(u)[p][1] = tx["advertise"].frame =>
        /\ u <= tx["advertise"].uart
        /\ u = tx["advertise"].uart => Sent(u)[p][2] < tx["advertise"].byte

LEMMA WriteKeepsOrder ==
  ASSUME TxTypeOK, PacketsInv, SenderInv, FrameInv, NEW t \in Task, txWrites(t),
         NEW v \in Uart, Ordered(v), Ahead(v)
  PROVE  Ordered(v)' /\ Ahead(v)'
<1>1. Sending(t) /\ Runs(t)
  BY DEF txWrites, Sending
<1>2. PICK u \in Uart : u = tx[t].uart
  BY <1>1, SendingPlace
<1>3. PICK b : b = <<tx[t].frame, tx[t].byte>>
  OBVIOUS
<1>4. PICK n \in Nat : n = Len(wire[u])
  BY SentIs
<1>5. /\ DOMAIN Sent(u)' = 1 .. n + 1 /\ Sent(u)'[n + 1] = b
      /\ \A p \in 1 .. n : Sent(u)'[p] = Sent(u)[p] /\ p \in DOMAIN Sent(u)
      /\ \A w \in Uart \ {u} : Sent(w)' = Sent(w)
  BY <1>2, <1>3, <1>4, WriteSent
<1>6. tx[t].byte \in Nat /\ TxLen \in Nat
  BY <1>1, SendingPlace, LengthAssumption
<1>7. "advertise" \in Task
  BY TaskSet
<1>8. CASE t # "advertise"
  <2>1. t \in Senders /\ tx'["advertise"] = tx["advertise"]
    BY <1>7, <1>8, TaskSet, WriteShape DEF Senders
  <2>2. b[1][1] # "adv" /\ (Sending("advertise") => tx["advertise"].frame[1] = "adv")
    BY <1>1, <1>3, <2>1 DEF FrameInv
  <2>3. CASE v = u
    <3>1. \A p \in DOMAIN Sent(u)' : Sent(u)'[p][1][1] = "adv" =>
             p \in DOMAIN Sent(u) /\ Sent(u)'[p] = Sent(u)[p]
      BY <1>5, <2>2
    <3>2. Ordered(v)'
      BY <2>3, <3>1 DEF Ordered
    <3>3. Ahead(v)'
      BY <2>1, <2>2, <2>3, <3>1 DEF Ahead, Sending
    <3> QED
      BY <3>2, <3>3
  <2>4. CASE v # u
    BY <1>5, <2>1, <2>4 DEF Ordered, Ahead, Sending
  <2> QED
    BY <2>3, <2>4
<1>9. CASE t = "advertise"
  <2>1. CASE v = u
    <3>1. \A p \in 1 .. n : Sent(u)'[p][1] = b[1] => Sent(u)'[p][2] < b[2]
      BY <1>1, <1>2, <1>3, <1>5, <1>9, <2>1 DEF Ahead
    <3>2. ASSUME NEW p \in DOMAIN Sent(u)', NEW q \in DOMAIN Sent(u)', p < q,
                 Sent(u)'[p][1][1] = "adv", Sent(u)'[p][1] = Sent(u)'[q][1]
          PROVE  Sent(u)'[p][2] < Sent(u)'[q][2]
      <4>1. p \in 1 .. n
        BY <1>5, <3>2
      <4>2. CASE q = n + 1
        BY <1>5, <3>1, <3>2, <4>1, <4>2
      <4>3. CASE q \in 1 .. n
        BY <1>5, <2>1, <3>2, <4>1, <4>3 DEF Ordered
      <4> QED
        BY <1>5, <4>2, <4>3
    <3>3. ASSUME Sending(t)', NEW p \in DOMAIN Sent(u)', Sent(u)'[p][1] = tx'[t].frame
          PROVE  u <= tx'[t].uart /\ (u = tx'[t].uart => Sent(u)'[p][2] < tx'[t].byte)
      <4>1. tx'[t].frame = b[1]
        BY <1>3, <3>3, WriteShape
      <4>2. \/ tx'[t].uart = u /\ tx'[t].byte = b[2] + 1
            \/ tx'[t].uart = 2 /\ u = 1
        BY <1>2, <1>3, <3>3, WriteShape
      <4>3. Sent(u)'[p][2] <= b[2] /\ Sent(u)'[p][2] \in Int
        <5>1. CASE p = n + 1
          BY <1>3, <1>5, <1>6, <5>1
        <5>2. CASE p \in 1 .. n
          <6>1. Sent(u)'[p][2] \in 1 .. TxLen
            BY <1>5, <5>2, NewAdvertisement
          <6> QED
            BY <1>3, <1>6, <3>1, <3>3, <4>1, <5>2, <6>1
        <5> QED
          BY <1>5, <5>1, <5>2
      <4> QED
        BY <1>3, <1>6, <4>2, <4>3 DEF Uart
    <3> QED
      BY <1>9, <2>1, <3>2, <3>3 DEF Ordered, Ahead
  <2>2. CASE v # u
    <3>1. Sent(v)' = Sent(v)
      BY <1>5, <2>2
    <3>2. Sending(t)' => tx'[t].frame = tx[t].frame /\ (tx'[t].uart = u \/ (u = 1 /\ tx'[t].uart = 2))
      BY <1>2, WriteShape
    <3>3. \A p \in DOMAIN Sent(v) : Sent(v)[p][1] = tx[t].frame => v <= u
      BY <1>1, <1>2, <1>9 DEF Ahead
    <3>4. CASE v = 1
      BY <1>9, <2>2, <3>1, <3>2, <3>3, <3>4 DEF Ordered, Ahead, Uart
    <3>5. CASE v = 2
      BY <1>9, <2>2, <3>1, <3>2, <3>3, <3>5 DEF Ordered, Ahead, Uart
    <3> QED
      BY <3>4, <3>5 DEF Uart
  <2> QED
    BY <2>1, <2>2
<1> QED
  BY <1>8, <1>9

LEMMA NextOrder ==
  ASSUME RxTypeOK, TxTypeOK, PacketsInv, SenderInv, FrameInv, OrderInv, [Next]_taskVars
  PROVE  OrderInv'
<1>1. (OrderInv <=> \A u \in Uart : Ordered(u) /\ Ahead(u))
      /\ (OrderInv' <=> \A u \in Uart : Ordered(u)' /\ Ahead(u)')
  BY DEF OrderInv, Ordered, Ahead
<1>2. ASSUME NEW u \in Uart, Sent(u)' = Sent(u),
             Sending("advertise")' => /\ Sending("advertise")
                                      /\ tx'["advertise"].frame = tx["advertise"].frame
                                      /\ tx'["advertise"].uart = tx["advertise"].uart
                                      /\ tx'["advertise"].byte = tx["advertise"].byte
      PROVE  Ordered(u)' /\ Ahead(u)'
  <2>1. Ordered(u) /\ Ahead(u)
    BY <1>1
  <2>2. Ordered(u)'
    BY <1>2, <2>1 DEF Ordered
  <2>3. Ahead(u)'
    BY <1>2, <2>1 DEF Ahead
  <2> QED
    BY <2>2, <2>3
<1>3. CASE Quiet
  BY <1>1, <1>2, <1>3, SameSent DEF Quiet, Sending
<1>4. ASSUME NEW t \in Task, NEW f \in FrameIds', Starts(t, f), NEW u \in Uart
      PROVE  Ordered(u)' /\ Ahead(u)'
  <2>1. Sent(u)' = Sent(u)
    BY <1>4, SameSent DEF Starts, Transmit
  <2>2. CASE t = "advertise"
    <3>1. tx'[t].frame = <<"adv", advSent + 1>>
      BY <1>4, <2>2, StartShape DEF Starts, Senders
    <3>2. \A p \in DOMAIN Sent(u) : Sent(u)[p][1] # tx'[t].frame
      BY <3>1, NewAdvertisement
    <3>3. Ordered(u)
      BY <1>1
    <3> QED
      BY <2>1, <2>2, <3>2, <3>3 DEF Ordered, Ahead
  <2>3. CASE t # "advertise"
    <3>1. tx'["advertise"] = tx["advertise"]
      BY <1>4, <2>3, StartShape, TaskSet DEF Starts
    <3> QED
      BY <1>2, <2>1, <3>1 DEF Sending
  <2> QED
    BY <2>2, <2>3
<1>5. ASSUME NEW t \in Task, txTests(t), NEW u \in Uart
      PROVE  Ordered(u)' /\ Ahead(u)'
  <2>1. Sent(u)' = Sent(u)
    BY <1>5, SameSent DEF txTests
  <2>2. /\ Sending("advertise")' => Sending("advertise")
        /\ tx'["advertise"].frame = tx["advertise"].frame
        /\ tx'["advertise"].uart = tx["advertise"].uart
        /\ tx'["advertise"].byte = tx["advertise"].byte
    BY <1>5, TestShape, TaskSet DEF Sending
  <2> QED
    BY <1>2, <2>1, <2>2
<1>6. ASSUME NEW t \in Task, txWrites(t), NEW u \in Uart
      PROVE  Ordered(u)' /\ Ahead(u)'
  BY <1>1, <1>6, WriteKeepsOrder
<1>7. ASSUME NEW v \in Uart, shift(v), NEW u \in Uart PROVE Ordered(u)' /\ Ahead(u)'
  <2>1. Sent(u)' = Sent(u) /\ tx' = tx
    BY <1>7, ShiftSent DEF shift
  <2> QED
    BY <1>2, <2>1 DEF Sending
<1>8. ASSUME BKEL_RPC_MCU_Reset, NEW u \in Uart PROVE Ordered(u)' /\ Ahead(u)'
  <2>1. ~Sending("advertise")'
    BY <1>8, TaskSet DEF BKEL_RPC_MCU_Reset, Sending
  <2>2. \A p \in DOMAIN Sent(u)' : p \in DOMAIN Sent(u) /\ Sent(u)'[p] = Sent(u)[p]
    BY <1>8, ResetSent
  <2>3. Ordered(u)
    BY <1>1
  <2> QED
    BY <2>1, <2>2, <2>3 DEF Ordered, Ahead
<1> QED
  BY <1>1, <1>3, <1>4, <1>5, <1>6, <1>7, <1>8, StepKinds

-----------------------------------------------------------------------------
(* The tasks: how much of a frame is out                                   *)

LEMMA RangeOfAppend ==
  ASSUME NEW S, NEW s \in Seq(S), NEW e \in S
  PROVE  Range(Append(s, e)) = Range(s) \cup {e}
<1>1. /\ DOMAIN s = 1 .. Len(s) /\ Len(s) \in Nat
      /\ DOMAIN Append(s, e) = 1 .. Len(s) + 1
      /\ \A p \in 1 .. Len(s) : Append(s, e)[p] = s[p]
      /\ Append(s, e)[Len(s) + 1] = e
  BY AppendProperties, LenProperties
<1>2. \A p : p \in 1 .. Len(s) + 1 <=> p \in 1 .. Len(s) \/ p = Len(s) + 1
  BY <1>1
<1> QED
  BY <1>1, <1>2 DEF Range

LEMMA ShiftOut ==
  ASSUME TxTypeOK, NEW v \in Uart, shift(v), NEW u \in Uart, NEW f, NEW i
  PROVE  Out(u, f, i)' <=> Out(u, f, i)
<1>1. dr \in [Uart -> {NoByte} \cup FrameByte] /\ wire \in [Uart -> Seq(FrameByte)]
  BY DEF TxTypeOK
<1>2. CASE u = v
  <2>1. /\ dr[u] # NoByte /\ dr[u] \in FrameByte
        /\ dr'[u] = NoByte /\ wire'[u] = Append(wire[u], dr[u])
    BY <1>1, <1>2 DEF shift
  <2>2. Range(wire'[u]) = Range(wire[u]) \cup {dr[u]}
    BY <1>1, <2>1, RangeOfAppend
  <2> QED
    BY <2>1, <2>2, NotEmpty DEF Out
<1>3. CASE u # v
  <2>1. dr'[u] = dr[u] /\ wire'[u] = wire[u]
    BY <1>1, <1>3 DEF shift
  <2> QED
    BY <2>1 DEF Out
<1> QED
  BY <1>2, <1>3

LEMMA WriteOut ==
  ASSUME TxTypeOK, PacketsInv, SenderInv, FrameInv, PieceInv, RegisterInv,
         NEW t \in Task, txWrites(t), NEW v \in Uart, NEW f, NEW i
  PROVE  /\ v = tx[t].uart /\ f = tx[t].frame /\ i = tx[t].byte => Out(v, f, i)'
         /\ Out(v, f, i) => Out(v, f, i)' \/ (v = 2 /\ f[1] # "adv" /\ i = TxLen)
         /\ Out(v, f, i)' => \/ Out(v, f, i)
                             \/ v = tx[t].uart /\ f = tx[t].frame /\ i = tx[t].byte
<1>1. PICK b : b = <<tx[t].frame, tx[t].byte>>
  OBVIOUS
<1>2. wire' = wire
  BY DEF txWrites
<1>3. CASE v = tx[t].uart
  <2>1. dr'[v] = b
    BY <1>1, <1>3, WriteSent
  <2>2. ASSUME dr[v] = <<f, i>> PROVE v = 2 /\ f[1] # "adv" /\ i = TxLen
    <3>1. dr[v] # NoByte
      BY <2>2, NotEmpty
    <3>2. v = 2 /\ dr[2][1][1] # "adv" /\ dr[2][2] = TxLen
      BY <1>3, <3>1, WriteFindsRoom
    <3> QED
      BY <2>2, <3>2
  <2>3. <<f, i>> = b <=> f = tx[t].frame /\ i = tx[t].byte
    BY <1>1
  <2> QED
    BY <1>2, <1>3, <2>1, <2>2, <2>3 DEF Out
<1>4. CASE v # tx[t].uart
  <2>1. tx[t].uart \in Uart
    BY WriteShape, SendingPlace
  <2>2. dr'[v] = dr[v]
    BY <1>1, <1>4, <2>1, WriteSent
  <2> QED
    BY <1>2, <1>4, <2>2 DEF Out
<1> QED
  BY <1>3, <1>4

LEMMA WriteKeepsProgress ==
  ASSUME TxTypeOK, PacketsInv, SenderInv, FrameInv, PieceInv, RegisterInv,
         NEW t \in Task, txWrites(t), NEW s \in Task, NEW f \in FrameIds, FrameProgress(s, f)
  PROVE  FrameProgress(s, f)'
<1> SUFFICES ASSUME NEW u \in Uart, NEW i \in 1 .. TxLen, Sending(s)', tx'[s].frame = f,
                    \/ /\ s = "advertise"
                       /\ u < tx'[s].uart \/ (u = tx'[s].uart /\ i < tx'[s].byte)
                    \/ s \in Senders /\ u = 1 /\ tx'[s].uart = 2 /\ i = TxLen
             PROVE  Out(u, f, i)'
  BY DEF FrameProgress
<1>0. "advertise" \notin Senders /\ TxLen \in Nat
  BY LengthAssumption DEF Senders
<1>1. CASE Out(u, f, i)
  <2>1. ~(u = 2 /\ f[1] # "adv" /\ i = TxLen)
    <3>1. s = "advertise" => f[1] = "adv"
      <4>1. s = "advertise" => Sending(s) /\ tx[s].frame = f
        BY WriteShape DEF Sending
      <4> QED
        BY <4>1 DEF FrameInv
    <3> QED
      BY <3>1
  <2> QED
    BY <1>1, <2>1, WriteOut
<1>2. CASE s # t
  <2>1. tx'[s] = tx[s] /\ Sending(s)
    BY <1>2, WriteShape DEF Sending
  <2>2. Out(u, f, i)
    BY <2>1 DEF FrameProgress
  <2> QED
    BY <1>1, <2>2
<1>3. CASE s = t
  <2>1. Sending(t) /\ tx[t].frame = f /\ tx[t].byte \in 1 .. TxLen /\ tx[t].uart \in Uart
    BY <1>3, WriteShape, SendingPlace
  <2>2. CASE u = tx[t].uart /\ i = tx[t].byte
    BY <2>1, <2>2, WriteOut
  <2>3. CASE ~(u = tx[t].uart /\ i = tx[t].byte)
    <3>1. \/ tx[t].byte < TxLen /\ tx'[t].uart = tx[t].uart /\ tx'[t].byte = tx[t].byte + 1
          \/ tx[t].byte = TxLen /\ tx[t].uart = 1 /\ tx'[t].uart = 2 /\ tx'[t].byte = 1
      BY <1>3, WriteShape
    <3>2. \/ s = "advertise" /\ (u < tx[t].uart \/ (u = tx[t].uart /\ i < tx[t].byte))
          \/ s \in Senders /\ u = 1 /\ tx[t].uart = 2 /\ i = TxLen
      BY <1>0, <1>3, <2>1, <2>3, <3>1 DEF Uart
    <3>3. Out(u, f, i)
      BY <1>3, <2>1, <3>2 DEF FrameProgress
    <3> QED
      BY <1>1, <3>3
  <2> QED
    BY <2>2, <2>3
<1> QED
  BY <1>2, <1>3

LEMMA NextProgress ==
  ASSUME RxTypeOK, TxTypeOK, PacketsInv, SenderInv, FrameInv, PieceInv, RegisterInv, ProgressInv,
         [Next]_taskVars
  PROVE  ProgressInv'
<1>0. \A s \in Task, f \in FrameIds : FrameProgress(s, f)
  BY DEF ProgressInv
<1> SUFFICES ASSUME NEW s \in Task, NEW f \in FrameIds' PROVE FrameProgress(s, f)'
  BY DEF ProgressInv
<1>1. ASSUME Sending(s)' => /\ Sending(s) /\ tx'[s].frame = tx[s].frame
                            /\ tx'[s].uart = tx[s].uart /\ tx'[s].byte = tx[s].byte,
             \A u \in Uart : \A i : Out(u, f, i) => Out(u, f, i)'
      PROVE  FrameProgress(s, f)'
  <2>1. CASE Sending(s)' /\ tx'[s].frame = f
    <3>1. f \in FrameIds
      BY <1>1, <2>1, SendingPlace
    <3>2. FrameProgress(s, f)
      BY <1>0, <3>1
    <3> QED
      BY <1>1, <2>1, <3>2 DEF FrameProgress
  <2>2. CASE ~(Sending(s)' /\ tx'[s].frame = f)
    BY <2>2 DEF FrameProgress
  <2> QED
    BY <2>1, <2>2
<1>2. CASE Quiet
  BY <1>1, <1>2, SameSent DEF Quiet, Sending
<1>3. ASSUME NEW t \in Task, NEW g \in FrameIds', Starts(t, g) PROVE FrameProgress(s, f)'
  <2>1. \A u \in Uart : \A i : Out(u, f, i)' <=> Out(u, f, i)
    BY <1>3, SameSent DEF Starts, Transmit
  <2>2. CASE s = t
    <3>1. tx'[s].uart = 1 /\ tx'[s].byte = 1
      BY <1>3, <2>2, StartShape DEF Starts
    <3> QED
      BY <3>1 DEF FrameProgress, Uart
  <2>3. CASE s # t
    <3>1. tx'[s] = tx[s]
      BY <1>3, <2>3, StartShape DEF Starts
    <3> QED
      BY <1>1, <2>1, <3>1 DEF Sending
  <2> QED
    BY <2>2, <2>3
<1>4. ASSUME NEW t \in Task, txTests(t) PROVE FrameProgress(s, f)'
  <2>1. \A u \in Uart : \A i : Out(u, f, i)' <=> Out(u, f, i)
    BY <1>4, SameSent DEF txTests
  <2>2. Sending(s)' => /\ Sending(s) /\ tx'[s].frame = tx[s].frame
                       /\ tx'[s].uart = tx[s].uart /\ tx'[s].byte = tx[s].byte
    BY <1>4, TestShape DEF Sending
  <2> QED
    BY <1>1, <2>1, <2>2
<1>5. ASSUME NEW t \in Task, txWrites(t) PROVE FrameProgress(s, f)'
  <2>1. FrameIds' = FrameIds
    BY <1>5 DEF txWrites, advVars, FrameIds
  <2> QED
    BY <1>0, <1>5, <2>1, WriteKeepsProgress
<1>6. ASSUME NEW v \in Uart, shift(v) PROVE FrameProgress(s, f)'
  <2>1. \A u \in Uart : \A i : Out(u, f, i)' <=> Out(u, f, i)
    BY <1>6, ShiftOut
  <2>2. tx' = tx
    BY <1>6 DEF shift
  <2> QED
    BY <1>1, <2>1, <2>2 DEF Sending
<1>7. CASE BKEL_RPC_MCU_Reset
  <2>1. ~Sending(s)'
    BY <1>7 DEF BKEL_RPC_MCU_Reset, Sending
  <2> QED
    BY <2>1 DEF FrameProgress
<1> QED
  BY <1>2, <1>3, <1>4, <1>5, <1>6, <1>7, StepKinds

LEMMA WriteKeepsDone ==
  ASSUME TxTypeOK, PacketsInv, SenderInv, FrameInv, PieceInv, RegisterInv, ProgressInv,
         NEW t \in Task, txWrites(t), NEW f \in FrameIds, FrameDone(f)
  PROVE  FrameDone(f)'
<1> SUFFICES ASSUME \A s \in Task : Sending(s)' => tx'[s].frame # f
             PROVE  /\ f[1] = "adv" => \A u \in Uart, i \in 1 .. TxLen : Out(u, f, i)'
                    /\ f[1] # "adv" /\ (\E u \in Uart : Out(u, f, 1)') =>
                          Out(1, f, TxLen)' /\ Out(2, f, TxLen - 1)'
  BY DEF FrameDone
<1>0. 1 \in Uart /\ 2 \in Uart /\ TxLen - 1 # TxLen /\ TxLen > 1 /\ TxLen \in 1 .. TxLen
  BY LengthAssumption DEF Uart
<1>1. Sending(t) /\ tx[t].uart \in Uart /\ tx[t].byte \in 1 .. TxLen
  BY WriteShape, SendingPlace
<1>2. \A s \in Task \ {t} : tx'[s] = tx[s] /\ (Sending(s)' <=> Sending(s))
  BY WriteShape DEF Sending
<1>3. CASE tx[t].frame # f
  <2>1. \A s \in Task : Sending(s) => tx[s].frame # f
    BY <1>2, <1>3
  <2>2. \A u \in Uart : \A i : Out(u, f, i)' => Out(u, f, i)
    BY <1>3, WriteOut
  <2>3. \A u \in Uart : \A i : Out(u, f, i) => Out(u, f, i)' \/ (u = 2 /\ f[1] # "adv" /\ i = TxLen)
    BY WriteOut
  <2>4. f[1] = "adv" => \A u \in Uart, i \in 1 .. TxLen : Out(u, f, i)'
    BY <2>1, <2>3 DEF FrameDone
  <2>5. f[1] # "adv" /\ (\E u \in Uart : Out(u, f, 1)') => Out(1, f, TxLen) /\ Out(2, f, TxLen - 1)
    BY <2>1, <2>2 DEF FrameDone
  <2> QED
    BY <1>0, <2>3, <2>4, <2>5
<1>4. CASE tx[t].frame = f
  <2>1. tx[t].byte = TxLen /\ tx[t].uart = 2
    BY <1>4, WriteShape
  <2>2. Out(2, f, TxLen)'
    BY <1>0, <1>4, <2>1, WriteOut
  <2>3. FrameProgress(t, f)
    BY DEF ProgressInv
  <2>4. CASE t = "advertise"
    <3>1. f[1] = "adv"
      BY <1>1, <1>4, <2>4 DEF FrameInv
    <3>2. ASSUME NEW u \in Uart, NEW i \in 1 .. TxLen PROVE Out(u, f, i)'
      <4>1. CASE u = 2 /\ i = TxLen
        BY <2>2, <4>1
      <4>2. CASE ~(u = 2 /\ i = TxLen)
        <5>1. u < 2 \/ (u = 2 /\ i < TxLen)
          BY <4>2, LengthAssumption DEF Uart
        <5>2. Out(u, f, i)
          BY <1>1, <1>4, <2>1, <2>3, <2>4, <5>1 DEF FrameProgress
        <5> QED
          BY <3>1, <5>2, WriteOut
      <4> QED
        BY <4>1, <4>2
    <3> QED
      BY <3>1, <3>2
  <2>5. CASE t \in Senders
    <3>1. f[1] # "adv" /\ f \notin split
      BY <1>1, <1>4, <2>5 DEF FrameInv
    <3>2. Out(1, f, TxLen)
      BY <1>0, <1>1, <1>4, <2>1, <2>3, <2>5 DEF FrameProgress
    <3>3. Out(2, f, TxLen - 1)
      <4>1. /\ Len(Sent(2)) > 0
            /\ Sent(2)[Len(Sent(2))] = <<f, TxLen - 1>>
        BY <1>0, <1>1, <1>4, <2>1, <3>1 DEF PieceInv
      <4>2. Len(Sent(2)) \in DOMAIN Sent(2)
        BY <1>0, <4>1, SentIs
      <4> QED
        BY <1>0, <4>1, <4>2, OutIsSent
    <3>4. Out(1, f, TxLen)' /\ Out(2, f, TxLen - 1)'
      BY <1>0, <3>2, <3>3, WriteOut
    <3> QED
      BY <3>1, <3>4
  <2> QED
    BY <2>4, <2>5, TaskSet DEF Senders
<1> QED
  BY <1>3, <1>4

LEMMA NextDone ==
  ASSUME RxTypeOK, TxTypeOK, PacketsInv, SenderInv, FrameInv, PieceInv, RegisterInv, ProgressInv,
         DoneInv, [Next]_taskVars
  PROVE  DoneInv'
<1> SUFFICES ASSUME NEW f \in FrameIds' \ aborted' PROVE FrameDone(f)'
  BY DEF DoneInv
<1>1. ASSUME f \in FrameIds \ aborted,
             \A u \in Uart : \A i : Out(u, f, i) <=> Out(u, f, i)',
             \A t \in Task : Sending(t) => Sending(t)' /\ tx'[t].frame = tx[t].frame
      PROVE  FrameDone(f)'
  <2>1. FrameDone(f) /\ 1 \in Uart /\ 2 \in Uart
    BY <1>1 DEF DoneInv, Uart
  <2> QED
    BY <1>1, <2>1 DEF FrameDone
<1>2. advSent' = advSent => FrameIds' = FrameIds
  BY DEF FrameIds
<1>3. CASE Quiet
  BY <1>1, <1>2, <1>3, SameSent DEF Quiet, Sending
<1>4. ASSUME NEW t \in Task, NEW g \in FrameIds', Starts(t, g) PROVE FrameDone(f)'
  <2>1. /\ tx'[t].frame = g /\ Sending(t)' /\ ~Sending(t)
        /\ \A s \in Task \ {t} : tx'[s] = tx[s] /\ (Sending(s)' <=> Sending(s))
    BY <1>4, StartShape DEF Starts, Sending
  <2>2. CASE f = g
    BY <2>1, <2>2 DEF FrameDone
  <2>3. CASE f # g
    <3>1. aborted' = aborted /\ advSent' \in {advSent, advSent + 1}
      BY <1>4 DEF Starts
    <3>2. f \in FrameIds
      <4>1. CASE t = "advertise"
        <5>1. g = <<"adv", advSent'>>
          BY <1>4, <4>1 DEF Starts, Senders
        <5>2. advSent \in Nat
          BY DEF TxTypeOK
        <5> QED
          BY <2>3, <3>1, <5>1, <5>2, FrameIdsGrow
      <4>2. CASE t \in Senders
        BY <1>2, <1>4, <4>2 DEF Starts, Senders
      <4> QED
        BY <4>1, <4>2, TaskSet DEF Senders
    <3>3. \A u \in Uart : \A i : Out(u, f, i)' <=> Out(u, f, i)
      BY <1>4, SameSent DEF Starts, Transmit
    <3> QED
      BY <1>1, <2>1, <3>1, <3>2, <3>3
  <2> QED
    BY <2>2, <2>3
<1>5. ASSUME NEW t \in Task, txTests(t) PROVE FrameDone(f)'
  <2>1. UNCHANGED <<dr, wire, advSent, aborted>>
    BY <1>5 DEF txTests, advVars
  <2>2. \A s \in Task : Sending(s) => Sending(s)' /\ tx'[s].frame = tx[s].frame
    BY <1>5, TestShape DEF Sending
  <2>3. \A u \in Uart : \A i : Out(u, f, i)' <=> Out(u, f, i)
    BY <2>1, SameSent
  <2> QED
    BY <1>1, <1>2, <2>1, <2>2, <2>3
<1>6. ASSUME NEW t \in Task, txWrites(t) PROVE FrameDone(f)'
  <2>1. UNCHANGED <<advSent, aborted>>
    BY <1>6 DEF txWrites, advVars
  <2>2. f \in FrameIds /\ FrameDone(f)
    BY <1>2, <2>1 DEF DoneInv
  <2> QED
    BY <1>6, <2>2, WriteKeepsDone
<1>7. ASSUME NEW v \in Uart, shift(v) PROVE FrameDone(f)'
  <2>1. UNCHANGED <<tx, advSent, aborted>>
    BY <1>7 DEF shift, advVars
  <2>2. \A u \in Uart : \A i : Out(u, f, i)' <=> Out(u, f, i)
    BY <1>7, ShiftOut
  <2> QED
    BY <1>1, <1>2, <2>1, <2>2 DEF Sending
<1>8. CASE BKEL_RPC_MCU_Reset
  <2>1. /\ wire' = wire /\ advSent' = advSent
        /\ \A u \in Uart : dr'[u] = NoByte
        /\ aborted \subseteq aborted'
        /\ \A t \in Task : Sending(t) => tx[t].frame \in aborted'
        /\ \A u \in Uart : dr[u] # NoByte => dr[u][1] \in aborted'
    BY <1>8 DEF BKEL_RPC_MCU_Reset, Sending
  <2>2. f \in FrameIds \ aborted /\ FrameDone(f) /\ \A t \in Task : Sending(t) => tx[t].frame # f
    BY <1>2, <2>1 DEF DoneInv
  <2>3. \A u \in Uart : \A i : Out(u, f, i)' <=> Out(u, f, i)
    <3> SUFFICES ASSUME NEW u \in Uart, NEW i PROVE Out(u, f, i)' <=> Out(u, f, i)
      OBVIOUS
    <3>1. dr[u] # <<f, i>>
      <4>1. ASSUME dr[u] = <<f, i>> PROVE FALSE
        <5>1. dr[u] # NoByte /\ dr[u][1] = f
          BY <4>1, NotEmpty
        <5> QED
          BY <2>1, <5>1
      <4> QED
        BY <4>1
    <3>2. dr'[u] # <<f, i>>
      BY <2>1, NotEmpty
    <3> QED
      BY <2>1, <3>1, <3>2 DEF Out
  <2>4. 1 \in Uart /\ 2 \in Uart
    BY DEF Uart
  <2> QED
    BY <2>2, <2>3, <2>4 DEF FrameDone
<1> QED
  BY <1>3, <1>4, <1>5, <1>6, <1>7, <1>8, StepKinds

-----------------------------------------------------------------------------
(* The tasks: answers in the order of the requests                         *)

(* An answer begins at place p of what u has sent and is about to send. *)
Begins(u) == {p \in DOMAIN Sent(u) : Sent(u)[p][1][1] = "answer" /\ Sent(u)[p][2] = 1}

(* The answer that is being sent has not begun on u. *)
Unbegun(u) ==
    /\ Sending("diag")
    /\ tx["diag"].uart < u \/ (tx["diag"].uart = u /\ tx["diag"].byte = 1)

(* Every answer on u belongs to a request that was served, an answer that has yet to   *)
(* begin to the last one.                                                          *)
AnswersOn(u) ==
    \E m \in [Begins(u) -> DOMAIN served] :
        /\ \A p \in Begins(u) : served[m[p]] = Sent(u)[p][1][2]
        /\ \A p, q \in Begins(u) : p < q => m[p] < m[q]
        /\ Unbegun(u) => \A p \in Begins(u) : m[p] < Len(served)

(* Only f_sendDataTask sends answers, to the request it has served last. *)
AnswererInv ==
    /\ Sending("diag") => /\ Len(served) > 0
                          /\ tx["diag"].frame = <<"answer", served[Len(served)]>>
    /\ \A t \in Task : t # "diag" /\ Sending(t) => tx[t].frame[1] # "answer"

AnswerInv == AnswererInv /\ \A u \in Uart : AnswersOn(u)

(* No answer begins, and served grows at most; an answer that is due belongs to a    *)
(* request served before this step only if it was due then.                        *)
LEMMA SameAnswers ==
  ASSUME NEW u \in Uart, AnswersOn(u),
         served \in Seq(Packets), served' \in Seq(Packets), Len(served) <= Len(served'),
         \A i \in 1 .. Len(served) : served'[i] = served[i],
         \A p \in Begins(u)' : p \in Begins(u) /\ Sent(u)'[p] = Sent(u)[p],
         Unbegun(u)' => Unbegun(u) \/ Len(served) < Len(served')
  PROVE  AnswersOn(u)'
<1>1. PICK m \in [Begins(u) -> DOMAIN served] :
        /\ \A p \in Begins(u) : served[m[p]] = Sent(u)[p][1][2]
        /\ \A p, q \in Begins(u) : p < q => m[p] < m[q]
        /\ Unbegun(u) => \A p \in Begins(u) : m[p] < Len(served)
  BY DEF AnswersOn
<1>2. PICK k \in Nat : k = Len(served)
  BY LenProperties
<1>3. PICK l \in Nat : l = Len(served') /\ k <= l
  BY <1>2, LenProperties
<1>4. DOMAIN served = 1 .. k /\ DOMAIN served' = 1 .. l
  BY <1>2, <1>3, LenProperties
<1>5. \A p \in Begins(u) : m[p] \in 1 .. k
  BY <1>1, <1>4
<1> DEFINE n == [p \in Begins(u)' |-> m[p]]
<1>6. \A p \in Begins(u)' : n[p] = m[p] /\ p \in Begins(u)
  OBVIOUS
<1>7. n \in [Begins(u)' -> DOMAIN served']
  BY <1>3, <1>4, <1>5, <1>6
<1> HIDE DEF n
<1>8. \A p \in Begins(u)' : served'[n[p]] = Sent(u)'[p][1][2]
  BY <1>1, <1>2, <1>5, <1>6
<1>9. \A p, q \in Begins(u)' : p < q => n[p] < n[q]
  BY <1>1, <1>6
<1>10. Unbegun(u)' => \A p \in Begins(u)' : n[p] < l
  <2>1. CASE Unbegun(u)
    BY <1>1, <1>2, <1>3, <1>5, <1>6, <2>1
  <2>2. CASE k < l
    BY <1>3, <1>5, <1>6, <2>2
  <2> QED
    BY <1>2, <1>3, <2>1, <2>2
<1> QED
  BY <1>3, <1>7, <1>8, <1>9, <1>10 DEF AnswersOn

(* Steps that leave the wires and what is served alone. *)
LEMMA QuietAnswers ==
  ASSUME PacketsInv, AnswerInv, UNCHANGED served, \A u \in Uart : Sent(u)' = Sent(u),
         Sending("diag")' => /\ Sending("diag")
                             /\ tx'["diag"].frame = tx["diag"].frame
                             /\ tx'["diag"].uart = tx["diag"].uart
                             /\ tx'["diag"].byte = tx["diag"].byte,
         \A t \in Task : t # "diag" /\ Sending(t)' => tx'[t].frame[1] # "answer"
  PROVE  AnswerInv'
<1>1. AnswererInv'
  BY DEF AnswerInv, AnswererInv
<1>2. ASSUME NEW u \in Uart PROVE AnswersOn(u)'
  <2>1. served \in Seq(Packets) /\ served' = served /\ Len(served) <= Len(served')
    BY LenProperties DEF PacketsInv, PacketTypeOK
  <2>2. Sent(u)' = Sent(u) /\ Begins(u)' = Begins(u)
    BY DEF Begins
  <2>3. Unbegun(u)' => Unbegun(u)
    BY DEF Unbegun
  <2>4. AnswersOn(u)
    BY DEF AnswerInv
  <2> QED
    BY <2>1, <2>2, <2>3, <2>4, SameAnswers
<1> QED
  BY <1>1, <1>2 DEF AnswerInv

(* A request is served while no answer is being sent. *)
LEMMA ServeKeepsAnswers ==
  ASSUME PacketsInv, AnswerInv, NEW r \in Packets, served' = Append(served, r),
         \A u \in Uart : \A p \in DOMAIN Sent(u)' : p \in DOMAIN Sent(u) /\ Sent(u)'[p] = Sent(u)[p],
         Sending("diag")' => tx'["diag"].frame = <<"answer", r>>,
         \A t \in Task : t # "diag" /\ Sending(t)' => tx'[t].frame[1] # "answer"
  PROVE  AnswerInv'
<1>1. /\ served \in Seq(Packets) /\ Len(served) \in Nat
      /\ served' \in Seq(Packets) /\ Len(served') = Len(served) + 1
      /\ \A i \in 1 .. Len(served) : served'[i] = served[i]
      /\ served'[Len(served) + 1] = r
  BY AppendProperties, LenProperties DEF PacketsInv, PacketTypeOK
<1>2. AnswererInv'
  BY <1>1 DEF AnswererInv
<1>3. ASSUME NEW u \in Uart PROVE AnswersOn(u)'
  <2>1. \A p \in Begins(u)' : p \in Begins(u) /\ Sent(u)'[p] = Sent(u)[p]
    BY DEF Begins
  <2>2. AnswersOn(u) /\ Len(served) < Len(served') /\ Len(served) <= Len(served')
    BY <1>1 DEF AnswerInv
  <2> QED
    BY <1>1, <2>1, <2>2, SameAnswers
<1> QED
  BY <1>2, <1>3 DEF AnswerInv

(* The first byte of an answer goes out. *)
LEMMA AnswerBegins ==
  ASSUME NEW u \in Uart, NEW k \in Nat, served \in Seq(Packets), k = Len(served), k > 0,
         AnswersOn(u), Unbegun(u), UNCHANGED served, ~Unbegun(u)',
         NEW n \in Nat, DOMAIN Sent(u) = 1 .. n, DOMAIN Sent(u)' = 1 .. n + 1,
         \A p \in 1 .. n : Sent(u)'[p] = Sent(u)[p],
         Sent(u)'[n + 1] = <<<<"answer", served[k]>>, 1>>
  PROVE  AnswersOn(u)'
<1>1. PICK m \in [Begins(u) -> DOMAIN served] :
        /\ \A p \in Begins(u) : served[m[p]] = Sent(u)[p][1][2]
        /\ \A p, q \in Begins(u) : p < q => m[p] < m[q]
        /\ \A p \in Begins(u) : m[p] < k
  BY DEF AnswersOn
<1>2. DOMAIN served = 1 .. k
  BY LenProperties
<1>3. \A p \in Begins(u) : p \in 1 .. n /\ m[p] \in 1 .. k
  BY <1>1, <1>2 DEF Begins
<1>4. \A p : p \in Begins(u)' <=> p \in Begins(u) \/ p = n + 1
  <2>1. \A p \in 1 .. n : p \in Begins(u)' <=> p \in Begins(u)
    BY DEF Begins
  <2>2. n + 1 \in Begins(u)'
    BY DEF Begins
  <2>3. \A p \in Begins(u)' : p \in 1 .. n \/ p = n + 1
    BY DEF Begins
  <2> QED
    BY <1>3, <2>1, <2>2, <2>3
<1> DEFINE f == [p \in Begins(u)' |-> IF p = n + 1 THEN k ELSE m[p]]
<1>5. /\ f[n + 1] = k
      /\ \A p \in Begins(u) : f[p] = m[p] /\ p # n + 1
  BY <1>3, <1>4
<1>6. f \in [Begins(u)' -> DOMAIN served']
  BY <1>2, <1>3, <1>4
<1> HIDE DEF f
<1>7. \A p \in Begins(u)' : served'[f[p]] = Sent(u)'[p][1][2]
  <2>1. \A p \in Begins(u) : served[f[p]] = Sent(u)'[p][1][2]
    BY <1>1, <1>3, <1>5
  <2>2. served[f[n + 1]] = Sent(u)'[n + 1][1][2]
    BY <1>5
  <2> QED
    BY <1>4, <2>1, <2>2
<1>8. ASSUME NEW p \in Begins(u)', NEW q \in Begins(u)', p < q PROVE f[p] < f[q]
  <2>1. p \in Begins(u)
    BY <1>3, <1>4, <1>8
  <2>2. CASE q = n + 1
    BY <1>1, <1>5, <2>1, <2>2
  <2>3. CASE q \in Begins(u)
    BY <1>1, <1>5, <1>8, <2>1, <2>3
  <2> QED
    BY <1>4, <2>2, <2>3
<1> QED
  BY <1>6, <1>7, <1>8 DEF AnswersOn

LEMMA WriteKeepsAnswers ==
  ASSUME TxTypeOK, PacketsInv, SenderInv, FrameInv, PieceInv, RegisterInv, AnswerInv,
         NEW t \in Task, txWrites(t)
  PROVE  AnswerInv'
<1>1. Sending(t) /\ Runs(t) /\ UNCHANGED served
  BY DEF txWrites, Sending
<1>2. PICK u \in Uart : u = tx[t].uart
  BY <1>1, SendingPlace
<1>3. PICK b : b = <<tx[t].frame, tx[t].byte>>
  OBVIOUS
<1>4. PICK n \in Nat : n = Len(wire[u])
  BY SentIs
<1>5. /\ DOMAIN Sent(u)' = 1 .. n + 1 /\ Sent(u)'[n + 1] = b
      /\ \A p \in 1 .. n : Sent(u)'[p] = Sent(u)[p] /\ p \in DOMAIN Sent(u)
      /\ \A w \in Uart \ {u} : Sent(w)' = Sent(w)
  BY <1>2, <1>3, <1>4, WriteSent
<1>6. /\ Sending(t)' => tx'[t].frame = tx[t].frame
      /\ \A s \in Task \ {t} : tx'[s] = tx[s] /\ (Sending(s)' <=> Sending(s))
  BY WriteShape DEF Sending
<1>7. AnswererInv'
  BY <1>1, <1>6, TaskSet DEF AnswerInv, AnswererInv
<1>8. /\ served \in Seq(Packets) /\ served' = served /\ Len(served) <= Len(served')
      /\ Len(served) \in Nat
  BY <1>1, LenProperties DEF PacketsInv, PacketTypeOK
<1>9. tx[t].byte \in 1 .. TxLen /\ TxLen \in Nat /\ TxLen >= 3
  BY <1>1, SendingPlace, LengthAssumption
<1>10. ASSUME NEW v \in Uart PROVE Unbegun(v)' => Unbegun(v)
  <2>1. CASE t = "diag"
    <3>1. Sending(t)' => \/ tx'[t].uart = u /\ tx'[t].byte = tx[t].byte + 1
                         \/ u = 1 /\ tx'[t].uart = 2
      BY <1>2, WriteShape
    <3>2. Sending(t)' /\ tx'[t].uart = u => tx'[t].byte # 1
      BY <1>2, <1>9, WriteShape
    <3> QED
      BY <1>1, <1>2, <2>1, <3>1, <3>2 DEF Unbegun, Uart
  <2>2. CASE t # "diag"
    BY <1>6, <2>2, TaskSet DEF Unbegun
  <2> QED
    BY <2>1, <2>2
<1>11. ASSUME NEW v \in Uart, v # u PROVE AnswersOn(v)'
  <2>1. Begins(v)' = Begins(v) /\ Sent(v)' = Sent(v)
    BY <1>5, <1>11 DEF Begins
  <2> QED
    BY <1>8, <1>10, <2>1, SameAnswers DEF AnswerInv
<1>12. CASE b[1][1] = "answer" /\ b[2] = 1
  <2>1. t = "diag"
    BY <1>1, <1>3, <1>12 DEF AnswerInv, AnswererInv
  <2>2. dr[u] = NoByte
    BY <1>2, <2>1, WriteFindsRoom
  <2>3. DOMAIN Sent(u) = 1 .. n
    BY <1>4, <2>2, SentIs
  <2>4. Len(served) > 0 /\ b = <<<<"answer", served[Len(served)]>>, 1>>
    BY <1>1, <1>3, <1>12, <2>1 DEF AnswerInv, AnswererInv
  <2>5. Unbegun(u) /\ ~Unbegun(u)'
    <3>1. tx[t].byte = 1
      BY <1>3, <1>12
    <3>2. Sending(t)' => tx'[t].uart = u /\ tx'[t].byte = 2
      BY <1>2, <1>9, <3>1, WriteShape
    <3> QED
      BY <1>1, <1>2, <2>1, <3>1, <3>2 DEF Unbegun, Uart
  <2>6. AnswersOn(u)
    BY DEF AnswerInv
  <2>7. AnswersOn(u)'
    BY <1>5, <1>8, <2>3, <2>4, <2>5, <2>6, AnswerBegins
  <2> QED
    BY <1>7, <1>11, <2>7 DEF AnswerInv
<1>13. CASE ~(b[1][1] = "answer" /\ b[2] = 1)
  <2>1. ASSUME NEW p \in Begins(u)' PROVE p \in Begins(u) /\ Sent(u)'[p] = Sent(u)[p]
    <3>1. p \in 1 .. n + 1 /\ p # n + 1
      BY <1>5, <1>13, <2>1 DEF Begins
    <3>2. p \in 1 .. n
      BY <3>1
    <3> QED
      BY <1>5, <2>1, <3>2 DEF Begins
  <2>2. AnswersOn(u) /\ (Unbegun(u)' => Unbegun(u))
    BY <1>10 DEF AnswerInv
  <2>3. AnswersOn(u)'
    BY <1>8, <2>1, <2>2, SameAnswers
  <2> QED
    BY <1>7, <1>11, <2>3 DEF AnswerInv
<1> QED
  BY <1>12, <1>13

LEMMA NextAnswers ==
  ASSUME RxTypeOK, TxTypeOK, PacketsInv, SenderInv, FrameInv, PieceInv, RegisterInv, AnswerInv,
         [Next]_taskVars
  PROVE  AnswerInv'
<1>0. /\ "diag" \in Task
      /\ \A t \in Task : t # "diag" /\ Sending(t) => tx[t].frame[1] # "answer"
  BY TaskSet DEF AnswerInv, AnswererInv
<1>1. ASSUME NEW t \in Task, t # "diag", NEW f, f[1] # "answer",
             Transmit(t, f) \/ UNCHANGED txVars, UNCHANGED served
      PROVE  AnswerInv'
  <2>1. \A u \in Uart : Sent(u)' = Sent(u)
    BY <1>1, SameSent DEF Transmit, txVars
  <2>2. tx'["diag"] = tx["diag"] /\ \A s \in Task : s # "diag" /\ Sending(s)' => tx'[s].frame[1] # "answer"
    <3>1. CASE Transmit(t, f)
      BY <1>0, <1>1, <3>1, StartShape DEF Sending
    <3>2. CASE UNCHANGED txVars
      BY <1>0, <3>2 DEF txVars, Sending
    <3> QED
      BY <1>1, <3>1, <3>2
  <2> QED
    BY <1>1, <2>1, <2>2, QuietAnswers DEF Sending
<1>2. CASE AppService_SendAdvertise
  <2>1. Transmit("advertise", <<"adv", advSent + 1>>) /\ UNCHANGED served
    BY <1>2 DEF AppService_SendAdvertise
  <2>2. <<"adv", advSent + 1>>[1] # "answer"
    OBVIOUS
  <2> QED
    BY <1>1, <2>1, <2>2, TaskSet
<1>3. CASE handle_frame
  <2>1. PICK r : (Transmit("command", <<"text", r>>) \/ UNCHANGED txVars) /\ UNCHANGED served
    BY <1>3 DEF handle_frame
  <2>2. <<"text", r>>[1] # "answer"
    OBVIOUS
  <2> QED
    BY <1>1, <2>1, <2>2, TaskSet
<1>4. CASE f_RPCTask
  <2>1. PICK r : (Transmit("rpc", <<"text", r>>) \/ UNCHANGED txVars) /\ UNCHANGED served
    BY <1>4 DEF f_RPCTask
  <2>2. <<"text", r>>[1] # "answer"
    OBVIOUS
  <2> QED
    BY <1>1, <2>1, <2>2, TaskSet
<1>5. CASE f_sendDataTask
  <2>1. parsed_packet \in Packets /\ ~Sending("diag")
    BY <1>5 DEF f_sendDataTask, Sending, PacketsInv, PacketTypeOK
  <2>2. \A u \in Uart : Sent(u)' = Sent(u)
    BY <1>5, SameSent DEF f_sendDataTask, Transmit, txVars
  <2>3. /\ Sending("diag")' => tx'["diag"].frame = <<"answer", parsed_packet>>
        /\ \A t \in Task : t # "diag" => tx'[t] = tx[t]
    <3>1. CASE Transmit("diag", <<"answer", parsed_packet>>)
      BY <1>0, <3>1, StartShape
    <3>2. CASE UNCHANGED txVars
      BY <2>1, <3>2 DEF txVars, Sending
    <3> QED
      BY <1>5, <3>1, <3>2 DEF f_sendDataTask
  <2>4. CASE served' = Append(served, parsed_packet)
    BY <1>0, <2>1, <2>2, <2>3, <2>4, ServeKeepsAnswers DEF Sending
  <2>5. CASE UNCHANGED <<served, txVars>>
    BY <1>0, <2>1, <2>2, <2>5, QuietAnswers DEF Sending, txVars
  <2> QED
    BY <1>5, <2>4, <2>5 DEF f_sendDataTask
<1>6. CASE rpcActs
  <2>1. served' = Append(served, parsed_packet) /\ UNCHANGED txVars /\ executing = "rpc"
    BY <1>6 DEF rpcActs
  <2>2. parsed_packet \in Packets /\ ~Sending("diag")
    BY <2>1 DEF SenderInv, PacketsInv, PacketTypeOK
  <2>3. tx' = tx /\ \A u \in Uart : Sent(u)' = Sent(u)
    BY <2>1, SameSent DEF txVars
  <2> QED
    BY <1>0, <2>1, <2>2, <2>3, ServeKeepsAnswers DEF Sending
<1>7. CASE BKEL_RPC_MCU_Reset
  <2>1. served' = Append(served, parsed_packet) /\ parsed_packet \in Packets
    BY <1>7 DEF BKEL_RPC_MCU_Reset, PacketsInv, PacketTypeOK
  <2>2. \A t \in Task : ~Sending(t)'
    BY <1>7 DEF BKEL_RPC_MCU_Reset, Sending
  <2>3. \A u \in Uart : \A p \in DOMAIN Sent(u)' : p \in DOMAIN Sent(u) /\ Sent(u)'[p] = Sent(u)[p]
    BY <1>7, ResetSent
  <2> QED
    BY <1>0, <2>1, <2>2, <2>3, ServeKeepsAnswers
<1>8. ASSUME NEW t \in Task, txTests(t) PROVE AnswerInv'
  <2>1. UNCHANGED served /\ \A u \in Uart : Sent(u)' = Sent(u)
    BY <1>8, SameSent DEF txTests
  <2>2. \A s \in Task : /\ Sending(s)' => Sending(s)
                        /\ tx'[s].frame = tx[s].frame
                        /\ tx'[s].uart = tx[s].uart /\ tx'[s].byte = tx[s].byte
    BY <1>8, TestShape DEF Sending
  <2> QED
    BY <1>0, <2>1, <2>2, QuietAnswers
<1>9. ASSUME NEW v \in Uart, shift(v) PROVE AnswerInv'
  <2>1. UNCHANGED <<served, tx>> /\ \A u \in Uart : Sent(u)' = Sent(u)
    BY <1>9, ShiftSent DEF shift
  <2> QED
    BY <1>0, <2>1, QuietAnswers DEF Sending
<1>10. CASE UNCHANGED <<served, tx, dr, wire>>
  <2>1. \A u \in Uart : Sent(u)' = Sent(u)
    BY <1>10, SameSent
  <2> QED
    BY <1>0, <1>10, <2>1, QuietAnswers DEF Sending
<1>11. \/ UNCHANGED taskVars \/ startUp \/ delayEnds \/ xStreamBufferReceive \/ parseDrops
       \/ parseEnds
       \/ (\E u \in Uart : \E n \in 1 .. Len(toArrive[u]) :
              USART_IRQHandler(u, n) \/ lineIgnored(u, n))
       => UNCHANGED <<served, tx, dr, wire>>
  BY DEF taskVars, txVars, startUp, delayEnds, xStreamBufferReceive, parseDrops, parseEnds,
         USART_IRQHandler, lineIgnored
<1> QED
  BY <1>2, <1>3, <1>4, <1>5, <1>6, <1>7, <1>8, <1>9, <1>10, <1>11, WriteKeepsAnswers
  DEF Next, TaskStep

-----------------------------------------------------------------------------
(* The tasks: theorems                                                     *)

FlagTypeOK == hung \in BOOLEAN /\ parsing \in BOOLEAN

SendingInv == /\ TxTypeOK /\ SenderInv /\ FrameInv /\ PieceInv /\ RegisterInv /\ FollowInv
              /\ ProgressInv /\ DoneInv /\ OrderInv /\ AnswerInv

TaskInv == FlagTypeOK /\ RxTypeOK /\ PacketsInv /\ SendingInv

LEMMA NextFlags == FlagTypeOK /\ [Next]_taskVars => FlagTypeOK'
<1> SUFFICES ASSUME FlagTypeOK, [Next]_taskVars PROVE FlagTypeOK'
  OBVIOUS
<1> USE DEF FlagTypeOK
<1>1. ASSUME NEW u \in Uart, NEW n \in 1 .. Len(toArrive[u]), USART_IRQHandler(u, n)
      PROVE  FlagTypeOK'
  <2>1. parsing' = parsing
    BY <1>1 DEF USART_IRQHandler, cmdVars
  <2> DEFINE fails == Received(SubSeq(toArrive[u], 1, n)) # <<>> /\ boot < StreamExists
  <2>2. hung' = fails
    BY <1>1, Zenon DEF USART_IRQHandler
  <2>3. fails \in BOOLEAN
    BY Zenon
  <2> HIDE DEF fails
  <2> QED
    BY <2>1, <2>2, <2>3, Zenon
<1>2. CASE xStreamBufferReceive \/ parseEnds \/ BKEL_RPC_MCU_Reset
  <2> DEFINE fails == boot < StreamExists
  <2>1. hung' = hung \/ hung' = fails
    BY <1>2, Zenon DEF xStreamBufferReceive, parseEnds, BKEL_RPC_MCU_Reset
  <2>2. parsing' = TRUE \/ parsing' = FALSE
    BY <1>2, Zenon DEF xStreamBufferReceive, parseEnds, BKEL_RPC_MCU_Reset
  <2>3. fails \in BOOLEAN
    OBVIOUS
  <2> HIDE DEF fails
  <2> QED
    BY <2>1, <2>2, <2>3, Zenon
<1>3. CASE handle_frame
  <2>1. parsing' = parsing
    BY <1>3 DEF handle_frame
  <2>2. hung' = hung \/ hung' = FALSE
    BY <1>3, Zenon DEF handle_frame, HandleSet, xTaskNotify
  <2> QED
    BY <2>1, <2>2, Zenon
<1>4. CASE UNCHANGED <<hung, parsing>>
  BY <1>4
<1>5. \/ UNCHANGED taskVars \/ startUp \/ delayEnds \/ AppService_SendAdvertise
      \/ parseDrops \/ f_sendDataTask \/ f_RPCTask \/ rpcActs
      \/ (\E u \in Uart : shift(u) \/ \E n \in 1 .. Len(toArrive[u]) : lineIgnored(u, n))
      \/ (\E t \in Task : txTests(t) \/ txWrites(t))
      => UNCHANGED <<hung, parsing>>
  BY DEF taskVars, rxVars, cmdVars, startUp, delayEnds, AppService_SendAdvertise, parseDrops,
         f_sendDataTask, f_RPCTask, rpcActs, shift, lineIgnored, txTests, txWrites
<1> QED
  BY <1>1, <1>2, <1>3, <1>4, <1>5 DEF Next, TaskStep

LEMMA NextTaskInv == TaskInv /\ [Next]_taskVars => TaskInv'
  BY NextFlags, NextRxType, NextPackets, NextTxType, NextSenders, NextFrames, NextPiece,
     NextRegisters, NextFollows, NextProgress, NextDone, NextOrder, NextAnswers DEF TaskInv, SendingInv

LEMMA InitTaskInv == Init => TaskInv
<1> SUFFICES ASSUME Init PROVE TaskInv
  OBVIOUS
<1>1. FlagTypeOK
  BY Zenon DEF Init, FlagTypeOK
<1>2. /\ \A t \in Task : ~Sending(t)
      /\ \A u \in Uart : wire[u] = <<>> /\ dr[u] = NoByte
      /\ advSent = 0 /\ advLeft = 0 /\ split = {} /\ aborted = {}
  BY DEF Init, Sending
<1>3. /\ \A u \in Uart : Sent(u) = <<>> /\ DOMAIN Sent(u) = {}
      /\ \A u \in Uart : \A f, i : ~Out(u, f, i)
  <2>1. \A u \in Uart : Sent(u) = <<>>
    BY <1>2 DEF Sent
  <2>2. DOMAIN <<>> = {}
    OBVIOUS
  <2> QED
    BY <1>2, <2>1, <2>2, NotEmpty DEF Out, Range
<1>4. TxTypeOK
  <2>1. tx \in [Task -> {Idle}] /\ dr \in [Uart -> {NoByte}] /\ wire \in [Uart -> Seq(FrameByte)]
    BY EmptySeq DEF Init
  <2> QED
    BY <1>2, <2>1, SizeAssumption DEF TxTypeOK
<1>5. SenderInv /\ FrameInv /\ RegisterInv
  BY <1>2, TaskSet DEF SenderInv, FrameInv, RegisterInv, Senders
<1>6. PieceInv /\ FollowInv /\ OrderInv /\ ProgressInv
  BY <1>2, <1>3, TaskSet DEF PieceInv, FollowInv, OrderInv, ProgressInv, FrameProgress
<1>7. DoneInv
  <2>1. \A f \in FrameIds : f[1] # "adv"
    BY <1>2 DEF FrameIds
  <2> QED
    BY <1>3, <2>1 DEF DoneInv, FrameDone
<1>8. AnswerInv
  <2>1. \A u \in Uart : Begins(u) = {}
    BY <1>3 DEF Begins
  <2>2. ASSUME NEW u \in Uart PROVE AnswersOn(u)
    <3>1. [p \in Begins(u) |-> 1] \in [Begins(u) -> DOMAIN served]
      BY <2>1
    <3> QED
      BY <2>1, <3>1 DEF AnswersOn
  <2>3. AnswererInv
    BY <1>2, TaskSet DEF AnswererInv
  <2> QED
    BY <2>2, <2>3 DEF AnswerInv
<1> QED
  BY <1>1, <1>4, <1>5, <1>6, <1>7, <1>8, InitPackets DEF TaskInv, SendingInv

LEMMA SpecTaskInv == Spec => []TaskInv
  BY InitTaskInv, NextTaskInv, PTL DEF Spec

LEMMA TaskInvTyped == TaskInv => TaskTypeOK
<1> SUFFICES ASSUME TaskInv PROVE TaskTypeOK
  OBVIOUS
<1>1. executing \in {"none", "rpc", "reset"}
  BY DEF TaskInv, PacketsInv, PacketInv, Rpc
<1>2. FlagTypeOK /\ RxTypeOK /\ PacketTypeOK /\ TxTypeOK
  BY DEF TaskInv, SendingInv, PacketsInv
<1> QED
  BY <1>1, <1>2, Zenon DEF FlagTypeOK, RxTypeOK, PacketTypeOK, TxTypeOK, FrameByte, TaskTypeOK

(* A byte on the wire of a frame that was not split follows its predecessor. *)
LEMMA WireFollows ==
  ASSUME TaskInv, NEW u \in Uart, NEW p \in DOMAIN wire[u], wire[u][p][1] \notin split
  PROVE  Follows(u, p)
<1> USE DEF TaskInv, SendingInv
<1>1. PICK n \in Nat : n = Len(wire[u])
  BY SentIs
<1>2. /\ DOMAIN wire[u] = 1 .. n
      /\ \A q \in 1 .. n : Sent(u)[q] = wire[u][q] /\ q \in DOMAIN Sent(u)
  BY <1>1, SentIs
<1>3. ASSUME wire[u][p][2] > 1
      PROVE  p > 1 /\ wire[u][p - 1] = <<wire[u][p][1], wire[u][p][2] - 1>>
  <2>1. p > 1 /\ Sent(u)[p - 1] = <<wire[u][p][1], wire[u][p][2] - 1>>
    BY <1>2, <1>3 DEF FollowInv
  <2>2. p - 1 \in 1 .. n
    BY <1>2, <2>1
  <2> QED
    BY <1>2, <2>1, <2>2
<1> QED
  BY <1>3 DEF Follows

LEMMA TaskInvOnePiece == TaskInv => AnswersInOnePiece
<1> SUFFICES ASSUME TaskInv PROVE AnswersInOnePiece
  OBVIOUS
<1>1. ASSUME NEW u \in Uart, NEW p \in DOMAIN wire[u], wire[u][p][1][1] # "adv"
      PROVE  Follows(u, p)
  <2>1. wire[u][p][1] \notin split
    BY <1>1 DEF TaskInv, SendingInv, FrameInv
  <2> QED
    BY <1>1, <2>1, WireFollows
<1>2. ASSUME NEW f \in FrameIds \ aborted, f[1] # "adv", Finished(f)
      PROVE  Out(1, f, TxLen) /\ Out(2, f, TxLen - 1)
  BY <1>2 DEF TaskInv, SendingInv, DoneInv, FrameDone, Finished, Sending
<1> QED
  BY <1>1, <1>2 DEF AnswersInOnePiece

LEMMA TaskInvOnlyCut == TaskInv => AdvertisementOnlyCut
<1> SUFFICES ASSUME TaskInv, NEW u \in Uart
             PROVE  /\ \A p \in DOMAIN wire[u] : wire[u][p][1] \notin split => Follows(u, p)
                    /\ \A f \in FrameIds \ aborted : f[1] = "adv" /\ Finished(f) =>
                          \A i \in 1 .. TxLen : Out(u, f, i)
                    /\ \A p, q \in DOMAIN wire[u] :
                          wire[u][p][1][1] = "adv" /\ wire[u][p][1] = wire[u][q][1] /\ p < q =>
                              wire[u][p][2] < wire[u][q][2]
  BY DEF AdvertisementOnlyCut
<1>1. ASSUME NEW f \in FrameIds \ aborted, f[1] = "adv", Finished(f), NEW i \in 1 .. TxLen
      PROVE  Out(u, f, i)
  BY <1>1 DEF TaskInv, SendingInv, DoneInv, FrameDone, Finished, Sending
<1>2. \A p \in DOMAIN wire[u] : p \in DOMAIN Sent(u) /\ Sent(u)[p] = wire[u][p]
  BY SentIs DEF TaskInv, SendingInv
<1>3. ASSUME NEW p \in DOMAIN wire[u], NEW q \in DOMAIN wire[u],
             wire[u][p][1][1] = "adv", wire[u][p][1] = wire[u][q][1], p < q
      PROVE  wire[u][p][2] < wire[u][q][2]
  BY <1>2, <1>3 DEF TaskInv, SendingInv, OrderInv
<1> QED
  BY <1>1, <1>3, WireFollows

LEMMA TaskInvServedOrder == TaskInv => AnswersInServedOrder
<1> SUFFICES ASSUME TaskInv, NEW u \in Uart
             PROVE  \E m \in [AnswerStarts(u) -> DOMAIN served] :
                       /\ \A p \in AnswerStarts(u) : served[m[p]] = wire[u][p][1][2]
                       /\ \A p, q \in AnswerStarts(u) : p < q => m[p] < m[q]
  BY DEF AnswersInServedOrder
<1>1. \A p \in DOMAIN wire[u] : p \in DOMAIN Sent(u) /\ Sent(u)[p] = wire[u][p]
  BY SentIs DEF TaskInv, SendingInv
<1>2. \A p \in AnswerStarts(u) : p \in Begins(u) /\ Sent(u)[p] = wire[u][p]
  BY <1>1 DEF AnswerStarts, Begins
<1>3. PICK m \in [Begins(u) -> DOMAIN served] :
        /\ \A p \in Begins(u) : served[m[p]] = Sent(u)[p][1][2]
        /\ \A p, q \in Begins(u) : p < q => m[p] < m[q]
  BY DEF TaskInv, SendingInv, AnswerInv, AnswersOn
<1> DEFINE n == [p \in AnswerStarts(u) |-> m[p]]
<1>4. n \in [AnswerStarts(u) -> DOMAIN served] /\ \A p \in AnswerStarts(u) : n[p] = m[p]
  BY <1>2, <1>3
<1> HIDE DEF n
<1> QED
  BY <1>2, <1>3, <1>4

(* For every arrival of bytes the tasks, the stream buffer and the USARTs keep their    *)
(* types; in particular rxStream never holds more than it has room for.             *)
THEOREM TasksTypeCorrect == Spec => []TaskTypeOK
  BY SpecTaskInv, TaskInvTyped, PTL

(* For every arrival of bytes, although BKEL_UART_Tx has no lock: an answer is in one   *)
(* piece on both USARTs, complete on the gateway's and on the other but for its last    *)
(* byte.                                                                          *)
THEOREM AnswersStayWhole == Spec => []AnswersInOnePiece
  BY SpecTaskInv, TaskInvOnePiece, PTL

(* For every arrival of bytes, on each USART answers leave in the order in which the   *)
(* requests were served, at most one for each and none for any other.                *)
THEOREM AnswersKeepOrder == Spec => []AnswersInServedOrder
  BY SpecTaskInv, TaskInvServedOrder, PTL

(* For every arrival of bytes, an advertisement loses no byte and keeps their order;    *)
(* others come between them only when a task preempted it in BKEL_UART_Tx.            *)
THEOREM AdvertisementsOnlyCut == Spec => []AdvertisementOnlyCut
  BY SpecTaskInv, TaskInvOnlyCut, PTL
=============================================================================
