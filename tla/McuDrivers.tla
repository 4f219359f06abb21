------------------------------ MODULE McuDrivers ------------------------------
(***************************************************************************)
(* Two drivers of the MCU that share their data with hardware.              *)
(*                                                                         *)
(* BKEL_BSW_adc.c with DMA1_Channel1_IRQHandler: the DMA fills two frames in  *)
(* turn, each with one scan of channels 14 and 15; the interrupt says which   *)
(* one is complete; BKEL_BSW_ADC_GetValue copies it with interrupts off,       *)
(* which does not stop the DMA.                                             *)
(*                                                                         *)
(* BKEL_BSW_pwm.c: what RPC_PWM_Setout leaves in the timer's registers and     *)
(* what DIAG_PWM_OUTPUT_VALUE reads back from them.                          *)
(***************************************************************************)
EXTENDS Integers

CONSTANTS
    IrqLatency, \* how many half-words the DMA may write before a pending or
                \* masked interrupt is served
    MaxScan,    \* bound on scans: the code has none
    Settings    \* payloads of RPC_PWM_SETOUT: pairs of period and duty

(* A conversion takes longer than the copy in GetValue with its interrupts off, *)
(* and longer than any other handler.                                        *)
ASSUME LatencyAssumption == IrqLatency \in 0 .. 1
ASSUME ScanAssumption == MaxScan \in Nat
ASSUME SettingAssumption == Settings \subseteq (0 .. 255) \X (0 .. 255)

VARIABLES
    adc_dma_buf,        \* frame -> the scans its ch14 and ch15 come from
    cndtr,              \* half-words to the end of the DMA's round
    scan,               \* the scan the ADC is converting
    flags,              \* HTIF1 and TCIF1
    late,               \* half-words written since the interrupt could have come
    masked,             \* PRIMASK
    adc_frame_ready, adc_frame_idx,
    shadow, valid, idx, \* variables of BKEL_BSW_ADC_GetValue
    pc,                 \* where the diag task is in it
    announced,          \* history: the newest scan the interrupt has announced
    floor,              \* history: that scan at the time of the call
    arr, ccr1,          \* TIM2->ARR and CCR1
    setting             \* history: the last period and duty asked for

adcVars == <<adc_dma_buf, cndtr, scan, flags, late, masked, adc_frame_ready,
             adc_frame_idx, shadow, valid, idx, pc, announced, floor>>
pwmVars == <<arr, ccr1, setting>>

(* BKEL_ADC1_DMA_Init *)
AdcInit ==
    /\ adc_dma_buf = [frame \in 0 .. 1 |-> [ch14 |-> 0, ch15 |-> 0]]
    /\ cndtr = 4
    /\ scan = 1
    /\ flags = {}
    /\ late = 0
    /\ masked = FALSE
    /\ adc_frame_ready = FALSE /\ adc_frame_idx = 0
    /\ shadow = [ch14 |-> 0, ch15 |-> 0] /\ valid = FALSE /\ idx = 0
    /\ pc = "out"
    /\ announced = 0 /\ floor = 0

(* BKEL_PWM_Init *)
PwmInit ==
    /\ arr = 999 /\ ccr1 = 500
    /\ setting = <<1, 50>>

-----------------------------------------------------------------------------
(* The ADC and the interrupt                                               *)

FrameOf(n) == IF n > 2 THEN 0 ELSE 1
Channel(n) == IF n % 2 = 0 THEN "ch14" ELSE "ch15"

(* A conversion ends.  It takes 21 microseconds, far longer than the copy in    *)
(* GetValue and longer than any other interrupt handler.                      *)
dmaWrites ==
    /\ scan <= MaxScan
    /\ masked \/ flags # {} => late < IrqLatency
    /\ adc_dma_buf' = [adc_dma_buf EXCEPT ![FrameOf(cndtr)][Channel(cndtr)] = scan]
    /\ cndtr' = IF cndtr = 1 THEN 4 ELSE cndtr - 1
    /\ scan' = IF Channel(cndtr) = "ch15" THEN scan + 1 ELSE scan
    /\ flags' = flags \cup (IF cndtr = 3 THEN {"HT"} ELSE IF cndtr = 1 THEN {"TC"} ELSE {})
    /\ late' = IF masked \/ flags # {} THEN late + 1 ELSE 0
    /\ UNCHANGED <<masked, adc_frame_ready, adc_frame_idx, shadow, valid, idx, pc, announced,
                   floor, pwmVars>>

(* Both flags are looked at, half transfer first. *)
DMA1_Channel1_IRQHandler ==
    /\ flags # {}
    /\ ~masked
    /\ adc_frame_idx' = IF "TC" \in flags THEN 1 ELSE 0
    /\ adc_frame_ready' = TRUE
    /\ announced' = scan - 1
    /\ flags' = {}
    /\ late' = 0
    /\ UNCHANGED <<adc_dma_buf, cndtr, scan, masked, shadow, valid, idx, pc, floor, pwmVars>>

-----------------------------------------------------------------------------
(* BKEL_BSW_ADC_GetValue.  A pending interrupt is served before the task goes  *)
(* on, unless the task has masked it.                                       *)

At(place) == pc = place /\ (flags = {} \/ masked)

testsReady ==
    /\ At("out")
    /\ floor' = announced
    /\ pc' = IF adc_frame_ready THEN "ready" ELSE "return"
    /\ UNCHANGED <<adc_dma_buf, cndtr, scan, flags, late, masked, adc_frame_ready,
                   adc_frame_idx, shadow, valid, idx, announced, pwmVars>>

(* Mutant: interrupts stay on. *)
disable_irq_Missing ==
    /\ At("ready")
    /\ idx' = adc_frame_idx
    /\ pc' = "copy14"
    /\ UNCHANGED <<adc_dma_buf, cndtr, scan, flags, late, masked, adc_frame_ready,
                   adc_frame_idx, shadow, valid, announced, floor, pwmVars>>

(* Interrupts off; the index is read. *)
disable_irq ==
    /\ At("ready")
    /\ masked' = TRUE
    /\ late' = 0
    /\ idx' = adc_frame_idx
    /\ pc' = "copy14"
    /\ UNCHANGED <<adc_dma_buf, cndtr, scan, flags, adc_frame_ready, adc_frame_idx,
                   shadow, valid, announced, floor, pwmVars>>

(* The pair is copied in one or two accesses. *)
copies14 ==
    /\ At("copy14")
    /\ shadow' = [shadow EXCEPT !.ch14 = adc_dma_buf[idx].ch14]
    /\ pc' = "copy15"
    /\ UNCHANGED <<adc_dma_buf, cndtr, scan, flags, late, masked, adc_frame_ready,
                   adc_frame_idx, valid, idx, announced, floor, pwmVars>>

copies15 ==
    /\ At("copy15")
    /\ shadow' = [shadow EXCEPT !.ch15 = adc_dma_buf[idx].ch15]
    /\ adc_frame_ready' = FALSE
    /\ valid' = TRUE
    /\ pc' = "enable"
    /\ UNCHANGED <<adc_dma_buf, cndtr, scan, flags, late, masked, adc_frame_idx, idx,
                   announced, floor, pwmVars>>

enable_irq ==
    /\ At("enable")
    /\ masked' = FALSE
    /\ late' = IF flags = {} THEN 0 ELSE late
    /\ pc' = "return"
    /\ UNCHANGED <<adc_dma_buf, cndtr, scan, flags, adc_frame_ready, adc_frame_idx,
                   shadow, valid, idx, announced, floor, pwmVars>>

(* Mutant: the flag is cleared with interrupts on. *)
returns_ClearsReady ==
    /\ At("return")
    /\ adc_frame_ready' = FALSE
    /\ pc' = "out"
    /\ UNCHANGED <<adc_dma_buf, cndtr, scan, flags, late, masked, adc_frame_idx,
                   shadow, valid, idx, announced, floor, pwmVars>>

(* shadow is returned, or ADC_INVALID_VALUE when nothing was ever copied. *)
returns ==
    /\ At("return")
    /\ pc' = "out"
    /\ UNCHANGED <<adc_dma_buf, cndtr, scan, flags, late, masked, adc_frame_ready,
                   adc_frame_idx, shadow, valid, idx, announced, floor, pwmVars>>

-----------------------------------------------------------------------------
(* The PWM output *)

(* Mutant: the duty is set before the period. *)
RPC_PWM_Setout_DutyFirst(period, duty) ==
    /\ arr' = IF period = 0 THEN arr ELSE 1000000 \div (period * 1000)
    /\ ccr1' = ((arr + 1) * (IF duty > 100 THEN 100 ELSE duty)) \div 100
    /\ setting' = <<IF period = 0 THEN setting[1] ELSE period, duty>>
    /\ UNCHANGED adcVars

(* BKEL_PWM_SetPeriod and then BKEL_PWM_SetDuty, which reads ARR. *)
RPC_PWM_Setout(period, duty) ==
    /\ arr' = IF period = 0 THEN arr ELSE 1000000 \div (period * 1000)
    /\ ccr1' = ((arr' + 1) * (IF duty > 100 THEN 100 ELSE duty)) \div 100
    /\ setting' = <<IF period = 0 THEN setting[1] ELSE period, duty>>
    /\ UNCHANGED adcVars

(* The duty is computed in 16 bits and returned in 8. *)
BKEL_PWM_ReadDuty == (IF arr > 0 THEN ((ccr1 * 100) \div arr) % 65536 ELSE 999) % 256

(* So is the period, a frequency in kHz. *)
BKEL_PWM_ReadPeriod == ((IF arr > 0 THEN (1000000 \div arr) % 65536 ELSE 0) \div 999) % 256

-----------------------------------------------------------------------------
AdcNext ==
    \/ dmaWrites \/ DMA1_Channel1_IRQHandler
    \/ testsReady \/ disable_irq \/ copies14 \/ copies15 \/ enable_irq \/ returns

PwmNext == \E s \in Settings : RPC_PWM_Setout(s[1], s[2])

DriverSpec == AdcInit /\ PwmInit /\ [][AdcNext \/ PwmNext]_<<adcVars, pwmVars>>

-----------------------------------------------------------------------------
(* The pair GetValue returns was converted in one scan, although the DMA goes   *)
(* on writing while it is copied: with interrupts off, adc_frame_idx names the   *)
(* frame the DMA has left, and the copy is over before it comes back.          *)
PairOfOneScan == pc = "return" /\ valid => shadow.ch14 = shadow.ch15

(* GetValue never returns an older scan than the newest one announced when it    *)
(* was called: no announcement is lost between the test of adc_frame_ready, the   *)
(* copy and the clearing of the flag.                                          *)
NewestScanReturned ==
    pc = "return" => IF valid THEN shadow.ch15 >= floor ELSE floor = 0

(* DIAG_PWM_OUTPUT_VALUE reports the period that was set, exactly up to 35 and    *)
(* within five per cent up to 62 (beyond, ReadPeriod overflows its 16 bits), and   *)
(* the duty within what the rounding of ARR costs; a period of 0 keeps the last.  *)
PwmReadsBack ==
    LET period == setting[1]
        duty == IF setting[2] > 100 THEN 100 ELSE setting[2]
    IN  /\ period <= 35 => BKEL_PWM_ReadPeriod = period
        /\ period <= 62 => BKEL_PWM_ReadPeriod \in period .. period + 3
        /\ period <= 62 => BKEL_PWM_ReadDuty \in duty - 6 .. duty + 6
=============================================================================
