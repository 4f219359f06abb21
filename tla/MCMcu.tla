-------------------------------- MODULE MCMcu --------------------------------
(* The tasks, the ADC and the PWM have no variable in common and no property is *)
(* about two of them, so each is explored with the others at rest.             *)
EXTENDS McuTasks, McuDrivers, TLC

CONSTANTS d1, d2, r1, z1, x1, i1

MCRequests == {d1, d2, r1, z1, x1, i1}
MCKind == (d1 :> "diag" @@ d2 :> "pwm_in" @@ r1 :> "rpc" @@ z1 :> "reset" @@
           x1 :> "undefined" @@ i1 :> "invalid")
MCReqLen == (d1 :> 2 @@ d2 :> 2 @@ r1 :> 3 @@ z1 :> 2 @@ x1 :> 2 @@ i1 :> 2)
MCOrders == {<<<<d1, d2>>, <<>>>>, <<<<r1>>, <<d1>>>>, <<<<z1>>, <<d1>>>>, <<<<x1, d1>>, <<>>>>,
             <<<<i1>>, <<>>>>}
MCScripts == {[u \in Uart |-> FlattenSeq([i \in DOMAIN order[u] |-> Bytes(order[u][i])])] :
                  order \in MCOrders}
MCSettings == {0, 1, 2, 20, 35, 36, 62, 255} \X {0, 1, 50, 99, 100, 255}

VARIABLE part           \* which of the three this behaviour is about

mcVars == <<taskVars, adcVars, pwmVars, part>>
Tasks == part = "tasks" /\ UNCHANGED <<adcVars, pwmVars, part>>
Adc == part = "adc" /\ UNCHANGED <<taskVars, pwmVars, part>>
Pwm == part = "pwm" /\ UNCHANGED <<taskVars, adcVars, part>>

MCInit == Init /\ AdcInit /\ PwmInit /\ part \in {"tasks", "adc", "pwm"}

MCNext == (Next /\ Tasks) \/ (AdcNext /\ Adc) \/ (PwmNext /\ Pwm)

MCFairness ==
    /\ WF_mcVars(TaskStep /\ Tasks)
    /\ \A u \in Uart : WF_mcVars(shift(u) /\ Tasks)

MCSpec == MCInit /\ [][MCNext]_mcVars /\ MCFairness
=============================================================================
