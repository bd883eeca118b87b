---------------------------- MODULE MotorArmingProofs ----------------------------
(* Proofs about the powering and floating of the phases, however late the control *)
(* loop is.                                                                       *)
EXTENDS MotorArming, TLAPS

USE DEF timerVars, outputVars, motorVars, brakeVars, isrVars, csVars, threadVars,
        loopFrame, threadFrame, Disarm, DisarmWithError, CarryOn,
        BrakeApplied, BrakeDisarmed

----------------------------------------------------------------------------------
(* Type correctness, in three parts: the provers keep numbers and flags apart.    *)

LEMMA InitType ==
  ASSUME Init
  PROVE  TypeOK
<1>1. CountersOK
  BY MaxLateAssumption DEF Init, CountersOK
<1>2. FlagsOK
  BY DEF Init, FlagsOK
<1> QED
  BY <1>1, <1>2 DEF Init, TypeOK, Timings

LEMMA NextCounters ==
  ASSUME TypeOK, [Next]_vars
  PROVE  CountersOK'
<1>1. CASE Tim1Update
  BY <1>1, MaxLateAssumption DEF Tim1Update, TypeOK, CountersOK, Older
<1>2. CASE Tim8Update
  BY <1>2, MaxLateAssumption DEF Tim8Update, TypeOK, CountersOK, Min2
<1>3. CASE ClearAoe
  BY <1>3, MaxLateAssumption DEF ClearAoe, TypeOK, CountersOK
<1>4. CASE ClearMoe
  BY <1>4, MaxLateAssumption DEF ClearMoe, TypeOK, CountersOK
<1>5. CASE Tim8Missed
  BY <1>5, MaxLateAssumption DEF Tim8Missed, TypeOK, CountersOK
<1>6. CASE Tim8Handler
  BY <1>6, MaxLateAssumption DEF Tim8Handler, TypeOK, CountersOK, Min2
<1>7. CASE LoopStart
  BY <1>7, MaxLateAssumption DEF LoopStart, TypeOK, CountersOK
<1>8. CASE CurrentMeasure
  BY <1>8, MaxLateAssumption DEF CurrentMeasure, TypeOK, CountersOK, Forced
<1>9. CASE ControlLoopCb
  BY <1>9, MaxLateAssumption DEF ControlLoopCb, TypeOK, CountersOK
<1>10. CASE SecondSample
  <2>1. CASE sample = "none"
    BY <1>10, <2>1, MaxLateAssumption DEF SecondSample, TypeOK, CountersOK
  <2>2. CASE sample # "none"
    BY <1>10, <2>2, MaxLateAssumption DEF SecondSample, TypeOK, CountersOK
  <2> QED BY <2>1, <2>2
<1>11. CASE PwmUpdate
  BY <1>11, MaxLateAssumption DEF PwmUpdate, TypeOK, CountersOK
<1>12. CASE ApplyTimings
  BY <1>12, MaxLateAssumption DEF ApplyTimings, TypeOK, CountersOK
<1>13. CASE WriteTimings
  BY <1>13, MaxLateAssumption DEF WriteTimings, TypeOK, CountersOK
<1>14. CASE EnableOutputs
  BY <1>14, MaxLateAssumption DEF EnableOutputs, TypeOK, CountersOK
<1>15. CASE BusCurrentFails
  BY <1>15, MaxLateAssumption DEF BusCurrentFails, TypeOK, CountersOK
<1>16. CASE BrakeUpdate
  BY <1>16, MaxLateAssumption DEF BrakeUpdate, TypeOK, CountersOK
<1>17. CASE DeadlineCheck
  BY <1>17, MaxLateAssumption DEF DeadlineCheck, TypeOK, CountersOK
<1>18. CASE StartOperation
  BY <1>18, MaxLateAssumption DEF StartOperation, TypeOK, CountersOK, Arm
<1>19. CASE EndOperation
  BY <1>19, MaxLateAssumption DEF EndOperation, TypeOK, CountersOK
<1>20. CASE BrakeAfterDisarm
  BY <1>20, MaxLateAssumption DEF BrakeAfterDisarm, TypeOK, CountersOK
<1>21. CASE ClearErrors
  BY <1>21, MaxLateAssumption DEF ClearErrors, TypeOK, CountersOK
<1>22. CASE ArmBrake
  BY <1>22, MaxLateAssumption DEF ArmBrake, TypeOK, CountersOK
<1>23. CASE Estop
  BY <1>23, MaxLateAssumption DEF Estop, TypeOK, CountersOK
<1>24. CASE ConfigureBrake
  BY <1>24, MaxLateAssumption DEF ConfigureBrake, TypeOK, CountersOK
<1>25. CASE UNCHANGED vars
  BY <1>25, MaxLateAssumption DEF vars, TypeOK, CountersOK
<1> QED
  BY <1>1, <1>2, <1>3, <1>4, <1>5, <1>6, <1>7, <1>8, <1>9, <1>10, <1>11, <1>12, <1>13,
     <1>14, <1>15, <1>16, <1>17, <1>18, <1>19, <1>20, <1>21, <1>22, <1>23, <1>24, <1>25
  DEF Next, Timers, Interrupts, Threads

LEMMA NextFlags ==
  ASSUME TypeOK, [Next]_vars
  PROVE  FlagsOK'
<1>1. CASE Tim1Update
  BY <1>1 DEF Tim1Update, TypeOK, FlagsOK, Older
<1>2. CASE Tim8Update
  BY <1>2 DEF Tim8Update, TypeOK, FlagsOK
<1>3. CASE ClearAoe
  BY <1>3 DEF ClearAoe, TypeOK, FlagsOK
<1>4. CASE ClearMoe
  BY <1>4 DEF ClearMoe, TypeOK, FlagsOK
<1>5. CASE Tim8Missed
  BY <1>5 DEF Tim8Missed, TypeOK, FlagsOK
<1>6. CASE Tim8Handler
  <2>1. CountsDown \in BOOLEAN
    BY DEF CountsDown
  <2> QED
    BY <1>6, <2>1 DEF Tim8Handler, TypeOK, FlagsOK
<1>7. CASE LoopStart
  BY <1>7 DEF LoopStart, TypeOK, FlagsOK
<1>8. CASE CurrentMeasure
  <2>1. CASE DisarmWithError("system")
    BY <1>8, <2>1 DEF CurrentMeasure, TypeOK, FlagsOK, Forced
  <2>2. CASE DisarmWithError("none")
    BY <1>8, <2>2 DEF CurrentMeasure, TypeOK, FlagsOK, Forced
  <2>3. CASE UNCHANGED <<armed, law, error, wasArmed, csVars>>
    BY <1>8, <2>3 DEF CurrentMeasure, TypeOK, FlagsOK, Forced
  <2> QED BY <1>8, <2>1, <2>2, <2>3 DEF CurrentMeasure
<1>9. CASE ControlLoopCb
  BY <1>9 DEF ControlLoopCb, TypeOK, FlagsOK
<1>10. CASE SecondSample
  BY <1>10 DEF SecondSample, TypeOK, FlagsOK
<1>11. CASE PwmUpdate
  BY <1>11 DEF PwmUpdate, TypeOK, FlagsOK
<1>12. CASE ApplyTimings
  BY <1>12 DEF ApplyTimings, TypeOK, FlagsOK
<1>13. CASE WriteTimings
  BY <1>13 DEF WriteTimings, TypeOK, FlagsOK
<1>14. CASE EnableOutputs
  BY <1>14 DEF EnableOutputs, TypeOK, FlagsOK
<1>15. CASE BusCurrentFails
  BY <1>15 DEF BusCurrentFails, TypeOK, FlagsOK
<1>16. CASE BrakeUpdate
  BY <1>16 DEF BrakeUpdate, TypeOK, FlagsOK
<1>17. CASE DeadlineCheck
  BY <1>17 DEF DeadlineCheck, TypeOK, FlagsOK
<1>18. CASE StartOperation
  BY <1>18 DEF StartOperation, TypeOK, FlagsOK, Arm
<1>19. CASE EndOperation
  BY <1>19 DEF EndOperation, TypeOK, FlagsOK
<1>20. CASE BrakeAfterDisarm
  BY <1>20 DEF BrakeAfterDisarm, TypeOK, FlagsOK
<1>21. CASE ClearErrors
  BY <1>21 DEF ClearErrors, TypeOK, FlagsOK
<1>22. CASE ArmBrake
  BY <1>22 DEF ArmBrake, TypeOK, FlagsOK
<1>23. CASE Estop
  BY <1>23 DEF Estop, TypeOK, FlagsOK
<1>24. CASE ConfigureBrake
  BY <1>24 DEF ConfigureBrake, TypeOK, FlagsOK
<1>25. CASE UNCHANGED vars
  BY <1>25 DEF vars, TypeOK, FlagsOK
<1> QED
  BY <1>1, <1>2, <1>3, <1>4, <1>5, <1>6, <1>7, <1>8, <1>9, <1>10, <1>11, <1>12, <1>13,
     <1>14, <1>15, <1>16, <1>17, <1>18, <1>19, <1>20, <1>21, <1>22, <1>23, <1>24, <1>25
  DEF Next, Timers, Interrupts, Threads

LEMMA NextType ==
  ASSUME TypeOK, [Next]_vars
  PROVE  TypeOK'
<1>a. CountersOK' /\ FlagsOK'
  BY NextCounters, NextFlags
<1>1. CASE Tim1Update
  BY <1>1, <1>a DEF Tim1Update, TypeOK, Timings, Older
<1>2. CASE Tim8Update
  BY <1>2, <1>a DEF Tim8Update, TypeOK, Timings
<1>3. CASE ClearAoe
  BY <1>3, <1>a DEF ClearAoe, TypeOK, Timings
<1>4. CASE ClearMoe
  BY <1>4, <1>a DEF ClearMoe, TypeOK, Timings
<1>5. CASE Tim8Missed
  BY <1>5, <1>a DEF Tim8Missed, TypeOK, Timings
<1>6. CASE Tim8Handler
  BY <1>6, <1>a DEF Tim8Handler, TypeOK, Timings
<1>7. CASE LoopStart
  BY <1>7, <1>a DEF LoopStart, TypeOK, Timings
<1>8. CASE CurrentMeasure
  BY <1>8, <1>a DEF CurrentMeasure, TypeOK, Timings, Forced
<1>9. CASE ControlLoopCb
  BY <1>9, <1>a DEF ControlLoopCb, TypeOK, Timings
<1>10. CASE SecondSample
  <2>1. CASE sample = "none"
    BY <1>10, <2>1, <1>a DEF SecondSample, TypeOK, Timings
  <2>2. CASE sample # "none"
    BY <1>10, <2>2, <1>a DEF SecondSample, TypeOK, Timings
  <2> QED BY <2>1, <2>2
<1>11. CASE PwmUpdate
  BY <1>11, <1>a DEF PwmUpdate, TypeOK, Timings
<1>12. CASE ApplyTimings
  BY <1>12, <1>a DEF ApplyTimings, TypeOK, Timings
<1>13. CASE WriteTimings
  BY <1>13, <1>a DEF WriteTimings, TypeOK, Timings
<1>14. CASE EnableOutputs
  BY <1>14, <1>a DEF EnableOutputs, TypeOK, Timings
<1>15. CASE BusCurrentFails
  BY <1>15, <1>a DEF BusCurrentFails, TypeOK, Timings
<1>16. CASE BrakeUpdate
  BY <1>16, <1>a DEF BrakeUpdate, TypeOK, Timings
<1>17. CASE DeadlineCheck
  BY <1>17, <1>a DEF DeadlineCheck, TypeOK, Timings
<1>18. CASE StartOperation
  BY <1>18, <1>a DEF StartOperation, TypeOK, Timings, Arm
<1>19. CASE EndOperation
  BY <1>19, <1>a DEF EndOperation, TypeOK, Timings
<1>20. CASE BrakeAfterDisarm
  BY <1>20, <1>a DEF BrakeAfterDisarm, TypeOK, Timings
<1>21. CASE ClearErrors
  BY <1>21, <1>a DEF ClearErrors, TypeOK, Timings
<1>22. CASE ArmBrake
  BY <1>22, <1>a DEF ArmBrake, TypeOK, Timings
<1>23. CASE Estop
  BY <1>23, <1>a DEF Estop, TypeOK, Timings
<1>24. CASE ConfigureBrake
  BY <1>24, <1>a DEF ConfigureBrake, TypeOK, Timings
<1>25. CASE UNCHANGED vars
  BY <1>25, <1>a DEF vars, TypeOK
<1> QED
  BY <1>1, <1>2, <1>3, <1>4, <1>5, <1>6, <1>7, <1>8, <1>9, <1>10, <1>11, <1>12, <1>13,
     <1>14, <1>15, <1>16, <1>17, <1>18, <1>19, <1>20, <1>21, <1>22, <1>23, <1>24, <1>25
  DEF Next, Timers, Interrupts, Threads

(* Every variable keeps its type, whatever number of updates an iteration lasts.  *)
THEOREM TypeCorrect == Spec => []TypeOK
<1>1. Init => TypeOK
  BY InitType
<1>2. TypeOK /\ [Next]_vars => TypeOK'
  BY NextType
<1> QED
  BY <1>1, <1>2, PTL DEF Spec

----------------------------------------------------------------------------------
(* Power: the outputs are on, or about to be, only while the motor is armed or    *)
(* disarm() is on its way to them.                                                *)
Wired ==
  /\ moe => armed \/ cs \in {"aoe", "moe"}
  /\ aoe => armed \/ cs = "aoe"
  /\ cs \in {"aoe", "moe"} => ~armed

LEMMA NextWired ==
  ASSUME Wired, [Next]_vars
  PROVE  Wired'
<1>1. CASE Tim1Update
  BY <1>1 DEF Tim1Update, Wired
<1>2. CASE Tim8Update
  BY <1>2 DEF Tim8Update, Wired
<1>3. CASE ClearAoe
  BY <1>3 DEF ClearAoe, Wired
<1>4. CASE ClearMoe
  BY <1>4 DEF ClearMoe, Wired
<1>5. CASE Tim8Missed
  BY <1>5 DEF Tim8Missed, Wired
<1>6. CASE Tim8Handler
  BY <1>6 DEF Tim8Handler, Wired
<1>7. CASE LoopStart
  BY <1>7 DEF LoopStart, Wired
<1>8. CASE CurrentMeasure
  BY <1>8 DEF CurrentMeasure, Wired, Forced
<1>9. CASE ControlLoopCb
  BY <1>9 DEF ControlLoopCb, Wired
<1>10. CASE SecondSample
  BY <1>10 DEF SecondSample, Wired
<1>11. CASE PwmUpdate
  BY <1>11 DEF PwmUpdate, Wired
<1>12. CASE ApplyTimings
  BY <1>12 DEF ApplyTimings, Wired, LoopRuns
<1>13. CASE WriteTimings
  BY <1>13 DEF WriteTimings, Wired
<1>14. CASE EnableOutputs
  BY <1>14 DEF EnableOutputs, Wired
<1>15. CASE BusCurrentFails
  BY <1>15 DEF BusCurrentFails, Wired
<1>16. CASE BrakeUpdate
  BY <1>16 DEF BrakeUpdate, Wired
<1>17. CASE DeadlineCheck
  BY <1>17 DEF DeadlineCheck, Wired
<1>18. CASE StartOperation
  BY <1>18 DEF StartOperation, Wired, Arm, ThreadsRun
<1>19. CASE EndOperation
  BY <1>19 DEF EndOperation, Wired
<1>20. CASE BrakeAfterDisarm
  BY <1>20 DEF BrakeAfterDisarm, Wired
<1>21. CASE ClearErrors
  BY <1>21 DEF ClearErrors, Wired
<1>22. CASE ArmBrake
  BY <1>22 DEF ArmBrake, Wired
<1>23. CASE Estop
  BY <1>23 DEF Estop, Wired
<1>24. CASE ConfigureBrake
  BY <1>24 DEF ConfigureBrake, Wired
<1>25. CASE UNCHANGED vars
  BY <1>25 DEF vars, Wired
<1> QED
  BY <1>1, <1>2, <1>3, <1>4, <1>5, <1>6, <1>7, <1>8, <1>9, <1>10, <1>11, <1>12, <1>13,
     <1>14, <1>15, <1>16, <1>17, <1>18, <1>19, <1>20, <1>21, <1>22, <1>23, <1>24, <1>25
  DEF Next, Timers, Interrupts, Threads

LEMMA WiredAlways == Spec => []Wired
<1>1. Init => Wired
  BY DEF Init, Wired
<1>2. Wired /\ [Next]_vars => Wired'
  BY NextWired
<1> QED
  BY <1>1, <1>2, PTL DEF Spec

(* After disarm() the phases float, and stay so until arm(): Motor::disarm().     *)
THEOREM DisarmedFloats == Spec => []FloatingWhenDisarmed
<1>1. Wired => FloatingWhenDisarmed
  BY DEF Wired, FloatingWhenDisarmed, Floating
<1> QED
  BY <1>1, WiredAlways, PTL

(* Every step of the motor is one of the power stage or none at all.              *)
LEMMA NextStage ==
  ASSUME Wired, [Next]_vars
  PROVE  [Stage!Next]_(IF moe THEN "driven" ELSE IF aoe THEN "ready"
                       ELSE IF armed THEN "armed" ELSE "off")
<1>1. CASE Tim1Update
  BY <1>1 DEF Tim1Update, Wired, Stage!Next, Stage!Arm, Stage!Apply, Stage!Enable, Stage!Disarm
<1>2. CASE Tim8Update
  BY <1>2 DEF Tim8Update, Wired, Stage!Next, Stage!Arm, Stage!Apply, Stage!Enable, Stage!Disarm
<1>3. CASE ClearAoe
  BY <1>3 DEF ClearAoe, Wired, Stage!Next, Stage!Arm, Stage!Apply, Stage!Enable, Stage!Disarm
<1>4. CASE ClearMoe
  BY <1>4 DEF ClearMoe, Wired, Stage!Next, Stage!Arm, Stage!Apply, Stage!Enable, Stage!Disarm
<1>5. CASE Tim8Missed
  BY <1>5 DEF Tim8Missed, Wired, Stage!Next, Stage!Arm, Stage!Apply, Stage!Enable, Stage!Disarm
<1>6. CASE Tim8Handler
  BY <1>6 DEF Tim8Handler, Wired, Stage!Next, Stage!Arm, Stage!Apply, Stage!Enable, Stage!Disarm
<1>7. CASE LoopStart
  BY <1>7 DEF LoopStart, Wired, Stage!Next, Stage!Arm, Stage!Apply, Stage!Enable, Stage!Disarm
<1>8. CASE CurrentMeasure
  BY <1>8 DEF CurrentMeasure, Wired, Stage!Next, Stage!Arm, Stage!Apply, Stage!Enable, Stage!Disarm, Forced
<1>9. CASE ControlLoopCb
  BY <1>9 DEF ControlLoopCb, Wired, Stage!Next, Stage!Arm, Stage!Apply, Stage!Enable, Stage!Disarm
<1>10. CASE SecondSample
  BY <1>10 DEF SecondSample, Wired, Stage!Next, Stage!Arm, Stage!Apply, Stage!Enable, Stage!Disarm
<1>11. CASE PwmUpdate
  BY <1>11 DEF PwmUpdate, Wired, Stage!Next, Stage!Arm, Stage!Apply, Stage!Enable, Stage!Disarm
<1>12. CASE ApplyTimings
  BY <1>12 DEF ApplyTimings, Wired, Stage!Next, Stage!Arm, Stage!Apply, Stage!Enable, Stage!Disarm
<1>13. CASE WriteTimings
  BY <1>13 DEF WriteTimings, Wired, Stage!Next, Stage!Arm, Stage!Apply, Stage!Enable, Stage!Disarm
<1>14. CASE EnableOutputs
  BY <1>14 DEF EnableOutputs, Wired, Stage!Next, Stage!Arm, Stage!Apply, Stage!Enable, Stage!Disarm
<1>15. CASE BusCurrentFails
  BY <1>15 DEF BusCurrentFails, Wired, Stage!Next, Stage!Arm, Stage!Apply, Stage!Enable, Stage!Disarm
<1>16. CASE BrakeUpdate
  BY <1>16 DEF BrakeUpdate, Wired, Stage!Next, Stage!Arm, Stage!Apply, Stage!Enable, Stage!Disarm
<1>17. CASE DeadlineCheck
  BY <1>17 DEF DeadlineCheck, Wired, Stage!Next, Stage!Arm, Stage!Apply, Stage!Enable, Stage!Disarm
<1>18. CASE StartOperation
  BY <1>18 DEF StartOperation, Wired, Stage!Next, Stage!Arm, Stage!Apply, Stage!Enable, Stage!Disarm, Arm
<1>19. CASE EndOperation
  BY <1>19 DEF EndOperation, Wired, Stage!Next, Stage!Arm, Stage!Apply, Stage!Enable, Stage!Disarm
<1>20. CASE BrakeAfterDisarm
  BY <1>20 DEF BrakeAfterDisarm, Wired, Stage!Next, Stage!Arm, Stage!Apply, Stage!Enable, Stage!Disarm
<1>21. CASE ClearErrors
  BY <1>21 DEF ClearErrors, Wired, Stage!Next, Stage!Arm, Stage!Apply, Stage!Enable, Stage!Disarm
<1>22. CASE ArmBrake
  BY <1>22 DEF ArmBrake, Wired, Stage!Next, Stage!Arm, Stage!Apply, Stage!Enable, Stage!Disarm
<1>23. CASE Estop
  BY <1>23 DEF Estop, Wired, Stage!Next, Stage!Arm, Stage!Apply, Stage!Enable, Stage!Disarm
<1>24. CASE ConfigureBrake
  BY <1>24 DEF ConfigureBrake, Wired, Stage!Next, Stage!Arm, Stage!Apply, Stage!Enable, Stage!Disarm
<1>25. CASE UNCHANGED vars
  BY <1>25 DEF vars, Wired, Stage!Next, Stage!Arm, Stage!Apply, Stage!Enable, Stage!Disarm
<1> QED
  BY <1>1, <1>2, <1>3, <1>4, <1>5, <1>6, <1>7, <1>8, <1>9, <1>10, <1>11, <1>12, <1>13,
     <1>14, <1>15, <1>16, <1>17, <1>18, <1>19, <1>20, <1>21, <1>22, <1>23, <1>24, <1>25
  DEF Next, Timers, Interrupts, Threads

(* The promise of Motor::arm() and Motor::disarm(), for every overrun.            *)
THEOREM StageImplemented == Spec => ImplementsPowerStage
<1>1. Init => Stage!Init
  BY DEF Init, Stage!Init
<1>2. Wired /\ [Next]_vars
        => [Stage!Next]_(IF moe THEN "driven" ELSE IF aoe THEN "ready"
                         ELSE IF armed THEN "armed" ELSE "off")
  BY NextStage
<1> QED
  BY <1>1, <1>2, WiredAlways, PTL DEF Spec, ImplementsPowerStage, Stage!Spec

----------------------------------------------------------------------------------
(* The law of a measurement.                                                      *)

LEMMA NextLaw ==
  ASSUME LawIsLive, [Next]_vars
  PROVE  LawIsLive'
<1>1. CASE Tim1Update
  BY <1>1 DEF Tim1Update, LawIsLive
<1>2. CASE Tim8Update
  BY <1>2 DEF Tim8Update, LawIsLive
<1>3. CASE ClearAoe
  BY <1>3 DEF ClearAoe, LawIsLive
<1>4. CASE ClearMoe
  BY <1>4 DEF ClearMoe, LawIsLive
<1>5. CASE Tim8Missed
  BY <1>5 DEF Tim8Missed, LawIsLive
<1>6. CASE Tim8Handler
  BY <1>6 DEF Tim8Handler, LawIsLive
<1>7. CASE LoopStart
  BY <1>7 DEF LoopStart, LawIsLive
<1>8. CASE CurrentMeasure
  BY <1>8 DEF CurrentMeasure, LawIsLive, Forced
<1>9. CASE ControlLoopCb
  BY <1>9 DEF ControlLoopCb, LawIsLive
<1>10. CASE SecondSample
  BY <1>10 DEF SecondSample, LawIsLive
<1>11. CASE PwmUpdate
  BY <1>11 DEF PwmUpdate, LawIsLive
<1>12. CASE ApplyTimings
  BY <1>12 DEF ApplyTimings, LawIsLive
<1>13. CASE WriteTimings
  BY <1>13 DEF WriteTimings, LawIsLive
<1>14. CASE EnableOutputs
  BY <1>14 DEF EnableOutputs, LawIsLive
<1>15. CASE BusCurrentFails
  BY <1>15 DEF BusCurrentFails, LawIsLive
<1>16. CASE BrakeUpdate
  BY <1>16 DEF BrakeUpdate, LawIsLive
<1>17. CASE DeadlineCheck
  BY <1>17 DEF DeadlineCheck, LawIsLive
<1>18. CASE StartOperation
  BY <1>18 DEF StartOperation, LawIsLive, Arm
<1>19. CASE EndOperation
  BY <1>19 DEF EndOperation, LawIsLive
<1>20. CASE BrakeAfterDisarm
  BY <1>20 DEF BrakeAfterDisarm, LawIsLive
<1>21. CASE ClearErrors
  BY <1>21 DEF ClearErrors, LawIsLive
<1>22. CASE ArmBrake
  BY <1>22 DEF ArmBrake, LawIsLive
<1>23. CASE Estop
  BY <1>23 DEF Estop, LawIsLive
<1>24. CASE ConfigureBrake
  BY <1>24 DEF ConfigureBrake, LawIsLive
<1>25. CASE UNCHANGED vars
  BY <1>25 DEF vars, LawIsLive
<1> QED
  BY <1>1, <1>2, <1>3, <1>4, <1>5, <1>6, <1>7, <1>8, <1>9, <1>10, <1>11, <1>12, <1>13,
     <1>14, <1>15, <1>16, <1>17, <1>18, <1>19, <1>20, <1>21, <1>22, <1>23, <1>24, <1>25
  DEF Next, Timers, Interrupts, Threads

(* The interrupt never calls a law whose measurement has returned, also when      *)
(* arm() took the law and then refused to arm.                                    *)
THEOREM LawLives == Spec => []LawIsLive
<1>1. Init => LawIsLive
  BY DEF Init, LawIsLive
<1>2. LawIsLive /\ [Next]_vars => LawIsLive'
  BY NextLaw
<1> QED
  BY <1>1, <1>2, PTL DEF Spec

----------------------------------------------------------------------------------
(* The brake resistor: an iteration past apply_pwm_timings() that has left the    *)
(* motor armed found the brake armed, and no thread has run since.                *)
BrakeFound ==
  /\ cs \in {"aoe", "moe"} => ~armed
  /\ ~brakeArmed => ~brakePwm
  /\ isr \in {"brake", "deadline"} /\ armed /\ enableBrake => brakeArmed

LEMMA NextBrake ==
  ASSUME FlagsOK, BrakeFound, [Next]_vars
  PROVE  BrakeFound'
<1>1. CASE Tim1Update
  BY <1>1 DEF Tim1Update, BrakeFound
<1>2. CASE Tim8Update
  BY <1>2 DEF Tim8Update, BrakeFound
<1>3. CASE ClearAoe
  BY <1>3 DEF ClearAoe, BrakeFound
<1>4. CASE ClearMoe
  BY <1>4 DEF ClearMoe, FlagsOK, BrakeFound
<1>5. CASE Tim8Missed
  BY <1>5 DEF Tim8Missed, BrakeFound
<1>6. CASE Tim8Handler
  BY <1>6 DEF Tim8Handler, BrakeFound
<1>7. CASE LoopStart
  BY <1>7 DEF LoopStart, BrakeFound
<1>8. CASE CurrentMeasure
  BY <1>8 DEF CurrentMeasure, BrakeFound, Forced
<1>9. CASE ControlLoopCb
  BY <1>9 DEF ControlLoopCb, BrakeFound
<1>10. CASE SecondSample
  BY <1>10 DEF SecondSample, BrakeFound
<1>11. CASE PwmUpdate
  BY <1>11 DEF PwmUpdate, BrakeFound
<1>12. CASE ApplyTimings
  BY <1>12 DEF ApplyTimings, BrakeFound
<1>13. CASE WriteTimings
  BY <1>13 DEF WriteTimings, BrakeFound
<1>14. CASE EnableOutputs
  BY <1>14 DEF EnableOutputs, BrakeFound
<1>15. CASE BusCurrentFails
  BY <1>15 DEF BusCurrentFails, BrakeFound
<1>16. CASE BrakeUpdate
  BY <1>16 DEF BrakeUpdate, FlagsOK, BrakeFound
<1>17. CASE DeadlineCheck
  BY <1>17 DEF DeadlineCheck, BrakeFound
<1>18. CASE StartOperation
  BY <1>18 DEF StartOperation, BrakeFound, Arm, ThreadsRun
<1>19. CASE EndOperation
  BY <1>19 DEF EndOperation, BrakeFound, ThreadsRun
<1>20. CASE BrakeAfterDisarm
  BY <1>20 DEF BrakeAfterDisarm, FlagsOK, BrakeFound, ThreadsRun
<1>21. CASE ClearErrors
  BY <1>21 DEF ClearErrors, BrakeFound
<1>22. CASE ArmBrake
  BY <1>22 DEF ArmBrake, BrakeFound, ThreadsRun
<1>23. CASE Estop
  BY <1>23 DEF Estop, BrakeFound
<1>24. CASE ConfigureBrake
  BY <1>24 DEF ConfigureBrake, BrakeFound, ThreadsRun
<1>25. CASE UNCHANGED vars
  BY <1>25 DEF vars, BrakeFound
<1> QED
  BY <1>1, <1>2, <1>3, <1>4, <1>5, <1>6, <1>7, <1>8, <1>9, <1>10, <1>11, <1>12, <1>13,
     <1>14, <1>15, <1>16, <1>17, <1>18, <1>19, <1>20, <1>21, <1>22, <1>23, <1>24, <1>25
  DEF Next, Timers, Interrupts, Threads

(* A brake resistor in use is armed wherever the motor is, and never switched     *)
(* when it is not: low_level.cpp and apply_pwm_timings().                         *)
THEOREM BrakeGuarded == Spec => []BrakeGuards
<1>1. Init => BrakeFound
  BY DEF Init, BrakeFound
<1>2. TypeOK /\ BrakeFound /\ [Next]_vars => BrakeFound'
  BY NextBrake DEF TypeOK
<1>3. BrakeFound => BrakeGuards
  BY DEF BrakeFound, BrakeGuards
<1> QED
  BY <1>1, <1>2, <1>3, TypeCorrect, PTL DEF Spec

----------------------------------------------------------------------------------
(* The timings in force. Of a motor that is powered or soon may be, no update of  *)
(* TIM8 is missed, so that its handler puts back the 50 % between counting down   *)
(* and counting up; what TIM1 may latch next is therefore never a third use.      *)
Live == armed \/ moe \/ aoe

Paced ==
  /\ ~tim8 => countingDown = CountsDown
  /\ tim8 /\ Live => countingDown # CountsDown

Latchable ==
  moe \/ aoe \/ (cs = "enable" /\ armed) =>
    /\ next = "latchUp" /\ ~tim8 => ccr \notin {"used", "stale"}
    /\ next \in {"up", "latchDown"} => ccr # "stale"

LEMMA NextPaced ==
  ASSUME TypeOK, Paced, [Next]_vars
  PROVE  Paced'
<1>a. FlagsOK /\ FlagsOK' /\ next \in {"latchUp", "up", "latchDown", "down"}
  BY NextFlags DEF TypeOK
<1>1. CASE Tim1Update
  BY <1>1, <1>a DEF Tim1Update, Paced, Live, CountsDown, FlagsOK, Served
<1>2. CASE Tim8Update
  BY <1>2, <1>a DEF Tim8Update, Paced, Live, CountsDown, FlagsOK, Served
<1>3. CASE ClearAoe
  BY <1>3, <1>a DEF ClearAoe, Paced, Live, CountsDown, FlagsOK
<1>4. CASE ClearMoe
  BY <1>4, <1>a DEF ClearMoe, Paced, Live, CountsDown, FlagsOK
<1>5. CASE Tim8Missed
  BY <1>5, <1>a DEF Tim8Missed, Paced, Live, CountsDown, FlagsOK
<1>6. CASE Tim8Handler
  BY <1>6, <1>a DEF Tim8Handler, Paced, Live, CountsDown, FlagsOK, Tim8Runs
<1>7. CASE LoopStart
  BY <1>7, <1>a DEF LoopStart, Paced, Live, CountsDown, FlagsOK
<1>8. CASE CurrentMeasure
  BY <1>8, <1>a DEF CurrentMeasure, Paced, Live, CountsDown, FlagsOK, Forced
<1>9. CASE ControlLoopCb
  BY <1>9, <1>a DEF ControlLoopCb, Paced, Live, CountsDown, FlagsOK
<1>10. CASE SecondSample
  BY <1>10, <1>a DEF SecondSample, Paced, Live, CountsDown, FlagsOK
<1>11. CASE PwmUpdate
  BY <1>11, <1>a DEF PwmUpdate, Paced, Live, CountsDown, FlagsOK
<1>12. CASE ApplyTimings
  BY <1>12, <1>a DEF ApplyTimings, Paced, Live, CountsDown, FlagsOK
<1>13. CASE WriteTimings
  BY <1>13, <1>a DEF WriteTimings, Paced, Live, CountsDown, FlagsOK
<1>14. CASE EnableOutputs
  BY <1>14, <1>a DEF EnableOutputs, Paced, Live, CountsDown, FlagsOK
<1>15. CASE BusCurrentFails
  BY <1>15, <1>a DEF BusCurrentFails, Paced, Live, CountsDown, FlagsOK
<1>16. CASE BrakeUpdate
  BY <1>16, <1>a DEF BrakeUpdate, Paced, Live, CountsDown, FlagsOK
<1>17. CASE DeadlineCheck
  BY <1>17, <1>a DEF DeadlineCheck, Paced, Live, CountsDown, FlagsOK
<1>18. CASE StartOperation
  BY <1>18, <1>a DEF StartOperation, Paced, Live, CountsDown, FlagsOK, Arm, ThreadsRun
<1>19. CASE EndOperation
  BY <1>19, <1>a DEF EndOperation, Paced, Live, CountsDown, FlagsOK
<1>20. CASE BrakeAfterDisarm
  BY <1>20, <1>a DEF BrakeAfterDisarm, Paced, Live, CountsDown, FlagsOK
<1>21. CASE ClearErrors
  BY <1>21, <1>a DEF ClearErrors, Paced, Live, CountsDown, FlagsOK
<1>22. CASE ArmBrake
  BY <1>22, <1>a DEF ArmBrake, Paced, Live, CountsDown, FlagsOK
<1>23. CASE Estop
  BY <1>23, <1>a DEF Estop, Paced, Live, CountsDown, FlagsOK
<1>24. CASE ConfigureBrake
  BY <1>24, <1>a DEF ConfigureBrake, Paced, Live, CountsDown, FlagsOK
<1>25. CASE UNCHANGED vars
  BY <1>25, <1>a DEF vars, Paced, Live, CountsDown, FlagsOK
<1> QED
  BY <1>1, <1>2, <1>3, <1>4, <1>5, <1>6, <1>7, <1>8, <1>9, <1>10, <1>11, <1>12, <1>13,
     <1>14, <1>15, <1>16, <1>17, <1>18, <1>19, <1>20, <1>21, <1>22, <1>23, <1>24, <1>25
  DEF Next, Timers, Interrupts, Threads

LEMMA NextLatchable ==
  ASSUME TypeOK, Paced, Latchable, TimingsRenewed, [Next]_vars
  PROVE  Latchable' /\ TimingsRenewed'
<1>a. FlagsOK /\ FlagsOK' /\ next \in {"latchUp", "up", "latchDown", "down"}
  BY NextFlags DEF TypeOK
<1>1. CASE Tim1Update
  BY <1>1, <1>a DEF Tim1Update, Latchable, TimingsRenewed, Served, Older, FlagsOK
<1>2. CASE Tim8Update
  BY <1>2, <1>a DEF Tim8Update, Latchable, TimingsRenewed, Served, FlagsOK
<1>3. CASE ClearAoe
  BY <1>3, <1>a DEF ClearAoe, Latchable, TimingsRenewed
<1>4. CASE ClearMoe
  BY <1>4, <1>a DEF ClearMoe, Latchable, TimingsRenewed
<1>5. CASE Tim8Missed
  BY <1>5, <1>a DEF Tim8Missed, Latchable, TimingsRenewed, Tim8Runs, Paced, Live, FlagsOK
<1>6. CASE Tim8Handler
  BY <1>6, <1>a DEF Tim8Handler, Latchable, TimingsRenewed, Tim8Runs, CountsDown, FlagsOK
<1>7. CASE LoopStart
  BY <1>7, <1>a DEF LoopStart, Latchable, TimingsRenewed
<1>8. CASE CurrentMeasure
  BY <1>8, <1>a DEF CurrentMeasure, Latchable, TimingsRenewed, Forced
<1>9. CASE ControlLoopCb
  BY <1>9, <1>a DEF ControlLoopCb, Latchable, TimingsRenewed
<1>10. CASE SecondSample
  BY <1>10, <1>a DEF SecondSample, Latchable, TimingsRenewed
<1>11. CASE PwmUpdate
  BY <1>11, <1>a DEF PwmUpdate, Latchable, TimingsRenewed
<1>12. CASE ApplyTimings
  BY <1>12, <1>a DEF ApplyTimings, Latchable, TimingsRenewed, LoopRuns
<1>13. CASE WriteTimings
  BY <1>13, <1>a DEF WriteTimings, Latchable, TimingsRenewed
<1>14. CASE EnableOutputs
  BY <1>14, <1>a DEF EnableOutputs, Latchable, TimingsRenewed
<1>15. CASE BusCurrentFails
  BY <1>15, <1>a DEF BusCurrentFails, Latchable, TimingsRenewed
<1>16. CASE BrakeUpdate
  BY <1>16, <1>a DEF BrakeUpdate, Latchable, TimingsRenewed
<1>17. CASE DeadlineCheck
  BY <1>17, <1>a DEF DeadlineCheck, Latchable, TimingsRenewed
<1>18. CASE StartOperation
  BY <1>18, <1>a DEF StartOperation, Latchable, TimingsRenewed, Arm, ThreadsRun
<1>19. CASE EndOperation
  BY <1>19, <1>a DEF EndOperation, Latchable, TimingsRenewed
<1>20. CASE BrakeAfterDisarm
  BY <1>20, <1>a DEF BrakeAfterDisarm, Latchable, TimingsRenewed
<1>21. CASE ClearErrors
  BY <1>21, <1>a DEF ClearErrors, Latchable, TimingsRenewed
<1>22. CASE ArmBrake
  BY <1>22, <1>a DEF ArmBrake, Latchable, TimingsRenewed
<1>23. CASE Estop
  BY <1>23, <1>a DEF Estop, Latchable, TimingsRenewed
<1>24. CASE ConfigureBrake
  BY <1>24, <1>a DEF ConfigureBrake, Latchable, TimingsRenewed
<1>25. CASE UNCHANGED vars
  BY <1>25, <1>a DEF vars, Latchable, TimingsRenewed
<1> QED
  BY <1>1, <1>2, <1>3, <1>4, <1>5, <1>6, <1>7, <1>8, <1>9, <1>10, <1>11, <1>12, <1>13,
     <1>14, <1>15, <1>16, <1>17, <1>18, <1>19, <1>20, <1>21, <1>22, <1>23, <1>24, <1>25
  DEF Next, Timers, Interrupts, Threads

(* Timings older than the period before are never driven, whatever the overrun:   *)
(* TIM8_UP_TIM13_IRQHandler() and apply_pwm_timings().                            *)
THEOREM TimingsAreRenewed == Spec => []TimingsRenewed
<1>1. Init => Paced /\ Latchable /\ TimingsRenewed
  <2>1. Init => CountsDown = FALSE
    BY DEF Init, CountsDown
  <2> QED
    BY <2>1 DEF Init, Paced, Live, Latchable, TimingsRenewed
<1>2. TypeOK /\ Paced /\ Latchable /\ TimingsRenewed /\ [Next]_vars
        => Paced' /\ Latchable' /\ TimingsRenewed'
  BY NextPaced, NextLatchable
<1> QED
  BY <1>1, <1>2, TypeCorrect, PTL DEF Spec

----------------------------------------------------------------------------------
(* The samples. A current sampled before the outputs came on is the first one     *)
(* that is sampled with them on again. It is fetched by an iteration that still   *)
(* forces the current to zero, or as a second sample, which no law sees: the      *)
(* samples are fetched in turn, even by an iteration that is late by half a       *)
(* period and takes the one for the other.                                        *)
AtFetch == {"measure", "loop", "wait"}

(* Only an iteration that is still to fetch the second sample may find it there.  *)
BlindUnused ==
  sample = "blind" /\ moe /\ armed /\ isr \notin AtFetch => Forced

(* The first iteration that ran to its end has enabled the outputs.               *)
Enabled ==
  armed /\ armedState \in {2, 3} /\ isr \in {"idle", "measure", "brake", "deadline"}
    /\ cs \notin {"ccr", "rest", "enable"} => aoe \/ moe

(* When the second one begins they are on, or come on at the next latch, which    *)
(* samples no current; or else it has just fetched what that latch has sampled.   *)
Behind ==
  armed /\ ~moe /\ (armedState = 3 \/ (armedState = 2 /\ isr = "measure")) =>
    /\ aoe
    /\ \/ next = "latchDown"
       \/ next \in {"down", "latchUp"} /\ sample = "none" /\ isr \in AtFetch

(* When that iteration is due, and when it became due within the first one.       *)
LoopDue ==
  armed /\ armedState = 2 /\ isr = "idle" /\ loop /\ ~moe => next # "up"

SeenOnce ==
  armed /\ isr # "idle" /\ loop =>
    \/ seen = 1 /\ (next \in {"latchDown", "down"} \/ (next = "latchUp" /\ tim8))
    \/ seen = 2

(* An armed motor counts its iterations, and the outputs are enabled at the end of *)
(* one, when it applies the timings.                                              *)
Counted ==
  /\ armed => armedState # 0
  /\ cs \in {"ccr", "rest", "enable"} => isr = "brake"
  /\ after = "apply" => isr = "brake" /\ cs \in {"aoe", "moe"}

BlindInv ==
  BlindUnused /\ Enabled /\ Behind /\ LoopDue /\ SeenOnce /\ Counted /\ NoBlindSample

LEMMA NextBlind ==
  ASSUME TypeOK, Wired, Paced, BlindInv, [Next]_vars
  PROVE  BlindInv'
<1>a. /\ FlagsOK /\ FlagsOK' /\ next \in {"latchUp", "up", "latchDown", "down"}
      /\ armedState \in 0..3 /\ seen \in 0..2
      /\ isr \in {"idle", "measure", "loop", "wait", "pwm", "apply", "brake", "deadline"}
      /\ cs \in {"open", "aoe", "moe", "ccr", "rest", "enable"}
  BY NextFlags DEF TypeOK, CountersOK
<1> USE <1>a DEF BlindInv, BlindUnused, Enabled, Behind, LoopDue, SeenOnce, Counted,
         NoBlindSample, AtFetch, Forced, Wired, Paced, Live, FlagsOK, LoopRuns
<1>1. CASE Tim1Update
  <2>1. CASE next = "latchUp"
    BY <1>1, <2>1 DEF Tim1Update, Served, Older, CountsDown
  <2>2. CASE next = "latchDown"
    BY <1>1, <2>2 DEF Tim1Update, Served, Older, CountsDown
  <2> QED
    BY <1>1, <2>1, <2>2 DEF Tim1Update
<1>2. CASE Tim8Update
  BY <1>2 DEF Tim8Update, Served
<1>3. CASE ClearAoe
  BY <1>3 DEF ClearAoe
<1>4. CASE ClearMoe
  BY <1>4 DEF ClearMoe
<1>5. CASE Tim8Missed
  BY <1>5 DEF Tim8Missed
<1>6. CASE Tim8Handler
  BY <1>6 DEF Tim8Handler, Tim8Runs, CountsDown, Min2
<1>7. CASE LoopStart
  BY <1>7 DEF LoopStart
<1>8. CASE CurrentMeasure
  BY <1>8 DEF CurrentMeasure
<1>9. CASE ControlLoopCb
  BY <1>9 DEF ControlLoopCb
<1>10. CASE SecondSample
  BY <1>10 DEF SecondSample
<1>11. CASE PwmUpdate
  BY <1>11 DEF PwmUpdate
<1>12. CASE ApplyTimings
  BY <1>12 DEF ApplyTimings
<1>13. CASE WriteTimings
  BY <1>13 DEF WriteTimings
<1>14. CASE EnableOutputs
  BY <1>14 DEF EnableOutputs
<1>15. CASE BusCurrentFails
  BY <1>15 DEF BusCurrentFails
<1>16. CASE BrakeUpdate
  BY <1>16 DEF BrakeUpdate
<1>17. CASE DeadlineCheck
  BY <1>17 DEF DeadlineCheck
<1>18. CASE StartOperation
  BY <1>18 DEF StartOperation, Arm, ThreadsRun
<1>19. CASE EndOperation
  BY <1>19 DEF EndOperation, ThreadsRun
<1>20. CASE BrakeAfterDisarm
  BY <1>20 DEF BrakeAfterDisarm, ThreadsRun
<1>21. CASE ClearErrors
  BY <1>21 DEF ClearErrors
<1>22. CASE ArmBrake
  BY <1>22 DEF ArmBrake
<1>23. CASE Estop
  BY <1>23 DEF Estop
<1>24. CASE ConfigureBrake
  BY <1>24 DEF ConfigureBrake
<1>25. CASE UNCHANGED vars
  BY <1>25 DEF vars
<1> QED
  BY <1>1, <1>2, <1>3, <1>4, <1>5, <1>6, <1>7, <1>8, <1>9, <1>10, <1>11, <1>12, <1>13,
     <1>14, <1>15, <1>16, <1>17, <1>18, <1>19, <1>20, <1>21, <1>22, <1>23, <1>24, <1>25
  DEF Next, Timers, Interrupts, Threads

(* No law ever computes with a current sampled before the outputs came on:        *)
(* current_meas_cb() forces two iterations, and however late they are, that is    *)
(* enough.                                                                        *)
THEOREM SamplesAreSeen == Spec => []NoBlindSample
<1>1. Init => Paced /\ BlindInv
  <2>1. Init => CountsDown = FALSE
    BY DEF Init, CountsDown
  <2> QED
    BY <2>1 DEF Init, Paced, Live, BlindInv, BlindUnused, Enabled, Behind, LoopDue, SeenOnce,
       Counted, NoBlindSample
<1>2. TypeOK /\ Wired /\ Paced /\ BlindInv /\ [Next]_vars => Paced' /\ BlindInv'
  BY NextPaced, NextBlind
<1>3. BlindInv => NoBlindSample
  BY DEF BlindInv
<1> QED
  BY <1>1, <1>2, <1>3, TypeCorrect, WiredAlways, PTL DEF Spec

====================================================================================
