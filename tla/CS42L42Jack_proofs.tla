------------------------- MODULE CS42L42Jack_proofs -------------------------
(***************************************************************************)
(* What the jack of a CS42L42 keeps for any number of waiting responses:   *)
(* its types, and the codec's reset bit, which three threads write.        *)
(***************************************************************************)
EXTENDS CS42L42Jack, TLAPS

-----------------------------------------------------------------------------
(* Types.                                                                  *)

LEMMA RaisedTyped ==
    ASSUME responses \in 0 .. MaxResponses, NEW n \in {0, 1}
    PROVE  Raised(n) \in 0 .. MaxResponses
BY ResponsesAssumption DEF Raised, AtMost

LEMMA BecomesTyped ==
    ASSUME responses \in 0 .. MaxResponses, NEW x \in Chip, Becomes(x)
    PROVE  chip' \in Chip /\ responses' \in 0 .. MaxResponses
<1>1. responses' = Raised(0) \/ responses' = Raised(1)
    BY DEF Becomes
<1> QED
    BY <1>1, RaisedTyped DEF Becomes

LEMMA WrittenTyped ==
    ASSUME chip \in Chip, responses \in 0 .. MaxResponses, NEW x \in Chip, Written(x)
    PROVE  chip' \in Chip /\ responses' \in 0 .. MaxResponses
<1>1. CASE Reachable
    BY <1>1, BecomesTyped DEF Written
<1>2. CASE ~Reachable
  <2>1. chip \in Chip /\ Becomes(chip)
    BY <1>2 DEF Written
  <2> QED
    BY <2>1, BecomesTyped
<1> QED
    BY <1>1, <1>2

(* The changes to the chip are changes of its fields.                      *)
LEMMA ChipTyped ==
    ASSUME NEW x \in Chip
    PROVE  /\ DoneCleared(x) \in Chip
           /\ DetectCleared(x) \in Chip
           /\ DetectStarted(x) \in Chip
           /\ OutOfReset \in Chip
           /\ [x EXCEPT !.ts = TRUE] \in Chip
           /\ TipCleared(x) \in Chip
           /\ [x EXCEPT !.ts_open = TRUE] \in Chip
           /\ [TipCleared(x) EXCEPT !.ts_open = TRUE] \in Chip
           /\ [x EXCEPT !.done_open = FALSE, !.detecting = FALSE] \in Chip
           /\ DoneCleared(TipCleared(x)) \in Chip
           /\ \A t \in Types : [x EXCEPT !.detecting = FALSE, !.done = TRUE, !.type = t] \in Chip
BY DEF Chip, Types, OutOfReset, TipCleared, DoneCleared, DetectCleared, DetectStarted

LEMMA GoesTyped ==
    ASSUME seen \in Readings, NEW step \in Steps, Goes(step)
    PROVE  worker' \in Steps /\ seen' \in Readings
BY DEF Goes, Readings, Nothing, Types, Tips

LEMMA KindsTyped == \A k \in Kinds : TypeOf(k) \in Types /\ TipOf(k) \in Tips
BY DEF Kinds, Types, Tips, TypeOf, TipOf

LEMMA TypeInit == Init => TypeOK
<1> SUFFICES ASSUME Init
             PROVE  TypeOK
    OBVIOUS
<1>1. /\ board \in {"bullseye", "dolphin"} /\ no_type_dect \in BOOLEAN
      /\ jack \in Kinds /\ tip \in Tips
    BY DEF Init, Tips
<1>2. /\ chip \in Chip /\ seen \in Readings
      /\ put \in [value : BOOLEAN, under_way : BOOLEAN]
    BY DEF Init, OutOfReset, Chip, Nothing, Readings, Types, Tips, NoPut
<1>3. responses \in 0 .. MaxResponses
    BY ResponsesAssumption DEF Init
<1>4. worker \in Steps /\ pm \in Phases
    BY DEF Init, Steps, Phases
<1> QED
    BY <1>1, <1>2, <1>3, <1>4 DEF Init, TypeOK

LEMMA TypeStep == TypeOK /\ [Next]_vars => TypeOK'
<1> SUFFICES ASSUME TypeOK, [Next]_vars
             PROVE  TypeOK'
    OBVIOUS
<1> USE DEF TypeOK, fixed, pins, driver, power
<1>1. CASE Environment
  <2>1. CASE Move
    BY <2>1 DEF Move, Kinds, Tips
  <2>2. CASE OtherCodec
    BY <2>2, ResponsesAssumption DEF OtherCodec
  <2>3. CASE PutStore
    BY <2>3 DEF PutStore
  <2>4. CASE PutWrite
    BY <2>4, ChipTyped DEF PutWrite, NoPut
  <2> QED
    BY <1>1, <2>1, <2>2, <2>3, <2>4 DEF Environment
<1>2. CASE Hardware
  <2>1. CASE TipSensed
    <3>1. chip' \in Chip /\ responses' \in 0 .. MaxResponses
      BY <2>1, ChipTyped, BecomesTyped DEF TipSensed
    <3> QED
      BY <2>1, <3>1, KindsTyped DEF TipSensed
  <2>2. CASE Detected
    <3>1. chip' \in Chip /\ responses' \in 0 .. MaxResponses
      BY <2>2, ChipTyped, BecomesTyped, KindsTyped DEF Detected
    <3> QED
      BY <2>2, <3>1 DEF Detected
  <2> QED
    BY <1>2, <2>1, <2>2 DEF Hardware
<1>3. CASE Worker
  <2>1. CASE Drop
    BY <2>1, ResponsesAssumption DEF Drop
  <2>2. CASE Respond
    <3>1. responses' \in 0 .. MaxResponses
      <4>1. responses > 0 /\ responses' = responses - 1
        BY <2>2, Zenon DEF Respond
      <4> QED
        BY <4>1, ResponsesAssumption
    <3>2. rushed' \in BOOLEAN
      BY <2>2, Zenon DEF Respond
    <3>3. worker' \in Steps /\ seen' \in Readings
      BY <2>2, GoesTyped DEF Respond, Steps
    <3> QED
      BY <2>2, <3>1, <3>2, <3>3 DEF Respond
  <2>3. CASE ReadStatus
    <3>1. chip' \in Chip /\ responses' \in 0 .. MaxResponses
      BY <2>3, ChipTyped, WrittenTyped DEF ReadStatus
    <3>2. worker' \in Steps /\ seen' \in Readings
      BY <2>3 DEF ReadStatus, Nothing, Chip, Types, Tips, Steps, Readings
    <3> QED
      BY <2>3, <3>1, <3>2 DEF ReadStatus
  <2>4. CASE ReadTip
    <3>1. chip' \in Chip /\ responses' \in 0 .. MaxResponses
      BY <2>4, ChipTyped, WrittenTyped DEF ReadTip
    <3>2. worker' \in Steps /\ seen' \in Readings
      BY <2>4, GoesTyped DEF ReadTip, Steps, Readings
    <3> QED
      BY <2>4, <3>1, <3>2 DEF ReadTip
  <2>5. CASE MaskDetection
    <3>1. chip' \in Chip /\ responses' \in 0 .. MaxResponses
      BY <2>5, ChipTyped, WrittenTyped DEF MaskDetection
    <3>2. worker' \in Steps /\ seen' \in Readings
      BY <2>5, GoesTyped DEF MaskDetection, Steps
    <3> QED
      BY <2>5, <3>1, <3>2 DEF MaskDetection
  <2>6. CASE CompareFirst
    <3>1. worker' \in Steps /\ seen' \in Readings
      BY <2>6, KindsTyped DEF CompareFirst, Steps, Readings, Types
    <3> QED
      BY <2>6, <3>1 DEF CompareFirst
  <2>7. CASE CompareSecond
    BY <2>7 DEF CompareSecond, Steps, Readings
  <2>8. CASE Assign
    BY <2>8, GoesTyped DEF Assign, Steps
  <2>9. CASE Apply
    <3>1. worker' \in Steps /\ seen' \in Readings
      BY <2>9, GoesTyped DEF Apply, Steps
    <3>2. hp_jack_in' \in BOOLEAN /\ mic_jack_in' \in BOOLEAN /\ rushed' \in BOOLEAN
      BY <2>9, Zenon DEF Apply
    <3> QED
      BY <2>9, <3>1, <3>2 DEF Apply
  <2>10. CASE Clear
    <3>1. chip' \in Chip /\ responses' \in 0 .. MaxResponses
      BY <2>10, ChipTyped, WrittenTyped DEF Clear
    <3>2. worker' \in Steps /\ seen' \in Readings
      BY <2>10, GoesTyped DEF Clear, Steps
    <3> QED
      BY <2>10, <3>1, <3>2 DEF Clear
  <2>11. CASE Start
    <3>1. chip' \in Chip /\ responses' \in 0 .. MaxResponses
      BY <2>11, ChipTyped, WrittenTyped DEF Start
    <3>2. worker' \in Steps /\ seen' \in Readings
      BY <2>11, GoesTyped DEF Start, Steps
    <3> QED
      BY <2>11, <3>1, <3>2 DEF Start
  <2>12. CASE UnmaskTip
    <3>1. chip' \in Chip /\ responses' \in 0 .. MaxResponses
      BY <2>12, ChipTyped, WrittenTyped DEF UnmaskTip
    <3>2. worker' \in Steps /\ seen' \in Readings
      BY <2>12, GoesTyped DEF UnmaskTip, Steps
    <3> QED
      BY <2>12, <3>1, <3>2 DEF UnmaskTip
  <2>13. CASE Report
    BY <2>13, GoesTyped DEF Report, Steps
  <2> QED
    BY <1>3, <2>1, <2>2, <2>3, <2>4, <2>5, <2>6, <2>7, <2>8, <2>9, <2>10, <2>11, <2>12, <2>13
       DEF Worker
<1>4. CASE Suspend
    BY <1>4 DEF Suspend, Phases
<1>5. CASE PowerDown
    BY <1>5, ChipTyped DEF PowerDown, MarkSuspended, AssertReset, Phases
<1>6. CASE Resume
  <2>1. CASE ReleaseReset
    BY <2>1 DEF ReleaseReset, Tips, Phases
  <2>2. CASE Initialise
    <3>1. chip' \in Chip /\ responses' \in 0 .. MaxResponses
      BY <2>2, ChipTyped, BecomesTyped DEF Initialise
    <3>2. pm' \in Phases /\ suspended' \in BOOLEAN
      BY <2>2 DEF Initialise, Phases
    <3>3. UNCHANGED <<fixed, jack, tip, ur, pins, hp_jack_in, mic_jack_in, reported, worker,
                      seen, build_ctrl_done, rushed>>
      BY <2>2 DEF Initialise
    <3> QED
      BY <3>1, <3>2, <3>3
  <2>3. CASE EnableJackDetect
    <3>1. chip' \in Chip /\ responses' \in 0 .. MaxResponses
      BY <2>3, ChipTyped, WrittenTyped DEF EnableJackDetect
    <3> QED
      BY <2>3, <3>1 DEF EnableJackDetect, Phases
  <2>4. CASE EnableUr
    BY <2>4 DEF EnableUr, Phases
  <2>5. CASE ClearResumed
    <3>1. chip' \in Chip /\ responses' \in 0 .. MaxResponses
      BY <2>5, ChipTyped, WrittenTyped DEF ClearResumed
    <3> QED
      BY <2>5, <3>1 DEF ClearResumed, Phases
  <2>6. CASE StartResumed
    <3>1. chip' \in Chip /\ responses' \in 0 .. MaxResponses
      BY <2>6, ChipTyped, WrittenTyped DEF StartResumed
    <3> QED
      BY <2>6, <3>1 DEF StartResumed, Phases
  <2>7. CASE ReportResumed
    BY <2>7 DEF ReportResumed, Phases
  <2> QED
    BY <1>6, <2>1, <2>2, <2>3, <2>4, <2>5, <2>6, <2>7 DEF Resume
<1>7. CASE Build
    BY <1>7 DEF Build, Phases
<1>8. CASE UNCHANGED vars
    BY <1>8 DEF vars
<1> QED
    BY <1>1, <1>2, <1>3, <1>4, <1>5, <1>6, <1>7, <1>8 DEF Next

(* Every variable keeps its type, and no response is queued past the end.  *)
THEOREM TypeCorrect == Spec => []TypeOK
BY TypeInit, TypeStep, PTL DEF Spec

-----------------------------------------------------------------------------
(* The reset bit.  Suspend, resume and the speaker switch write the pins   *)
(* from copies of their own.                                               *)

(* A write of the switch that is under way was stored while the codec was  *)
(* awake, and so has the reset bit.                                        *)
ResetInv ==
    /\ pm # "asleep" => gpio = TRUE /\ gpio_data = TRUE
    /\ put.under_way = TRUE => put.value = TRUE

LEMMA ResetStep ==
    ASSUME ~SwitchAsleep, ResetInv, [Next]_vars
    PROVE  ResetInv'
<1> USE DEF ResetInv, fixed, pins, driver, power
<1>1. CASE Environment
    BY <1>1 DEF Environment, Move, OtherCodec, PutStore, PutWrite, NoPut
<1>2. CASE Hardware
    BY <1>2 DEF Hardware, TipSensed, Detected
<1>3. CASE Worker
  <2>1. UNCHANGED <<pm, gpio, gpio_data, put>>
    BY <1>3, Zenon DEF Worker, Drop, Respond, ReadStatus, ReadTip, MaskDetection, CompareFirst,
       CompareSecond, Assign, Apply, Clear, Start, UnmaskTip, Report
  <2> QED
    BY <2>1
<1>4. CASE Suspend
    BY <1>4 DEF Suspend
<1>5. CASE PowerDown
    BY <1>5 DEF PowerDown, MarkSuspended, AssertReset
<1>6. CASE Resume
    BY <1>6 DEF Resume, ReleaseReset, Initialise, EnableJackDetect, EnableUr, ClearResumed,
       StartResumed, ReportResumed
<1>7. CASE Build
    BY <1>7 DEF Build
<1>8. CASE UNCHANGED vars
    BY <1>8 DEF vars
<1> QED
    BY <1>1, <1>2, <1>3, <1>4, <1>5, <1>6, <1>7, <1>8 DEF Next

(* While the speaker switch is thrown only when the codec is awake, an     *)
(* awake codec is out of reset: no write of the pins loses its reset bit.  *)
THEOREM CodecOutOfReset ==
    ASSUME ~SwitchAsleep
    PROVE  Spec => []AwakeOutOfReset
<1>1. Init => ResetInv
    BY DEF Init, ResetInv, NoPut
<1>2. ResetInv /\ [Next]_vars => ResetInv'
    BY ResetStep
<1>3. ResetInv => AwakeOutOfReset
    BY DEF ResetInv, AwakeOutOfReset
<1> QED
    BY <1>1, <1>2, <1>3, PTL DEF Spec

-----------------------------------------------------------------------------
(* The masks.                                                              *)

(* The phases in which the codec is awake and its masks are set.           *)
Up == {"responses", "clear", "report", "awake", "power down"}

(* What the worker has read tells where it goes, and the codec is reached  *)
(* in all the phases but those around its reset.                           *)
HandlerInv ==
    /\ suspended = TRUE => pm \in {"reset", "asleep", "initialise"}
    /\ worker = "mask" => seen.done = TRUE
    /\ worker = "apply" /\ seen.done = TRUE => no_type_dect = TRUE
    /\ seen.failed = TRUE => seen.done = FALSE

(* The worker has taken the interrupts away and is going to let one        *)
(* through again.                                                          *)
Restoring ==
    \/ worker \in {"mask", "manual", "compare", "assign", "unmask", "start"}
    \/ worker \in {"tip", "apply"} /\ seen.done = TRUE

(* Between its first initialisation and its next reset the codec watches   *)
(* the jack, or the worker is about to make it do so, or the power         *)
(* management thread is, which is in none of these phases then.            *)
WatchInv == pm \in Up => Watches(chip) \/ Restoring

JackInv == TypeOK /\ ResetInv /\ HandlerInv /\ WatchInv

(* What each access leaves watched.                                        *)
LEMMA WatchedAfter ==
    ASSUME NEW x \in Chip
    PROVE  /\ Watches([x EXCEPT !.ts = TRUE]) <=> Watches(x)
           /\ Watches(TipCleared(x)) <=> Watches(x)
           /\ x.done = FALSE => (Watches(DoneCleared(x)) <=> Watches(x))
           /\ Watches(DetectStarted(x))
           /\ Watches([x EXCEPT !.ts_open = TRUE])
           /\ Watches([TipCleared(x) EXCEPT !.ts_open = TRUE])
           /\ \A t \in Types : x.detecting = TRUE =>
                  (Watches(x) => Watches([x EXCEPT !.detecting = FALSE, !.done = TRUE, !.type = t]))
BY DEF Chip, Watches, TipCleared, DoneCleared, DetectStarted

(* In the phases of WatchInv, and when tip sense is enabled, an access     *)
(* reaches the codec.                                                      *)
LEMMA AccessReaches ==
    ASSUME ResetInv, HandlerInv, TypeOK, pm \in Up \cup {"enable", "start"}
    PROVE  Reachable
<1>1. suspended = FALSE /\ gpio = TRUE
    BY DEF ResetInv, HandlerInv, TypeOK, Up
<1> QED
    BY <1>1 DEF Reachable

LEMMA WrittenChip ==
    ASSUME NEW x, Written(x)
    PROVE  /\ Reachable => chip' = x
           /\ ~Reachable => chip' = chip
BY DEF Written, Becomes

(* The steps of the worker other than those that read and decide keep the  *)
(* phase; what they do to the masks is said case by case.                  *)
LEMMA WorkerStep ==
    ASSUME JackInv, Worker
    PROVE  (HandlerInv /\ WatchInv)'
<1> USE DEF JackInv, WatchInv, HandlerInv, Restoring, driver, power, fixed
<1>1. pm' = pm /\ suspended' = suspended /\ no_type_dect' = no_type_dect
    BY Zenon DEF Worker, Drop, Respond, ReadStatus, ReadTip, MaskDetection, CompareFirst,
       CompareSecond, Assign, Apply, Clear, Start, UnmaskTip, Report
<1>2. chip \in Chip /\ seen \in Readings /\ no_type_dect \in BOOLEAN
    BY DEF TypeOK
<1>3. pm \in Up => Reachable
    BY AccessReaches
<1>4. CASE Drop
    BY <1>4, <1>1 DEF Drop
<1>5. CASE Respond
    BY <1>5, <1>1 DEF Respond, Goes
<1>6. CASE ReadStatus
  <2>1. pm \in Up => chip' = DoneCleared(chip) /\ seen'.done = chip.done
    BY <1>6, <1>3, WrittenChip DEF ReadStatus, Nothing
  <2>2. chip.done = TRUE \/ chip.done = FALSE
    BY <1>2 DEF Chip
  <2>3. chip.done = FALSE => (Watches(DoneCleared(chip)) <=> Watches(chip))
    BY <1>2, WatchedAfter
  <2>4. worker = "status" /\ worker' = "tip"
    BY <1>6 DEF ReadStatus
  <2>5. seen'.failed = TRUE => seen'.done = FALSE
    BY <1>6, <1>2 DEF ReadStatus, Nothing, Chip
  <2>6. CASE pm \in Up
    <3>1. Watches(chip') <=> Watches(DoneCleared(chip))
      BY <2>1, <2>6
    <3>2. seen'.done = TRUE \/ Watches(chip')
      BY <2>1, <2>2, <2>3, <2>4, <2>6, <3>1
    <3> QED
      BY <3>2, <2>4, <2>5, <2>6, <1>1
  <2> QED
    BY <2>4, <2>5, <2>6, <1>1
<1>7. CASE ReadTip
  <2>1. pm \in Up => chip' = TipCleared(chip)
    BY <1>7, <1>3, WrittenChip DEF ReadTip
  <2>2. Watches(TipCleared(chip)) <=> Watches(chip)
    BY <1>2, WatchedAfter
  <2>3. worker = "tip" /\ worker' \in {"report", "mask", "apply"}
    BY <1>7 DEF ReadTip, Goes
  <2>4. worker' = "apply" => seen.done # TRUE
    BY <1>7 DEF ReadTip, Goes
  <2>5. worker' = "report" => seen.failed \/ ~Reachable
    BY <1>7 DEF ReadTip, Goes
  <2>6. worker' = "mask" => seen.done = TRUE
    BY <1>7, <1>2 DEF ReadTip, Goes, Readings
  <2>7. worker' \in {"mask", "apply"} => seen'.done = seen.done
    BY <1>7, <1>2 DEF ReadTip, Goes, Nothing, Readings
  <2>8. seen'.failed = TRUE => seen'.done = FALSE
    BY <1>7, <1>2 DEF ReadTip, Goes, Nothing, Readings
  <2>9. HandlerInv'
    BY <2>3, <2>4, <2>6, <2>7, <2>8, <1>1
  <2>10. CASE pm \in Up
    <3>1. Watches(chip') <=> Watches(chip)
      BY <2>1, <2>2, <2>10
    <3> QED
      BY <2>3, <2>4, <2>5, <2>6, <2>9, <2>10, <3>1, <1>1, <1>3
  <2> QED
    BY <2>9, <2>10, <1>1
<1>8. CASE MaskDetection
    BY <1>8, <1>1, <1>2 DEF MaskDetection, Goes
<1>9. CASE CompareFirst
    BY <1>9, <1>1, <1>2 DEF CompareFirst, Readings
<1>10. CASE CompareSecond
    BY <1>10, <1>1, <1>2 DEF CompareSecond, Readings
<1>11. CASE Assign
    BY <1>11, <1>1 DEF Assign, Goes
<1>12. CASE Apply
    BY <1>12, <1>1, <1>2 DEF Apply, Goes, Nothing, Readings, Tips
<1>13. CASE Clear
    BY <1>13, <1>1 DEF Clear, Goes, Nothing
<1>14. CASE Start
  <2>1. pm \in Up => chip' = DetectStarted(chip)
    BY <1>14, <1>3, WrittenChip DEF Start
  <2>2. Watches(DetectStarted(chip))
    BY <1>2, WatchedAfter
  <2>3. worker' = "idle"
    BY <1>14 DEF Start, Goes
  <2>4. seen'.done = FALSE /\ seen'.failed = FALSE
    BY <1>14 DEF Start, Goes, Nothing
  <2>5. pm \in Up => Watches(chip')
    BY <2>1, <2>2
  <2> QED
    BY <2>3, <2>4, <2>5, <1>1
<1>15. CASE UnmaskTip
  <2>1. pm \in Up => chip' = [chip EXCEPT !.ts_open = TRUE]
    BY <1>15, <1>3, WrittenChip DEF UnmaskTip
  <2>2. Watches([chip EXCEPT !.ts_open = TRUE])
    BY <1>2, WatchedAfter
  <2>3. worker' \in {"idle", "report"}
    BY <1>15 DEF UnmaskTip, Goes
  <2>4. seen'.done = FALSE /\ seen'.failed = FALSE
    BY <1>15 DEF UnmaskTip, Goes, Nothing
  <2>5. pm \in Up => Watches(chip')
    BY <2>1, <2>2
  <2> QED
    BY <2>3, <2>4, <2>5, <1>1
<1>16. CASE Report
    BY <1>16, <1>1 DEF Report, Goes, Nothing
<1> QED
    BY <1>4, <1>5, <1>6, <1>7, <1>8, <1>9, <1>10, <1>11, <1>12, <1>13, <1>14, <1>15, <1>16
       DEF Worker

(* The power management thread, which leaves and enters those phases.      *)
LEMMA PowerStep ==
    ASSUME JackInv, Suspend \/ PowerDown \/ Resume \/ Build
    PROVE  (HandlerInv /\ WatchInv)'
<1> USE DEF JackInv, WatchInv, HandlerInv, Restoring, driver, Up
<1>1. worker' = worker /\ seen' = seen /\ no_type_dect' = no_type_dect
    BY Zenon DEF Suspend, PowerDown, MarkSuspended, AssertReset, Resume, ReleaseReset, Initialise,
       EnableJackDetect, EnableUr, ClearResumed, StartResumed, ReportResumed, Build, fixed
<1>2. chip \in Chip
    BY DEF TypeOK
<1>3. CASE Suspend
    BY <1>3, <1>1 DEF Suspend
<1>4. CASE PowerDown
    BY <1>4, <1>1 DEF PowerDown, MarkSuspended, AssertReset
<1>5. CASE ReleaseReset
    BY <1>5, <1>1 DEF ReleaseReset
<1>6. CASE Initialise
    BY <1>6, <1>1 DEF Initialise
<1>7. CASE EnableJackDetect
  <2>1. Reachable
    BY <1>7, AccessReaches DEF EnableJackDetect
  <2>2. Watches(chip')
    <3>1. chip' = [TipCleared(chip) EXCEPT !.ts_open = TRUE]
      BY <1>7, <2>1, WrittenChip DEF EnableJackDetect
    <3>2. Watches([TipCleared(chip) EXCEPT !.ts_open = TRUE])
      BY <1>2, WatchedAfter
    <3> QED
      BY <3>1, <3>2
  <2> QED
    BY <1>7, <1>1, <2>2 DEF EnableJackDetect
<1>8. CASE EnableUr
    BY <1>8, <1>1 DEF EnableUr
<1>9. CASE ClearResumed
    BY <1>9, <1>1 DEF ClearResumed
<1>10. CASE StartResumed
  <2>1. Reachable
    BY <1>10, AccessReaches DEF StartResumed
  <2>2. Watches(chip')
    <3>1. chip' = DetectStarted(chip)
      BY <1>10, <2>1, WrittenChip DEF StartResumed
    <3>2. Watches(DetectStarted(chip))
      BY <1>2, WatchedAfter
    <3> QED
      BY <3>1, <3>2
  <2> QED
    BY <1>10, <1>1, <2>2 DEF StartResumed
<1>11. CASE ReportResumed
    BY <1>11, <1>1 DEF ReportResumed
<1>12. CASE Build
    BY <1>12, <1>1 DEF Build
<1> QED
    BY <1>3, <1>4, <1>5, <1>6, <1>7, <1>8, <1>9, <1>10, <1>11, <1>12 DEF Resume

LEMMA OtherStep ==
    ASSUME JackInv, Environment \/ Hardware \/ UNCHANGED vars
    PROVE  (HandlerInv /\ WatchInv)'
<1> USE DEF JackInv, WatchInv, HandlerInv, Restoring, driver, power, fixed
<1>1. UNCHANGED <<worker, seen, no_type_dect, pm, suspended>>
    BY Zenon DEF Environment, Move, OtherCodec, PutStore, PutWrite, Hardware, TipSensed, Detected,
       vars
<1>2. chip \in Chip /\ jack \in Kinds
    BY DEF TypeOK
<1>3. CASE Move \/ OtherCodec \/ PutStore \/ UNCHANGED vars
    BY <1>3, <1>1 DEF Move, OtherCodec, PutStore, vars
<1>4. CASE PutWrite
    BY <1>4, <1>1 DEF PutWrite, ResetInv, Up
<1>5. CASE TipSensed
    BY <1>5, <1>1, <1>2, WatchedAfter DEF TipSensed, Becomes
<1>6. CASE Detected
    BY <1>6, <1>1, <1>2, WatchedAfter, KindsTyped DEF Detected, Becomes
<1> QED
    BY <1>3, <1>4, <1>5, <1>6 DEF Environment, Hardware

(* While the speaker switch is thrown only when the codec is awake, the    *)
(* codec always watches its jack when no handler runs: suspend, resume and *)
(* the detection they start meet the handler at any point of it, for any   *)
(* number of waiting responses, and no interrupt stays masked.             *)
THEOREM AlwaysWatched ==
    ASSUME ~SwitchAsleep
    PROVE  Spec => []JackWatched
<1>1. Init => HandlerInv /\ WatchInv /\ ResetInv
    BY DEF Init, HandlerInv, WatchInv, ResetInv, Nothing, Up, NoPut
<1>2. JackInv /\ [Next]_vars => JackInv'
    BY TypeStep, ResetStep, WorkerStep, PowerStep, OtherStep DEF JackInv, Next
<1>3. JackInv => JackWatched
    BY DEF JackInv, WatchInv, JackWatched, Up, Restoring
<1> QED
    BY <1>1, <1>2, <1>3, TypeInit, PTL DEF Spec, JackInv

-----------------------------------------------------------------------------
(* At rest.  What the driver knows of the jack, and that it can hear of    *)
(* it, takes an invariant over all that the chip, the worker and the power *)
(* management thread do to each other.  First what holds even when they    *)
(* are rushed.                                                             *)

(* The phases of a resume, up to the detection it starts.                  *)
Rising == {"asleep", "initialise", "enable", "responses", "clear", "start"}

(* The worker between masking a detection and letting tip sense through.   *)
Deciding == {"mask", "manual", "compare", "assign", "unmask"}

PhaseInv ==
    /\ ur = TRUE <=> pm \in {"clear", "start", "report", "awake"}
    /\ suspended = TRUE <=> pm \in {"reset", "asleep", "initialise"}
    /\ pm = "asleep" => gpio = FALSE /\ chip.ts = FALSE
    /\ pm \in {"asleep", "initialise"} =>
          /\ chip.ts_open = FALSE /\ chip.done = FALSE /\ chip.done_open = FALSE
          /\ chip.detecting = FALSE

(* What is remembered of a reading, and what a codec that detects no types *)
(* never does.                                                             *)
ReadingInv ==
    /\ worker \in {"idle", "status", "clear", "start", "report"} => seen = Nothing
    /\ no_type_dect = TRUE => worker \notin {"clear", "start", "manual", "compare", "assign"}

(* The end of a detection is let through only while one runs, has ended or *)
(* is about to begin.                                                      *)
OpenInv ==
    chip.done_open = TRUE /\ pm # "reset" =>
        \/ chip.detecting = TRUE \/ chip.done = TRUE
        \/ worker \in {"tip", "mask"} /\ seen.done = TRUE
        \/ worker = "start" \/ pm = "start"

(* Tip sense takes nothing for a plug.                                     *)
PlugInv == gpio = TRUE /\ tip = "plug" => jack # "none"

(* Nothing moves before the controls are built.                            *)
BuildInv ==
    build_ctrl_done = FALSE =>
        /\ rushed = FALSE /\ pm \notin {"clear", "start", "power down", "reset"}
        /\ ur = FALSE =>
              worker = "idle" /\ responses = 0 /\ hp_jack_in = FALSE /\ mic_jack_in = FALSE

(* A flag that was changed is going to be reported.                        *)
ToldInv ==
    \/ reported = [hp |-> hp_jack_in, mic |-> mic_jack_in]
    \/ pm # "awake" \/ worker = "report"
    \/ worker = "unmask" /\ (no_type_dect = FALSE \/ seen.tip # "trans")

BasisInv == JackInv /\ PhaseInv /\ ReadingInv /\ OpenInv /\ PlugInv /\ BuildInv /\ ToldInv

-----------------------------------------------------------------------------
(* What holds when they are not.                                           *)

InTip == tip = TipOf(jack)

FlagsRight ==
    /\ hp_jack_in = TRUE <=> jack # "none"
    /\ mic_jack_in = TRUE <=> jack = "headset" /\ no_type_dect = FALSE

(* A detection has left its mark.                                          *)
Begun ==
    \/ chip.detecting = TRUE \/ chip.done = TRUE \/ chip.done_open = TRUE
    \/ seen.done = TRUE \/ worker \in Deciding

Early == pm \in Rising \/ build_ctrl_done = FALSE

(* No handler runs while the codec goes down, and none gets far before it  *)
(* is initialised.                                                         *)
MeetInv ==
    /\ pm \in {"power down", "reset"} => worker = "idle"
    /\ pm \in {"asleep", "initialise"} =>
          worker \in {"idle", "status", "tip", "report"} /\ seen.done = FALSE

(* A plug that was read is still there, and what tip sense raised is clear.*)
ReadPlugInv ==
    /\ worker \in {"clear", "start"} => InTip
    /\ worker = "start" => chip.ts = FALSE
    /\ worker = "apply" \/ (worker = "mask" /\ no_type_dect = TRUE) =>
          (seen.tip = "plug" => tip = "plug" /\ chip.ts = FALSE)

(* A detection that a resume meets was begun by the worker, on a plug.     *)
EarlyInv ==
    /\ Early /\ Begun => InTip
    /\ Early /\ no_type_dect = TRUE =>
          chip.detecting = FALSE /\ chip.done = FALSE /\ seen.done = FALSE
    /\ pm = "start" /\ (Begun \/ chip.ts_open = TRUE) => InTip /\ chip.ts = FALSE

(* Both interrupts are let through, or are going to be, only while the jack*)
(* keeps still: one cannot hide the other.                                 *)
BothInv ==
    chip.done_open = TRUE
    /\ (chip.ts_open = TRUE \/ worker \in Deciding \ {"mask"}
        \/ (worker = "apply" /\ seen.done = TRUE)) =>
        InTip /\ chip.ts = FALSE

(* An interrupt that is raised is going to be seen.                        *)
HeardInv ==
    ur = TRUE /\ pm # "clear" /\ Interrupt(chip) =>
        \/ responses > 0
        \/ worker = "status"
        \/ worker = "tip" /\ ~(chip.done = TRUE /\ chip.done_open = TRUE)
        \/ build_ctrl_done = FALSE /\ hp_jack_in = FALSE /\ worker = "idle"

(* What the driver believes before the detection of a resume.              *)
FlagInv ==
    /\ pm \in {"reset", "asleep", "initialise"} => hp_jack_in = FALSE
    /\ pm \in {"reset", "asleep", "initialise", "enable", "responses"} => mic_jack_in = FALSE
    /\ pm \in {"enable", "responses"} /\ hp_jack_in = TRUE =>
          /\ no_type_dect = TRUE /\ tip = "plug" /\ chip.ts = FALSE
          /\ worker = "apply" => seen.tip = "plug"
          /\ seen.failed = FALSE
    /\ build_ctrl_done = FALSE /\ hp_jack_in = TRUE => FlagsRight

(* A handler whose reading failed started while the codec was suspended,   *)
(* and the detection of the resume waits for the next one.                 *)
FailedInv ==
    seen.failed = TRUE /\ pm \in {"report", "awake"} => chip.detecting = TRUE \/ chip.done = TRUE

(* The type that was found is the jack's.                                  *)
FoundInv ==
    /\ chip.done = TRUE => chip.type = TypeOf(jack)
    /\ worker \in {"tip", "mask"} /\ seen.done = TRUE => seen.type = TypeOf(jack)
    /\ worker \in {"compare", "assign"} => seen.type = TypeOf(jack)

(* What was read of tip sense is true, or there is more to come.           *)
StaleInv ==
    /\ pm \in {"report", "awake"} /\ worker \in {"mask", "apply"}
    /\ seen.done = FALSE \/ no_type_dect = TRUE
    /\ seen.tip # TipOf(jack)
    => \/ ~InTip \/ chip.ts = TRUE
       \/ seen.done = FALSE /\ (chip.detecting = TRUE \/ chip.done = TRUE)

(* Something is still to be seen, or to be done about what was seen.       *)
Pending ==
    \/ ~InTip \/ chip.ts = TRUE \/ chip.detecting = TRUE \/ chip.done = TRUE
    \/ worker \in {"clear", "start", "mask", "manual", "compare", "assign"}
    \/ worker = "tip" /\ seen.done = TRUE
    \/ worker = "apply" /\ (seen.done = TRUE \/ seen.tip # "trans")

KnownInv ==
    build_ctrl_done = TRUE /\ pm \in {"report", "awake"} => FlagsRight \/ Pending

CalmInv ==
    /\ MeetInv /\ ReadPlugInv /\ EarlyInv /\ BothInv /\ HeardInv /\ FlagInv
    /\ FailedInv /\ FoundInv /\ StaleInv /\ KnownInv

RestInv == BasisInv /\ (rushed = FALSE => CalmInv)

-----------------------------------------------------------------------------
(* What each action does, as far as the invariant goes.                    *)

(* An interrupt that rises raises a response, if responses are enabled.    *)
Hears ==
    /\ responses > 0 => responses' > 0
    /\ ur = TRUE /\ Interrupt(chip') /\ ~Interrupt(chip) => responses' > 0
    /\ ur = FALSE => responses' = responses

LEMMA BecomesHeard ==
    ASSUME TypeOK, NEW x, Becomes(x)
    PROVE  chip' = x /\ Hears
<1>1. responses \in 0 .. MaxResponses /\ MaxResponses \in Nat \ {0} /\ ur \in BOOLEAN
    BY ResponsesAssumption DEF TypeOK
<1>2. chip' = x
    BY DEF Becomes
<1>3. CASE ur /\ Interrupt(x) /\ ~Interrupt(chip)
    <2>1. responses' = AtMost(MaxResponses, responses + 1)
        BY <1>3 DEF Becomes, Raised
    <2>2. responses' > 0
        BY <1>1, <2>1 DEF AtMost
    <2> QED
        BY <1>2, <1>3, <2>2 DEF Hears
<1>4. CASE ~(ur /\ Interrupt(x) /\ ~Interrupt(chip))
    <2>1. responses' = AtMost(MaxResponses, responses + 0)
        BY <1>4 DEF Becomes, Raised
    <2>2. responses' = responses
        BY <1>1, <2>1 DEF AtMost
    <2> QED
        BY <1>1, <1>2, <1>4, <2>2 DEF Hears
<1> QED
    BY <1>3, <1>4

LEMMA WrittenHeard ==
    ASSUME TypeOK, NEW x, Written(x)
    PROVE  /\ Hears
           /\ Reachable => chip' = x
           /\ ~Reachable => chip' = chip
<1>1. Hears
    BY BecomesHeard DEF Written
<1> QED
    BY <1>1, WrittenChip

(* The codec is reached in all phases but those around its reset.          *)
LEMMA ReachedWhen ==
    ASSUME BasisInv
    PROVE  Reachable <=> pm \notin {"reset", "asleep", "initialise"}
BY DEF BasisInv, JackInv, ResetInv, PhaseInv, TypeOK, Reachable

(* Types the provers ask for again and again.                              *)
LEMMA Typed ==
    ASSUME BasisInv
    PROVE  /\ TypeOK /\ responses \in Nat /\ jack \in Kinds
           /\ chip \in Chip /\ seen \in Readings
           /\ chip.ts \in BOOLEAN /\ chip.ts_open \in BOOLEAN /\ chip.done \in BOOLEAN
           /\ chip.done_open \in BOOLEAN /\ chip.detecting \in BOOLEAN
           /\ seen.done \in BOOLEAN /\ seen.failed \in BOOLEAN
           /\ ur \in BOOLEAN /\ rushed \in BOOLEAN /\ gpio \in BOOLEAN /\ suspended \in BOOLEAN
           /\ no_type_dect \in BOOLEAN /\ build_ctrl_done \in BOOLEAN
           /\ hp_jack_in \in BOOLEAN /\ mic_jack_in \in BOOLEAN
BY ResponsesAssumption DEF BasisInv, JackInv, TypeOK, Chip, Readings

(* The worker's steps and the others' leave each other's variables alone.  *)
WorkerKeeps == UNCHANGED <<no_type_dect, jack, tip, ur, gpio, suspended, pm, build_ctrl_done>>

FlagsKept == UNCHANGED <<hp_jack_in, mic_jack_in, reported>>

PowerKeeps == UNCHANGED <<no_type_dect, jack, worker, seen>>

(* What has been forgotten tells nothing.                                  *)
LEMMA NothingRead ==
    Nothing.failed = FALSE /\ Nothing.done = FALSE /\ Nothing.tip = "trans"
BY DEF Nothing

(* The parts by name.                                                      *)
LEMMA Parts ==
    ASSUME BasisInv
    PROVE  /\ PhaseInv /\ ReadingInv /\ OpenInv /\ PlugInv /\ BuildInv /\ ToldInv
           /\ HandlerInv /\ WatchInv
BY DEF BasisInv, JackInv

LEMMA MoveEffect ==
    ASSUME BasisInv, Move
    PROVE  /\ jack = "none" <=> jack' # "none"
           /\ jack' \in Kinds
           /\ IF gpio = TRUE THEN tip' = "trans" ELSE tip' = tip
           /\ build_ctrl_done = TRUE
           /\ rushed' = FALSE =>
                 /\ rushed = FALSE
                 /\ \/ pm = "asleep"
                    \/ /\ pm = "awake" /\ worker = "idle"
                       /\ chip.detecting = FALSE /\ chip.done = FALSE
           /\ UNCHANGED <<no_type_dect, chip, ur, responses, gpio, suspended, worker, seen, pm,
                          build_ctrl_done>>
           /\ FlagsKept
<1> USE Typed
<1>1. rushed' = FALSE =>
          /\ rushed = FALSE
          /\ \/ pm = "asleep"
             \/ /\ pm = "awake" /\ worker = "idle"
                /\ chip.detecting = FALSE /\ chip.done = FALSE
    BY DEF Move, Busy
<1>2. (jack = "none" <=> jack' # "none") /\ jack' \in Kinds
    BY DEF Move, Kinds
<1>3. IF gpio = TRUE THEN tip' = "trans" ELSE tip' = tip
    BY DEF Move
<1> QED
    BY <1>1, <1>2, <1>3 DEF Move, fixed, pins, driver, power, FlagsKept

LEMMA TipSensedEffect ==
    ASSUME BasisInv, TipSensed
    PROVE  /\ Hears
           /\ gpio = TRUE /\ tip # TipOf(jack) /\ tip' = TipOf(jack)
           /\ chip'.ts = TRUE /\ chip'.ts_open = chip.ts_open /\ chip'.done = chip.done
           /\ chip'.done_open = chip.done_open /\ chip'.detecting = chip.detecting
           /\ chip'.type = chip.type
           /\ UNCHANGED <<no_type_dect, jack, ur, gpio, suspended, worker, seen, pm,
                          build_ctrl_done, rushed>>
           /\ FlagsKept
<1>1. chip' = [chip EXCEPT !.ts = TRUE] /\ Hears
    BY Typed, BecomesHeard DEF TipSensed
<1>2. gpio = TRUE
    BY Typed DEF TipSensed
<1> QED
    BY <1>1, <1>2, Typed DEF TipSensed, Chip, fixed, pins, driver, power, FlagsKept

LEMMA DetectedEffect ==
    ASSUME BasisInv, Detected
    PROVE  /\ Hears
           /\ chip.detecting = TRUE /\ chip'.detecting = FALSE
           /\ chip'.done = TRUE /\ chip'.type = TypeOf(jack)
           /\ chip'.ts = chip.ts /\ chip'.ts_open = chip.ts_open
           /\ chip'.done_open = chip.done_open
           /\ UNCHANGED <<no_type_dect, jack, tip, ur, gpio, suspended, worker, seen, pm,
                          build_ctrl_done, rushed>>
           /\ FlagsKept
<1>1. /\ chip' = [chip EXCEPT !.detecting = FALSE, !.done = TRUE, !.type = TypeOf(jack)]
      /\ Hears
    BY Typed, BecomesHeard DEF Detected
<1>2. chip.detecting = TRUE
    BY Typed DEF Detected
<1> QED
    BY <1>1, <1>2, Typed DEF Detected, Chip, fixed, pins, driver, power, FlagsKept

(* The other codec's responses, the speaker switch, and nothing at all.    *)
LEMMA AsideEffect ==
    ASSUME BasisInv, OtherCodec \/ PutStore \/ PutWrite \/ UNCHANGED vars
    PROVE  /\ responses > 0 => responses' > 0
           /\ ur = FALSE => responses' = responses
           /\ UNCHANGED <<no_type_dect, jack, tip, chip, ur, gpio, suspended, worker, seen, pm,
                          build_ctrl_done, rushed>>
           /\ FlagsKept
<1> USE DEF fixed, pins, driver, power, FlagsKept
<1>1. CASE OtherCodec
    BY <1>1, Typed DEF OtherCodec, TypeOK
<1>2. CASE PutStore
    BY <1>2 DEF PutStore
<1>3. CASE PutWrite
    BY <1>3 DEF PutWrite, BasisInv, JackInv, ResetInv
<1>4. CASE UNCHANGED vars
    BY <1>4 DEF vars
<1> QED
    BY <1>1, <1>2, <1>3, <1>4

LEMMA DropEffect ==
    ASSUME BasisInv, Drop
    PROVE  /\ suspended = TRUE /\ responses # 0
           /\ UNCHANGED <<chip, worker, seen, rushed>>
           /\ WorkerKeeps /\ FlagsKept
BY Typed DEF Drop, fixed, pins, driver, power, FlagsKept, WorkerKeeps

LEMMA RespondEffect ==
    ASSUME BasisInv, Respond
    PROVE  /\ worker = "idle" /\ worker' = "status" /\ responses # 0
           /\ rushed' = FALSE <=> rushed = FALSE /\ pm \notin {"power down", "reset"}
           /\ UNCHANGED <<chip, seen>>
           /\ WorkerKeeps /\ FlagsKept
<1>1. responses # 0
  <2>1. responses > 0
      BY DEF Respond
  <2> QED
      BY <2>1, Typed
<1>2. rushed' = FALSE <=> rushed = FALSE /\ pm \notin {"power down", "reset"}
    BY Typed DEF Respond
<1> QED
    BY <1>1, <1>2 DEF Respond, Goes, fixed, pins, driver, power, FlagsKept, WorkerKeeps

LEMMA ReadStatusEffect ==
    ASSUME BasisInv, ReadStatus
    PROVE  /\ Hears
           /\ worker = "status" /\ worker' = "tip" /\ seen'.tip = "trans"
           /\ Reachable =>
                 /\ chip'.ts = chip.ts /\ chip'.ts_open = chip.ts_open /\ chip'.done = FALSE
                 /\ chip'.done_open = chip.done_open /\ chip'.detecting = chip.detecting
                 /\ seen'.failed = FALSE /\ seen'.done = chip.done /\ seen'.type = chip.type
           /\ ~Reachable => chip' = chip /\ seen'.failed = TRUE /\ seen'.done = FALSE
           /\ UNCHANGED rushed
           /\ WorkerKeeps /\ FlagsKept
<1>1. /\ Hears
      /\ Reachable => chip' = DoneCleared(chip)
      /\ ~Reachable => chip' = chip
    BY Typed, WrittenHeard DEF ReadStatus
<1>2. Reachable =>
          /\ chip'.ts = chip.ts /\ chip'.ts_open = chip.ts_open /\ chip'.done = FALSE
          /\ chip'.done_open = chip.done_open /\ chip'.detecting = chip.detecting
    BY <1>1, Typed DEF DoneCleared, Chip
<1>3. /\ Reachable => seen'.failed = FALSE /\ seen'.done = chip.done /\ seen'.type = chip.type
      /\ ~Reachable => seen'.failed = TRUE /\ seen'.done = FALSE
      /\ seen'.tip = "trans"
    BY DEF ReadStatus, Nothing
<1> QED
    BY <1>1, <1>2, <1>3 DEF ReadStatus, fixed, pins, driver, power, FlagsKept, WorkerKeeps

LEMMA ReadTipEffect ==
    ASSUME BasisInv, ReadTip
    PROVE  /\ Hears
           /\ worker = "tip"
           /\ Reachable =>
                 /\ chip'.ts = FALSE /\ chip'.ts_open = chip.ts_open /\ chip'.done = chip.done
                 /\ chip'.done_open = chip.done_open /\ chip'.detecting = chip.detecting
                 /\ chip'.type = chip.type
           /\ ~Reachable => chip' = chip
           /\ \/ (seen.failed = TRUE \/ ~Reachable) /\ worker' = "report" /\ seen' = Nothing
              \/ /\ seen.failed = FALSE /\ Reachable
                 /\ worker' = IF seen.done = TRUE THEN "mask" ELSE "apply"
                 /\ seen'.done = seen.done /\ seen'.type = seen.type /\ seen'.failed = FALSE
                 /\ seen.done = FALSE \/ no_type_dect = TRUE => seen'.tip = tip
           /\ UNCHANGED rushed
           /\ WorkerKeeps /\ FlagsKept
<1>1. /\ Hears
      /\ Reachable => chip' = TipCleared(chip)
      /\ ~Reachable => chip' = chip
    BY Typed, WrittenHeard DEF ReadTip
<1>2. Reachable =>
          /\ chip'.ts = FALSE /\ chip'.ts_open = chip.ts_open /\ chip'.done = chip.done
          /\ chip'.done_open = chip.done_open /\ chip'.detecting = chip.detecting
          /\ chip'.type = chip.type
    BY <1>1, Typed DEF TipCleared, Chip
<1>3. \/ (seen.failed = TRUE \/ ~Reachable) /\ worker' = "report" /\ seen' = Nothing
      \/ /\ seen.failed = FALSE /\ Reachable
         /\ worker' = IF seen.done = TRUE THEN "mask" ELSE "apply"
         /\ seen'.done = seen.done /\ seen'.type = seen.type /\ seen'.failed = FALSE
         /\ seen.done = FALSE \/ no_type_dect = TRUE => seen'.tip = tip
  <2>1. CASE seen.failed \/ ~Reachable
      BY <2>1, Typed DEF ReadTip, Goes
  <2>2. CASE ~seen.failed /\ Reachable
    <3>1. /\ worker' = IF seen.done THEN "mask" ELSE "apply"
          /\ seen' = IF seen.done /\ ~no_type_dect THEN seen ELSE [seen EXCEPT !.tip = tip]
        BY <2>2 DEF ReadTip
    <3>2. /\ seen'.done = seen.done /\ seen'.type = seen.type /\ seen'.failed = seen.failed
          /\ ~(seen.done /\ ~no_type_dect) => seen'.tip = tip
        BY <3>1, Typed DEF Readings
    <3> QED
        BY <2>2, <3>1, <3>2, Typed
  <2> QED
      BY <2>1, <2>2
<1> QED
    BY <1>1, <1>2, <1>3 DEF ReadTip, fixed, pins, driver, power, FlagsKept, WorkerKeeps

LEMMA MaskDetectionEffect ==
    ASSUME BasisInv, MaskDetection
    PROVE  /\ Hears
           /\ worker = "mask" /\ seen' = seen
           /\ \/ no_type_dect = TRUE /\ worker' = "apply"
              \/ no_type_dect = FALSE /\ worker' = "assign" /\ seen.type = "headset"
              \/ no_type_dect = FALSE /\ worker' = "manual"
           /\ Reachable =>
                 /\ chip'.ts = chip.ts /\ chip'.ts_open = chip.ts_open /\ chip'.done = chip.done
                 /\ chip'.done_open = FALSE /\ chip'.detecting = FALSE /\ chip'.type = chip.type
           /\ ~Reachable => chip' = chip
           /\ UNCHANGED rushed
           /\ WorkerKeeps /\ FlagsKept
<1>1. /\ Hears
      /\ Reachable => chip' = [chip EXCEPT !.done_open = FALSE, !.detecting = FALSE]
      /\ ~Reachable => chip' = chip
    BY Typed, WrittenHeard DEF MaskDetection
<1>2. Reachable =>
          /\ chip'.ts = chip.ts /\ chip'.ts_open = chip.ts_open /\ chip'.done = chip.done
          /\ chip'.done_open = FALSE /\ chip'.detecting = FALSE /\ chip'.type = chip.type
    BY <1>1, Typed DEF Chip
<1>3. /\ seen' = seen
      /\ \/ no_type_dect = TRUE /\ worker' = "apply"
         \/ no_type_dect = FALSE /\ worker' = "assign" /\ seen.type = "headset"
         \/ no_type_dect = FALSE /\ worker' = "manual"
    BY Typed DEF MaskDetection, Goes
<1> QED
    BY <1>1, <1>2, <1>3 DEF MaskDetection, fixed, pins, driver, power, FlagsKept, WorkerKeeps

LEMMA CompareFirstEffect ==
    ASSUME BasisInv, CompareFirst
    PROVE  /\ worker = "manual" /\ worker' = "compare"
           /\ seen'.done = seen.done /\ seen'.failed = seen.failed /\ seen'.tip = seen.tip
           /\ Reachable => seen'.type = TypeOf(jack)
           /\ UNCHANGED <<chip, responses, rushed>>
           /\ WorkerKeeps /\ FlagsKept
BY Typed DEF CompareFirst, Readings, fixed, pins, driver, power, FlagsKept, WorkerKeeps

LEMMA CompareSecondEffect ==
    ASSUME BasisInv, CompareSecond
    PROVE  /\ worker = "compare" /\ worker' = "assign"
           /\ seen'.done = seen.done /\ seen'.failed = seen.failed /\ seen'.tip = seen.tip
           /\ Reachable /\ seen.type = TypeOf(jack) => seen'.type = TypeOf(jack)
           /\ UNCHANGED <<chip, responses, rushed>>
           /\ WorkerKeeps /\ FlagsKept
BY Typed DEF CompareSecond, Readings, fixed, pins, driver, power, FlagsKept, WorkerKeeps

LEMMA AssignEffect ==
    ASSUME BasisInv, Assign
    PROVE  /\ worker = "assign" /\ worker' = "unmask" /\ seen' = seen
           /\ hp_jack_in' = (seen.type # "invalid") /\ mic_jack_in' = (seen.type = "headset")
           /\ rushed' = FALSE <=> rushed = FALSE /\ ur = TRUE
           /\ UNCHANGED <<chip, responses, reported>>
           /\ WorkerKeeps
BY Typed DEF Assign, Goes, fixed, pins, driver, power, WorkerKeeps

LEMMA ApplyEffect ==
    ASSUME BasisInv, Apply
    PROVE  /\ worker = "apply"
           /\ \/ /\ seen.tip = "plug" /\ no_type_dect = TRUE
                 /\ hp_jack_in' = TRUE /\ mic_jack_in' = FALSE
                 /\ worker' = IF seen.done = TRUE THEN "unmask" ELSE "report"
                 /\ rushed' = rushed
              \/ /\ seen.tip = "plug" /\ no_type_dect = FALSE
                 /\ UNCHANGED <<hp_jack_in, mic_jack_in, rushed>>
                 /\ worker' = "clear"
              \/ /\ seen.tip = "unplug"
                 /\ hp_jack_in' = FALSE /\ mic_jack_in' = FALSE
                 /\ worker' = IF seen.done = TRUE THEN "unmask" ELSE "report"
                 /\ rushed' = FALSE => rushed = FALSE
                       \/ /\ pm = "awake" /\ jack = "none" /\ tip = "unplug"
                          /\ chip.ts = FALSE /\ chip.done = FALSE
              \/ /\ seen.tip = "trans"
                 /\ UNCHANGED <<hp_jack_in, mic_jack_in, rushed>>
                 /\ worker' = IF seen.done = TRUE THEN "unmask" ELSE "idle"
           /\ \/ worker' = "unmask" /\ seen' = seen /\ seen.done = TRUE
              \/ worker' # "unmask" /\ seen' = Nothing /\ (worker' = "clear" \/ seen.done = FALSE)
           /\ rushed = FALSE => rushed' = FALSE
           /\ UNCHANGED <<chip, responses, reported>>
           /\ WorkerKeeps
<1>1. CASE seen.tip = "plug" /\ no_type_dect
    BY <1>1, Typed DEF Apply, Goes, fixed, pins, power, WorkerKeeps
<1>2. CASE seen.tip = "plug" /\ ~no_type_dect
    BY <1>2, Typed DEF Apply, Goes, fixed, pins, power, WorkerKeeps
<1>3. CASE seen.tip = "unplug"
    BY <1>3, Typed DEF Apply, Goes, Clean, fixed, pins, power, WorkerKeeps
<1>4. CASE seen.tip = "trans"
    BY <1>4, Typed DEF Apply, Goes, fixed, pins, power, WorkerKeeps
<1> QED
    BY <1>1, <1>2, <1>3, <1>4 DEF Apply

LEMMA ClearEffect ==
    ASSUME BasisInv, Clear
    PROVE  /\ Hears
           /\ worker = "clear" /\ worker' = "start" /\ seen' = Nothing
           /\ Reachable =>
                 /\ chip'.ts = FALSE /\ chip'.ts_open = FALSE /\ chip'.done = FALSE
                 /\ chip'.done_open = chip.done_open /\ chip'.detecting = chip.detecting
           /\ ~Reachable => chip' = chip
           /\ UNCHANGED rushed
           /\ WorkerKeeps /\ FlagsKept
<1>1. /\ Hears
      /\ Reachable => chip' = DetectCleared(chip)
      /\ ~Reachable => chip' = chip
    BY Typed, WrittenHeard DEF Clear
<1>2. Reachable =>
          /\ chip'.ts = FALSE /\ chip'.ts_open = FALSE /\ chip'.done = FALSE
          /\ chip'.done_open = chip.done_open /\ chip'.detecting = chip.detecting
    BY <1>1, Typed DEF DetectCleared, DoneCleared, TipCleared, Chip
<1> QED
    BY <1>1, <1>2 DEF Clear, Goes, fixed, pins, driver, power, FlagsKept, WorkerKeeps

LEMMA StartEffect ==
    ASSUME BasisInv, Start
    PROVE  /\ Hears
           /\ worker = "start" /\ worker' = "idle" /\ seen' = Nothing
           /\ Reachable =>
                 /\ chip'.ts = chip.ts /\ chip'.ts_open = chip.ts_open /\ chip'.done = chip.done
                 /\ chip'.done_open = TRUE /\ chip'.detecting = TRUE /\ chip'.type = chip.type
           /\ ~Reachable => chip' = chip
           /\ rushed' = FALSE => rushed = FALSE
                 \/ /\ pm = "awake" /\ chip.ts = FALSE /\ chip.done = FALSE
                    /\ chip.ts_open = FALSE
           /\ rushed = FALSE => rushed' = FALSE
           /\ WorkerKeeps /\ FlagsKept
<1>1. /\ Hears
      /\ Reachable => chip' = DetectStarted(chip)
      /\ ~Reachable => chip' = chip
    BY Typed, WrittenHeard DEF Start
<1>2. Reachable =>
          /\ chip'.ts = chip.ts /\ chip'.ts_open = chip.ts_open /\ chip'.done = chip.done
          /\ chip'.done_open = TRUE /\ chip'.detecting = TRUE /\ chip'.type = chip.type
    BY <1>1, Typed DEF DetectStarted, Chip
<1>3. rushed' = FALSE => rushed = FALSE
          \/ /\ pm = "awake" /\ chip.ts = FALSE /\ chip.done = FALSE
             /\ chip.ts_open = FALSE
    BY Typed DEF Start, Clean
<1>4. rushed = FALSE => rushed' = FALSE
    BY Typed DEF Start
<1> QED
    BY <1>1, <1>2, <1>3, <1>4 DEF Start, Goes, fixed, pins, driver, power, FlagsKept, WorkerKeeps

LEMMA UnmaskTipEffect ==
    ASSUME BasisInv, UnmaskTip
    PROVE  /\ Hears
           /\ worker = "unmask" /\ seen' = Nothing
           /\ worker' = IF no_type_dect = TRUE /\ seen.tip = "trans" THEN "idle" ELSE "report"
           /\ Reachable =>
                 /\ chip'.ts = chip.ts /\ chip'.ts_open = TRUE /\ chip'.done = chip.done
                 /\ chip'.done_open = chip.done_open /\ chip'.detecting = chip.detecting
                 /\ chip'.type = chip.type
           /\ ~Reachable => chip' = chip
           /\ UNCHANGED rushed
           /\ WorkerKeeps /\ FlagsKept
<1>1. /\ Hears
      /\ Reachable => chip' = [chip EXCEPT !.ts_open = TRUE]
      /\ ~Reachable => chip' = chip
    BY Typed, WrittenHeard DEF UnmaskTip
<1>2. Reachable =>
          /\ chip'.ts = chip.ts /\ chip'.ts_open = TRUE /\ chip'.done = chip.done
          /\ chip'.done_open = chip.done_open /\ chip'.detecting = chip.detecting
          /\ chip'.type = chip.type
    BY <1>1, Typed DEF Chip
<1>3. /\ seen' = Nothing
      /\ worker' = IF no_type_dect = TRUE /\ seen.tip = "trans" THEN "idle" ELSE "report"
    BY Typed DEF UnmaskTip, Goes
<1> QED
    BY <1>1, <1>2, <1>3 DEF UnmaskTip, fixed, pins, driver, power, FlagsKept, WorkerKeeps

LEMMA ReportEffect ==
    ASSUME BasisInv, Report
    PROVE  /\ worker = "report" /\ worker' = "idle" /\ seen' = Nothing
           /\ reported' = [hp |-> hp_jack_in, mic |-> mic_jack_in]
           /\ UNCHANGED <<chip, responses, rushed, hp_jack_in, mic_jack_in>>
           /\ WorkerKeeps
BY DEF Report, Goes, fixed, pins, driver, power, WorkerKeeps

LEMMA SuspendEffect ==
    ASSUME BasisInv, Suspend
    PROVE  /\ pm = "awake" /\ pm' = "power down" /\ ur' = FALSE /\ build_ctrl_done = TRUE
           /\ rushed' = FALSE => rushed = FALSE /\ worker = "idle"
           /\ UNCHANGED <<chip, tip, responses, gpio, suspended, build_ctrl_done>>
           /\ PowerKeeps /\ FlagsKept
BY Typed DEF Suspend, fixed, pins, driver, FlagsKept, PowerKeeps

LEMMA PowerDownEffect ==
    ASSUME BasisInv, PowerDown
    PROVE  /\ \/ /\ pm = "power down" /\ pm' = "reset"
                 /\ suspended' = TRUE /\ hp_jack_in' = FALSE /\ mic_jack_in' = FALSE
                 /\ UNCHANGED <<chip, gpio>>
              \/ /\ pm = "reset" /\ pm' = "asleep" /\ gpio' = FALSE
                 /\ chip'.ts = FALSE /\ chip'.ts_open = FALSE /\ chip'.done = FALSE
                 /\ chip'.done_open = FALSE /\ chip'.detecting = FALSE
                 /\ UNCHANGED <<suspended, hp_jack_in, mic_jack_in>>
           /\ UNCHANGED <<tip, ur, responses, reported, build_ctrl_done, rushed>>
           /\ PowerKeeps
<1>1. CASE MarkSuspended
    BY <1>1 DEF MarkSuspended, fixed, pins, PowerKeeps
<1>2. CASE AssertReset
    BY <1>2 DEF AssertReset, OutOfReset, fixed, driver, PowerKeeps
<1> QED
    BY <1>1, <1>2 DEF PowerDown

LEMMA ReleaseResetEffect ==
    ASSUME BasisInv, ReleaseReset
    PROVE  /\ pm = "asleep" /\ pm' = "initialise" /\ gpio' = TRUE /\ tip' = "unplug"
           /\ UNCHANGED <<chip, ur, responses, suspended, build_ctrl_done, rushed>>
           /\ PowerKeeps /\ FlagsKept
BY DEF ReleaseReset, fixed, driver, FlagsKept, PowerKeeps

LEMMA InitialiseEffect ==
    ASSUME BasisInv, Initialise
    PROVE  /\ Hears
           /\ pm = "initialise" /\ pm' = "enable" /\ suspended' = FALSE
           /\ chip'.ts = FALSE /\ chip'.ts_open = chip.ts_open /\ chip'.done = FALSE
           /\ chip'.done_open = chip.done_open /\ chip'.detecting = chip.detecting
           /\ UNCHANGED <<tip, ur, gpio, build_ctrl_done, rushed>>
           /\ PowerKeeps /\ FlagsKept
<1>1. chip' = DoneCleared(TipCleared(chip)) /\ Hears
    BY Typed, BecomesHeard DEF Initialise
<1>2. /\ chip'.ts = FALSE /\ chip'.ts_open = chip.ts_open /\ chip'.done = FALSE
      /\ chip'.done_open = chip.done_open /\ chip'.detecting = chip.detecting
    BY <1>1, Typed DEF DoneCleared, TipCleared, Chip
<1> QED
    BY <1>1, <1>2 DEF Initialise, fixed, pins, FlagsKept, PowerKeeps

LEMMA EnableJackDetectEffect ==
    ASSUME BasisInv, EnableJackDetect
    PROVE  /\ Hears
           /\ pm = "enable" /\ pm' = "responses"
           /\ chip'.ts = FALSE /\ chip'.ts_open = TRUE /\ chip'.done = chip.done
           /\ chip'.done_open = chip.done_open /\ chip'.detecting = chip.detecting
           /\ chip'.type = chip.type
           /\ UNCHANGED <<tip, ur, gpio, suspended, build_ctrl_done, rushed>>
           /\ PowerKeeps /\ FlagsKept
<1>1. Reachable
    BY ReachedWhen DEF EnableJackDetect
<1>2. chip' = [TipCleared(chip) EXCEPT !.ts_open = TRUE] /\ Hears
    BY <1>1, Typed, WrittenHeard DEF EnableJackDetect
<1>3. /\ chip'.ts = FALSE /\ chip'.ts_open = TRUE /\ chip'.done = chip.done
      /\ chip'.done_open = chip.done_open /\ chip'.detecting = chip.detecting
      /\ chip'.type = chip.type
    BY <1>2, Typed DEF TipCleared, Chip
<1> QED
    BY <1>2, <1>3 DEF EnableJackDetect, fixed, pins, driver, FlagsKept, PowerKeeps

LEMMA EnableUrEffect ==
    ASSUME BasisInv, EnableUr
    PROVE  /\ pm = "responses" /\ ur' = TRUE
           /\ pm' = IF build_ctrl_done = TRUE /\ hp_jack_in = FALSE THEN "clear" ELSE "report"
           /\ UNCHANGED <<chip, tip, responses, gpio, suspended, build_ctrl_done, rushed>>
           /\ PowerKeeps /\ FlagsKept
BY Typed DEF EnableUr, fixed, pins, driver, FlagsKept, PowerKeeps

LEMMA BuildEffect ==
    ASSUME BasisInv, Build
    PROVE  /\ pm = "awake" /\ build_ctrl_done = FALSE /\ build_ctrl_done' = TRUE
           /\ pm' = IF hp_jack_in = FALSE THEN "clear" ELSE "report"
           /\ UNCHANGED <<chip, tip, ur, responses, gpio, suspended, rushed>>
           /\ PowerKeeps /\ FlagsKept
BY Typed DEF Build, fixed, pins, driver, FlagsKept, PowerKeeps

LEMMA ClearResumedEffect ==
    ASSUME BasisInv, ClearResumed
    PROVE  /\ Hears
           /\ pm = "clear" /\ pm' = "start"
           /\ chip'.ts = FALSE /\ chip'.ts_open = FALSE /\ chip'.done = FALSE
           /\ chip'.done_open = chip.done_open /\ chip'.detecting = chip.detecting
           /\ UNCHANGED <<tip, ur, gpio, suspended, build_ctrl_done, rushed>>
           /\ PowerKeeps /\ FlagsKept
<1>1. Reachable
    BY ReachedWhen DEF ClearResumed
<1>2. chip' = DetectCleared(chip) /\ Hears
    BY <1>1, Typed, WrittenHeard DEF ClearResumed
<1>3. /\ chip'.ts = FALSE /\ chip'.ts_open = FALSE /\ chip'.done = FALSE
      /\ chip'.done_open = chip.done_open /\ chip'.detecting = chip.detecting
    BY <1>2, Typed DEF DetectCleared, DoneCleared, TipCleared, Chip
<1> QED
    BY <1>2, <1>3 DEF ClearResumed, fixed, pins, driver, FlagsKept, PowerKeeps

LEMMA StartResumedEffect ==
    ASSUME BasisInv, StartResumed
    PROVE  /\ Hears
           /\ pm = "start" /\ pm' = "report"
           /\ chip'.ts = chip.ts /\ chip'.ts_open = chip.ts_open /\ chip'.done = chip.done
           /\ chip'.done_open = TRUE /\ chip'.detecting = TRUE /\ chip'.type = chip.type
           /\ rushed' = FALSE => rushed = FALSE
                 \/ /\ chip.ts = FALSE /\ chip.done = FALSE /\ chip.ts_open = FALSE
                    /\ worker = "idle"
           /\ UNCHANGED <<tip, ur, gpio, suspended, build_ctrl_done>>
           /\ PowerKeeps /\ FlagsKept
<1>1. Reachable
    BY ReachedWhen DEF StartResumed
<1>2. chip' = DetectStarted(chip) /\ Hears
    BY <1>1, Typed, WrittenHeard DEF StartResumed
<1>3. /\ chip'.ts = chip.ts /\ chip'.ts_open = chip.ts_open /\ chip'.done = chip.done
      /\ chip'.done_open = TRUE /\ chip'.detecting = TRUE /\ chip'.type = chip.type
    BY <1>2, Typed DEF DetectStarted, Chip
<1>4. rushed' = FALSE => rushed = FALSE
          \/ /\ chip.ts = FALSE /\ chip.done = FALSE /\ chip.ts_open = FALSE
             /\ worker = "idle"
    BY Typed DEF StartResumed, Clean
<1> QED
    BY <1>2, <1>3, <1>4 DEF StartResumed, fixed, pins, driver, FlagsKept, PowerKeeps

LEMMA ReportResumedEffect ==
    ASSUME BasisInv, ReportResumed
    PROVE  /\ pm = "report" /\ pm' = "awake"
           /\ reported' = [hp |-> hp_jack_in, mic |-> mic_jack_in]
           /\ UNCHANGED <<chip, tip, ur, responses, gpio, suspended, build_ctrl_done, rushed,
                          hp_jack_in, mic_jack_in>>
           /\ PowerKeeps
BY DEF ReportResumed, fixed, pins, driver, PowerKeeps

-----------------------------------------------------------------------------
(* Each action keeps both parts of the invariant.                          *)

BasisKept == PhaseInv' /\ ReadingInv' /\ OpenInv' /\ PlugInv' /\ BuildInv' /\ ToldInv'

LEMMA MoveBasis ==
    ASSUME BasisInv, Move
    PROVE  BasisKept
BY Typed, Parts, ReachedWhen, NothingRead, MoveEffect DEF BasisKept, FlagsKept, PhaseInv,
   ReadingInv, OpenInv, PlugInv, BuildInv, ToldInv

(* A jack that does not rush anybody moves at rest, or while asleep.       *)
LEMMA MoveCalm ==
    ASSUME RestInv, Move, rushed' = FALSE
    PROVE  CalmInv'
<1> USE Typed, Parts, ReachedWhen, NothingRead, MoveEffect DEF FlagsKept, CalmInv
<1>1. BasisInv /\ CalmInv
    BY DEF RestInv
<1>2. MeetInv' /\ ReadPlugInv' /\ EarlyInv' /\ BothInv'
    BY <1>1 DEF MeetInv, ReadPlugInv, EarlyInv, BothInv, PhaseInv, OpenInv, Early, Begun,
       Rising, Deciding
<1>3. HeardInv'
    BY <1>1 DEF HeardInv
<1>4. FlagInv' /\ FailedInv' /\ FoundInv'
    BY <1>1 DEF FlagInv, FailedInv, FoundInv, MeetInv, PhaseInv
<1>5. StaleInv' /\ KnownInv'
    BY <1>1 DEF StaleInv, KnownInv, Pending, InTip, Reachable, TipOf
<1> QED
    BY <1>2, <1>3, <1>4, <1>5

LEMMA TipSensedBasis ==
    ASSUME BasisInv, TipSensed
    PROVE  BasisKept
BY Typed, Parts, ReachedWhen, NothingRead, TipSensedEffect DEF BasisKept, FlagsKept,
   PhaseInv, ReadingInv, OpenInv, PlugInv, BuildInv, ToldInv, Hears, TipOf

(* Tip sense that changes is raised: whoever believed the old reading has it *)
(* coming, and a detection of a resume is not surprised.                   *)
LEMMA TipSensedCalm ==
    ASSUME RestInv, TipSensed, rushed' = FALSE
    PROVE  CalmInv'
<1> USE Typed, Parts, ReachedWhen, NothingRead, TipSensedEffect DEF FlagsKept, CalmInv
<1>1. BasisInv /\ CalmInv
    BY DEF RestInv
<1>2. MeetInv' /\ ReadPlugInv' /\ EarlyInv' /\ BothInv'
    BY <1>1 DEF MeetInv, ReadPlugInv, EarlyInv, BothInv, PlugInv, Early, Begun, InTip, TipOf
<1>3. HeardInv'
    BY <1>1 DEF HeardInv, Hears
<1>4. FlagInv' /\ FailedInv' /\ FoundInv'
    BY <1>1 DEF FlagInv, FailedInv, FoundInv, PlugInv, FlagsRight, TipOf
<1>5. StaleInv' /\ KnownInv'
    BY <1>1 DEF StaleInv, KnownInv, Pending
<1> QED
    BY <1>2, <1>3, <1>4, <1>5

LEMMA DetectedBasis ==
    ASSUME BasisInv, Detected
    PROVE  BasisKept
BY Typed, Parts, ReachedWhen, NothingRead, DetectedEffect DEF BasisKept, FlagsKept,
   PhaseInv, ReadingInv, OpenInv, PlugInv, BuildInv, ToldInv, Hears

(* The end of a detection raises its interrupt, which tip sense does not hide. *)
LEMMA DetectedCalm ==
    ASSUME RestInv, Detected, rushed' = FALSE
    PROVE  CalmInv'
<1> USE Typed, Parts, ReachedWhen, NothingRead, DetectedEffect DEF FlagsKept, CalmInv
<1>1. BasisInv /\ CalmInv
    BY DEF RestInv
<1>2. MeetInv' /\ ReadPlugInv' /\ EarlyInv' /\ BothInv'
    BY <1>1 DEF MeetInv, ReadPlugInv, EarlyInv, BothInv, Early, Begun, InTip
<1>3. HeardInv'
    BY <1>1 DEF HeardInv, Hears, Interrupt, BothInv
<1>4. FlagInv' /\ FailedInv' /\ FoundInv'
    BY <1>1 DEF FlagInv, FailedInv, FoundInv, FlagsRight
<1>5. StaleInv' /\ KnownInv'
    BY <1>1 DEF StaleInv, KnownInv, Pending, InTip
<1> QED
    BY <1>2, <1>3, <1>4, <1>5

LEMMA AsideBasis ==
    ASSUME BasisInv, OtherCodec \/ PutStore \/ PutWrite \/ UNCHANGED vars
    PROVE  BasisKept
BY Typed, Parts, ReachedWhen, NothingRead, AsideEffect DEF BasisKept, FlagsKept, PhaseInv,
   ReadingInv, OpenInv, PlugInv, BuildInv, ToldInv

LEMMA AsideCalm ==
    ASSUME RestInv, OtherCodec \/ PutStore \/ PutWrite \/ UNCHANGED vars, rushed' = FALSE
    PROVE  CalmInv'
<1> USE Typed, Parts, ReachedWhen, NothingRead, AsideEffect DEF FlagsKept, CalmInv
<1>1. BasisInv /\ CalmInv
    BY DEF RestInv
<1>2. MeetInv' /\ ReadPlugInv' /\ EarlyInv' /\ BothInv'
    BY <1>1 DEF MeetInv, ReadPlugInv, EarlyInv, BothInv, Early, Begun, InTip
<1>3. HeardInv'
    BY <1>1 DEF HeardInv
<1>4. FlagInv' /\ FailedInv' /\ FoundInv'
    BY <1>1 DEF FlagInv, FailedInv, FoundInv, FlagsRight
<1>5. StaleInv' /\ KnownInv'
    BY <1>1 DEF StaleInv, KnownInv, FlagsRight, Pending, InTip
<1> QED
    BY <1>2, <1>3, <1>4, <1>5

LEMMA DropBasis ==
    ASSUME BasisInv, Drop
    PROVE  BasisKept
BY Typed, Parts, ReachedWhen, NothingRead, DropEffect DEF BasisKept, WorkerKeeps,
   FlagsKept, PhaseInv, ReadingInv, OpenInv, PlugInv, BuildInv, ToldInv

LEMMA DropCalm ==
    ASSUME RestInv, Drop, rushed' = FALSE
    PROVE  CalmInv'
<1> USE Typed, Parts, ReachedWhen, NothingRead, DropEffect DEF WorkerKeeps, FlagsKept, CalmInv
<1>1. BasisInv /\ CalmInv
    BY DEF RestInv
<1>2. MeetInv' /\ ReadPlugInv' /\ EarlyInv' /\ BothInv'
    BY <1>1 DEF MeetInv, ReadPlugInv, EarlyInv, BothInv, Early, Begun, InTip
<1>3. HeardInv'
    BY <1>1 DEF HeardInv, PhaseInv
<1>4. FlagInv' /\ FailedInv' /\ FoundInv'
    BY <1>1 DEF FlagInv, FailedInv, FoundInv, FlagsRight
<1>5. StaleInv' /\ KnownInv'
    BY <1>1 DEF StaleInv, KnownInv, Reachable
<1> QED
    BY <1>2, <1>3, <1>4, <1>5

LEMMA RespondBasis ==
    ASSUME BasisInv, Respond
    PROVE  BasisKept
BY Typed, Parts, ReachedWhen, NothingRead, RespondEffect DEF BasisKept, WorkerKeeps,
   FlagsKept, PhaseInv, ReadingInv, OpenInv, PlugInv, BuildInv, ToldInv

(* A response taken from the queue becomes a handler that has read nothing. *)
LEMMA RespondCalm ==
    ASSUME RestInv, Respond, rushed' = FALSE
    PROVE  CalmInv'
<1> USE Typed, Parts, ReachedWhen, NothingRead, RespondEffect
    DEF WorkerKeeps, FlagsKept, CalmInv
<1>1. BasisInv /\ CalmInv
    BY DEF RestInv
<1>2. MeetInv' /\ ReadPlugInv' /\ EarlyInv' /\ BothInv'
    BY <1>1 DEF MeetInv, ReadPlugInv, EarlyInv, BothInv, Early, Begun, InTip, Deciding
<1>3. HeardInv'
    BY <1>1 DEF HeardInv
<1>4. FlagInv' /\ FailedInv' /\ FoundInv'
    BY <1>1 DEF FlagInv, FailedInv, FoundInv, FlagsRight
<1>5. StaleInv' /\ KnownInv'
    BY <1>1 DEF StaleInv, KnownInv, FlagsRight, Pending, InTip
<1> QED
    BY <1>2, <1>3, <1>4, <1>5

LEMMA ReadStatusBasis ==
    ASSUME BasisInv, ReadStatus
    PROVE  BasisKept
BY Typed, Parts, ReachedWhen, NothingRead, ReadStatusEffect DEF BasisKept, WorkerKeeps,
   FlagsKept, PhaseInv, ReadingInv, OpenInv, PlugInv, BuildInv, ToldInv

(* The type is read together with the interrupt that announced it.         *)
LEMMA ReadStatusCalm ==
    ASSUME RestInv, ReadStatus, rushed' = FALSE
    PROVE  CalmInv'
<1> USE Typed, Parts, ReachedWhen, NothingRead, ReadStatusEffect
    DEF WorkerKeeps, FlagsKept, CalmInv
<1>1. BasisInv /\ CalmInv
    BY DEF RestInv
<1>2. MeetInv' /\ ReadPlugInv' /\ EarlyInv' /\ BothInv'
    BY <1>1 DEF MeetInv, ReadPlugInv, EarlyInv, BothInv, Early, Begun, InTip, Deciding
<1>3. HeardInv'
    BY <1>1 DEF HeardInv, PhaseInv
<1>4. FlagInv' /\ FailedInv' /\ FoundInv'
    BY <1>1 DEF FlagInv, FailedInv, FoundInv, FlagsRight
<1>5. StaleInv' /\ KnownInv'
    BY <1>1 DEF StaleInv, KnownInv, FlagsRight, Pending, InTip
<1> QED
    BY <1>2, <1>3, <1>4, <1>5

LEMMA ReadTipBasis ==
    ASSUME BasisInv, ReadTip
    PROVE  BasisKept
BY Typed, Parts, ReachedWhen, NothingRead, ReadTipEffect DEF BasisKept, WorkerKeeps,
   FlagsKept, PhaseInv, ReadingInv, OpenInv, PlugInv, BuildInv, ToldInv, HandlerInv

(* A reading that fails is only met asleep, and left to the resume.        *)
LEMMA ReadTipCalm ==
    ASSUME RestInv, ReadTip, rushed' = FALSE
    PROVE  CalmInv'
<1> USE Typed, Parts, ReachedWhen, NothingRead, ReadTipEffect
    DEF WorkerKeeps, FlagsKept, CalmInv
<1>1. BasisInv /\ CalmInv
    BY DEF RestInv
<1>2. MeetInv' /\ ReadPlugInv' /\ EarlyInv' /\ BothInv'
    BY <1>1 DEF MeetInv, ReadPlugInv, EarlyInv, BothInv, Early, Begun, InTip, Deciding
<1>3. HeardInv'
    BY <1>1 DEF HeardInv, Hears, Interrupt, PhaseInv
<1>4. FlagInv' /\ FailedInv' /\ FoundInv'
    BY <1>1 DEF FlagInv, FailedInv, FoundInv, FlagsRight
<1>5. StaleInv' /\ KnownInv'
    BY <1>1 DEF StaleInv, KnownInv, FailedInv, Pending, InTip, TipOf
<1> QED
    BY <1>2, <1>3, <1>4, <1>5

LEMMA MaskDetectionBasis ==
    ASSUME BasisInv, MaskDetection
    PROVE  BasisKept
BY Typed, Parts, ReachedWhen, NothingRead, MaskDetectionEffect DEF BasisKept, WorkerKeeps,
   FlagsKept, PhaseInv, ReadingInv, OpenInv, PlugInv, BuildInv, ToldInv

(* What the masking lets go of was read before.                            *)
LEMMA MaskDetectionCalm ==
    ASSUME RestInv, MaskDetection, rushed' = FALSE
    PROVE  CalmInv'
<1> USE Typed, Parts, ReachedWhen, NothingRead, MaskDetectionEffect
    DEF WorkerKeeps, FlagsKept, CalmInv
<1>1. BasisInv /\ CalmInv
    BY DEF RestInv
<1>2. MeetInv' /\ ReadPlugInv' /\ EarlyInv' /\ BothInv'
    BY <1>1 DEF MeetInv, ReadPlugInv, EarlyInv, BothInv, Early, Begun, InTip, Deciding
<1>3. HeardInv'
    BY <1>1 DEF HeardInv, Hears
<1>4. FlagInv' /\ FailedInv' /\ FoundInv'
    BY <1>1 DEF FlagInv, FailedInv, FoundInv, EarlyInv, HandlerInv, FlagsRight, Early, Rising
<1>5. StaleInv' /\ KnownInv'
    BY <1>1 DEF StaleInv, KnownInv, HandlerInv, Pending, InTip
<1> QED
    BY <1>2, <1>3, <1>4, <1>5

LEMMA CompareFirstBasis ==
    ASSUME BasisInv, CompareFirst
    PROVE  BasisKept
BY Typed, Parts, ReachedWhen, NothingRead, CompareFirstEffect DEF BasisKept, WorkerKeeps,
   FlagsKept, PhaseInv, ReadingInv, OpenInv, PlugInv, BuildInv, ToldInv

LEMMA CompareFirstCalm ==
    ASSUME RestInv, CompareFirst, rushed' = FALSE
    PROVE  CalmInv'
<1> USE Typed, Parts, ReachedWhen, NothingRead, CompareFirstEffect
    DEF WorkerKeeps, FlagsKept, CalmInv
<1>1. BasisInv /\ CalmInv
    BY DEF RestInv
<1>2. MeetInv' /\ ReadPlugInv' /\ EarlyInv' /\ BothInv'
    BY <1>1 DEF MeetInv, ReadPlugInv, EarlyInv, BothInv, Early, Begun, InTip, Deciding
<1>3. HeardInv'
    BY <1>1 DEF HeardInv
<1>4. FlagInv' /\ FailedInv' /\ FoundInv'
    BY <1>1 DEF FlagInv, FailedInv, FoundInv, MeetInv, FlagsRight
<1>5. StaleInv' /\ KnownInv'
    BY <1>1 DEF StaleInv, KnownInv, Pending
<1> QED
    BY <1>2, <1>3, <1>4, <1>5

LEMMA CompareSecondBasis ==
    ASSUME BasisInv, CompareSecond
    PROVE  BasisKept
BY Typed, Parts, ReachedWhen, NothingRead, CompareSecondEffect DEF BasisKept, WorkerKeeps,
   FlagsKept, PhaseInv, ReadingInv, OpenInv, PlugInv, BuildInv, ToldInv

LEMMA CompareSecondCalm ==
    ASSUME RestInv, CompareSecond, rushed' = FALSE
    PROVE  CalmInv'
<1> USE Typed, Parts, ReachedWhen, NothingRead, CompareSecondEffect
    DEF WorkerKeeps, FlagsKept, CalmInv
<1>1. BasisInv /\ CalmInv
    BY DEF RestInv
<1>2. MeetInv' /\ ReadPlugInv' /\ EarlyInv' /\ BothInv'
    BY <1>1 DEF MeetInv, ReadPlugInv, EarlyInv, BothInv, Early, Begun, InTip, Deciding
<1>3. HeardInv'
    BY <1>1 DEF HeardInv
<1>4. FlagInv' /\ FailedInv' /\ FoundInv'
    BY <1>1 DEF FlagInv, FailedInv, FoundInv, MeetInv, FlagsRight
<1>5. StaleInv' /\ KnownInv'
    BY <1>1 DEF StaleInv, KnownInv, Pending
<1> QED
    BY <1>2, <1>3, <1>4, <1>5

LEMMA AssignBasis ==
    ASSUME BasisInv, Assign
    PROVE  BasisKept
BY Typed, Parts, ReachedWhen, NothingRead, AssignEffect DEF BasisKept, WorkerKeeps,
   FlagsKept, PhaseInv, ReadingInv, OpenInv, PlugInv, BuildInv, ToldInv

(* The flags become those of the type that was found.                      *)
LEMMA AssignCalm ==
    ASSUME RestInv, Assign, rushed' = FALSE
    PROVE  CalmInv'
<1> USE Typed, Parts, ReachedWhen, NothingRead, AssignEffect
    DEF WorkerKeeps, FlagsKept, CalmInv
<1>1. BasisInv /\ CalmInv
    BY DEF RestInv
<1>2. MeetInv' /\ ReadPlugInv' /\ EarlyInv' /\ BothInv'
    BY <1>1 DEF MeetInv, ReadPlugInv, EarlyInv, BothInv, Early, Begun, InTip, Deciding
<1>3. HeardInv'
    BY <1>1 DEF HeardInv
<1>4. FlagInv' /\ FailedInv' /\ FoundInv'
    BY <1>1 DEF FlagInv, FailedInv, FoundInv, PhaseInv, ReadingInv, FlagsRight, TypeOf
<1>5. StaleInv' /\ KnownInv'
    BY <1>1 DEF StaleInv, KnownInv, FoundInv, ReadingInv, FlagsRight, Kinds, TypeOf
<1> QED
    BY <1>2, <1>3, <1>4, <1>5

LEMMA ApplyBasis ==
    ASSUME BasisInv, Apply
    PROVE  BasisKept
BY Typed, Parts, ReachedWhen, NothingRead, ApplyEffect DEF BasisKept, WorkerKeeps,
   FlagsKept, PhaseInv, ReadingInv, OpenInv, PlugInv, BuildInv, ToldInv

(* The flags become those of tip sense as it was read, or a detection begins. *)
LEMMA ApplyCalm ==
    ASSUME RestInv, Apply, rushed' = FALSE
    PROVE  CalmInv'
<1> USE Typed, Parts, ReachedWhen, NothingRead, ApplyEffect DEF WorkerKeeps, FlagsKept, CalmInv
<1>1. BasisInv /\ (rushed = FALSE => CalmInv)
    BY DEF RestInv
<1>2. MeetInv' /\ ReadPlugInv' /\ EarlyInv' /\ BothInv'
    BY <1>1 DEF MeetInv, ReadPlugInv, EarlyInv, BothInv, PlugInv, BuildInv, Early, Begun,
       InTip, Rising, Deciding, Reachable, TipOf
<1>3. HeardInv'
    BY <1>1 DEF HeardInv, Interrupt
<1>4. FlagInv' /\ FailedInv' /\ FoundInv'
    BY <1>1 DEF FlagInv, FailedInv, FoundInv, MeetInv, ReadPlugInv, PlugInv, HandlerInv,
       FlagsRight, Reachable
<1>5. StaleInv' /\ KnownInv'
    BY <1>1 DEF StaleInv, KnownInv, HandlerInv, FlagsRight, Pending, InTip, TipOf
<1> QED
    BY <1>2, <1>3, <1>4, <1>5

LEMMA ClearBasis ==
    ASSUME BasisInv, Clear
    PROVE  BasisKept
BY Typed, Parts, ReachedWhen, NothingRead, ClearEffect DEF BasisKept, WorkerKeeps,
   FlagsKept, PhaseInv, ReadingInv, OpenInv, PlugInv, BuildInv, ToldInv

LEMMA ClearCalm ==
    ASSUME RestInv, Clear, rushed' = FALSE
    PROVE  CalmInv'
<1> USE Typed, Parts, ReachedWhen, NothingRead, ClearEffect DEF WorkerKeeps, FlagsKept, CalmInv
<1>1. BasisInv /\ CalmInv
    BY DEF RestInv
<1>2. MeetInv' /\ ReadPlugInv' /\ EarlyInv' /\ BothInv'
    BY <1>1 DEF MeetInv, ReadPlugInv, EarlyInv, BothInv, Early, InTip
<1>3. HeardInv'
    BY <1>1 DEF HeardInv, Interrupt, MeetInv
<1>4. FlagInv' /\ FailedInv' /\ FoundInv'
    BY <1>1 DEF FlagInv, FailedInv, FoundInv, FlagsRight
<1>5. StaleInv' /\ KnownInv'
    BY <1>1 DEF StaleInv, KnownInv, Pending
<1> QED
    BY <1>2, <1>3, <1>4, <1>5

LEMMA StartBasis ==
    ASSUME BasisInv, Start
    PROVE  BasisKept
BY Typed, Parts, ReachedWhen, NothingRead, StartEffect DEF BasisKept, WorkerKeeps,
   FlagsKept, PhaseInv, ReadingInv, OpenInv, PlugInv, BuildInv, ToldInv

(* A detection that starts afresh, with nothing pending, ends the rush.    *)
LEMMA StartCalm ==
    ASSUME RestInv, Start, rushed' = FALSE
    PROVE  CalmInv'
<1> USE Typed, Parts, ReachedWhen, NothingRead, StartEffect DEF WorkerKeeps, FlagsKept, CalmInv
<1>1. BasisInv /\ (rushed = FALSE => CalmInv)
    BY DEF RestInv
<1>2. MeetInv' /\ ReadPlugInv' /\ EarlyInv' /\ BothInv'
    BY <1>1 DEF MeetInv, ReadPlugInv, EarlyInv, BothInv, ReadingInv, BuildInv, Early, InTip,
       Rising, Deciding
<1>3. HeardInv'
    BY <1>1 DEF HeardInv, Hears, Interrupt
<1>4. FlagInv' /\ FailedInv' /\ FoundInv'
    BY <1>1 DEF FlagInv, FailedInv, FoundInv, BuildInv, FlagsRight
<1>5. StaleInv' /\ KnownInv'
    BY <1>1 DEF StaleInv, KnownInv, Pending
<1> QED
    BY <1>2, <1>3, <1>4, <1>5

LEMMA UnmaskTipBasis ==
    ASSUME BasisInv, UnmaskTip
    PROVE  BasisKept
BY Typed, Parts, ReachedWhen, NothingRead, UnmaskTipEffect DEF BasisKept, WorkerKeeps,
   FlagsKept, PhaseInv, ReadingInv, OpenInv, PlugInv, BuildInv, ToldInv

(* Both interrupts may be let through now: the jack keeps still.           *)
LEMMA UnmaskTipCalm ==
    ASSUME RestInv, UnmaskTip, rushed' = FALSE
    PROVE  CalmInv'
<1> USE Typed, Parts, ReachedWhen, NothingRead, UnmaskTipEffect
    DEF WorkerKeeps, FlagsKept, CalmInv
<1>1. BasisInv /\ CalmInv
    BY DEF RestInv
<1>2. MeetInv' /\ ReadPlugInv' /\ EarlyInv' /\ BothInv'
    BY <1>1 DEF MeetInv, ReadPlugInv, EarlyInv, BothInv, Early, Begun, InTip, Deciding
<1>3. HeardInv'
    BY <1>1 DEF HeardInv, Hears
<1>4. FlagInv' /\ FailedInv' /\ FoundInv'
    BY <1>1 DEF FlagInv, FailedInv, FoundInv, FlagsRight
<1>5. StaleInv' /\ KnownInv'
    BY <1>1 DEF StaleInv, KnownInv, FlagsRight, Pending, InTip
<1> QED
    BY <1>2, <1>3, <1>4, <1>5

LEMMA ReportBasis ==
    ASSUME BasisInv, Report
    PROVE  BasisKept
BY Typed, Parts, ReachedWhen, NothingRead, ReportEffect DEF BasisKept, WorkerKeeps,
   FlagsKept, PhaseInv, ReadingInv, OpenInv, PlugInv, BuildInv, ToldInv

LEMMA ReportCalm ==
    ASSUME RestInv, Report, rushed' = FALSE
    PROVE  CalmInv'
<1> USE Typed, Parts, ReachedWhen, NothingRead, ReportEffect
    DEF WorkerKeeps, FlagsKept, CalmInv
<1>1. BasisInv /\ CalmInv
    BY DEF RestInv
<1>2. MeetInv' /\ ReadPlugInv' /\ EarlyInv' /\ BothInv'
    BY <1>1 DEF MeetInv, ReadPlugInv, EarlyInv, BothInv, Early, Begun, InTip, Deciding
<1>3. HeardInv'
    BY <1>1 DEF HeardInv
<1>4. FlagInv' /\ FailedInv' /\ FoundInv'
    BY <1>1 DEF FlagInv, FailedInv, FoundInv, FlagsRight
<1>5. StaleInv' /\ KnownInv'
    BY <1>1 DEF StaleInv, KnownInv, FlagsRight, Pending, InTip
<1> QED
    BY <1>2, <1>3, <1>4, <1>5

LEMMA SuspendBasis ==
    ASSUME BasisInv, Suspend
    PROVE  BasisKept
BY Typed, Parts, ReachedWhen, NothingRead, SuspendEffect DEF BasisKept, PowerKeeps,
   FlagsKept, PhaseInv, ReadingInv, OpenInv, PlugInv, BuildInv, ToldInv

(* A suspend that does not rush a handler finds none.                      *)
LEMMA SuspendCalm ==
    ASSUME RestInv, Suspend, rushed' = FALSE
    PROVE  CalmInv'
<1> USE Typed, Parts, ReachedWhen, NothingRead, SuspendEffect
    DEF PowerKeeps, FlagsKept, CalmInv
<1>1. BasisInv /\ CalmInv
    BY DEF RestInv
<1>2. MeetInv' /\ ReadPlugInv' /\ EarlyInv' /\ BothInv'
    BY <1>1 DEF MeetInv, ReadPlugInv, EarlyInv, BothInv, Early, InTip, Rising
<1>3. HeardInv'
    BY <1>1 DEF HeardInv
<1>4. FlagInv' /\ FailedInv' /\ FoundInv'
    BY <1>1 DEF FlagInv, FailedInv, FoundInv
<1>5. StaleInv' /\ KnownInv'
    BY <1>1 DEF StaleInv, KnownInv
<1> QED
    BY <1>2, <1>3, <1>4, <1>5

LEMMA PowerDownBasis ==
    ASSUME BasisInv, PowerDown
    PROVE  BasisKept
BY Typed, Parts, ReachedWhen, NothingRead, PowerDownEffect DEF BasisKept, PowerKeeps,
   FlagsKept, PhaseInv, ReadingInv, OpenInv, PlugInv, BuildInv, ToldInv

(* The flags are cleared before the reset, and nothing is left raised.     *)
LEMMA PowerDownCalm ==
    ASSUME RestInv, PowerDown, rushed' = FALSE
    PROVE  CalmInv'
<1> USE Typed, Parts, ReachedWhen, NothingRead, PowerDownEffect
    DEF PowerKeeps, FlagsKept, CalmInv
<1>1. BasisInv /\ CalmInv
    BY DEF RestInv
<1>2. MeetInv' /\ ReadPlugInv' /\ EarlyInv' /\ BothInv'
    BY <1>1 DEF MeetInv, ReadPlugInv, EarlyInv, BothInv, ReadingInv, Early, Begun, InTip,
       Rising, Deciding
<1>3. HeardInv'
    BY <1>1 DEF HeardInv, Interrupt
<1>4. FlagInv' /\ FailedInv' /\ FoundInv'
    BY <1>1 DEF FlagInv, FailedInv, FoundInv, FlagsRight
<1>5. StaleInv' /\ KnownInv'
    BY <1>1 DEF StaleInv, KnownInv
<1> QED
    BY <1>2, <1>3, <1>4, <1>5

LEMMA ReleaseResetBasis ==
    ASSUME BasisInv, ReleaseReset
    PROVE  BasisKept
BY Typed, Parts, ReachedWhen, NothingRead, ReleaseResetEffect DEF BasisKept, PowerKeeps,
   FlagsKept, PhaseInv, ReadingInv, OpenInv, PlugInv, BuildInv, ToldInv

LEMMA ReleaseResetCalm ==
    ASSUME RestInv, ReleaseReset, rushed' = FALSE
    PROVE  CalmInv'
<1> USE Typed, Parts, ReachedWhen, NothingRead, ReleaseResetEffect
    DEF PowerKeeps, FlagsKept, CalmInv
<1>1. BasisInv /\ CalmInv
    BY DEF RestInv
<1>2. MeetInv' /\ ReadPlugInv' /\ EarlyInv' /\ BothInv'
    BY <1>1 DEF MeetInv, ReadPlugInv, EarlyInv, BothInv, PhaseInv, Begun, Deciding
<1>3. HeardInv'
    BY <1>1 DEF HeardInv
<1>4. FlagInv' /\ FailedInv' /\ FoundInv'
    BY <1>1 DEF FlagInv, FailedInv, FoundInv
<1>5. StaleInv' /\ KnownInv'
    BY <1>1 DEF StaleInv, KnownInv
<1> QED
    BY <1>2, <1>3, <1>4, <1>5

LEMMA InitialiseBasis ==
    ASSUME BasisInv, Initialise
    PROVE  BasisKept
BY Typed, Parts, ReachedWhen, NothingRead, InitialiseEffect DEF BasisKept, PowerKeeps,
   FlagsKept, PhaseInv, ReadingInv, OpenInv, PlugInv, BuildInv, ToldInv, Hears

(* The detection of before the suspend is gone, but for one the worker begins. *)
LEMMA InitialiseCalm ==
    ASSUME RestInv, Initialise, rushed' = FALSE
    PROVE  CalmInv'
<1> USE Typed, Parts, ReachedWhen, NothingRead, InitialiseEffect
    DEF PowerKeeps, FlagsKept, CalmInv
<1>1. BasisInv /\ CalmInv
    BY DEF RestInv
<1>2. MeetInv' /\ ReadPlugInv' /\ EarlyInv' /\ BothInv'
    BY <1>1 DEF MeetInv, ReadPlugInv, EarlyInv, BothInv, Early, Begun, InTip, Rising
<1>3. HeardInv'
    BY <1>1 DEF HeardInv, Interrupt
<1>4. FlagInv' /\ FailedInv' /\ FoundInv'
    BY <1>1 DEF FlagInv, FailedInv, FoundInv, FlagsRight
<1>5. StaleInv' /\ KnownInv'
    BY <1>1 DEF StaleInv, KnownInv
<1> QED
    BY <1>2, <1>3, <1>4, <1>5

LEMMA EnableJackDetectBasis ==
    ASSUME BasisInv, EnableJackDetect
    PROVE  BasisKept
BY Typed, Parts, ReachedWhen, NothingRead, EnableJackDetectEffect DEF BasisKept,
   PowerKeeps, FlagsKept, PhaseInv, ReadingInv, OpenInv, PlugInv, BuildInv, ToldInv, Hears

LEMMA EnableJackDetectCalm ==
    ASSUME RestInv, EnableJackDetect, rushed' = FALSE
    PROVE  CalmInv'
<1> USE Typed, Parts, ReachedWhen, NothingRead, EnableJackDetectEffect
    DEF PowerKeeps, FlagsKept, CalmInv
<1>1. BasisInv /\ CalmInv
    BY DEF RestInv
<1>2. MeetInv' /\ ReadPlugInv' /\ EarlyInv' /\ BothInv'
    BY <1>1 DEF MeetInv, ReadPlugInv, EarlyInv, BothInv, Early, Begun, InTip, Rising
<1>3. HeardInv'
    BY <1>1 DEF HeardInv, Hears
<1>4. FlagInv' /\ FailedInv' /\ FoundInv'
    BY <1>1 DEF FlagInv, FailedInv, FoundInv, FlagsRight
<1>5. StaleInv' /\ KnownInv'
    BY <1>1 DEF StaleInv, KnownInv
<1> QED
    BY <1>2, <1>3, <1>4, <1>5

LEMMA EnableUrBasis ==
    ASSUME BasisInv, EnableUr
    PROVE  BasisKept
BY Typed, Parts, ReachedWhen, NothingRead, EnableUrEffect DEF BasisKept, PowerKeeps,
   FlagsKept, PhaseInv, ReadingInv, OpenInv, PlugInv, BuildInv, ToldInv

(* With the responses a resume goes on to its detection, or trusts a jack it knows. *)
LEMMA EnableUrCalm ==
    ASSUME RestInv, EnableUr, rushed' = FALSE
    PROVE  CalmInv'
<1> USE Typed, Parts, ReachedWhen, NothingRead, EnableUrEffect
    DEF PowerKeeps, FlagsKept, CalmInv
<1>1. BasisInv /\ CalmInv
    BY DEF RestInv
<1>2. MeetInv' /\ ReadPlugInv' /\ EarlyInv' /\ BothInv'
    BY <1>1 DEF MeetInv, ReadPlugInv, EarlyInv, BothInv, Early, Begun, InTip, Rising
<1>3. HeardInv'
    BY <1>1 DEF HeardInv, Interrupt, EarlyInv, FlagInv, BuildInv, Early, Rising
<1>4. FlagInv' /\ FailedInv' /\ FoundInv'
    BY <1>1 DEF FlagInv, FailedInv, FoundInv, PhaseInv, ReadingInv, BuildInv
<1>5. StaleInv' /\ KnownInv'
    BY <1>1 DEF StaleInv, KnownInv, EarlyInv, FlagInv, PhaseInv, BuildInv, HandlerInv,
       FlagsRight, Pending, Early, InTip, Rising, TipOf
<1> QED
    BY <1>2, <1>3, <1>4, <1>5

LEMMA BuildBasis ==
    ASSUME BasisInv, Build
    PROVE  BasisKept
BY Typed, Parts, ReachedWhen, NothingRead, BuildEffect DEF BasisKept, PowerKeeps,
   FlagsKept, PhaseInv, ReadingInv, OpenInv, PlugInv, BuildInv, ToldInv

(* The building of the controls goes on as a resume does.                  *)
LEMMA BuildCalm ==
    ASSUME RestInv, Build, rushed' = FALSE
    PROVE  CalmInv'
<1> USE Typed, Parts, ReachedWhen, NothingRead, BuildEffect DEF PowerKeeps, FlagsKept, CalmInv
<1>1. BasisInv /\ CalmInv
    BY DEF RestInv
<1>2. MeetInv' /\ ReadPlugInv' /\ EarlyInv' /\ BothInv'
    BY <1>1 DEF MeetInv, ReadPlugInv, EarlyInv, BothInv, Early, Begun, InTip
<1>3. HeardInv'
    BY <1>1 DEF HeardInv
<1>4. FlagInv' /\ FailedInv' /\ FoundInv'
    BY <1>1 DEF FlagInv, FailedInv, FoundInv
<1>5. StaleInv' /\ KnownInv'
    BY <1>1 DEF StaleInv, KnownInv, FlagInv, FlagsRight, InTip
<1> QED
    BY <1>2, <1>3, <1>4, <1>5

LEMMA ClearResumedBasis ==
    ASSUME BasisInv, ClearResumed
    PROVE  BasisKept
BY Typed, Parts, ReachedWhen, NothingRead, ClearResumedEffect DEF BasisKept, PowerKeeps,
   FlagsKept, PhaseInv, ReadingInv, OpenInv, PlugInv, BuildInv, ToldInv

(* The masks are cleared under a handler, if there is one.                 *)
LEMMA ClearResumedCalm ==
    ASSUME RestInv, ClearResumed, rushed' = FALSE
    PROVE  CalmInv'
<1> USE Typed, Parts, ReachedWhen, NothingRead, ClearResumedEffect
    DEF PowerKeeps, FlagsKept, CalmInv
<1>1. BasisInv /\ CalmInv
    BY DEF RestInv
<1>2. MeetInv' /\ ReadPlugInv' /\ EarlyInv' /\ BothInv'
    BY <1>1 DEF MeetInv, ReadPlugInv, EarlyInv, BothInv, Early, Begun, InTip, Rising
<1>3. HeardInv'
    BY <1>1 DEF HeardInv, Interrupt
<1>4. FlagInv' /\ FailedInv' /\ FoundInv'
    BY <1>1 DEF FlagInv, FailedInv, FoundInv, FlagsRight
<1>5. StaleInv' /\ KnownInv'
    BY <1>1 DEF StaleInv, KnownInv
<1> QED
    BY <1>2, <1>3, <1>4, <1>5

LEMMA StartResumedBasis ==
    ASSUME BasisInv, StartResumed
    PROVE  BasisKept
BY Typed, Parts, ReachedWhen, NothingRead, StartResumedEffect DEF BasisKept, PowerKeeps,
   FlagsKept, PhaseInv, ReadingInv, OpenInv, PlugInv, BuildInv, ToldInv

(* The detection of a resume may run beside one of the worker.             *)
LEMMA StartResumedCalm ==
    ASSUME RestInv, StartResumed, rushed' = FALSE
    PROVE  CalmInv'
<1> USE Typed, Parts, ReachedWhen, NothingRead, StartResumedEffect
    DEF PowerKeeps, FlagsKept, CalmInv
<1>1. BasisInv /\ (rushed = FALSE => CalmInv)
    BY DEF RestInv
<1>2. MeetInv' /\ ReadPlugInv' /\ EarlyInv' /\ BothInv'
    BY <1>1 DEF MeetInv, ReadPlugInv, EarlyInv, BothInv, BuildInv, Early, Begun, InTip,
       Rising, Deciding
<1>3. HeardInv'
    BY <1>1 DEF HeardInv, Hears, Interrupt, EarlyInv
<1>4. FlagInv' /\ FailedInv' /\ FoundInv'
    BY <1>1 DEF FlagInv, FailedInv, FoundInv, BuildInv
<1>5. StaleInv' /\ KnownInv'
    BY <1>1 DEF StaleInv, KnownInv, EarlyInv, Pending, Early, Rising
<1> QED
    BY <1>2, <1>3, <1>4, <1>5

LEMMA ReportResumedBasis ==
    ASSUME BasisInv, ReportResumed
    PROVE  BasisKept
BY Typed, Parts, ReachedWhen, NothingRead, ReportResumedEffect DEF BasisKept, PowerKeeps,
   FlagsKept, PhaseInv, ReadingInv, OpenInv, PlugInv, BuildInv, ToldInv

LEMMA ReportResumedCalm ==
    ASSUME RestInv, ReportResumed, rushed' = FALSE
    PROVE  CalmInv'
<1> USE Typed, Parts, ReachedWhen, NothingRead, ReportResumedEffect
    DEF PowerKeeps, FlagsKept, CalmInv
<1>1. BasisInv /\ CalmInv
    BY DEF RestInv
<1>2. MeetInv' /\ ReadPlugInv' /\ EarlyInv' /\ BothInv'
    BY <1>1 DEF MeetInv, ReadPlugInv, EarlyInv, BothInv, Early, Begun, InTip, Rising
<1>3. HeardInv'
    BY <1>1 DEF HeardInv
<1>4. FlagInv' /\ FailedInv' /\ FoundInv'
    BY <1>1 DEF FlagInv, FailedInv, FoundInv, FlagsRight
<1>5. StaleInv' /\ KnownInv'
    BY <1>1 DEF StaleInv, KnownInv, FlagsRight, Pending, InTip
<1> QED
    BY <1>2, <1>3, <1>4, <1>5

-----------------------------------------------------------------------------
(* The invariant, and what follows from it.                                *)

LEMMA BasisStep ==
    ASSUME BasisInv, [Next]_vars, ~SwitchAsleep
    PROVE  BasisInv'
<1>1. JackInv'
    BY TypeStep, ResetStep, WorkerStep, PowerStep, OtherStep DEF BasisInv, JackInv, Next
<1>2. BasisKept
    BY MoveBasis, TipSensedBasis, DetectedBasis, AsideBasis, DropBasis, RespondBasis,
       ReadStatusBasis, ReadTipBasis, MaskDetectionBasis, CompareFirstBasis,
       CompareSecondBasis, AssignBasis, ApplyBasis, ClearBasis, StartBasis, UnmaskTipBasis,
       ReportBasis, SuspendBasis, PowerDownBasis, ReleaseResetBasis, InitialiseBasis,
       EnableJackDetectBasis, EnableUrBasis, BuildBasis, ClearResumedBasis, StartResumedBasis,
       ReportResumedBasis
       DEF Next, Environment, Hardware, Worker, Resume
<1> QED
    BY <1>1, <1>2 DEF BasisInv, BasisKept

LEMMA CalmStep ==
    ASSUME RestInv, [Next]_vars, rushed' = FALSE
    PROVE  CalmInv'
BY MoveCalm, TipSensedCalm, DetectedCalm, AsideCalm, DropCalm, RespondCalm, ReadStatusCalm,
       ReadTipCalm, MaskDetectionCalm, CompareFirstCalm, CompareSecondCalm, AssignCalm,
       ApplyCalm, ClearCalm, StartCalm, UnmaskTipCalm, ReportCalm, SuspendCalm, PowerDownCalm,
       ReleaseResetCalm, InitialiseCalm, EnableJackDetectCalm, EnableUrCalm, BuildCalm,
       ClearResumedCalm, StartResumedCalm, ReportResumedCalm
   DEF Next, Environment, Hardware, Worker, Resume

LEMMA RestInit == Init => RestInv
<1> SUFFICES ASSUME Init
             PROVE  RestInv
    OBVIOUS
<1>1. JackInv
    BY TypeInit DEF Init, JackInv, HandlerInv, WatchInv, ResetInv, Nothing, Up, NoPut
<1>2. PhaseInv /\ ReadingInv /\ OpenInv /\ PlugInv /\ BuildInv /\ ToldInv
    BY NothingRead DEF Init, OutOfReset, PhaseInv, ReadingInv, OpenInv, PlugInv, BuildInv, ToldInv
<1>3. MeetInv /\ ReadPlugInv /\ EarlyInv /\ BothInv /\ HeardInv
    BY NothingRead DEF Init, OutOfReset, MeetInv, ReadPlugInv, EarlyInv, BothInv, HeardInv, Begun,
       Deciding, Interrupt
<1>4. FlagInv /\ FailedInv /\ FoundInv /\ StaleInv /\ KnownInv
    BY NothingRead DEF Init, OutOfReset, FlagInv, FailedInv, FoundInv, StaleInv, KnownInv
<1> QED
    BY <1>1, <1>2, <1>3, <1>4 DEF RestInv, BasisInv, CalmInv

LEMMA RestStep ==
    ASSUME RestInv, [Next]_vars, ~SwitchAsleep
    PROVE  RestInv'
<1>1. BasisInv'
    BY BasisStep DEF RestInv
<1>2. rushed' = FALSE => CalmInv'
    BY CalmStep
<1> QED
    BY <1>1, <1>2 DEF RestInv

(* At rest with something still to be seen tip sense is raised; the codec  *)
(* watches, so its interrupt is raised and has a response.                 *)
LEMMA RestRight == RestInv => JackRight
<1> SUFFICES ASSUME RestInv, Settled, rushed = FALSE
             PROVE  Known(jack)
    BY Typed DEF RestInv, JackRight
<1>1. BasisInv /\ CalmInv
    BY DEF RestInv
<1>2. /\ worker = "idle" /\ responses = 0 /\ chip.detecting = FALSE /\ chip.done = FALSE
      /\ pm = "awake" /\ build_ctrl_done = TRUE /\ InTip
    BY <1>1, Typed DEF Settled, Busy, InTip
<1>3. chip.ts = FALSE
  <2>1. chip.ts_open = TRUE
      BY <1>1, <1>2, Typed, Parts DEF WatchInv, Up, Restoring, Watches
  <2>2. ur = TRUE
      BY <1>1, <1>2, Parts DEF PhaseInv
  <2>3. ~Interrupt(chip)
      BY <1>1, <1>2, <2>2 DEF CalmInv, HeardInv
  <2> QED
      BY <1>1, <2>1, <2>3, Typed DEF Interrupt
<1>4. FlagsRight
    BY <1>1, <1>2, <1>3 DEF CalmInv, KnownInv, Pending
<1>5. reported = [hp |-> hp_jack_in, mic |-> mic_jack_in]
    BY <1>1, <1>2, Parts DEF ToldInv
<1> QED
    BY <1>1, <1>4, <1>5, Typed DEF Known, FlagsRight

LEMMA RestHears == RestInv => NeverDeaf
<1> SUFFICES ASSUME RestInv, pm = "awake", build_ctrl_done = TRUE, worker = "idle", rushed = FALSE,
                    Interrupt(chip)
             PROVE  responses > 0
    BY Typed DEF RestInv, NeverDeaf
<1>1. BasisInv /\ CalmInv
    BY DEF RestInv
<1>2. ur = TRUE
    BY <1>1, Parts DEF PhaseInv
<1> QED
    BY <1>1, <1>2 DEF CalmInv, HeardInv

(* While the speaker switch is thrown only when the codec is awake: once   *)
(* everything has come to rest the driver's flags are what is in the jack, *)
(* and so is what was reported to user space, after any moves, suspends    *)
(* and resumes that did not rush a handler or a detection, and with any    *)
(* number of responses waiting.                                            *)
THEOREM JackAlwaysRight ==
    ASSUME ~SwitchAsleep
    PROVE  Spec => []JackRight
<1>1. RestInv /\ [Next]_vars => RestInv'
    BY RestStep
<1> QED
    BY RestInit, <1>1, RestRight, PTL DEF Spec

(* Under the same assumption an interrupt that an awake codec holds raised *)
(* has a response waiting whenever no handler runs: its line, which makes  *)
(* no second edge, never leaves the driver deaf to the jack.               *)
THEOREM NeverGoesDeaf ==
    ASSUME ~SwitchAsleep
    PROVE  Spec => []NeverDeaf
<1>1. RestInv /\ [Next]_vars => RestInv'
    BY RestStep
<1> QED
    BY RestInit, <1>1, RestHears, PTL DEF Spec

=============================================================================
