------------------------- MODULE HeadsetJack_proofs -------------------------
(***************************************************************************)
(* What the headset jack keeps whatever the jack, the chip and the streams *)
(* do, for every LoopMax: an inductive invariant over the interrupt masks  *)
(* and the handler's point, and the two properties that follow from it.    *)
(***************************************************************************)
EXTENDS HeadsetJack, TLAPS

-----------------------------------------------------------------------------
(* Types.                                                                  *)

JackBits ==
    /\ plugged \in BOOLEAN /\ mike \in BOOLEAN
    /\ detecting \in BOOLEAN /\ sensed_mike \in BOOLEAN
    /\ armed \in BOOLEAN /\ raised \in BOOLEAN /\ have_mike \in BOOLEAN

StreamBits ==
    /\ playing \in BOOLEAN /\ capturing \in BOOLEAN
    /\ headset_play_format_setup_needed \in BOOLEAN
    /\ headset_capture_format_setup_needed \in BOOLEAN

PathBits ==
    /\ amps \in BOOLEAN /\ hs \in BOOLEAN /\ intmic \in BOOLEAN /\ hsmic \in BOOLEAN
    /\ inputs \in BOOLEAN

ReportBits == reported \in BOOLEAN /\ dirty \in BOOLEAN /\ crossed \in BOOLEAN

Registered == status \subseteq Events /\ unmasked \subseteq Events

Counted ==
    /\ jack_present \in 0 .. 2 /\ headset_enable \in {0, 1}
    /\ play_init_count \in {0, 1} /\ capture_init_count \in {0, 1}
    /\ input_path \in {"intmic", "hsmic"}

Pointed ==
    /\ h \in Points /\ got \subseteq Events /\ loopcnt \in 0 .. LoopMax
    /\ pcm \in {"idle", "play", "stop", "capture", "capstop"}

(* Each of these is disturbed by the actions listed first; the others      *)
(* leave its variables alone.                                              *)
LEMMA JackBitsStep == JackBits /\ [Next]_vars => JackBits'
<1> SUFFICES ASSUME JackBits, [Next]_vars
             PROVE  JackBits'
    OBVIOUS
<1> USE DEF JackBits, chip, spec, stream, setup, paths, seen, ctl
<1>1. CASE Plug
    BY <1>1, Zenon DEF Plug, Registers
<1>2. CASE Unplug
    BY <1>2, Zenon DEF Unplug, Registers
<1>3. CASE TypeDetected
    BY <1>3, Zenon DEF TypeDetected, Registers
<1>4. CASE ButtonDetected
    BY <1>4, Zenon DEF ButtonDetected, Registers
<1>5. CASE Respond
    BY <1>5, Zenon DEF Respond
<1>6. CASE ReadStatus
    BY <1>6, Zenon DEF ReadStatus, Registers
<1>7. CASE HandleDetect
    BY <1>7, Zenon DEF HandleDetect, Registers
<1>8. CASE WatchUnplug
    BY <1>8, Zenon DEF WatchUnplug, Registers
<1>9. CASE TypeDetect
    BY <1>9, Zenon DEF TypeDetect, Registers
<1>10. CASE ButtonDetect
    BY <1>10, Zenon DEF ButtonDetect, Registers
<1>11. CASE PluginContinued
    BY <1>11, Zenon DEF PluginContinued, Registers
<1>12. CASE WatchPlug
    BY <1>12, Zenon DEF WatchPlug, Registers
<1>13. CASE ResetHeadset
    BY <1>13, Zenon DEF ResetHeadset
<1>14. CASE ReadAgain \/ Dispatch \/ CompleteDetect \/ Report \/ UnplugEvent
            \/ SenseUnplugged \/ Speakers \/ InternalMike \/ PlayPrepare \/ PlayCleanup
            \/ CapturePrepare \/ CaptureCleanup \/ Hook \/ UNCHANGED vars
    BY <1>14, Zenon DEF ReadAgain, Dispatch, CompleteDetect, Report, UnplugEvent,
       SenseUnplugged, Speakers, InternalMike, PlayPrepare, PlayCleanup, CapturePrepare,
       CaptureCleanup, Hook, vars, PcmMay
<1> QED
    BY <1>1, <1>2, <1>3, <1>4, <1>5, <1>6, <1>7, <1>8, <1>9, <1>10, <1>11, <1>12, <1>13,
       <1>14 DEF Next, JackMove, ChipStep, HandlerStep, PcmCall

LEMMA StreamBitsStep == StreamBits /\ [Next]_vars => StreamBits'
<1> SUFFICES ASSUME StreamBits, [Next]_vars
             PROVE  StreamBits'
    OBVIOUS
<1> USE DEF StreamBits, chip, spec, stream, setup, paths, seen, ctl
<1>1. CASE ResetHeadset
    BY <1>1, Zenon DEF ResetHeadset
<1>2. CASE PlayPrepare
    BY <1>2, Zenon DEF PlayPrepare, PcmMay
<1>3. CASE PlayCleanup
    BY <1>3, Zenon DEF PlayCleanup, PcmMay
<1>4. CASE CapturePrepare
    BY <1>4, Zenon DEF CapturePrepare, PcmMay
<1>5. CASE CaptureCleanup
    BY <1>5, Zenon DEF CaptureCleanup, PcmMay
<1>6. CASE Hook
    BY <1>6, Zenon DEF Hook
<1>7. CASE Plug \/ Unplug \/ TypeDetected \/ ButtonDetected \/ Respond \/ ReadStatus
           \/ ReadAgain \/ Dispatch \/ HandleDetect \/ CompleteDetect \/ WatchUnplug
           \/ TypeDetect \/ ButtonDetect \/ PluginContinued \/ Report \/ UnplugEvent
           \/ WatchPlug \/ SenseUnplugged \/ Speakers \/ InternalMike \/ UNCHANGED vars
    BY <1>7, Zenon DEF Plug, Unplug, TypeDetected, ButtonDetected, Respond, ReadStatus,
       ReadAgain, Dispatch, HandleDetect, CompleteDetect, WatchUnplug, TypeDetect,
       ButtonDetect, PluginContinued, Report, UnplugEvent, WatchPlug, SenseUnplugged,
       Speakers, InternalMike, vars, PcmMay
<1> QED
    BY <1>1, <1>2, <1>3, <1>4, <1>5, <1>6, <1>7 DEF Next, JackMove, ChipStep, HandlerStep,
       PcmCall

LEMMA PathBitsStep == PathBits /\ [Next]_vars => PathBits'
<1> SUFFICES ASSUME PathBits, [Next]_vars
             PROVE  PathBits'
    OBVIOUS
<1> USE DEF PathBits, chip, spec, stream, setup, paths, seen, ctl
<1>1. CASE PluginContinued
    BY <1>1, Zenon DEF PluginContinued
<1>2. CASE SenseUnplugged
    BY <1>2, Zenon DEF SenseUnplugged
<1>3. CASE Speakers
    BY <1>3, Zenon DEF Speakers
<1>4. CASE InternalMike
    BY <1>4, Zenon DEF InternalMike
<1>5. CASE PlayPrepare
    BY <1>5, Zenon DEF PlayPrepare, PcmMay
<1>6. CASE PlayCleanup
    BY <1>6, Zenon DEF PlayCleanup, PcmMay
<1>7. CASE CapturePrepare
    BY <1>7, Zenon DEF CapturePrepare, PcmMay
<1>8. CASE CaptureCleanup
    BY <1>8, Zenon DEF CaptureCleanup, PcmMay
<1>9. CASE Plug \/ Unplug \/ TypeDetected \/ ButtonDetected \/ Respond \/ ReadStatus
           \/ ReadAgain \/ Dispatch \/ HandleDetect \/ CompleteDetect \/ WatchUnplug
           \/ TypeDetect \/ ButtonDetect \/ Report \/ UnplugEvent \/ WatchPlug
           \/ ResetHeadset \/ Hook \/ UNCHANGED vars
    BY <1>9, Zenon DEF Plug, Unplug, TypeDetected, ButtonDetected, Respond, ReadStatus,
       ReadAgain, Dispatch, HandleDetect, CompleteDetect, WatchUnplug, TypeDetect,
       ButtonDetect, Report, UnplugEvent, WatchPlug, ResetHeadset, Hook, vars, PcmMay
<1> QED
    BY <1>1, <1>2, <1>3, <1>4, <1>5, <1>6, <1>7, <1>8, <1>9 DEF Next, JackMove, ChipStep,
       HandlerStep, PcmCall

LEMMA ReportBitsStep == ReportBits /\ [Next]_vars => ReportBits'
<1> SUFFICES ASSUME ReportBits, [Next]_vars
             PROVE  ReportBits'
    OBVIOUS
<1> USE DEF ReportBits, chip, spec, stream, setup, paths, seen, ctl
<1>1. CASE Dispatch
    BY <1>1, Zenon DEF Dispatch
<1>2. CASE TypeDetect
    BY <1>2, Zenon DEF TypeDetect
<1>3. CASE ButtonDetect
    BY <1>3, Zenon DEF ButtonDetect
<1>4. CASE Report
    BY <1>4, Zenon DEF Report
<1>5. CASE SenseUnplugged
    BY <1>5, Zenon DEF SenseUnplugged
<1>6. CASE PlayPrepare
    BY <1>6, Zenon DEF PlayPrepare, PcmMay
<1>7. CASE PlayCleanup
    BY <1>7, Zenon DEF PlayCleanup, PcmMay
<1>8. CASE CapturePrepare
    BY <1>8, Zenon DEF CapturePrepare, PcmMay
<1>9. CASE CaptureCleanup
    BY <1>9, Zenon DEF CaptureCleanup, PcmMay
<1>10. CASE Plug \/ Unplug \/ TypeDetected \/ ButtonDetected \/ Respond \/ ReadStatus
            \/ ReadAgain \/ HandleDetect \/ CompleteDetect \/ WatchUnplug
            \/ PluginContinued \/ UnplugEvent \/ WatchPlug \/ Speakers \/ InternalMike
            \/ ResetHeadset \/ Hook \/ UNCHANGED vars
    BY <1>10, Zenon DEF Plug, Unplug, TypeDetected, ButtonDetected, Respond, ReadStatus,
       ReadAgain, HandleDetect, CompleteDetect, WatchUnplug, PluginContinued, UnplugEvent,
       WatchPlug, Speakers, InternalMike, ResetHeadset, Hook, vars, PcmMay
<1> QED
    BY <1>1, <1>2, <1>3, <1>4, <1>5, <1>6, <1>7, <1>8, <1>9, <1>10 DEF Next, JackMove,
       ChipStep, HandlerStep, PcmCall

LEMMA RegisteredStep == Registered /\ [Next]_vars => Registered'
<1> SUFFICES ASSUME Registered, [Next]_vars
             PROVE  Registered'
    OBVIOUS
<1> USE DEF Registered, chip, spec, stream, setup, paths, seen, ctl, Events
<1>1. CASE Plug
    BY <1>1 DEF Plug, Registers
<1>2. CASE Unplug
    BY <1>2 DEF Unplug, Registers
<1>3. CASE TypeDetected
    BY <1>3 DEF TypeDetected, Registers
<1>4. CASE ButtonDetected
    BY <1>4 DEF ButtonDetected, Registers
<1>5. CASE ReadStatus
    BY <1>5 DEF ReadStatus, Registers
<1>6. CASE HandleDetect
    BY <1>6 DEF HandleDetect, Registers
<1>7. CASE WatchUnplug
    BY <1>7 DEF WatchUnplug, Registers, MaskUnplug
<1>8. CASE TypeDetect
    BY <1>8 DEF TypeDetect, Registers
<1>9. CASE ButtonDetect
    BY <1>9 DEF ButtonDetect, Registers
<1>10. CASE PluginContinued
    BY <1>10 DEF PluginContinued, Registers
<1>11. CASE WatchPlug
    BY <1>11 DEF WatchPlug, Registers, MaskPlug, DetectionOff
<1>12. CASE Respond \/ ReadAgain \/ Dispatch \/ CompleteDetect \/ Report \/ UnplugEvent
            \/ SenseUnplugged \/ Speakers \/ InternalMike \/ ResetHeadset \/ PlayPrepare
            \/ PlayCleanup \/ CapturePrepare \/ CaptureCleanup \/ Hook \/ UNCHANGED vars
    BY <1>12, Zenon DEF Respond, ReadAgain, Dispatch, CompleteDetect, Report, UnplugEvent,
       SenseUnplugged, Speakers, InternalMike, ResetHeadset, PlayPrepare, PlayCleanup,
       CapturePrepare, CaptureCleanup, Hook, vars, PcmMay
<1> QED
    BY <1>1, <1>2, <1>3, <1>4, <1>5, <1>6, <1>7, <1>8, <1>9, <1>10, <1>11, <1>12 DEF Next,
       JackMove, ChipStep, HandlerStep, PcmCall

LEMMA CountedStep == Counted /\ [Next]_vars => Counted'
<1> SUFFICES ASSUME Counted, [Next]_vars
             PROVE  Counted'
    OBVIOUS
<1> USE DEF Counted, chip, spec, stream, setup, paths, seen, ctl
<1>1. CASE HandleDetect
    BY <1>1 DEF HandleDetect
<1>2. CASE CompleteDetect
    BY <1>2 DEF CompleteDetect
<1>3. CASE PluginContinued
    BY <1>3 DEF PluginContinued, Other
<1>4. CASE SenseUnplugged
    BY <1>4 DEF SenseUnplugged
<1>5. CASE InternalMike
    BY <1>5 DEF InternalMike, Other
<1>6. CASE ResetHeadset
    BY <1>6 DEF ResetHeadset
<1>7. CASE PlayPrepare
    BY <1>7 DEF PlayPrepare
<1>8. CASE CapturePrepare
    BY <1>8 DEF CapturePrepare
<1>9. CASE Hook
    BY <1>9 DEF Hook
<1>10. CASE Plug \/ Unplug \/ TypeDetected \/ ButtonDetected \/ Respond \/ ReadStatus
            \/ ReadAgain \/ Dispatch \/ WatchUnplug \/ TypeDetect \/ ButtonDetect \/ Report
            \/ UnplugEvent \/ WatchPlug \/ Speakers \/ PlayCleanup \/ CaptureCleanup
            \/ UNCHANGED vars
    BY <1>10, Zenon DEF Plug, Unplug, TypeDetected, ButtonDetected, Respond, ReadStatus,
       ReadAgain, Dispatch, WatchUnplug, TypeDetect, ButtonDetect, Report, UnplugEvent,
       WatchPlug, Speakers, PlayCleanup, CaptureCleanup, vars, PcmMay
<1> QED
    BY <1>1, <1>2, <1>3, <1>4, <1>5, <1>6, <1>7, <1>8, <1>9, <1>10 DEF Next, JackMove,
       ChipStep, HandlerStep, PcmCall

LEMMA PointedStep == Pointed /\ Registered /\ [Next]_vars => Pointed'
<1> SUFFICES ASSUME Pointed, Registered, [Next]_vars
             PROVE  Pointed'
    OBVIOUS
<1> USE DEF Pointed, Registered, chip, spec, stream, setup, paths, seen, ctl, Points
<1>1. CASE Respond
    BY <1>1, LoopAssumption DEF Respond
<1>2. CASE ReadStatus
    BY <1>2, LoopAssumption DEF ReadStatus
<1>3. CASE ReadAgain
    BY <1>3, LoopAssumption DEF ReadAgain, LoopLeft
<1>4. CASE Dispatch
    BY <1>4, LoopAssumption DEF Dispatch, Action
<1>5. CASE HandleDetect
    BY <1>5, LoopAssumption DEF HandleDetect
<1>6. CASE CompleteDetect
    BY <1>6, LoopAssumption DEF CompleteDetect
<1>7. CASE WatchUnplug
    BY <1>7, LoopAssumption DEF WatchUnplug
<1>8. CASE TypeDetect
    BY <1>8, LoopAssumption DEF TypeDetect
<1>9. CASE ButtonDetect
    BY <1>9, LoopAssumption DEF ButtonDetect
<1>10. CASE PluginContinued
    BY <1>10, LoopAssumption DEF PluginContinued
<1>11. CASE Report
    BY <1>11, LoopAssumption DEF Report
<1>12. CASE UnplugEvent
    BY <1>12, LoopAssumption DEF UnplugEvent
<1>13. CASE WatchPlug
    BY <1>13, LoopAssumption DEF WatchPlug
<1>14. CASE SenseUnplugged
    BY <1>14, LoopAssumption DEF SenseUnplugged
<1>15. CASE Speakers
    BY <1>15, LoopAssumption DEF Speakers
<1>16. CASE InternalMike
    BY <1>16, LoopAssumption DEF InternalMike
<1>17. CASE ResetHeadset
    BY <1>17, LoopAssumption DEF ResetHeadset
<1>18. CASE PlayPrepare
    BY <1>18, LoopAssumption DEF PlayPrepare
<1>19. CASE PlayCleanup
    BY <1>19, LoopAssumption DEF PlayCleanup
<1>20. CASE CapturePrepare
    BY <1>20, LoopAssumption DEF CapturePrepare
<1>21. CASE CaptureCleanup
    BY <1>21, LoopAssumption DEF CaptureCleanup
<1>22. CASE Hook
    BY <1>22, LoopAssumption DEF Hook
<1>23. CASE Plug \/ Unplug \/ TypeDetected \/ ButtonDetected \/ UNCHANGED vars
    BY <1>23, Zenon DEF Plug, Unplug, TypeDetected, ButtonDetected, vars, PcmMay
<1> QED
    BY <1>1, <1>2, <1>3, <1>4, <1>5, <1>6, <1>7, <1>8, <1>9, <1>10, <1>11, <1>12, <1>13,
       <1>14, <1>15, <1>16, <1>17, <1>18, <1>19, <1>20, <1>21, <1>22, <1>23 DEF Next,
       JackMove, ChipStep, HandlerStep, PcmCall

(* Every variable keeps its type, for every LoopMax and however the jack,  *)
(* the chip and the streams move.                                          *)
THEOREM TypeCorrect == Spec => []TypeOK
<1>1. TypeOK <=> /\ JackBits /\ StreamBits /\ PathBits /\ ReportBits
                 /\ Registered /\ Counted /\ Pointed
    BY Zenon DEF TypeOK, JackBits, StreamBits, PathBits, ReportBits, Registered, Counted,
       Pointed
<1>2. Init => JackBits /\ StreamBits /\ PathBits /\ ReportBits /\ Registered
    BY DEF Init, JackBits, StreamBits, PathBits, ReportBits, Registered, Events
<1>3. Init => Counted /\ Pointed
    BY LoopAssumption DEF Init, Counted, Pointed, Points, Events
<1> QED
    BY <1>1, <1>2, <1>3, JackBitsStep, StreamBitsStep, PathBitsStep, ReportBitsStep,
       RegisteredStep, CountedStep, PointedStep, PTL DEF Spec

-----------------------------------------------------------------------------
(* The inductive invariant.                                                *)

(* PLUG is let through alone; without it, UNPLUG is let through.           *)
MaskInv ==
    /\ unmasked \subseteq Events
    /\ "PLUG" \in unmasked => unmasked = {"PLUG"}
    /\ "PLUG" \notin unmasked => "UNPLUG" \in unmasked

(* The handlers of a plug run while PLUG is let through, the others while  *)
(* it is not, until cs42l83_plugin_interrupt_setup.                        *)
HandlerInv ==
    /\ h \in {"plugin", "complete", "watch", "sense", "speakers", "again", "reset"}
         => "PLUG" \in unmasked
    /\ h \in {"type", "button", "continue", "report", "unplug", "disconnect"}
         => "PLUG" \notin unmasked

(* Everything about the last headset is forgotten when PLUG is let         *)
(* through, but for the end of a disconnect; jack_present is only set      *)
(* while a plug is handled.                                                *)
MemoryInv ==
    "PLUG" \in unmasked /\ h \notin {"sense", "speakers", "again", "reset"} =>
        /\ ~have_mike
        /\ headset_play_format_setup_needed = TRUE
        /\ headset_capture_format_setup_needed = TRUE
        /\ h \notin {"complete", "watch"} => jack_present = 0

JackInv == MaskInv /\ HandlerInv /\ MemoryInv

-----------------------------------------------------------------------------
(* Where interrupt_action goes depends on the events let through.          *)
LEMMA DispatchedByMask ==
    ASSUME NEW r
    PROVE  /\ Action(r) \in {"plugin", "unplug", "type", "button", "idle"}
           /\ Action(r) = "plugin" => "PLUG" \in r
           /\ Action(r) = "unplug" => "UNPLUG" \in r
           /\ Action(r) = "type"   => "HSDET" \in r
           /\ Action(r) = "button" => "BTN" \in r
BY DEF Action

LEMMA JackInvInit == Init => JackInv
BY DEF Init, JackInv, MaskInv, HandlerInv, MemoryInv, Events

(* The invariant depends on these variables alone.                         *)
LEMMA JackInvStutter ==
    ASSUME JackInv,
           UNCHANGED <<unmasked, h, jack_present, have_mike,
                       headset_play_format_setup_needed,
                       headset_capture_format_setup_needed>>
    PROVE  JackInv'
BY DEF JackInv, MaskInv, HandlerInv, MemoryInv

(* Every step keeps the invariant, by the groups of Next.                  *)
LEMMA JackInvStep == JackInv /\ [Next]_vars => JackInv'
<1> SUFFICES ASSUME JackInv, [Next]_vars
             PROVE  JackInv'
    OBVIOUS
<1>1. CASE JackMove
  <2>1. CASE Plug
    BY <2>1, JackInvStutter DEF Plug, Registers, spec, setup, ctl
  <2>2. CASE Unplug
    BY <2>2, JackInvStutter DEF Unplug, Registers, spec, setup, ctl
  <2> QED
    BY <1>1, <2>1, <2>2 DEF JackMove
<1>2. CASE ChipStep
  <2>1. CASE TypeDetected
    BY <2>1, JackInvStutter DEF TypeDetected, Registers, spec, setup, ctl
  <2>2. CASE ButtonDetected
    BY <2>2, JackInvStutter DEF ButtonDetected, Registers, spec, setup, ctl
  <2> QED
    BY <1>2, <2>1, <2>2 DEF ChipStep
<1>3. CASE HandlerStep
  <2> USE DEF JackInv, MaskInv, HandlerInv, MemoryInv, Events
  <2>1. CASE Respond
    BY <2>1 DEF Respond, spec, setup
  <2>2. CASE ReadStatus
    BY <2>2 DEF ReadStatus, Registers, spec, setup
  <2>3. CASE ReadAgain
    BY <2>3 DEF ReadAgain, chip, spec, setup
  <2>4. CASE Dispatch
    <3>1. h' = Action(got \cap unmasked) /\ h = "recheck"
      BY <2>4 DEF Dispatch
    <3>2. UNCHANGED <<unmasked, jack_present, have_mike,
                      headset_play_format_setup_needed, headset_capture_format_setup_needed>>
      BY <2>4 DEF Dispatch, chip, spec, setup
    <3> QED
      BY <3>1, <3>2, DispatchedByMask
  <2>5. CASE HandleDetect
    BY <2>5 DEF HandleDetect, Registers, setup
  <2>6. CASE CompleteDetect
    BY <2>6 DEF CompleteDetect, chip, setup
  <2>7. CASE WatchUnplug
    BY <2>7 DEF WatchUnplug, MaskUnplug, Registers
  <2>8. CASE TypeDetect
    <3>1. "PLUG" \notin unmasked /\ "UNPLUG" \in unmasked
      BY <2>8 DEF TypeDetect
    <3>2. /\ unmasked' \subseteq Events
          /\ "PLUG" \notin unmasked' /\ "UNPLUG" \in unmasked'
          /\ h' \in {"idle", "continue"}
      <4>1. \/ unmasked' = (unmasked \ {"HSDET"}) \cup {"BTN"} /\ h' = "idle"
            \/ unmasked' = unmasked \ {"HSDET"} /\ h' = "continue"
        BY <2>8, Zenon DEF TypeDetect, Registers
      <4> QED
        BY <3>1, <4>1
    <3> QED
      BY <3>2
  <2>9. CASE ButtonDetect
    BY <2>9 DEF ButtonDetect, Registers, spec, setup
  <2>10. CASE PluginContinued
    BY <2>10 DEF PluginContinued, Registers, spec, setup
  <2>11. CASE Report
    BY <2>11 DEF Report, chip, spec, setup
  <2>12. CASE UnplugEvent
    BY <2>12 DEF UnplugEvent, chip, spec, setup
  <2>13. CASE WatchPlug
    BY <2>13 DEF WatchPlug, MaskPlug, DetectionOff, Registers
  <2>14. CASE SenseUnplugged
    BY <2>14 DEF SenseUnplugged, chip
  <2>15. CASE Speakers
    BY <2>15 DEF Speakers, chip
  <2>16. CASE InternalMike
    BY <2>16 DEF InternalMike, chip
  <2>17. CASE ResetHeadset
    BY <2>17 DEF ResetHeadset, chip
  <2> QED
    BY <1>3, <2>1, <2>2, <2>3, <2>4, <2>5, <2>6, <2>7, <2>8, <2>9, <2>10, <2>11, <2>12,
       <2>13, <2>14, <2>15, <2>16, <2>17 DEF HandlerStep
<1>4. CASE PcmCall
  <2> USE DEF JackInv, MaskInv, HandlerInv, MemoryInv
  <2>1. CASE PlayPrepare
    BY <2>1 DEF PlayPrepare, PcmMay, chip, spec, ctl
  <2>2. CASE PlayCleanup
    BY <2>2 DEF PlayCleanup, PcmMay, chip, spec, ctl
  <2>3. CASE CapturePrepare
    BY <2>3 DEF CapturePrepare, PcmMay, chip, spec, setup, ctl
  <2>4. CASE CaptureCleanup
    BY <2>4 DEF CaptureCleanup, PcmMay, chip, spec, setup, ctl
  <2> QED
    BY <1>4, <2>1, <2>2, <2>3, <2>4 DEF PcmCall
<1>5. CASE Hook
    BY <1>5, JackInvStutter DEF Hook, chip, spec, setup, ctl
<1>6. CASE UNCHANGED vars
    BY <1>6, JackInvStutter DEF vars, chip, spec, setup, ctl
<1> QED
    BY <1>1, <1>2, <1>3, <1>4, <1>5, <1>6 DEF Next

LEMMA JackInvHolds == Spec => []JackInv
BY JackInvInit, JackInvStep, PTL DEF Spec

-----------------------------------------------------------------------------
(* While the driver waits for a plug it has forgotten the last headset,    *)
(* however the jack and the streams moved during the handlers before.      *)
THEOREM HeadsetForgotten == Spec => []ForgottenWhenUnplugged
<1>1. JackInv => ForgottenWhenUnplugged
    BY DEF JackInv, MemoryInv, ForgottenWhenUnplugged
<1> QED
    BY <1>1, JackInvHolds, PTL

(* Headset type and button interrupts are let through only together with   *)
(* UNPLUG, on every path through the handlers.                             *)
THEOREM DetectionAlwaysWatched == Spec => []DetectionWatched
<1>1. JackInv => DetectionWatched
    BY DEF JackInv, MaskInv, DetectionWatched
<1> QED
    BY <1>1, JackInvHolds, PTL
=============================================================================
