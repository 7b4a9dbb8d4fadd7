---------------------- MODULE HeadsetJackPatient_proofs ----------------------
(***************************************************************************)
(* What the driver knows of a patient jack, and where the sound goes, once *)
(* all is quiet, for every LoopMax and whatever the streams do.  The       *)
(* stages from one move of the jack to the next are an inductive           *)
(* invariant; what each of them leaves of the sound paths is another, as   *)
(* long as the streams start and stop only when all is quiet.              *)
(***************************************************************************)
EXTENDS HeadsetJack_proofs

-----------------------------------------------------------------------------
(* The stages.                                                             *)

(* An interrupt that is let through alone is pending, or has been read.    *)
Handling(e) ==
    \/ h \in {"idle", "read"} /\ status = {e}
    \/ h = "recheck" /\ status = {} /\ got = {e}

At(point) == h = point /\ status = {}

Still == detecting = FALSE /\ armed = FALSE

(* The input path of the headset that is remembered.                       *)
PathOf(m) == IF m = TRUE THEN "hsmic" ELSE "intmic"

Unreported == reported = FALSE /\ dirty = FALSE

(* Nothing of the headset is known but that it is there.                   *)
Unknown == have_mike = FALSE /\ Unreported /\ input_path = "intmic"

PlugSeen ==
    /\ plugged = TRUE /\ unmasked = {"PLUG"} /\ Still /\ Unknown
    /\ \/ Handling("PLUG") \/ At("plugin") \/ At("complete")
       \/ At("watch") /\ jack_present = 1

TypeSought ==
    /\ plugged = TRUE /\ unmasked = {"UNPLUG", "HSDET"} /\ armed = FALSE /\ Unknown
    /\ jack_present = 1
    /\ \/ detecting = TRUE /\ At("idle")
       \/ detecting = FALSE /\ sensed_mike = mike /\ (Handling("HSDET") \/ At("type"))

ButtonSought ==
    /\ plugged = TRUE /\ unmasked = {"UNPLUG", "BTN"} /\ detecting = FALSE
    /\ mike = TRUE /\ have_mike = TRUE
    /\ jack_present = 1 /\ Unreported /\ input_path = "intmic"
    /\ \/ armed = TRUE /\ At("idle")
       \/ armed = FALSE /\ (Handling("BTN") \/ At("button"))

HeadsetKnown ==
    /\ plugged = TRUE /\ unmasked = {"UNPLUG"} /\ Still
    /\ jack_present = 1 /\ have_mike = mike
    /\ \/ At("continue") /\ dirty = TRUE /\ input_path = "intmic"
       \/ At("report") /\ dirty = TRUE /\ input_path = PathOf(mike)
       \/ At("idle") /\ dirty = FALSE /\ reported = TRUE /\ input_path = PathOf(mike)

UnplugSeen ==
    /\ plugged = FALSE /\ mike = FALSE /\ unmasked = {"UNPLUG"} /\ Still
    /\ input_path = PathOf(have_mike)
    /\ \/ dirty = FALSE /\ Handling("UNPLUG")
       \/ dirty = TRUE /\ (At("unplug") \/ At("disconnect"))

Forgotten ==
    /\ plugged = FALSE /\ mike = FALSE /\ unmasked = {"PLUG"} /\ Still
    /\ \/ At("sense") /\ dirty = TRUE /\ input_path = PathOf(have_mike)
       \/ /\ At("speakers") \/ At("again")
          /\ Unreported /\ jack_present = 0 /\ input_path = PathOf(have_mike)
       \/ At("reset") /\ Unreported /\ jack_present = 0 /\ input_path = "intmic"
       \/ At("idle") /\ Unknown /\ jack_present = 0

Stages == PlugSeen \/ TypeSought \/ ButtonSought \/ HeadsetKnown \/ UnplugSeen \/ Forgotten

StageInv == mike \in BOOLEAN /\ Stages

-----------------------------------------------------------------------------
(* The steps.                                                              *)

(* The variables the stages are about.                                     *)
Tracked == <<plugged, mike, status, unmasked, detecting, sensed_mike, armed, jack_present,
             have_mike, reported, dirty, input_path, h, got>>

LEMMA StageStutter ==
    ASSUME StageInv, UNCHANGED Tracked
    PROVE  StageInv'
BY Zenon DEF StageInv, Stages, Tracked, PlugSeen, TypeSought, ButtonSought, HeadsetKnown,
   UnplugSeen, Forgotten, Handling, At, Still, PathOf, Unreported, Unknown

(* A handler takes the stage it finds to the same or to the next one.      *)
LEMMA HandlerStage ==
    ASSUME StageInv, HandlerStep
    PROVE  StageInv'
<1> USE DEF StageInv, Stages, PlugSeen, TypeSought, ButtonSought, HeadsetKnown,
       UnplugSeen, Forgotten, Handling, At, Still, PathOf, Unreported, Unknown, Registers,
       Line, spec, seen, paths, chip
<1>1. CASE Respond
    BY <1>1 DEF Respond
<1>2. CASE ReadStatus
    BY <1>2 DEF ReadStatus, StatusRead, Events
<1>3. CASE ReadAgain
    BY <1>3 DEF ReadAgain
<1>4. CASE Dispatch
    BY <1>4 DEF Dispatch, Action
<1>5. CASE HandleDetect
    BY <1>5 DEF HandleDetect
<1>6. CASE CompleteDetect
    BY <1>6 DEF CompleteDetect
<1>7. CASE WatchUnplug
    BY <1>7 DEF WatchUnplug, MaskUnplug
<1>8. CASE TypeDetect
    BY <1>8 DEF TypeDetect
<1>9. CASE ButtonDetect
    BY <1>9 DEF ButtonDetect
<1>10. CASE PluginContinued
    BY <1>10 DEF PluginContinued, Other
<1>11. CASE Report
  <2>1. h = "report" /\ h' = "idle" /\ dirty' = FALSE
    BY <1>11 DEF Report
  <2>2. HeadsetKnown /\ dirty = TRUE /\ jack_present = 1 /\ input_path = PathOf(mike)
    BY <2>1
  <2>3. reported' = TRUE
    <3>1. reported' = (jack_present # 0)
      BY <1>11, <2>2, Zenon DEF Report
    <3>2. (jack_present # 0) = TRUE
      BY <2>2
    <3> QED
      BY <3>1, <3>2, Zenon
  <2>4. UNCHANGED <<plugged, mike, status, unmasked, detecting, armed, jack_present, have_mike,
                    input_path>>
    BY <1>11 DEF Report
  <2>5. HeadsetKnown'
    BY <2>1, <2>2, <2>3, <2>4
  <2> QED
    BY <2>4, <2>5
<1>12. CASE UnplugEvent
    BY <1>12 DEF UnplugEvent
<1>13. CASE WatchPlug
    BY <1>13 DEF WatchPlug, MaskPlug, DetectionOff
<1>14. CASE SenseUnplugged
    BY <1>14 DEF SenseUnplugged
<1>15. CASE Speakers
    BY <1>15 DEF Speakers
<1>16. CASE InternalMike
    BY <1>16 DEF InternalMike, Other
<1>17. CASE ResetHeadset
    BY <1>17 DEF ResetHeadset
<1> QED
    BY <1>1, <1>2, <1>3, <1>4, <1>5, <1>6, <1>7, <1>8, <1>9, <1>10, <1>11, <1>12,
       <1>13, <1>14, <1>15, <1>16, <1>17 DEF HandlerStep

(* The jack moves only when nothing is going on.                           *)
LEMMA EnvironmentStage ==
    ASSUME StageInv, JackPatient, JackMove \/ ChipStep
    PROVE  StageInv'
<1> USE DEF StageInv, Stages, PlugSeen, TypeSought, ButtonSought, HeadsetKnown,
       UnplugSeen, Forgotten, Handling, At, Still, PathOf, Unreported, Unknown, Registers,
       spec, seen, paths, ctl
<1>1. CASE JackMove
  <2>1. h = "idle" /\ status = {} /\ ~detecting /\ ~armed
    BY <1>1 DEF JackMove, Plug, Unplug, JackMay, Settled, Quiet, Line
  <2>2. CASE Plug
    BY <2>1, <2>2 DEF Plug
  <2>3. CASE Unplug
    BY <2>1, <2>3 DEF Unplug
  <2> QED
    BY <1>1, <2>2, <2>3 DEF JackMove
<1>2. CASE TypeDetected
    BY <1>2 DEF TypeDetected
<1>3. CASE ButtonDetected
    BY <1>3 DEF ButtonDetected
<1> QED
    BY <1>1, <1>2, <1>3 DEF ChipStep

(* No PCM call touches what the stages are about.                          *)
LEMMA StreamStage ==
    ASSUME StageInv, PcmCall \/ Hook \/ UNCHANGED vars
    PROVE  StageInv'
<1>1. UNCHANGED Tracked
    BY Zenon DEF PcmCall, PlayPrepare, PlayCleanup, CapturePrepare, CaptureCleanup, Hook,
       vars, Tracked, chip, spec, seen, paths, ctl
<1> QED
    BY <1>1, StageStutter

LEMMA StageHolds == ASSUME JackPatient PROVE Spec => []StageInv
<1>1. Init => StageInv
    BY DEF Init, StageInv, Stages, Forgotten, At, Still, Unreported, Unknown
<1>2. StageInv /\ [Next]_vars => StageInv'
    BY HandlerStage, EnvironmentStage, StreamStage DEF Next
<1> QED
    BY <1>1, <1>2, PTL DEF Spec

-----------------------------------------------------------------------------
(* Once all is quiet the stage is one of two.                              *)
LEMMA StageAtRest ==
    ASSUME StageInv, Settled
    PROVE  \/ HeadsetKnown /\ At("idle")
           \/ Forgotten /\ At("idle")
BY DEF StageInv, Stages, PlugSeen, TypeSought, ButtonSought, HeadsetKnown, UnplugSeen,
   Forgotten, Handling, At, Settled, Quiet, Line

(* With a jack that moves only when all is quiet the driver and user space *)
(* know what is in it, whenever streams start and stop and for every       *)
(* LoopMax.                                                                *)
THEOREM JackAlwaysKnown == ASSUME JackPatient PROVE Spec => []JackKnown
<1>1. StageInv => JackKnown
  <2> SUFFICES ASSUME StageInv, Settled
               PROVE  (jack_present = 1) = plugged /\ reported = plugged /\ have_mike = mike
    BY DEF JackKnown
  <2>1. CASE HeadsetKnown /\ At("idle")
    BY <2>1 DEF HeadsetKnown, At
  <2>2. CASE Forgotten /\ At("idle")
    <3>1. /\ plugged = FALSE /\ mike = FALSE /\ have_mike = FALSE
          /\ reported = FALSE /\ jack_present = 0
      BY <2>2 DEF Forgotten, At, Unknown, Unreported
    <3>2. (jack_present = 1) = FALSE
      BY <3>1
    <3> QED
      BY <3>1, <3>2, Zenon
  <2> QED
    BY <2>1, <2>2, StageAtRest
<1> QED
    BY <1>1, StageHolds, PTL

(* The next edge of a patient jack is always let through: no handler, in   *)
(* whatever order the events of the chip reach it, leaves it masked.       *)
THEOREM EdgeAlwaysWatched == ASSUME JackPatient PROVE Spec => []NextEdgeWatched
<1>1. StageInv => NextEdgeWatched
    BY StageAtRest DEF NextEdgeWatched, HeadsetKnown, Forgotten
<1> QED
    BY <1>1, StageHolds, PTL

(* The toggled input path never gets out of step with a patient jack.      *)
THEOREM InputPathAlwaysRight == ASSUME JackPatient PROVE Spec => []InputPathRight
<1>1. StageInv => InputPathRight
    BY StageAtRest DEF StageInv, InputPathRight, HeadsetKnown, Forgotten, PathOf, At, Unknown
<1> QED
    BY <1>1, StageHolds, PTL

-----------------------------------------------------------------------------
(* What each stage leaves of the sound paths.                              *)

FormatsNeeded ==
    /\ headset_play_format_setup_needed = TRUE
    /\ headset_capture_format_setup_needed = TRUE

HeadsetSilent == hs = FALSE /\ hsmic = FALSE

(* The amplifiers are on from play_real to playstop_real, playing is       *)
(* updated by the second half of the hook.                                 *)
AmpsFollow ==
    /\ pcm = "play" => amps = TRUE
    /\ pcm = "stop" => amps = FALSE
    /\ pcm \notin {"play", "stop"} => amps = playing

OnSpeakers == FormatsNeeded /\ HeadsetSilent /\ AmpsFollow

(* Sound through a headset.  Its output is shared with a recording, which  *)
(* keeps it on for as long as its format is set up.                        *)
OnHeadset ==
    /\ amps = FALSE /\ headset_enable = 1
    /\ headset_play_format_setup_needed = FALSE => hs = TRUE /\ have_mike = TRUE
    /\ hsmic = TRUE => headset_capture_format_setup_needed = FALSE /\ have_mike = TRUE
    /\ hsmic = TRUE => capturing = TRUE \/ pcm = "capture"
    /\ pcm = "capstop" => hsmic = FALSE /\ (hs = TRUE => playing = TRUE)
    /\ playing = TRUE /\ pcm # "stop" => hs = TRUE
    /\ pcm = "play" => hs = TRUE
    /\ pcm = "stop" => hs = FALSE
    /\ hs = TRUE /\ playing = FALSE /\ pcm # "play" =>
          /\ headset_play_format_setup_needed = FALSE
          /\ capturing = TRUE \/ pcm = "capture"

(* The headset that was unplugged is still to be switched off.             *)
HeadsetLeft == (hs = TRUE \/ hsmic = TRUE) => have_mike = TRUE

Routes ==
    \/ PlugSeen /\ OnSpeakers /\ (h = "watch" => headset_enable = 1)
    \/ (TypeSought \/ ButtonSought \/ (HeadsetKnown /\ h = "continue"))
          /\ OnSpeakers /\ headset_enable = 1
    \/ HeadsetKnown /\ h # "continue" /\ OnHeadset
    \/ UnplugSeen /\ OnHeadset
    \/ Forgotten /\ h = "sense" /\ OnHeadset
    \/ Forgotten /\ h = "speakers" /\ amps = FALSE /\ HeadsetLeft
    \/ Forgotten /\ h = "again" /\ amps = playing /\ HeadsetLeft
    \/ Forgotten /\ h = "reset" /\ amps = playing /\ HeadsetSilent
    \/ Forgotten /\ h = "idle" /\ OnSpeakers

(* A stream that was prepared is playing, but for the halves of the hooks, *)
(* and these meet a jack at rest.                                          *)
CountsInv ==
    /\ pcm \notin {"play", "stop"} => (playing = TRUE <=> play_init_count = 1)
    /\ pcm = "play" => play_init_count = 1
    /\ pcm # "idle" => h = "idle" /\ status = {} /\ detecting = FALSE /\ armed = FALSE

Typed == StreamBits /\ PathBits /\ ReportBits /\ Counted

RouteInv == crossed = FALSE => CountsInv /\ Routes

-----------------------------------------------------------------------------
(* The steps.                                                              *)

(* A handler moves the sound with the stage.                               *)
LEMMA HandlerRoute ==
    ASSUME StageInv, RouteInv, StreamBits, PathBits, HandlerStep
    PROVE  RouteInv'
<1> USE DEF RouteInv, CountsInv, Routes, OnSpeakers, OnHeadset, FormatsNeeded, HeadsetSilent,
       AmpsFollow, HeadsetLeft, StageInv, Stages, PlugSeen, TypeSought, ButtonSought,
       HeadsetKnown, UnplugSeen, Forgotten, Handling, At, Still, PathOf, Unreported, Unknown,
       Registers, Line, stream, setup, spec, seen, paths, chip, ctl
<1>1. CASE Respond
    BY <1>1 DEF Respond
<1>2. CASE ReadStatus
    BY <1>2 DEF ReadStatus, StatusRead, Events
<1>3. CASE ReadAgain
    BY <1>3 DEF ReadAgain
<1>4. CASE Dispatch
    BY <1>4 DEF Dispatch, Action
<1>5. CASE HandleDetect
    BY <1>5 DEF HandleDetect
<1>6. CASE CompleteDetect
    BY <1>6 DEF CompleteDetect
<1>7. CASE WatchUnplug
    BY <1>7 DEF WatchUnplug, MaskUnplug
<1>8. CASE TypeDetect
    BY <1>8 DEF TypeDetect
<1>9. CASE ButtonDetect
    BY <1>9 DEF ButtonDetect
<1>10. CASE PluginContinued
    BY <1>10 DEF PluginContinued, Other
<1>11. CASE Report
  <2>1. h = "report" /\ h' = "idle" /\ StageInv'
    BY <1>11, HandlerStage DEF Report, HandlerStep
  <2>2. UNCHANGED <<plugged, mike, status, unmasked, detecting, armed, jack_present, have_mike,
                    input_path, stream, setup, amps, hs, hsmic, headset_enable, pcm, crossed>>
    BY <1>11 DEF Report
  <2>3. CASE crossed = FALSE
    <3>1. HeadsetKnown /\ OnHeadset /\ CountsInv
      BY <2>1, <2>3
    <3>2. HeadsetKnown'
      BY <2>1, <2>2, <3>1
    <3> QED
      BY <2>1, <2>2, <3>1, <3>2
  <2> QED
    BY <2>2, <2>3
<1>12. CASE UnplugEvent
    BY <1>12 DEF UnplugEvent
<1>13. CASE WatchPlug
    BY <1>13 DEF WatchPlug, MaskPlug, DetectionOff
<1>14. CASE SenseUnplugged
    BY <1>14 DEF SenseUnplugged
<1>15. CASE Speakers
  <2>1. amps = FALSE => amps' = playing
    BY <1>15, Zenon DEF Speakers, StreamBits
  <2> QED
    BY <1>15, <2>1 DEF Speakers
<1>16. CASE InternalMike
    BY <1>16 DEF InternalMike, Other
<1>17. CASE ResetHeadset
    BY <1>17 DEF ResetHeadset
<1> QED
    BY <1>1, <1>2, <1>3, <1>4, <1>5, <1>6, <1>7, <1>8, <1>9,
       <1>10, <1>11, <1>12, <1>13, <1>14, <1>15, <1>16, <1>17 DEF HandlerStep

(* The jack moves, and the chip answers, where no stream is half set up.   *)
LEMMA EnvironmentRoute ==
    ASSUME StageInv, RouteInv, StreamBits, PathBits, JackPatient, JackMove \/ ChipStep
    PROVE  RouteInv'
<1> USE DEF RouteInv, CountsInv, Routes, OnSpeakers, OnHeadset, FormatsNeeded, HeadsetSilent,
       AmpsFollow, HeadsetLeft, StageInv, Stages, PlugSeen, TypeSought, ButtonSought,
       HeadsetKnown, UnplugSeen, Forgotten, Handling, At, Still, PathOf, Unreported, Unknown,
       Registers, Line, stream, setup, spec, seen, paths, chip, ctl
<1>1. CASE JackMove
  <2>1. h = "idle" /\ status = {} /\ ~detecting /\ ~armed /\ pcm = "idle"
    BY <1>1 DEF JackMove, Plug, Unplug, JackMay, Settled, Quiet, Line
  <2>2. CASE Plug
    BY <2>1, <2>2 DEF Plug
  <2>3. CASE Unplug
    BY <2>1, <2>3 DEF Unplug
  <2> QED
    BY <1>1, <2>2, <2>3 DEF JackMove
<1>2. CASE TypeDetected
    BY <1>2 DEF TypeDetected
<1>3. CASE ButtonDetected
    BY <1>3 DEF ButtonDetected
<1> QED
    BY <1>1, <1>2, <1>3 DEF ChipStep

(* What the second half of a hook makes of the flags.                      *)
LEMMA HookEffect ==
    ASSUME Hook, StreamBits
    PROVE  /\ pcm = "play" => playing' = TRUE
           /\ pcm = "stop" => playing' = FALSE
           /\ pcm \notin {"play", "stop"} => playing' = playing
           /\ pcm = "capture" => capturing' = TRUE
           /\ pcm = "capstop" => capturing' = FALSE
           /\ pcm \notin {"capture", "capstop"} => capturing' = capturing
BY Zenon DEF Hook, StreamBits

(* A PCM call, and the second half of its hook, find the jack at rest.     *)
LEMMA StreamRoute ==
    ASSUME StageInv, RouteInv, StreamBits, PathBits, ReportBits, Counted, PcmCall \/ Hook
    PROVE  RouteInv'
<1> SUFFICES ASSUME crossed' = FALSE
             PROVE  CountsInv' /\ Routes'
    BY DEF RouteInv
<1>1. UNCHANGED Tracked /\ UNCHANGED headset_enable
    BY Zenon DEF PcmCall, PlayPrepare, PlayCleanup, CapturePrepare, CaptureCleanup, Hook,
       Tracked, chip, spec, seen, paths, ctl
<1>2. crossed = FALSE /\ CountsInv /\ Routes
  <2>1. CASE PcmCall
    <3>1. crossed' = (crossed \/ ~Quiet)
      BY <2>1, Zenon DEF PcmCall, PlayPrepare, PlayCleanup, CapturePrepare, CaptureCleanup, PcmMay
    <3> QED
      BY <3>1, Zenon DEF RouteInv, ReportBits
  <2>2. CASE Hook
    BY <2>2, Zenon DEF Hook, RouteInv
  <2> QED
    BY <2>1, <2>2
<1>3. (HeadsetKnown \/ Forgotten) /\ h = "idle" /\ status = {} /\ detecting = FALSE /\ armed = FALSE
    <2>1. CASE PcmCall
      <3>1. Quiet /\ pcm = "idle"
        BY <2>1 DEF PcmCall, PlayPrepare, PlayCleanup, CapturePrepare, CaptureCleanup, PcmMay
      <3> QED
        BY <3>1, StageAtRest DEF Settled, HeadsetKnown, Forgotten, At, Still
    <2>2. CASE Hook
      BY <1>2, <2>2 DEF Hook, CountsInv, StageInv, Stages, PlugSeen, TypeSought, ButtonSought,
         UnplugSeen, Handling, At, Still
    <2> QED
      BY <2>1, <2>2
<1>4. (HeadsetKnown <=> HeadsetKnown') /\ (Forgotten <=> Forgotten')
    BY <1>1, Zenon DEF Tracked, HeadsetKnown, Forgotten, At, Still, PathOf, Unreported, Unknown
<1>5. CASE HeadsetKnown
  <2>1. OnHeadset /\ jack_present = 1
    BY <1>2, <1>3, <1>5 DEF Routes, PlugSeen, TypeSought, ButtonSought, HeadsetKnown, UnplugSeen,
       Forgotten
  <2>2. CountsInv' /\ OnHeadset'
    <3> USE DEF CountsInv, OnHeadset, StreamBits, PathBits, Counted, Tracked, PcmMay,
            stream, setup
    <3>1. CASE PlayPrepare
      BY <1>1, <1>2, <1>3, <2>1, <3>1 DEF PlayPrepare
    <3>2. CASE PlayCleanup
      BY <1>1, <1>2, <1>3, <2>1, <3>2 DEF PlayCleanup
    <3>3. CASE CapturePrepare
      BY <1>1, <1>2, <1>3, <2>1, <3>3 DEF CapturePrepare
    <3>4. CASE CaptureCleanup
      BY <1>1, <1>2, <1>3, <2>1, <3>4 DEF CaptureCleanup
    <3>5. CASE Hook
      <4>1. /\ UNCHANGED <<setup, amps, hs, hsmic>>
            /\ pcm # "idle" /\ pcm' = "idle"
            /\ play_init_count' = IF pcm = "stop" THEN 0 ELSE play_init_count
        BY <3>5, Zenon DEF Hook, paths
      <4>2. /\ pcm = "play" => playing' = TRUE
            /\ pcm = "stop" => playing' = FALSE
            /\ pcm \notin {"play", "stop"} => playing' = playing
        BY <3>5, HookEffect
      <4>3. /\ pcm = "capture" => capturing' = TRUE
            /\ pcm = "capstop" => capturing' = FALSE
            /\ pcm \notin {"capture", "capstop"} => capturing' = capturing
        BY <3>5, HookEffect
      <4>4. CountsInv'
        BY <1>2, <4>1, <4>2
      <4>5. OnHeadset'
        <5>1. CASE pcm = "play"
          BY <1>1, <2>1, <4>1, <4>2, <4>3, <5>1
        <5>2. CASE pcm = "stop"
          BY <1>1, <2>1, <4>1, <4>2, <4>3, <5>2
        <5>3. CASE pcm \notin {"play", "stop"}
          BY <1>1, <2>1, <4>1, <4>2, <4>3, <5>3
        <5> QED
          BY <5>1, <5>2, <5>3
      <4> QED
        BY <4>4, <4>5
    <3> QED
      BY <3>1, <3>2, <3>3, <3>4, <3>5 DEF PcmCall
  <2> QED
    BY <1>1, <1>3, <1>4, <1>5, <2>2 DEF Routes, Tracked
<1>6. CASE Forgotten
  <2>1. OnSpeakers /\ jack_present = 0
    BY <1>2, <1>3, <1>6 DEF Routes, PlugSeen, TypeSought, ButtonSought, HeadsetKnown, UnplugSeen,
       Forgotten, At
  <2>2. CountsInv' /\ OnSpeakers'
    <3> USE DEF CountsInv, OnSpeakers, FormatsNeeded, HeadsetSilent, AmpsFollow, StreamBits,
            PathBits, Counted, Tracked, PcmMay, stream, setup
    <3>1. CASE PlayPrepare
      BY <1>1, <1>2, <1>3, <2>1, <3>1 DEF PlayPrepare
    <3>2. CASE PlayCleanup
      BY <1>1, <1>2, <1>3, <2>1, <3>2 DEF PlayCleanup
    <3>3. CASE CapturePrepare
      BY <1>1, <1>2, <1>3, <2>1, <3>3 DEF CapturePrepare
    <3>4. CASE CaptureCleanup
      BY <1>1, <1>2, <1>3, <2>1, <3>4 DEF CaptureCleanup
    <3>5. CASE Hook
      <4>1. /\ UNCHANGED <<setup, amps, hs, hsmic>>
            /\ pcm # "idle" /\ pcm' = "idle"
            /\ play_init_count' = IF pcm = "stop" THEN 0 ELSE play_init_count
        BY <3>5, Zenon DEF Hook, paths
      <4>2. /\ pcm = "play" => playing' = TRUE
            /\ pcm = "stop" => playing' = FALSE
            /\ pcm \notin {"play", "stop"} => playing' = playing
        BY <3>5, HookEffect
      <4>3. /\ pcm = "capture" => capturing' = TRUE
            /\ pcm = "capstop" => capturing' = FALSE
            /\ pcm \notin {"capture", "capstop"} => capturing' = capturing
        BY <3>5, HookEffect
      <4>4. CountsInv'
        BY <1>2, <4>1, <4>2
      <4>5. OnSpeakers'
        <5>1. CASE pcm = "play"
          BY <1>1, <2>1, <4>1, <4>2, <4>3, <5>1
        <5>2. CASE pcm = "stop"
          BY <1>1, <2>1, <4>1, <4>2, <4>3, <5>2
        <5>3. CASE pcm \notin {"play", "stop"}
          BY <1>1, <2>1, <4>1, <4>2, <4>3, <5>3
        <5> QED
          BY <5>1, <5>2, <5>3
      <4> QED
        BY <4>4, <4>5
    <3> QED
      BY <3>1, <3>2, <3>3, <3>4, <3>5 DEF PcmCall
  <2> QED
    BY <1>1, <1>3, <1>4, <1>6, <2>2 DEF Routes, Tracked
<1> QED
    BY <1>3, <1>5, <1>6

LEMMA RouteStutter ==
    ASSUME StageInv, RouteInv, UNCHANGED vars
    PROVE  RouteInv'
<1>1. /\ UNCHANGED Tracked
      /\ UNCHANGED <<stream, setup, amps, hs, hsmic, headset_enable, pcm, crossed>>
    BY DEF vars, Tracked, chip, spec, seen, paths, ctl
<1> QED
    BY <1>1 DEF Tracked, RouteInv, CountsInv, Routes, OnSpeakers, OnHeadset, FormatsNeeded,
       HeadsetSilent, AmpsFollow, HeadsetLeft, StageInv, Stages, PlugSeen, TypeSought,
       ButtonSought, HeadsetKnown, UnplugSeen, Forgotten, Handling, At, Still, PathOf,
       Unreported, Unknown, stream, setup

LEMMA RouteHolds == ASSUME JackPatient PROVE Spec => [](StageInv /\ RouteInv)
<1>1. Init => RouteInv
  <2> SUFFICES ASSUME Init
               PROVE  CountsInv /\ Routes
    BY DEF RouteInv
  <2>1. CountsInv
    BY DEF Init, CountsInv
  <2>2. Forgotten /\ h = "idle"
    BY DEF Init, Forgotten, At, Still, Unreported, Unknown
  <2>3. OnSpeakers
    BY DEF Init, OnSpeakers, FormatsNeeded, HeadsetSilent, AmpsFollow
  <2> QED
    BY <2>1, <2>2, <2>3 DEF Routes
<1>2. TypeOK => Typed
    BY Zenon DEF TypeOK, Typed, StreamBits, PathBits, ReportBits, Counted
<1>3. StageInv /\ RouteInv /\ Typed /\ [Next]_vars => RouteInv'
    BY HandlerRoute, EnvironmentRoute, StreamRoute, RouteStutter DEF Next, Typed
<1> QED
    BY <1>1, <1>2, <1>3, StageHolds, TypeCorrect, PTL DEF Spec

-----------------------------------------------------------------------------
(* Once all is quiet a playing stream comes out of the headphones when     *)
(* they are plugged in and out of the speakers otherwise, and out of one   *)
(* of them only, whatever was plugged, unplugged, started and stopped      *)
(* before, if never a stream under a handler.                              *)
THEOREM SoundRouted == ASSUME JackPatient PROVE Spec => []PlayRoute
<1>1. StageInv /\ RouteInv /\ Typed => PlayRoute
  <2> SUFFICES ASSUME StageInv, RouteInv, Typed, Settled, ~crossed, playing
               PROVE  hs = plugged /\ amps = ~plugged
    BY DEF PlayRoute
  <2>1. crossed = FALSE /\ playing = TRUE /\ pcm = "idle"
    BY Zenon DEF Typed, ReportBits, StreamBits, Settled
  <2>2. CASE HeadsetKnown /\ At("idle")
    <3>1. plugged = TRUE /\ hs = TRUE /\ amps = FALSE
      BY <2>1, <2>2 DEF RouteInv, Routes, PlugSeen, TypeSought, ButtonSought, HeadsetKnown,
         UnplugSeen, Forgotten, At, OnHeadset
    <3> QED
      BY <3>1, Zenon
  <2>3. CASE Forgotten /\ At("idle")
    <3>1. plugged = FALSE /\ hs = FALSE /\ amps = TRUE
      BY <2>1, <2>3 DEF RouteInv, Routes, PlugSeen, TypeSought, ButtonSought, HeadsetKnown,
         UnplugSeen, Forgotten, At, OnSpeakers, HeadsetSilent, AmpsFollow
    <3> QED
      BY <3>1, Zenon
  <2> QED
    BY <2>2, <2>3, StageAtRest
<1>2. TypeOK => Typed
    BY Zenon DEF TypeOK, Typed, StreamBits, PathBits, ReportBits, Counted
<1> QED
    BY <1>1, <1>2, RouteHolds, TypeCorrect, PTL

(* Nothing is left on without a stream, under the same conditions: the     *)
(* output a recording shares with playback goes off with the last of them. *)
THEOREM NothingStaysOn == ASSUME JackPatient PROVE Spec => []NothingLeftOn
<1>1. StageInv /\ RouteInv /\ Typed => NothingLeftOn
  <2> SUFFICES ASSUME StageInv, RouteInv, Typed, Settled, ~crossed
               PROVE  (amps => playing) /\ (hs => playing \/ capturing) /\ (hsmic => capturing)
    BY DEF NothingLeftOn
  <2>1. crossed = FALSE /\ pcm = "idle"
    BY Zenon DEF Typed, ReportBits, Settled
  <2>2. /\ amps \in BOOLEAN /\ playing \in BOOLEAN /\ hs \in BOOLEAN
        /\ capturing \in BOOLEAN /\ hsmic \in BOOLEAN
    BY Zenon DEF Typed, StreamBits, PathBits
  <2>3. CASE HeadsetKnown /\ At("idle")
    <3>1. OnHeadset
      BY <2>1, <2>3 DEF RouteInv, Routes, PlugSeen, TypeSought, ButtonSought, HeadsetKnown,
         UnplugSeen, Forgotten, At
    <3> QED
      BY <2>1, <2>2, <3>1 DEF OnHeadset
  <2>4. CASE Forgotten /\ At("idle")
    <3>1. OnSpeakers
      BY <2>1, <2>4 DEF RouteInv, Routes, PlugSeen, TypeSought, ButtonSought, HeadsetKnown,
         UnplugSeen, Forgotten, At
    <3> QED
      BY <2>1, <2>2, <3>1 DEF OnSpeakers, HeadsetSilent, AmpsFollow
  <2> QED
    BY <2>3, <2>4, StageAtRest
<1>2. TypeOK => Typed
    BY Zenon DEF TypeOK, Typed, StreamBits, PathBits, ReportBits, Counted
<1> QED
    BY <1>1, <1>2, RouteHolds, TypeCorrect, PTL

==============================================================================
