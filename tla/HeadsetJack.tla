---------------------------- MODULE HeadsetJack ----------------------------
(***************************************************************************)
(* The headset jack of the Apple CS8409 driver (patch_cirrus_real84.h and  *)
(* patch_cirrus_new84.h): the interrupts of the CS42L83 codec, their       *)
(* handlers, and the PCM prepares and cleanups that route the sound.       *)
(*                                                                         *)
(* Verb blocks run one after another here, as UnsolQueue provides when its *)
(* contexts are paced: a handler is not overlapped by a PCM call.  The     *)
(* jack itself moves at any step, between two reads of one handler too.    *)
(***************************************************************************)
EXTENDS Integers, FiniteSets

CONSTANTS
    LoopMax,        \* loopmax of cs_8409_read_status_and_clear_interrupt
    JackPatient     \* TRUE: the user moves the jack only when all is quiet

ASSUME LoopAssumption == LoopMax \in Nat

ASSUME PatienceAssumption == JackPatient \in BOOLEAN

VARIABLES
    \* the codec chip and the jack
    plugged, mike,      \* what is in the jack, and whether it has a mike
    status,             \* interrupt status registers: set by events, cleared by reads
    unmasked,           \* events the interrupt mask registers let through
    detecting,          \* automatic headset type detection is running
    sensed_mike,        \* the type register: the last detection found a mike
    armed,              \* button detection is set up and has not answered
    raised,             \* the GPIO line changed: an unsolicited response is due
    \* struct cs8409_apple_spec
    jack_present, headset_enable, have_mike,
    playing, capturing, play_init_count, capture_init_count,
    headset_play_format_setup_needed, headset_capture_format_setup_needed,
    \* the sound paths
    amps,               \* speaker amplifiers streaming
    hs,                 \* headphone output streaming
    intmic, hsmic,      \* internal and headset microphones streaming
    inputs,             \* input converters powered
    input_path,         \* input path switch_input_src has active
    reported, dirty,    \* jack state user space has seen; jack_dirty
    \* control
    h, got, loopcnt,    \* the handler: its point, last status read, loop count
    pcm,                \* the PCM call: "idle", or what its hook has left to do
    crossed             \* a PCM call has ever come before all was quiet

chip   == <<plugged, mike, status, unmasked, detecting, sensed_mike, armed, raised>>
spec   == <<jack_present, headset_enable, have_mike>>
stream == <<playing, capturing, play_init_count, capture_init_count>>
setup  == <<headset_play_format_setup_needed, headset_capture_format_setup_needed>>
paths  == <<amps, hs, intmic, hsmic, inputs, input_path>>
seen   == <<reported, dirty>>
ctl    == <<h, got, loopcnt>>
vars   == <<chip, spec, stream, setup, paths, seen, ctl, pcm, crossed>>

-----------------------------------------------------------------------------
Events == {"PLUG", "UNPLUG", "HSDET", "BTN"}

(* The interrupt line: some event is set and not masked.                   *)
Line == status \cap unmasked # {}

(* New status and mask registers; a change of the line is signalled.       *)
Registers(st, um) ==
    /\ status' = st
    /\ unmasked' = um
    /\ raised' = (raised \/ (st \cap um # {}) # Line)

Quiet == h = "idle" /\ ~raised /\ ~Line /\ ~detecting /\ ~armed

Settled == Quiet /\ pcm = "idle"

Init ==
    /\ plugged = FALSE /\ mike = FALSE
    /\ status = {} /\ unmasked = {"PLUG"}
    /\ detecting = FALSE /\ sensed_mike = FALSE /\ armed = FALSE /\ raised = FALSE
    /\ jack_present = 0 /\ headset_enable = 0 /\ have_mike = FALSE
    /\ playing = FALSE /\ capturing = FALSE
    /\ play_init_count = 0 /\ capture_init_count = 0
    /\ headset_play_format_setup_needed = TRUE
    /\ headset_capture_format_setup_needed = TRUE
    /\ amps = FALSE /\ hs = FALSE /\ intmic = FALSE /\ hsmic = FALSE
    /\ inputs = FALSE /\ input_path = "intmic"
    /\ reported = FALSE /\ dirty = FALSE
    /\ h = "idle" /\ got = {} /\ loopcnt = 0
    /\ pcm = "idle"
    /\ crossed = FALSE

-----------------------------------------------------------------------------
(* The jack and the chip.                                                  *)

JackMay == JackPatient => Settled

Plug ==
    /\ ~plugged /\ JackMay
    /\ plugged' = TRUE
    /\ mike' \in BOOLEAN
    /\ Registers(status \cup {"PLUG"}, unmasked)
    /\ UNCHANGED <<detecting, sensed_mike, armed, spec, stream, setup, paths, seen, ctl, pcm,
                   crossed>>

Unplug ==
    /\ plugged /\ JackMay
    /\ plugged' = FALSE
    /\ mike' = FALSE
    /\ Registers(status \cup {"UNPLUG"}, unmasked)
    /\ UNCHANGED <<detecting, sensed_mike, armed, spec, stream, setup, paths, seen, ctl, pcm,
                   crossed>>

(* HSDET_AUTO_DONE                                                         *)
TypeDetected ==
    /\ detecting
    /\ detecting' = FALSE
    /\ sensed_mike' = mike
    /\ Registers(status \cup {"HSDET"}, unmasked)
    /\ UNCHANGED <<plugged, mike, armed, spec, stream, setup, paths, seen, ctl, pcm,
                   crossed>>

(* The interrupt seen once button detection is set up for a headset.       *)
ButtonDetected ==
    /\ armed /\ plugged /\ mike
    /\ armed' = FALSE
    /\ Registers(status \cup {"BTN"}, unmasked)
    /\ UNCHANGED <<plugged, mike, sensed_mike, detecting, spec, stream, setup, paths, seen, ctl,
                   pcm, crossed>>

-----------------------------------------------------------------------------
(* From the response to the event.                                         *)

(* finalize, then external_device_unsolicited_response: a high GPIO line   *)
(* means there is nothing to do.                                           *)
Respond ==
    /\ h = "idle" /\ raised
    /\ raised' = FALSE
    /\ h' = IF Line THEN "read" ELSE "idle"
    /\ UNCHANGED <<plugged, mike, sensed_mike, status, unmasked, detecting, armed, spec, stream, setup,
                   paths, seen, got, loopcnt, pcm, crossed>>

(* The status registers that cs42l83_read_status_and_clear_interrupt       *)
(* reads: all of them, and reading clears them.                            *)
StatusRead_no_codec == Events \ {"HSDET"}
StatusRead == Events

ReadStatus ==
    /\ h = "read"
    /\ got' = status
    /\ Registers(status \ StatusRead, unmasked)
    /\ h' = "recheck"
    /\ UNCHANGED <<plugged, mike, sensed_mike, detecting, armed, spec, stream, setup, paths, seen,
                   loopcnt, pcm, crossed>>

(* The line is still low: sleep and read again; only the last read counts. *)
LoopLeft_one_more == loopcnt <= LoopMax
LoopLeft == loopcnt < LoopMax

ReadAgain ==
    /\ h = "recheck" /\ Line /\ LoopLeft
    /\ loopcnt' = loopcnt + 1
    /\ h' = "read"
    /\ UNCHANGED <<chip, spec, stream, setup, paths, seen, got, pcm, crossed>>

(* cs_8409_interrupt_action handles one of the unmasked events.            *)
Action_no_button(response) ==
    CASE "PLUG"   \in response -> "plugin"
      [] "UNPLUG" \in response /\ "PLUG" \notin response -> "unplug"
      [] "HSDET"  \in response /\ response \cap {"PLUG", "UNPLUG"} = {} -> "type"
      [] OTHER -> "idle"
Action(response) ==
    CASE "PLUG"   \in response -> "plugin"
      [] "UNPLUG" \in response /\ "PLUG" \notin response -> "unplug"
      [] "HSDET"  \in response /\ response \cap {"PLUG", "UNPLUG"} = {} -> "type"
      [] response = {"BTN"} -> "button"
      [] OTHER -> "idle"

Dispatch ==
    /\ h = "recheck" /\ (~Line \/ ~LoopLeft)
    /\ h' = Action(got \cap unmasked)
    /\ dirty' = (dirty \/ h' = "unplug")          \* mark_jack
    /\ got' = {} /\ loopcnt' = 0
    /\ UNCHANGED <<chip, spec, stream, setup, paths, reported, pcm, crossed>>

-----------------------------------------------------------------------------
(* PLUG                                                                    *)

(* cs_8409_plugin_handle_detect; 1.8 s pass before the next step.          *)
HandleDetect ==
    /\ h = "plugin"
    /\ jack_present' = 2
    /\ Registers(status \ {"BTN"}, unmasked \ {"BTN"})
    /\ h' = "complete"
    /\ UNCHANGED <<plugged, mike, sensed_mike, detecting, armed, headset_enable, have_mike, stream,
                   setup, paths, seen, got, loopcnt, pcm, crossed>>

(* cs_8409_plugin_complete_detect, its headphone sense.                    *)
CompleteDetect ==
    /\ h = "complete"
    /\ jack_present' = IF plugged THEN 1 ELSE 0
    /\ headset_enable' = IF plugged THEN 1 ELSE 0
    /\ h' = IF plugged THEN "watch" ELSE "idle"
    /\ UNCHANGED <<chip, have_mike, stream, setup, paths, seen, got, loopcnt, pcm, crossed>>

(* cs42l83_unplug_interrupt_setup: mask PLUG, unmask UNPLUG.               *)
MaskUnplug_only(um) == um \cup {"UNPLUG"}
MaskUnplug(um) == (um \ {"PLUG"}) \cup {"UNPLUG"}

(* ... and the rest of it.  cs42l83_unplug_interrupt_setup reads, and so   *)
(* clears, the tip sense status before it unmasks UNPLUG.                  *)
WatchUnplug ==
    /\ h = "watch"
    /\ Registers(status \ {"PLUG", "UNPLUG"},
                 MaskUnplug(unmasked) \cup {"HSDET"})
    /\ detecting' = TRUE
    /\ h' = "idle"
    /\ UNCHANGED <<plugged, mike, sensed_mike, armed, spec, stream, setup, paths, seen, got,
                   loopcnt, pcm, crossed>>

-----------------------------------------------------------------------------
(* HSDET and BTN                                                           *)

(* cs_8409_headset_type_detect_event; types 1 and 2 have a mike, the       *)
(* others leave have_mike alone.                                           *)
TypeDetect ==
    /\ h = "type"
    /\ detecting' = FALSE
    /\ have_mike' = (have_mike \/ sensed_mike)
    /\ IF have_mike'
         THEN /\ Registers(status \ {"BTN"}, (unmasked \ {"HSDET"}) \cup {"BTN"})
              /\ armed' = TRUE
              /\ h' = "idle"
              /\ UNCHANGED dirty
         ELSE /\ Registers(status, unmasked \ {"HSDET"})
              /\ UNCHANGED armed
              /\ h' = "continue"
              /\ dirty' = TRUE
    /\ UNCHANGED <<plugged, mike, sensed_mike, jack_present, headset_enable, stream, setup, paths,
                   reported, got, loopcnt, pcm, crossed>>

(* cs_8409_headset_button_detect_event, then mark_jack.                    *)
ButtonDetect ==
    /\ h = "button"
    /\ IF "BTN" \in unmasked
         THEN Registers(status \ {"BTN"}, unmasked \ {"BTN"}) /\ armed' = FALSE
         ELSE UNCHANGED <<status, unmasked, raised, armed>>
    /\ dirty' = TRUE
    /\ h' = "continue"
    /\ UNCHANGED <<plugged, mike, sensed_mike, detecting, spec, stream, setup, paths, reported, got,
                   loopcnt, pcm, crossed>>

(* switch_input_src                                                        *)
Other_stays(path) == path
Other(path) == IF path = "intmic" THEN "hsmic" ELSE "intmic"

(* cs_8409_plugin_event_continued: set_power_state senses the headphone.   *)
PluginContinued ==
    /\ h = "continue"
    /\ IF plugged
         THEN /\ IF playing THEN amps' = FALSE /\ hs' = TRUE ELSE UNCHANGED <<amps, hs>>
              /\ inputs' = FALSE
              /\ IF have_mike
                   THEN /\ intmic' = FALSE
                        /\ input_path' = Other(input_path)
                        /\ Registers(status \ {"BTN"}, unmasked \ {"BTN"})
                   ELSE UNCHANGED <<intmic, input_path, status, unmasked, raised>>
              /\ UNCHANGED hsmic
         ELSE UNCHANGED <<paths, status, unmasked, raised>>
    /\ h' = "report"
    /\ UNCHANGED <<plugged, mike, sensed_mike, detecting, armed, spec, stream, setup, seen, got,
                   loopcnt, pcm, crossed>>

(* snd_hda_jack_report_sync: the sensed state of a dirty jack.             *)
Report ==
    /\ h = "report"
    /\ IF dirty THEN reported' = (jack_present # 0) ELSE UNCHANGED reported
    /\ dirty' = FALSE
    /\ h' = "idle"
    /\ UNCHANGED <<chip, spec, stream, setup, paths, got, loopcnt, pcm, crossed>>

-----------------------------------------------------------------------------
(* UNPLUG                                                                  *)

(* cs_8409_headset_unplug_event                                            *)
UnplugEvent ==
    /\ h = "unplug"
    /\ h' = IF plugged THEN "idle" ELSE "disconnect"
    /\ UNCHANGED <<chip, spec, stream, setup, paths, seen, got, loopcnt, pcm, crossed>>

(* cs42l83_plugin_interrupt_setup: mask UNPLUG, unmask PLUG.               *)
MaskPlug_forgotten(um) == um
MaskPlug(um) == (um \ {"UNPLUG"}) \cup {"PLUG"}

(* cs42l83_enable_hs_auto_int_off and cs42l83_headset_detect2_off          *)
DetectionOff_buttons(um) == um \ {"BTN"}
DetectionOff(um) == um \ {"HSDET", "BTN"}

(* cs_8409_unplug_handle_disconnect: watch for the next plug.  Here too    *)
(* the tip sense status is cleared before PLUG is unmasked.                *)
WatchPlug ==
    /\ h = "disconnect"
    /\ Registers(status \ {"PLUG", "UNPLUG", "BTN"}, DetectionOff(MaskPlug(unmasked)))
    /\ armed' = FALSE
    /\ h' = "sense"
    /\ UNCHANGED <<plugged, mike, sensed_mike, detecting, spec, stream, setup, paths, seen, got,
                   loopcnt, pcm, crossed>>

(* Sense again, report, and stop the headphone output.                     *)
SenseUnplugged ==
    /\ h = "sense"
    /\ IF plugged
         THEN h' = "reset" /\ UNCHANGED <<jack_present, hs, seen>>
         ELSE /\ jack_present' = 0
              /\ IF dirty THEN reported' = FALSE ELSE UNCHANGED reported
              /\ dirty' = FALSE
              /\ hs' = (hs /\ ~playing)
              /\ h' = "speakers"
    /\ UNCHANGED <<chip, headset_enable, have_mike, stream, setup, amps, intmic, hsmic,
                   inputs, input_path, got, loopcnt, pcm, crossed>>

(* 100 ms later: the speakers take over.                                   *)
Speakers_off ==
    /\ h = "speakers"
    /\ inputs' = (inputs /\ have_mike)
    /\ h' = "again"
    /\ UNCHANGED <<chip, spec, stream, setup, amps, hs, intmic, hsmic, input_path, seen, got,
                   loopcnt, pcm, crossed>>

Speakers ==
    /\ h = "speakers"
    /\ amps' = (amps \/ playing)
    /\ inputs' = (inputs /\ have_mike)
    /\ h' = "again"
    /\ UNCHANGED <<chip, spec, stream, setup, hs, intmic, hsmic, input_path, seen, got,
                   loopcnt, pcm, crossed>>

(* A third sense, then the internal microphone takes over.                 *)
InternalMike ==
    /\ h = "again"
    /\ IF ~plugged /\ have_mike
         THEN /\ hsmic' = FALSE /\ hs' = FALSE
              /\ input_path' = Other(input_path)
              /\ intmic' = FALSE
              /\ inputs' = FALSE
         ELSE UNCHANGED <<hsmic, hs, input_path, intmic, inputs>>
    /\ h' = "reset"
    /\ UNCHANGED <<chip, spec, stream, setup, amps, seen, got, loopcnt, pcm, crossed>>

(* The reset at the end, on every path.                                    *)
ResetHeadset ==
    /\ h = "reset"
    /\ jack_present' = 0
    /\ have_mike' = FALSE
    /\ headset_play_format_setup_needed' = TRUE
    /\ headset_capture_format_setup_needed' = TRUE
    /\ h' = "idle"
    /\ UNCHANGED <<chip, headset_enable, stream, paths, seen, got, loopcnt, pcm, crossed>>

-----------------------------------------------------------------------------
(* PCM calls: the pre-prepare hook or the first half of the cleanup hook,  *)
(* then the second half, which performs the responses stored meanwhile     *)
(* (Respond and the handlers) before it updates playing or capturing.      *)

PcmMay == h = "idle" /\ pcm = "idle" /\ crossed' = (crossed \/ ~Quiet)

PlayPrepare ==
    /\ PcmMay
    /\ play_init_count' = 1                    \* only "was it 0" is ever asked
    /\ IF play_init_count = 0
         THEN /\ playing' = FALSE
              /\ \/ /\ jack_present # 0
                    /\ have_mike => headset_play_format_setup_needed
                    /\ hs' = (hs \/ headset_enable = 1)      \* headplay_real
                    /\ headset_play_format_setup_needed' =
                         (headset_play_format_setup_needed /\ ~have_mike)
                    /\ UNCHANGED amps
                 \/ /\ jack_present # 0
                    /\ have_mike /\ ~headset_play_format_setup_needed
                    /\ UNCHANGED <<hs, headset_play_format_setup_needed, amps>>
                 \/ /\ jack_present = 0
                    /\ amps' = TRUE                          \* play_real
                    /\ UNCHANGED <<hs, headset_play_format_setup_needed>>
         ELSE UNCHANGED <<playing, hs, headset_play_format_setup_needed, amps>>
    /\ pcm' = "play"
    /\ UNCHANGED <<chip, spec, capturing, capture_init_count,
                   headset_capture_format_setup_needed, intmic, hsmic, inputs, input_path,
                   seen, ctl>>

PlayCleanup ==
    /\ PcmMay
    /\ IF jack_present # 0
         THEN /\ hs' = FALSE                                 \* headplaystop_real
              /\ headset_play_format_setup_needed' = TRUE
              /\ UNCHANGED <<amps, inputs>>
         ELSE /\ amps' = FALSE                               \* playstop_real
              /\ inputs' = FALSE
              /\ UNCHANGED <<hs, headset_play_format_setup_needed>>
    /\ pcm' = "stop"
    /\ UNCHANGED <<chip, spec, stream, headset_capture_format_setup_needed, intmic, hsmic,
                   input_path, seen, ctl>>

CapturePrepare ==
    /\ PcmMay
    /\ capture_init_count' = 1
    /\ capturing' = FALSE
    /\ \/ /\ capture_init_count = 0 /\ jack_present # 0 /\ have_mike
          /\ hs' = (hs \/ (headset_play_format_setup_needed /\ headset_enable = 1))
          /\ hsmic' = (hsmic \/ (headset_capture_format_setup_needed /\ headset_enable = 1))
          /\ headset_play_format_setup_needed' = FALSE
          /\ headset_capture_format_setup_needed' = FALSE
          /\ UNCHANGED <<intmic, inputs>>
       \/ /\ capture_init_count = 0 /\ jack_present = 0
          /\ intmic' = TRUE /\ inputs' = TRUE                \* capture_real
          /\ UNCHANGED <<hs, hsmic, setup>>
       \/ /\ capture_init_count # 0 \/ (jack_present # 0 /\ ~have_mike)
          /\ UNCHANGED <<hs, hsmic, intmic, inputs, setup>>
    /\ pcm' = "capture"
    /\ UNCHANGED <<chip, spec, playing, play_init_count, amps, input_path, seen, ctl>>

CaptureCleanup ==
    /\ PcmMay
    /\ IF jack_present # 0
         THEN /\ hsmic' = (hsmic /\ headset_capture_format_setup_needed)
              /\ headset_capture_format_setup_needed' = TRUE
              /\ hs' = (hs /\ (playing \/ headset_play_format_setup_needed))
              /\ headset_play_format_setup_needed' =
                   (headset_play_format_setup_needed \/ ~playing)
              /\ UNCHANGED <<intmic, inputs>>
         ELSE /\ intmic' = FALSE /\ inputs' = FALSE          \* capturestop_real
              /\ UNCHANGED <<hs, hsmic, setup>>
    /\ pcm' = "capstop"
    /\ UNCHANGED <<chip, spec, stream, amps, input_path, seen, ctl>>

(* The second half of the hooks.                                           *)
Hook ==
    /\ pcm # "idle" /\ h = "idle"
    /\ playing' = (pcm = "play" \/ (playing /\ pcm # "stop"))
    /\ capturing' = (pcm = "capture" \/ (capturing /\ pcm # "capstop"))
    /\ play_init_count' = IF pcm = "stop" THEN 0 ELSE play_init_count
    /\ capture_init_count' = IF pcm = "capstop" THEN 0 ELSE capture_init_count
    /\ pcm' = "idle"
    /\ UNCHANGED <<chip, spec, setup, paths, seen, ctl, crossed>>

-----------------------------------------------------------------------------
JackMove == Plug \/ Unplug

ChipStep == TypeDetected \/ ButtonDetected

HandlerStep ==
    \/ Respond \/ ReadStatus \/ ReadAgain \/ Dispatch
    \/ HandleDetect \/ CompleteDetect \/ WatchUnplug
    \/ TypeDetect \/ ButtonDetect \/ PluginContinued \/ Report
    \/ UnplugEvent \/ WatchPlug \/ SenseUnplugged \/ Speakers \/ InternalMike
    \/ ResetHeadset

PcmCall == PlayPrepare \/ PlayCleanup \/ CapturePrepare \/ CaptureCleanup

Next == JackMove \/ ChipStep \/ HandlerStep \/ PcmCall \/ Hook

(* Handlers and hooks finish; the chip answers.  Nobody need touch the     *)
(* jack or a stream.                                                       *)
Fairness == WF_vars(ChipStep) /\ WF_vars(HandlerStep) /\ WF_vars(Hook)

Spec == Init /\ [][Next]_vars

FairSpec == Spec /\ Fairness

-----------------------------------------------------------------------------
(* Properties.                                                             *)

Points == {"idle", "read", "recheck", "plugin", "complete", "watch", "type", "button",
           "continue", "report", "unplug", "disconnect", "sense", "speakers", "again", "reset"}

(* Every variable keeps its type.                                          *)
TypeOK ==
    /\ plugged \in BOOLEAN /\ mike \in BOOLEAN
    /\ status \subseteq Events /\ unmasked \subseteq Events
    /\ detecting \in BOOLEAN /\ sensed_mike \in BOOLEAN
    /\ armed \in BOOLEAN /\ raised \in BOOLEAN
    /\ jack_present \in 0 .. 2 /\ headset_enable \in {0, 1} /\ have_mike \in BOOLEAN
    /\ playing \in BOOLEAN /\ capturing \in BOOLEAN
    /\ play_init_count \in {0, 1} /\ capture_init_count \in {0, 1}
    /\ headset_play_format_setup_needed \in BOOLEAN
    /\ headset_capture_format_setup_needed \in BOOLEAN
    /\ amps \in BOOLEAN /\ hs \in BOOLEAN /\ intmic \in BOOLEAN /\ hsmic \in BOOLEAN
    /\ inputs \in BOOLEAN /\ input_path \in {"intmic", "hsmic"}
    /\ reported \in BOOLEAN /\ dirty \in BOOLEAN
    /\ h \in Points
    /\ got \subseteq Events /\ loopcnt \in 0 .. LoopMax
    /\ pcm \in {"idle", "play", "stop", "capture", "capstop"}
    /\ crossed \in BOOLEAN

(* Once all is quiet a playing stream comes out of the headphones when     *)
(* they are plugged in, out of the speakers otherwise, and of one of them  *)
(* only: plugging and unplugging while playing.  A PCM call that crossed a *)
(* handler may have left it otherwise.                                     *)
PlayRoute ==
    Settled /\ ~crossed /\ playing => hs = plugged /\ amps = ~plugged

(* Nothing is left on when no stream runs.                                 *)
NothingLeftOn ==
    Settled /\ ~crossed =>
        /\ amps => playing
        /\ hs => playing \/ capturing
        /\ hsmic => capturing

(* The driver and user space know what is in the jack, however streams     *)
(* start and stop while its handlers run.                                  *)
JackKnown ==
    Settled => /\ (jack_present = 1) = plugged
              /\ reported = plugged
              /\ have_mike = mike

(* The next move of the jack will interrupt: the edge that can come next   *)
(* is the one let through.                                                 *)
NextEdgeWatched ==
    Settled => IF plugged THEN "UNPLUG" \in unmasked ELSE "PLUG" \in unmasked

(* The input path is that of the microphone in use, although it is only    *)
(* ever toggled.                                                           *)
InputPathRight == Settled => (input_path = "hsmic") = mike

(* While the driver waits for a plug it has forgotten the last headset,    *)
(* whatever the jack and the streams did meanwhile.                        *)
ForgottenWhenUnplugged ==
    h = "idle" /\ "PLUG" \in unmasked =>
        /\ jack_present = 0
        /\ ~have_mike
        /\ headset_play_format_setup_needed
        /\ headset_capture_format_setup_needed

(* Type and button detection interrupts are let through only while an      *)
(* unplug would be noticed.                                                *)
DetectionWatched ==
    unmasked \cap {"HSDET", "BTN"} # {} => "UNPLUG" \in unmasked

(* The headset that is plugged in is reported.                             *)
PlugReported == plugged ~> (reported \/ ~plugged)

(* Every plug and unplug is dealt with in the end.                         *)
Settles == []<>Settled

(* A headset found missing by cs_8409_plugin_event_continued is left to    *)
(* the unplug interrupt, whose handler runs.                               *)
UnplugInterruptFollows ==
    (h = "continue" /\ ~plugged) ~> (h = "unplug" \/ plugged)

=============================================================================
