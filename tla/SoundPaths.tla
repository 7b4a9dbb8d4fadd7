----------------------------- MODULE SoundPaths -----------------------------
(***************************************************************************)
(* The Apple driver and the registers it keeps: which converters, slots,   *)
(* buses, pins and amplifiers of the CS8409 bridge (CS8409Paths) and which *)
(* parts of the CS42L83 headset codec (CS42L83) are on after booting,      *)
(* plugging and unplugging, and the PCM calls of patch_cirrus_new84.h.     *)
(*                                                                         *)
(* HeadsetJack has the interrupts and every order in which the handlers    *)
(* and the PCM calls meet.  Here a handler or a PCM call is one step, and  *)
(* the jack and the streams move when no handler is due.                   *)
(***************************************************************************)
EXTENDS CS8409Paths

L83 == INSTANCE CS42L83

VARIABLES
    c, x,               \* the bridge and the headset codec
    jack,               \* what is plugged in: "none", "phones" or "headset"
    stage,              \* what the driver is about to handle
    \* struct cs8409_apple_spec
    jack_present, headset_enable, have_mike,
    playing, capturing, play_init_count, capture_init_count,
    headset_play_format_setup_needed, headset_capture_format_setup_needed,
    stream_channels,
    \* the user's streams
    heard,              \* format of the playback stream
    alone,              \* nothing was recorded when it was first prepared
    taken,              \* converter and format of the capture stream
    undisturbed,        \* no playback stopped and the jack kept still since it began
    pulled              \* a headset was pulled out of a recording

found   == <<jack_present, headset_enable, have_mike>>
streams == <<playing, capturing, play_init_count, capture_init_count>>
setup   == <<headset_play_format_setup_needed, headset_capture_format_setup_needed>>
user    == <<heard, alone, taken, undisturbed, pulled>>
vars    == <<c, x, jack, stage, found, streams, setup, stream_channels, user>>

PlayTag    == 2             \* stream tags the HDA controller gives out
CaptureTag == 1

(* A format's low digit counts its channels.                               *)
Channels(f) == IF f \in {"4033", "4043"} THEN 4 ELSE 2

NotTaken == [nid |-> "none", fmt |-> NoFormat]

Kinds == {"none", "phones", "headset"}

Plugged == jack # "none"

-----------------------------------------------------------------------------
(* Booting: cs_8409_boot_setup_real, in the parts it consists of.          *)

(* Out of reset nothing streams.                                           *)
BridgeReset ==
    [slots |-> {}, buses |-> {}, run |-> FALSE, clocks |-> {}, tdm |-> {}, sync |-> {},
     d0 |-> {"afg"}, pins |-> {}, amps |-> {}, unmuted |-> {},
     reg |-> [nid \in Converters |-> Silent],
     cache |-> [nid \in Converters |-> Silent],
     store |-> [nid \in Converters |-> Silent]]

(* cs42l83_inithw, then cs42l83_plugin_interrupt_setup.                    *)
ChipReset ==
    L83!plugin_interrupt_setup(
        [powered |-> {}, dac |-> FALSE, adc |-> TRUE, rx |-> FALSE, tx |-> FALSE, pll |-> FALSE,
         rates |-> {}, hpout |-> {"clamped", "pulldown"}, watch |-> "none", buttons |-> "off",
         typeint |-> FALSE, hsdet |-> "manual", bias |-> "open", micdet |-> FALSE,
         sense |-> FALSE])

BootVolumes(b) ==
    LET b1 == volume_mute(volume_mute(b, "adc"), "linein")
    IN  volume_unmute(volume_unmute(b1, "adc"), "linein")

(* The internal microphone is set up once, and turned off again.           *)
InputsOff(b) ==
    LET b1 == linein_format_setup_disable(linein_volume_setup(b))
        b2 == linein_stream_conn_off(intmike_stream_conn_off(b1))
    IN  linein_stream_off_nid(intmike_stream_off_nid(b2))

BootInputs(b) ==
    LET b1 == store_stream_format(b, "adc", 0, IntMike)
        b2 == intmike_volume_setup(intmike_format_setup_enable(b1, TRUE))
        b3 == really_update_stream_format(intmike_stream_on_nid(b2), "adc", 0, 0)
    IN  BootVolumes(InputsOff(b3))

(* No headset: the speakers are set up once without a stream, and turned   *)
(* off again.                                                              *)
BootSpeakers(b) ==
    LET b1 == setup_amps12(setup_TDM_amps12(b, TRUE), FALSE)
        b2 == setup_amps34(setup_TDM_amps34(b1, TRUE, 0), FALSE)
        b3 == sync_converters_off(sync_converters_on(b2, TRUE), TRUE)
        b4 == disable_TDM_amps12(disable_amps12(b3))
        b5 == disable_TDM_amps34(disable_amps34(b4))
        b6 == inputs_power_nids_off(volume_unmute(volume_unmute(b5, "adc"), "linein"))
    IN  InputsOff(really_update_stream_format(
                volume_unmute(volume_unmute(b6, "adc"), "linein"), "adc", 0, 0))

(* A headset with a microphone: its input is set up right away.            *)
BootHeadsetInput(b) == headset_mike_format_setup_enable(intmike_linein_disable(b))

BootHeadsetChip(h) ==
    LET h1 == L83!plugin_complete_detect(L83!plugin_handle_detect(h))
        h2 == L83!headset_button_detect_event(L83!headset_type_detect_event(h1, TRUE))
        h3 == L83!mike_enable(L83!input_set_output_sample_rate(h2))
    IN  L83!headset_mike_buttons_enable(h3)

Init ==
    /\ c = BridgeReset /\ x = ChipReset
    /\ jack \in Kinds /\ stage = "boot"
    /\ jack_present = 0 /\ headset_enable = 0 /\ have_mike = FALSE
    /\ playing = FALSE /\ capturing = FALSE
    /\ play_init_count = 0 /\ capture_init_count = 0
    /\ headset_play_format_setup_needed = TRUE
    /\ headset_capture_format_setup_needed = TRUE
    /\ stream_channels = 0
    /\ heard = NoFormat /\ alone = FALSE
    /\ taken = NotTaken /\ undisturbed = FALSE /\ pulled = FALSE

BootNoHeadset ==
    /\ stage = "boot" /\ jack = "none"
    /\ c' = BootSpeakers(BootInputs(c))
    /\ stage' = "idle"
    /\ UNCHANGED <<x, jack, jack_present, headset_enable, have_mike, streams, setup,
                   stream_channels, user>>

(* The wait for the type detection interrupt may run out; its response is  *)
(* then handled after the boot.                                            *)
BootLate ==
    /\ stage = "boot" /\ Plugged
    /\ c' = BootInputs(c)
    /\ x' = L83!plugin_complete_detect(L83!plugin_handle_detect(x))
    /\ jack_present' = 1 /\ headset_enable' = 1
    /\ stage' = "type"
    /\ UNCHANGED <<jack, have_mike, streams, setup, stream_channels, user>>

BootPhones ==
    /\ stage = "boot" /\ jack = "phones"
    /\ c' = BootInputs(c)
    /\ x' = L83!headset_type_detect_event(
                L83!plugin_complete_detect(L83!plugin_handle_detect(x)), FALSE)
    /\ jack_present' = 1 /\ headset_enable' = 1
    /\ stage' = "idle"
    /\ UNCHANGED <<jack, have_mike, streams, setup, stream_channels, user>>

BootHeadset ==
    /\ stage = "boot" /\ jack = "headset"
    /\ c' = BootHeadsetInput(BootInputs(c))
    /\ x' = BootHeadsetChip(x)
    /\ jack_present' = 1 /\ headset_enable' = 1 /\ have_mike' = TRUE
    /\ stage' = "idle"
    /\ UNCHANGED <<jack, streams, setup, stream_channels, user>>

-----------------------------------------------------------------------------
(* Plugging in.                                                            *)

Plug ==
    /\ stage = "idle" /\ ~Plugged
    /\ jack' \in Kinds \ {"none"}
    /\ stage' = "plugin"
    /\ undisturbed' = FALSE
    /\ UNCHANGED <<c, x, found, streams, setup, stream_channels, heard, alone, taken,
                   pulled>>

(* cs_8409_headset_plugin_event                                            *)
PluginEvent ==
    /\ stage = "plugin"
    /\ c' = Power(c, {"afg"})
    /\ x' = L83!plugin_complete_detect(L83!plugin_handle_detect(x))
    /\ jack_present' = 1 /\ headset_enable' = 1
    /\ stage' = "type"
    /\ UNCHANGED <<jack, have_mike, streams, setup, stream_channels, user>>

(* cs_8409_plugin_event_continued after the event has made h of the chip,  *)
(* once the codec is built (headset_phase is 2 or more).                   *)
Continued(h, mike) ==
    LET b  == Power(c, {"afg"})
        b1 == IF playing THEN headset_amp_format_setup(amps_disable_streaming(b)) ELSE b
        h1 == IF playing THEN L83!enable_headset_streaming(h) ELSE h
        b2 == inputs_power_nids_off(b1)
    IN  IF mike
          THEN /\ c' = intmike_linein_disable(b2)
               /\ x' = L83!headset_mike_buttons_enable(h1)
          ELSE c' = b2 /\ x' = h1

(* cs_8409_headset_type_detect_event; without a microphone the plug is     *)
(* dealt with here.                                                        *)
TypeDetect ==
    /\ stage = "type"
    /\ have_mike' = (have_mike \/ jack = "headset")
    /\ IF have_mike'
         THEN /\ c' = Power(c, {"afg"})
              /\ x' = L83!headset_type_detect_event(x, TRUE)
              /\ stage' = "button"
         ELSE /\ Continued(L83!headset_type_detect_event(x, FALSE), FALSE)
              /\ stage' = "idle"
    /\ UNCHANGED <<jack, jack_present, headset_enable, streams, setup,
                   stream_channels, user>>

(* cs_8409_headset_button_detect_event, and the rest of the plug.          *)
ButtonDetect ==
    /\ stage = "button"
    /\ Continued(L83!headset_button_detect_event(x), have_mike)
    /\ stage' = "idle"
    /\ UNCHANGED <<jack, found, streams, setup, stream_channels, user>>

-----------------------------------------------------------------------------
(* Unplugging.  It may come before the type or the buttons are detected:   *)
(* their interrupts are masked then.                                       *)

Unplug ==
    /\ stage \in {"idle", "type", "button"} /\ Plugged
    /\ jack' = "none"
    /\ stage' = "unplug"
    /\ undisturbed' = FALSE
    /\ pulled' = (pulled \/ (jack = "headset" /\ capturing))
    /\ UNCHANGED <<c, x, found, streams, setup, stream_channels, heard, alone, taken>>

(* cs_8409_unplug_handle_disconnect, on the chip.                          *)
DisconnectChip(h) ==
    LET h1 == L83!headset_detect2_off(L83!enable_hs_auto_int_off(L83!plugin_interrupt_setup(h)))
        h2 == IF have_mike
                THEN L83!disable_button_interrupts(
                         L83!enable_hsbias_auto_clamp_off3(L83!power_hs_bias_off(h1)))
                ELSE h1
        h3 == L83!buffers_onoff(L83!power_off_codec_output(L83!headset_enable_off(h2)), FALSE)
        h4 == IF have_mike THEN h3 ELSE L83!power_onoff(h3, FALSE)
        h5 == IF playing
                THEN L83!power_off_codec_output(L83!headset_enable_off(h4))
                ELSE h2
        h6 == IF have_mike THEN L83!power_onoff(L83!mike_disable(h5), FALSE) ELSE h5
    IN  L83!headset_switch_control(L83!unplug_headset_detect_off(h6))

(* The same, on the bridge: the headphone output stops, the speakers take  *)
(* over, and then the internal microphone.                                 *)
DisconnectBridge(b) ==
    LET b1 == IF playing
                THEN PlaySpeakers(headset_amp_format_setup_disable(b, ~have_mike),
                                  stream_channels)
                ELSE b
    IN  inputs_power_nids_off(
            IF have_mike
              THEN intmike_linein_resetup(headset_amp_disable_and_mike_format_setup_disable(b1))
              ELSE b1)

UnplugEvent ==
    /\ stage = "unplug"
    /\ c' = DisconnectBridge(Power(c, {"afg"}))
    /\ x' = DisconnectChip(x)
    /\ jack_present' = 0 /\ have_mike' = FALSE
    /\ headset_play_format_setup_needed' = TRUE
    /\ headset_capture_format_setup_needed' = TRUE
    /\ stage' = "idle"
    /\ UNCHANGED <<jack, headset_enable, streams, stream_channels, user>>

-----------------------------------------------------------------------------
(* The PCM calls, hooks included.                                          *)

(* HeadsetJack has the calls that come between two handlers.               *)
PcmMay == stage = "idle"

AtMost(n, i) == IF i < n THEN i ELSE n      \* a counter that is only compared with 1

headplay_real(b) == IF headset_enable = 1 THEN headset_amp_format_setup(b) ELSE b

headplay_chip(h) == IF headset_enable = 1 THEN L83!enable_headset_streaming(h) ELSE h

headcapture_real(b) == IF headset_enable = 1 THEN headset_mike_format_setup_enable(b) ELSE b

headcapture_chip(h) == IF headset_enable = 1 THEN L83!enable_headset_mike_streaming(h) ELSE h

capture_real_powered_down(b) ==
    LET b1 == inputs_power_nids_on(Power(b, {"afg"}))
        b2 == intmike_volume_setup(intmike_format_setup_enable(b1, TRUE))
    IN  volume_unmute(volume_unmute(intmike_stream_on_nid(b2), "adc"), "linein")
capture_real(b) ==
    LET b1 == inputs_power_nids_on(Power(b, {"afg"}))
        b2 == intmike_volume_setup(intmike_format_setup_enable(b1, FALSE))
    IN  volume_unmute(volume_unmute(intmike_stream_on_nid(b2), "adc"), "linein")

capturestop_real(b) ==
    LET b1 == linein_stream_conn_off(intmike_stream_conn_off(b))
        b2 == linein_stream_reset_nid_off(intmike_stream_reset_nid_on(b1))
        b3 == intmike_format_setup_disable(volume_mute(b2, "adc"))
    IN  inputs_power_nids_off(linein_format_setup_disable(volume_mute(b3, "linein")))

(* The first of several prepares sets the paths up; each of them stores    *)
(* its parameters.                                                         *)
PlayPrepare(f) ==
    /\ PcmMay
    /\ play_init_count' = AtMost(2, play_init_count + 1)
    /\ heard' = f
    /\ alone' = IF play_init_count' = 1 THEN ~capturing ELSE alone
    /\ stream_channels' = Channels(f)
    /\ LET stored == store_stream_format(store_stream_format(store_stream_format(
                         c, "02", PlayTag, f), "03", PlayTag, f), "0a", PlayTag, f)
           needed == ~have_mike \/ headset_play_format_setup_needed
       IN  \/ /\ play_init_count' = 1 /\ jack_present # 0 /\ needed
              /\ c' = headplay_real(stored) /\ x' = headplay_chip(x)
              /\ headset_play_format_setup_needed' =
                   (headset_play_format_setup_needed /\ ~have_mike)
           \/ /\ play_init_count' = 1 /\ jack_present = 0
              /\ c' = PlaySpeakers(Power(stored, {"afg"}), Channels(f))
              /\ UNCHANGED <<x, headset_play_format_setup_needed>>
           \/ /\ play_init_count' # 1 \/ (jack_present # 0 /\ ~needed)
              /\ c' = stored
              /\ UNCHANGED <<x, headset_play_format_setup_needed>>
    /\ playing' = TRUE
    /\ UNCHANGED <<jack, stage, found, capturing, capture_init_count,
                   headset_capture_format_setup_needed, taken, undisturbed, pulled>>

PlayCleanup ==
    /\ PcmMay
    /\ IF jack_present # 0
         THEN /\ c' = headset_amp_format_setup_disable(c, TRUE)
              /\ x' = L83!disable_headset_streaming(x)
              /\ headset_play_format_setup_needed' = TRUE
         ELSE /\ c' = inputs_power_nids_off(PowerOff(amps_disable_streaming(c), {"afg"}))
              /\ UNCHANGED <<x, headset_play_format_setup_needed>>
    /\ playing' = FALSE /\ play_init_count' = 0 /\ heard' = NoFormat
    /\ alone' = FALSE /\ undisturbed' = FALSE
    /\ UNCHANGED <<jack, stage, found, capturing, capture_init_count,
                   headset_capture_format_setup_needed, stream_channels, taken, pulled>>

(* cs_8409_capture_pcm_prepare: the hook, then the stream is set again.    *)
CapturePrepare(nid, f) ==
    /\ PcmMay
    /\ taken' = [nid |-> nid, fmt |-> f]
    /\ capture_init_count' = AtMost(2, capture_init_count + 1)
    /\ LET first  == capture_init_count' = 1
           headset == first /\ jack_present # 0 /\ have_mike
           stored == store_stream_format(c, nid, CaptureTag, f)
           b1 == IF headset /\ headset_play_format_setup_needed
                   THEN headplay_real(stored) ELSE stored
           b2 == IF headset /\ headset_capture_format_setup_needed
                   THEN headcapture_real(b1) ELSE b1
           b3 == IF first /\ jack_present = 0 THEN capture_real(b2) ELSE b2
           h1 == IF headset /\ headset_play_format_setup_needed THEN headplay_chip(x) ELSE x
       IN  /\ c' = snd_hda_codec_setup_stream(b3, nid,
                       [tag |-> CaptureTag, chan |-> 0, fmt |-> f])
           /\ x' = IF headset /\ headset_capture_format_setup_needed
                     THEN headcapture_chip(h1) ELSE h1
           /\ headset_play_format_setup_needed' =
                (headset_play_format_setup_needed /\ ~headset)
           /\ headset_capture_format_setup_needed' =
                (headset_capture_format_setup_needed /\ ~headset)
    /\ capturing' = TRUE
    /\ undisturbed' = (capture_init_count' = 1 \/ undisturbed)
    /\ UNCHANGED <<jack, stage, found, playing, play_init_count, stream_channels,
                   heard, alone, pulled>>

CaptureCleanup ==
    /\ PcmMay
    /\ IF jack_present # 0
         THEN LET mike == ~headset_capture_format_setup_needed
                  phones == ~playing /\ ~headset_play_format_setup_needed
                  b1 == IF mike THEN headset_mike_format_setup_disable(c) ELSE c
                  h1 == IF mike THEN L83!disable_headset_mike_streaming(x) ELSE x
              IN  /\ c' = IF phones THEN headset_amp_format_setup_disable(b1, TRUE) ELSE b1
                  /\ x' = IF phones THEN L83!disable_headset_streaming(h1) ELSE h1
                  /\ headset_capture_format_setup_needed' = TRUE
                  /\ headset_play_format_setup_needed' =
                       (headset_play_format_setup_needed \/ ~playing)
         ELSE /\ c' = capturestop_real(c)
              /\ UNCHANGED <<x, setup>>
    /\ capturing' = FALSE /\ capture_init_count' = 0 /\ taken' = NotTaken
    /\ undisturbed' = FALSE
    /\ UNCHANGED <<jack, stage, found, playing, play_init_count, stream_channels,
                   heard, alone, pulled>>

-----------------------------------------------------------------------------
Boot == BootNoHeadset \/ BootLate \/ BootPhones \/ BootHeadset

Handler == PluginEvent \/ TypeDetect \/ ButtonDetect \/ UnplugEvent

PcmCall ==
    \/ \E f \in PlayFormats : PlayPrepare(f)
    \/ \E nid \in {"adc", "1a"}, f \in CaptureFormats : CapturePrepare(nid, f)
    \/ PlayCleanup \/ CaptureCleanup

Next == Boot \/ Plug \/ Unplug \/ Handler \/ PcmCall

Spec == Init /\ [][Next]_vars

-----------------------------------------------------------------------------
(* Properties.                                                             *)

(* Every variable keeps its type.                                          *)
TypeOK ==
    /\ c \in Bridge /\ x \in L83!Chip
    /\ jack \in Kinds
    /\ stage \in {"boot", "idle", "plugin", "type", "button", "unplug"}
    /\ jack_present \in {0, 1} /\ headset_enable \in {0, 1} /\ have_mike \in BOOLEAN
    /\ playing \in BOOLEAN /\ capturing \in BOOLEAN
    /\ play_init_count \in 0 .. 2 /\ capture_init_count \in 0 .. 2
    /\ headset_play_format_setup_needed \in BOOLEAN
    /\ headset_capture_format_setup_needed \in BOOLEAN
    /\ stream_channels \in {0, 2, 4}
    /\ heard \in PlayFormats \cup {NoFormat}
    /\ taken \in [nid : {"none", "adc", "1a"}, fmt : CaptureFormats \cup {NoFormat}]
    /\ alone \in BOOLEAN /\ undisturbed \in BOOLEAN /\ pulled \in BOOLEAN

(* The speakers carry the stream f: every stage from the converters to the *)
(* amplifiers is on.                                                       *)
SpeakersOn(f) ==
    /\ c.reg["02"] = [tag |-> PlayTag, chan |-> 0, fmt |-> f]
    /\ c.reg["03"] = [tag |-> PlayTag, chan |-> IF Channels(f) = 2 THEN 0 ELSE 2, fmt |-> f]
    /\ {"amps12", "amps34"} \subseteq c.slots
    /\ "amps" \in c.buses /\ "amps" \in c.clocks /\ "amps" \in c.tdm
    /\ c.run /\ c.sync = {"02", "03"} /\ {"24", "25"} \subseteq c.pins
    /\ c.amps = {"12", "34"}

(* The headphones carry what converter 0a sends.                           *)
HeadphonesOn ==
    /\ "hsout" \in c.slots /\ "2c" \in c.pins
    /\ "headset" \in c.buses /\ "headset" \in c.clocks /\ "headset" \in c.tdm /\ c.run
    /\ "output" \in x.powered /\ x.dac /\ x.rx /\ x.pll /\ "out" \in x.rates

(* The headset's microphone is brought to converter 1a.                    *)
HeadsetMikeOn(f) ==
    /\ c.reg["1a"] = [tag |-> CaptureTag, chan |-> 0, fmt |-> f]
    /\ "hsin" \in c.slots /\ "3c" \in c.pins
    /\ "headset" \in c.buses /\ "headset" \in c.clocks /\ "headset" \in c.tdm /\ c.run
    /\ "input" \in x.powered /\ x.adc /\ x.tx /\ x.pll /\ "in" \in x.rates

(* The internal microphone is brought to its converter.                    *)
InternalMikeOn(f) ==
    /\ c.reg["adc"] = [tag |-> CaptureTag, chan |-> 0, fmt |-> f]
    /\ {"afg", "adc"} \subseteq c.d0
    /\ "intmike" \in c.pins /\ "intmike" \in c.clocks /\ "adc" \in c.unmuted

(* With nothing in the jack a playing stream comes out of the speakers,    *)
(* on both pairs, in the format it was prepared with: after any plugging   *)
(* and unplugging under it, but not if it was prepared anew meanwhile, for *)
(* a second prepare only stores its format.                                *)
SpeakersPlay ==
    stage = "idle" /\ playing /\ jack = "none" /\ play_init_count = 1 => SpeakersOn(heard)

(* With headphones in the jack a playing stream comes out of them.  Their  *)
(* converter has its tag and format, unless a recording was there first:   *)
(* it sets the headphones up for no stream, and the prepare leaves them.   *)
HeadphonesPlay ==
    stage = "idle" /\ playing /\ Plugged =>
        /\ HeadphonesOn
        /\ alone /\ play_init_count = 1 =>
               c.reg["0a"] = [tag |-> PlayTag, chan |-> 0, fmt |-> heard]

(* A headset's microphone records, with the headphones on for its clocks,  *)
(* until the headset is pulled out or playback stops.                      *)
HeadsetRecords ==
    stage = "idle" /\ capturing /\ jack = "headset" /\ taken.nid = "1a" /\ undisturbed =>
        HeadsetMikeOn(taken.fmt) /\ HeadphonesOn

(* So does the internal microphone, until a plug or the end of playback,   *)
(* which power its converter off.                                          *)
InternalRecords ==
    stage = "idle" /\ capturing /\ jack = "none" /\ taken.nid = "adc" /\ undisturbed =>
        InternalMikeOn(taken.fmt)

(* The speakers are off while headphones are in the jack, the headphone    *)
(* output while they are not; a headset pulled out of a recording leaves   *)
(* its output on.                                                          *)
OneRoute ==
    stage = "idle" =>
        IF Plugged
          THEN c.amps = {} /\ c.slots \cap {"amps12", "amps34"} = {}
          ELSE pulled \/ (~x.dac /\ "hsout" \notin c.slots)

(* What a stopped stream used is off: the amplifiers and their converters, *)
(* the microphone's converters, and once both have stopped the headset     *)
(* codec, unless a headset was pulled out of a recording.                  *)
QuietWhenStopped ==
    stage = "idle" =>
        /\ ~playing => c.amps = {} /\ c.reg["02"].tag = 0 /\ c.reg["03"].tag = 0
        /\ ~capturing => c.d0 \cap {"adc", "linein"} = {}
        /\ ~playing /\ ~capturing /\ ~pulled => ~x.dac /\ x.powered = {}

(* The headset codec waits for what can happen next: the other move of the *)
(* jack, and the buttons of a headset, which it senses on the microphone's *)
(* bias; no type or button detection is left half done.                    *)
CodecListens ==
    stage = "idle" =>
        /\ x.watch = IF Plugged THEN "unplug" ELSE "plug"
        /\ ~x.typeint
        /\ IF jack = "headset"
             THEN x.buttons = "press" /\ x.bias = "on" /\ x.micdet /\ x.sense
             ELSE x.buttons = "off" /\ x.bias # "on" /\ ~x.sense

=============================================================================
