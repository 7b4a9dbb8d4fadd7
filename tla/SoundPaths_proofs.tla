-------------------------- MODULE SoundPaths_proofs --------------------------
(***************************************************************************)
(* What SoundPaths says of the driver, proved for every board and any      *)
(* stream formats: every variable keeps its type, a stream comes out of    *)
(* the speakers or the headphones and nowhere else, a recording reaches    *)
(* the converter it was taken from, what stopped is off, and the headset   *)
(* codec waits for what can happen next.                                   *)
(***************************************************************************)
EXTENDS SoundPaths, CS8409Paths_proofs

-----------------------------------------------------------------------------
(* The headset codec: what each sequence of patch_cirrus_real84.h does.    *)

ChipParts == {"powered", "dac", "adc", "rx", "tx", "pll", "rates", "hpout", "watch", "buttons",
              "typeint", "hsdet", "bias", "micdet", "sense"}

(* From h to g nothing changes but the given parts.                        *)
ChipKeeps(g, h, changed) == \A p \in ChipParts \ changed : g[p] = h[p]

LEMMA ChipPlayEffect ==
    ASSUME NEW h \in L83!Chip
    PROVE  LET g == L83!enable_headset_streaming(h)
           IN  /\ g \in L83!Chip
               /\ ChipKeeps(g, h, {"powered", "dac", "rx", "pll", "rates", "hpout"})
               /\ g.powered = h.powered \cup {"output"} /\ g.dac = TRUE /\ g.rx = TRUE
               /\ g.pll = TRUE /\ g.rates = h.rates \cup {"out"}
<1> DEFINE s == L83!headset_play_setup_on(h)
           g == L83!headset_enable_on(L83!set_power_state_on(s, 0))
<1>1. /\ s \in L83!Chip
      /\ ChipKeeps(s, h, {"dac", "rx", "pll", "rates", "hpout"})
      /\ s.rx = TRUE /\ s.pll = TRUE /\ s.rates = h.rates \cup {"out"}
    BY DEF L83!headset_play_setup_on, L83!buffers_onoff, L83!setup_audio_output,
           L83!output_set_input_sample_rate, L83!power_onoff, L83!configure_int_mclk,
           L83!Chip, ChipParts, ChipKeeps
<1>2. g = L83!enable_headset_streaming(h)
    BY DEF L83!enable_headset_streaming
<1> HIDE DEF s
<1>3. /\ g \in L83!Chip /\ ChipKeeps(g, s, {"powered", "dac"})
      /\ g.powered = s.powered \cup {"output"} /\ g.dac = TRUE
  <2> DEFINE s1 == [s EXCEPT !.powered = @ \cup {"output"}]
             s2 == [s1 EXCEPT !.dac = TRUE]
  <2>1. L83!set_power_state_on(s, 0) = s1
      BY DEF L83!set_power_state_on
  <2>2. s1 \in L83!Chip /\ ChipKeeps(s1, s, {"powered"}) /\ s1.powered = s.powered \cup {"output"}
      BY <1>1 DEF L83!Chip, ChipParts, ChipKeeps
  <2> HIDE DEF s1
  <2>3. s2 \in L83!Chip /\ ChipKeeps(s2, s1, {"dac"}) /\ s2.dac = TRUE
      BY <2>2 DEF L83!Chip, ChipParts, ChipKeeps
  <2>4. g = s2
      BY <2>1 DEF L83!headset_enable_on
  <2> HIDE DEF s2, g
  <2> QED
      BY <2>2, <2>3, <2>4 DEF ChipKeeps, ChipParts
<1> HIDE DEF g
<1> QED
    BY <1>1, <1>2, <1>3 DEF ChipKeeps, ChipParts

LEMMA ChipStopEffect ==
    ASSUME NEW h \in L83!Chip
    PROVE  LET g == L83!disable_headset_streaming(h)
           IN  /\ g \in L83!Chip
               /\ ChipKeeps(g, h, {"powered", "dac", "rx", "pll"})
               /\ g.powered = h.powered \ {"output"} /\ g.dac = FALSE
BY DEF L83!disable_headset_streaming, L83!headset_disable, L83!power_off_codec_output,
       L83!headset_enable_off, L83!buffers_onoff, L83!power_onoff,
       L83!Chip, ChipParts, ChipKeeps

LEMMA ChipRecordEffect ==
    ASSUME NEW h \in L83!Chip
    PROVE  LET g == L83!enable_headset_mike_streaming(h)
           IN  /\ g \in L83!Chip
               /\ ChipKeeps(g, h, {"powered", "adc", "tx", "rates"})
               /\ g.powered = h.powered \cup {"input"} /\ g.adc = TRUE /\ g.tx = TRUE
               /\ g.rates = h.rates \cup {"in"}
BY DEF L83!enable_headset_mike_streaming, L83!mike_enable, L83!input_set_output_sample_rate,
       L83!headset_mike_adc_unmutevol, L83!set_power_state_on,
       L83!Chip, ChipParts, ChipKeeps

LEMMA ChipRecordOffEffect ==
    ASSUME NEW h \in L83!Chip
    PROVE  LET g == L83!disable_headset_mike_streaming(h)
           IN  /\ g \in L83!Chip
               /\ ChipKeeps(g, h, {"powered", "adc", "tx"})
               /\ g.powered = h.powered \ {"input"}
BY DEF L83!disable_headset_mike_streaming, L83!mike_disable, L83!power_off_codec_input,
       L83!headset_mike_adc_unmutevol, L83!Chip, ChipParts, ChipKeeps

LEMMA ChipPluginEffect ==
    ASSUME NEW h \in L83!Chip
    PROVE  LET g == L83!plugin_complete_detect(L83!plugin_handle_detect(h))
           IN  /\ g \in L83!Chip
               /\ ChipKeeps(g, h, {"hpout", "watch", "buttons", "typeint", "hsdet", "bias", "micdet"})
               /\ g.watch = "unplug" /\ g.buttons = "off"
BY DEF L83!plugin_complete_detect, L83!plugin_handle_detect, L83!set_hpout_clamp_disable,
       L83!headset_button_detect_interrupts_off, L83!power_hs_bias_on, L83!complete_jack_detect,
       L83!unplug_interrupt_setup, L83!enable_hs_auto_int_on, L83!headset_detect_on,
       L83!set_hpout_pulldown_off, L83!Chip, ChipParts, ChipKeeps

LEMMA ChipPhonesEffect ==
    ASSUME NEW h \in L83!Chip
    PROVE  LET g == L83!headset_type_detect_event(h, FALSE)
           IN  /\ g \in L83!Chip
               /\ ChipKeeps(g, h, {"hpout", "typeint", "hsdet", "bias", "micdet"})
               /\ g.typeint = FALSE /\ g.bias = "ground"
BY DEF L83!headset_type_detect_event, L83!headset_detect_off, L83!enable_hs_auto_int_off,
       L83!set_hpout_clamp_enable, L83!set_hpout_pulldown_on, L83!power_hs_bias_off,
       L83!headset_mike_detect_off, L83!Chip, ChipParts, ChipKeeps

LEMMA ChipHeadsetEffect ==
    ASSUME NEW h \in L83!Chip
    PROVE  LET g == L83!headset_type_detect_event(h, TRUE)
           IN  /\ g \in L83!Chip
               /\ ChipKeeps(g, h, {"hpout", "typeint", "hsdet", "bias", "micdet", "buttons", "sense"})
               /\ g.typeint = FALSE /\ g.bias = "on" /\ g.micdet = TRUE /\ g.buttons = "detect"
               /\ g.sense = FALSE
<1> DEFINE x1 == L83!headset_detect_off(L83!enable_hs_auto_int_off(h))
           x2 == L83!set_hpout_clamp_enable(L83!set_hpout_pulldown_on(x1))
           x3 == L83!enable_hsbias_auto_clamp_off0(L83!enable_hsbias_auto_clamp_on(x2))
           x4 == L83!setup_button_detect(L83!power_hs_bias_off(x3))
           g == L83!enable_hsbias_auto_clamp_off1(L83!power_hs_bias_button_on(x4))
<1>1. g = L83!headset_type_detect_event(h, TRUE)
    BY DEF L83!headset_type_detect_event
<1>2. /\ x2 \in L83!Chip /\ ChipKeeps(x2, h, {"hpout", "typeint", "hsdet"})
      /\ x2.typeint = FALSE
    BY DEF L83!headset_detect_off, L83!enable_hs_auto_int_off, L83!set_hpout_clamp_enable,
           L83!set_hpout_pulldown_on, L83!Chip, ChipParts, ChipKeeps
<1> HIDE DEF x2
<1>3. x3 \in L83!Chip /\ ChipKeeps(x3, x2, {"sense"})
    BY <1>2 DEF L83!enable_hsbias_auto_clamp_off0, L83!enable_hsbias_auto_clamp_on,
           L83!Chip, ChipParts, ChipKeeps
<1> HIDE DEF x3
<1>4. /\ x4 \in L83!Chip /\ ChipKeeps(x4, x3, {"buttons", "bias", "micdet", "hsdet"})
      /\ x4.buttons = "detect"
    BY <1>3 DEF L83!setup_button_detect, L83!power_hs_bias_off, L83!Chip, ChipParts, ChipKeeps
<1> HIDE DEF x4
<1>5. /\ g \in L83!Chip /\ ChipKeeps(g, x4, {"hsdet", "bias", "micdet", "sense"})
      /\ g.bias = "on" /\ g.micdet = TRUE /\ g.sense = FALSE
    BY <1>4 DEF L83!enable_hsbias_auto_clamp_off1, L83!power_hs_bias_button_on,
           L83!Chip, ChipParts, ChipKeeps
<1> HIDE DEF g
<1> QED
    BY <1>1, <1>2, <1>3, <1>4, <1>5 DEF ChipKeeps, ChipParts

LEMMA ChipButtonEffect ==
    ASSUME NEW h \in L83!Chip
    PROVE  LET g == L83!headset_button_detect_event(h)
           IN  /\ g \in L83!Chip
               /\ ChipKeeps(g, h, {"buttons", "bias", "micdet"})
               /\ g.bias = "on" /\ g.micdet = TRUE
<1> DEFINE x1 == L83!handle_button_detect(h)
           g == L83!mike_connected(x1)
<1>1. g = L83!headset_button_detect_event(h)
    BY DEF L83!headset_button_detect_event
<1>2. x1 \in L83!Chip /\ ChipKeeps(x1, h, {"buttons", "bias", "micdet"})
  <2>1. CASE h.buttons = "detect"
      BY <2>1 DEF L83!handle_button_detect, L83!Chip, ChipParts, ChipKeeps
  <2>2. CASE h.buttons # "detect"
      BY <2>2 DEF L83!handle_button_detect, L83!Chip, ChipParts, ChipKeeps
  <2> QED
      BY <2>1, <2>2
<1> HIDE DEF x1
<1>3. /\ g \in L83!Chip /\ ChipKeeps(g, x1, {"bias", "micdet"})
      /\ g.bias = "on" /\ g.micdet = TRUE
    BY <1>2 DEF L83!mike_connected, L83!Chip, ChipParts, ChipKeeps
<1> HIDE DEF g
<1> QED
    BY <1>1, <1>2, <1>3 DEF ChipKeeps, ChipParts

LEMMA ChipSenseEffect ==
    ASSUME NEW h \in L83!Chip
    PROVE  LET g == L83!headset_mike_buttons_enable(h)
           IN  /\ g \in L83!Chip
               /\ ChipKeeps(g, h, {"buttons", "sense"})
               /\ g.buttons = "press" /\ g.sense = TRUE
BY DEF L83!headset_mike_buttons_enable, L83!hsbias_sense_on, L83!enable_hsbias_auto_clamp_off2,
       L83!configure_headset_button_interrupts, L83!Chip, ChipParts, ChipKeeps

(* Unplugging, for the four cases of a headset with a microphone or not,   *)
(* and of a playing stream or none.                                        *)
LEMMA ChipDisconnectEffect ==
    ASSUME NEW h \in L83!Chip, have_mike \in BOOLEAN, playing \in BOOLEAN
    PROVE  LET g == DisconnectChip(h)
           IN  /\ g \in L83!Chip
               /\ g.watch = "plug" /\ g.typeint = FALSE /\ g.buttons = "off"
               /\ g.bias = "ground" /\ g.sense = (IF have_mike THEN FALSE ELSE h.sense)
               /\ g.powered = IF playing THEN h.powered \ {"output"} ELSE h.powered
               /\ g.dac = IF playing THEN FALSE ELSE h.dac
<1> DEFINE h1 == L83!headset_detect2_off(L83!enable_hs_auto_int_off(L83!plugin_interrupt_setup(h)))
           k2 == L83!disable_button_interrupts(
                    L83!enable_hsbias_auto_clamp_off3(L83!power_hs_bias_off(h1)))
           h2 == IF have_mike THEN k2 ELSE h1
           h3 == L83!buffers_onoff(L83!power_off_codec_output(L83!headset_enable_off(h2)), FALSE)
           k4 == L83!power_onoff(h3, FALSE)
           h4 == IF have_mike THEN h3 ELSE k4
           k5 == L83!power_off_codec_output(L83!headset_enable_off(h4))
           h5 == IF playing THEN k5 ELSE h2
           k6 == L83!power_onoff(L83!mike_disable(h5), FALSE)
           h6 == IF have_mike THEN k6 ELSE h5
           g == L83!headset_switch_control(L83!unplug_headset_detect_off(h6))
<1>0. g = DisconnectChip(h)
    BY DEF DisconnectChip
<1>1. /\ h1 \in L83!Chip
      /\ ChipKeeps(h1, h, {"watch", "typeint", "buttons", "bias", "micdet"})
      /\ h1.watch = "plug" /\ h1.typeint = FALSE /\ h1.buttons = "off" /\ h1.bias = "ground"
    BY DEF L83!headset_detect2_off, L83!enable_hs_auto_int_off, L83!plugin_interrupt_setup,
           L83!Chip, ChipParts, ChipKeeps
<1> HIDE DEF h1
<1>2. /\ k2 \in L83!Chip /\ ChipKeeps(k2, h1, {"hsdet", "bias", "micdet", "sense", "buttons"})
      /\ k2.buttons = "off" /\ k2.bias = "ground" /\ k2.sense = FALSE
    BY <1>1 DEF L83!disable_button_interrupts, L83!enable_hsbias_auto_clamp_off3,
           L83!power_hs_bias_off, L83!Chip, ChipParts, ChipKeeps
<1> HIDE DEF k2
<1>3. /\ h2 \in L83!Chip
      /\ h2.watch = "plug" /\ h2.typeint = FALSE /\ h2.buttons = "off" /\ h2.bias = "ground"
      /\ h2.sense = (IF have_mike THEN FALSE ELSE h.sense)
      /\ h2.powered = h.powered /\ h2.dac = h.dac
    BY <1>1, <1>2 DEF ChipKeeps, ChipParts
<1> HIDE DEF h2
<1>4. /\ h3 \in L83!Chip /\ ChipKeeps(h3, h2, {"dac", "powered", "rx"})
      /\ h3.dac = FALSE /\ h3.powered = h2.powered \ {"output"}
    BY <1>3 DEF L83!buffers_onoff, L83!power_off_codec_output, L83!headset_enable_off,
           L83!Chip, ChipParts, ChipKeeps
<1> HIDE DEF h3
<1>5. h4 \in L83!Chip /\ ChipKeeps(h4, h3, {"pll"})
  <2>1. k4 \in L83!Chip /\ ChipKeeps(k4, h3, {"pll"})
      BY <1>4 DEF L83!power_onoff, L83!Chip, ChipParts, ChipKeeps
  <2> HIDE DEF k4
  <2> QED
      BY <1>4, <2>1 DEF ChipKeeps
<1> HIDE DEF h4
<1>6. /\ k5 \in L83!Chip /\ ChipKeeps(k5, h4, {"dac", "powered"})
      /\ k5.dac = FALSE /\ k5.powered = h4.powered \ {"output"}
    BY <1>5 DEF L83!power_off_codec_output, L83!headset_enable_off, L83!Chip, ChipParts, ChipKeeps
<1> HIDE DEF k5
<1>7. /\ h5 \in L83!Chip
      /\ ChipKeeps(h5, h2, {"dac", "powered", "rx", "pll"})
      /\ h5.powered = IF playing THEN h2.powered \ {"output"} ELSE h2.powered
      /\ h5.dac = IF playing THEN FALSE ELSE h2.dac
  <2>1. CASE playing
      BY <1>4, <1>5, <1>6, <2>1 DEF ChipKeeps, ChipParts
  <2>2. CASE ~playing
      BY <1>3, <2>2 DEF ChipKeeps, ChipParts
  <2> QED
      BY <2>1, <2>2
<1> HIDE DEF h5
<1>8. /\ h6 \in L83!Chip /\ ChipKeeps(h6, h5, {"tx", "pll"})
  <2>1. k6 \in L83!Chip /\ ChipKeeps(k6, h5, {"tx", "pll"})
      BY <1>7 DEF L83!power_onoff, L83!mike_disable, L83!Chip, ChipParts, ChipKeeps
  <2> HIDE DEF k6
  <2> QED
      BY <1>7, <2>1 DEF ChipKeeps
<1> HIDE DEF h6
<1>9. g \in L83!Chip /\ ChipKeeps(g, h6, {"hsdet"})
    BY <1>8 DEF L83!headset_switch_control, L83!unplug_headset_detect_off,
           L83!headset_detect_off, L83!Chip, ChipParts, ChipKeeps
<1> HIDE DEF g
<1> QED
    BY <1>0, <1>3, <1>7, <1>8, <1>9 DEF ChipKeeps, ChipParts

LEMMA ChipResetEffect ==
    /\ ChipReset \in L83!Chip
    /\ ChipReset.powered = {} /\ ChipReset.dac = FALSE /\ ChipReset.watch = "plug"
    /\ ChipReset.buttons = "off" /\ ChipReset.typeint = FALSE /\ ChipReset.bias = "open"
    /\ ChipReset.sense = FALSE
<1> DEFINE r == [powered |-> {}, dac |-> FALSE, adc |-> TRUE, rx |-> FALSE, tx |-> FALSE,
                 pll |-> FALSE, rates |-> {}, hpout |-> {"clamped", "pulldown"},
                 watch |-> "none", buttons |-> "off", typeint |-> FALSE, hsdet |-> "manual",
                 bias |-> "open", micdet |-> FALSE, sense |-> FALSE]
           g == L83!plugin_interrupt_setup(r)
<1>1. /\ r \in L83!Chip /\ r.powered = {} /\ r.dac = FALSE /\ r.buttons = "off"
      /\ r.typeint = FALSE /\ r.bias = "open" /\ r.sense = FALSE
    BY DEF L83!Chip
<1>2. g = ChipReset
    BY DEF ChipReset
<1> HIDE DEF r
<1>3. g \in L83!Chip /\ ChipKeeps(g, r, {"watch"}) /\ g.watch = "plug"
    BY <1>1 DEF L83!plugin_interrupt_setup, L83!Chip, ChipKeeps, ChipParts
<1> HIDE DEF g
<1> QED
    BY <1>1, <1>2, <1>3 DEF ChipKeeps, ChipParts

LEMMA BootHeadsetChipEffect ==
    ASSUME NEW h \in L83!Chip
    PROVE  LET g == BootHeadsetChip(h)
           IN  /\ g \in L83!Chip
               /\ g.powered = h.powered /\ g.dac = h.dac
               /\ g.watch = "unplug" /\ g.buttons = "press" /\ g.typeint = FALSE
               /\ g.bias = "on" /\ g.micdet = TRUE /\ g.sense = TRUE
<1> DEFINE h1 == L83!plugin_complete_detect(L83!plugin_handle_detect(h))
           k2 == L83!headset_type_detect_event(h1, TRUE)
           h2 == L83!headset_button_detect_event(k2)
           h3 == L83!mike_enable(L83!input_set_output_sample_rate(h2))
           g == L83!headset_mike_buttons_enable(h3)
<1>1. g = BootHeadsetChip(h)
    BY DEF BootHeadsetChip
<1>2. /\ h1 \in L83!Chip /\ h1.watch = "unplug"
      /\ ChipKeeps(h1, h, {"hpout", "watch", "buttons", "typeint", "hsdet", "bias", "micdet"})
    BY ChipPluginEffect
<1> HIDE DEF h1
<1>3. /\ k2 \in L83!Chip /\ k2.typeint = FALSE
      /\ ChipKeeps(k2, h1, {"hpout", "typeint", "hsdet", "bias", "micdet", "buttons", "sense"})
    BY <1>2, ChipHeadsetEffect
<1> HIDE DEF k2
<1>4. /\ h2 \in L83!Chip /\ h2.bias = "on" /\ h2.micdet = TRUE
      /\ ChipKeeps(h2, k2, {"buttons", "bias", "micdet"})
    BY <1>3, ChipButtonEffect
<1> HIDE DEF h2
<1>5. h3 \in L83!Chip /\ ChipKeeps(h3, h2, {"tx", "rates"})
    BY <1>4 DEF L83!mike_enable, L83!input_set_output_sample_rate, L83!Chip, ChipKeeps, ChipParts
<1> HIDE DEF h3
<1>6. /\ g \in L83!Chip /\ ChipKeeps(g, h3, {"buttons", "sense"})
      /\ g.buttons = "press" /\ g.sense = TRUE
    BY <1>5, ChipSenseEffect
<1> HIDE DEF g
<1> QED
    BY <1>1, <1>2, <1>3, <1>4, <1>5, <1>6 DEF ChipKeeps, ChipParts

-----------------------------------------------------------------------------
(* The internal microphone: started, stopped, and set up at boot.          *)

LEMMA CaptureRealEffect ==
    ASSUME NEW b \in Bridge
    PROVE  LET d == capture_real(b)
           IN  /\ d \in Bridge /\ Inputs(d, Power(b, {"afg"}))
               /\ {"afg", "adc"} \subseteq d.d0
               /\ "intmike" \in d.pins /\ "intmike" \in d.clocks /\ "adc" \in d.unmuted
               /\ b.store["adc"].tag # 0 /\ b.store["adc"].fmt # NoFormat =>
                      d.reg["adc"] = b.store["adc"] /\ d.cache["adc"] = b.store["adc"]
               /\ b.store["adc"].tag = 0 /\ b.store["adc"].chan = 0 /\ Untagged(b, "adc") =>
                      Untagged(d, "adc")
               /\ b.store["adc"].tag = 0 /\ b.store["adc"].chan = 0 /\ Untagged(b, "adc")
                  /\ b.store["adc"].fmt # NoFormat => d.reg["adc"] = d.cache["adc"]
<1> DEFINE a0 == Power(b, {"afg"})
           a1 == inputs_power_nids_on(a0)
           a2 == really_update_stream_format(a1, "adc", 1, 0)
           a3 == intmike_volume_setup(a2)
           a4 == intmike_stream_on_nid(a3)
           a5 == volume_unmute(a4, "adc")
           d == volume_unmute(a5, "linein")
<1>0. d = capture_real(b)
    BY DEF capture_real, intmike_format_setup_enable
<1>1. /\ "adc" \in InputNodes /\ "linein" \in InputNodes /\ 1 \in {0, 1}
      /\ "adc" \in Converters
    BY DEF InputNodes, Converters
<1>2. a0 \in Bridge /\ Keeps(a0, b, {"d0"}) /\ a0.d0 = b.d0 \cup {"afg"}
  <2>1. {"afg"} \in SUBSET {"afg", "adc", "linein"}
      OBVIOUS
  <2> QED
      BY <2>1, PowerEffect
<1> HIDE DEF a0
<1>3. /\ LineinStep(a1, a0) /\ Keeps(a1, a0, {"d0"}) /\ a1.d0 = a0.d0 \cup {"adc", "linein"}
  <2>1. {"adc", "linein"} \in SUBSET {"afg", "adc", "linein"}
      OBVIOUS
  <2> QED
      BY <1>2, <2>1, PowerEffect, LineinSteps DEF inputs_power_nids_on
<1> HIDE DEF a1
<1>4. /\ a2 \in Bridge /\ Inputs(a2, a1) /\ Keeps(a2, a1, {"reg", "cache"})
      /\ a1.store["adc"].tag # 0 /\ a1.store["adc"].fmt # NoFormat =>
            a2.reg["adc"] = a1.store["adc"] /\ a2.cache["adc"] = a1.store["adc"]
      /\ a1.store["adc"].tag = 0 /\ a1.store["adc"].chan = 0 /\ Untagged(a1, "adc") =>
            Untagged(a2, "adc")
      /\ a1.store["adc"].tag = 0 /\ a1.store["adc"].chan = 0 /\ Untagged(a1, "adc")
         /\ a1.store["adc"].fmt # NoFormat => a2.reg["adc"] = a2.cache["adc"]
  <2>1. a1 \in Bridge
      BY <1>3 DEF LineinStep, Inputs
  <2> QED
      BY <1>1, <2>1, InputUpdateEffect, AdcSteps
<1> HIDE DEF a2
<1>5. LineinStep(a3, a2) /\ Keeps(a3, a2, {"unmuted"})
    BY <1>4, LineinSteps, VolumeSetupEffect
<1> HIDE DEF a3
<1>6. /\ LineinStep(a4, a3) /\ Keeps(a4, a3, {"clocks", "pins"})
      /\ "intmike" \in a4.clocks /\ "intmike" \in a4.pins
    BY <1>5, LineinSteps, StreamOnEffect DEF LineinStep, Inputs
<1> HIDE DEF a4
<1>7. LineinStep(a5, a4) /\ Keeps(a5, a4, {"unmuted"}) /\ a5.unmuted = a4.unmuted \cup {"adc"}
    BY <1>1, <1>6, LineinSteps, VolumeEffect DEF LineinStep, Inputs
<1> HIDE DEF a5
<1>8. LineinStep(d, a5) /\ Keeps(d, a5, {"unmuted"}) /\ d.unmuted = a5.unmuted \cup {"linein"}
    BY <1>1, <1>7, LineinSteps, VolumeEffect DEF LineinStep, Inputs
<1> HIDE DEF d
<1>9. d \in Bridge /\ Inputs(d, a0)
  <2>1. /\ Inputs(a1, a0) /\ Inputs(a3, a2) /\ Inputs(a4, a3) /\ Inputs(a5, a4) /\ Inputs(d, a5)
      BY <1>3, <1>5, <1>6, <1>7, <1>8 DEF LineinStep
  <2>2. Inputs(a2, a0)
      BY <1>4, <2>1, InputsStep
  <2>3. Inputs(a3, a0)
      BY <2>1, <2>2, InputsStep
  <2>4. Inputs(a4, a0)
      BY <2>1, <2>3, InputsStep
  <2>5. Inputs(a5, a0)
      BY <2>1, <2>4, InputsStep
  <2>6. Inputs(d, a0)
      BY <2>1, <2>5, InputsStep
  <2> QED
      BY <2>6 DEF Inputs
<1>10. /\ {"afg", "adc"} \subseteq d.d0
       /\ "intmike" \in d.pins /\ "intmike" \in d.clocks /\ "adc" \in d.unmuted
    BY <1>2, <1>3, <1>4, <1>5, <1>6, <1>7, <1>8 DEF Keeps, Parts
<1>11. /\ a1.store = b.store /\ a1.reg["adc"] = b.reg["adc"]
       /\ d.reg["adc"] = a2.reg["adc"] /\ d.cache["adc"] = a2.cache["adc"]
    BY <1>2, <1>3, <1>5, <1>6, <1>7, <1>8 DEF Keeps, Parts, LineinStep
<1> QED
    BY <1>0, <1>4, <1>9, <1>10, <1>11 DEF Untagged, a0

LEMMA CaptureStopEffect ==
    ASSUME NEW b \in Bridge
    PROVE  LET d == capturestop_real(b)
           IN  /\ d \in Bridge /\ Inputs(d, b) /\ Untagged(d, "adc")
               /\ d.d0 \cap {"adc", "linein"} = {}
<1> DEFINE a1 == intmike_stream_conn_off(b)
           a2 == linein_stream_conn_off(a1)
           a3 == intmike_stream_reset_nid_on(a2)
           a4 == linein_stream_reset_nid_off(a3)
           a5 == volume_mute(a4, "adc")
           a6 == intmike_format_setup_disable(a5)
           a7 == volume_mute(a6, "linein")
           a8 == linein_format_setup_disable(a7)
           d == inputs_power_nids_off(a8)
<1>0. d = capturestop_real(b)
    BY DEF capturestop_real
<1> HIDE DEF a1, a2, a3, a4, a5, a6, a7, a8, d
<1>1. "adc" \in InputNodes /\ "linein" \in InputNodes
    BY DEF InputNodes
<1>2. Inputs(a2, b)
  <2>1. Inputs(a1, b)
      BY AdcSteps DEF a1
  <2> QED
      BY <2>1, LineinSteps, InputsStep DEF a2, Inputs, LineinStep
<1>3. Inputs(a4, b)
  <2>1. Inputs(a3, b)
      BY <1>2, AdcSteps, InputsStep DEF a3, Inputs
  <2> QED
      BY <2>1, LineinSteps, InputsStep DEF a4, Inputs, LineinStep
<1>4. Inputs(a5, b)
    BY <1>1, <1>3, LineinSteps, InputsStep DEF a5, Inputs, LineinStep
<1>5. Inputs(a6, b) /\ Untagged(a6, "adc")
    BY <1>4, AdcSteps, InputsStep DEF a6, Inputs
<1>6. Inputs(a7, b) /\ Untagged(a7, "adc")
    BY <1>1, <1>5, LineinSteps, InputsStep DEF a7, Inputs, LineinStep
<1>7. Inputs(a8, b) /\ Untagged(a8, "adc")
    BY <1>6, LineinSteps, InputsStep DEF a8, Inputs, LineinStep
<1>8. Inputs(d, b) /\ Untagged(d, "adc")
    BY <1>7, LineinSteps, InputsStep DEF d, Inputs, LineinStep
<1>9. d.d0 \cap {"adc", "linein"} = {}
    BY <1>7, InputsPoweredOff DEF d, Inputs
<1> QED
    BY <1>0, <1>8, <1>9 DEF Inputs

LEMMA InputsOffEffect ==
    ASSUME NEW b \in Bridge
    PROVE  LET d == InputsOff(b)
           IN  /\ Inputs(d, b) /\ Untagged(d, "adc")
               /\ d.d0 \cap {"adc", "linein"} = {}
<1> DEFINE a1 == linein_volume_setup(b)
           a2 == linein_format_setup_disable(a1)
           a3 == intmike_stream_conn_off(a2)
           a4 == linein_stream_conn_off(a3)
           a5 == intmike_stream_off_nid(a4)
           d == linein_stream_off_nid(a5)
<1>0. d = InputsOff(b)
    BY DEF InputsOff
<1> HIDE DEF a1, a2, a3, a4, a5, d
<1>1. Inputs(a1, b)
    BY LineinSteps DEF a1, LineinStep
<1>2. Inputs(a2, b)
    BY <1>1, LineinSteps, InputsStep DEF a2, Inputs, LineinStep
<1>3. Inputs(a3, b)
    BY <1>2, AdcSteps, InputsStep DEF a3, Inputs
<1>4. Inputs(a4, b)
    BY <1>3, LineinSteps, InputsStep DEF a4, Inputs, LineinStep
<1>5. Inputs(a5, b) /\ Untagged(a5, "adc") /\ a5.d0 = a4.d0 \ {"adc"}
    BY <1>4, AdcSteps, ConverterOff, InputsStep DEF a5, Inputs, intmike_stream_off_nid
<1>6. Inputs(d, b) /\ Untagged(d, "adc") /\ d.d0 = a5.d0 \ {"linein"}
    BY <1>5, LineinSteps, ConverterOff, InputsStep DEF d, Inputs, LineinStep, linein_stream_off_nid
<1> QED
    BY <1>0, <1>5, <1>6

LEMMA VolumeConverters ==
    ASSUME NEW b \in Bridge, NEW n \in InputNodes
    PROVE  volume_mute(b, n).d0 = b.d0 /\ volume_unmute(b, n).d0 = b.d0
BY VolumeEffect DEF Keeps, Parts

LEMMA BootInputsEffect ==
    ASSUME NEW b \in Bridge
    PROVE  LET d == BootInputs(b)
               e == store_stream_format(b, "adc", 0, IntMike)
           IN  /\ Inputs(d, e) /\ Untagged(d, "adc")
               /\ d.d0 \cap {"adc", "linein"} = {}
               /\ e \in Bridge /\ Keeps(e, b, {"store"})
               /\ Sets(e.store, b.store, "adc", [tag |-> 0, chan |-> 0, fmt |-> IntMike])
<1> DEFINE e == store_stream_format(b, "adc", 0, IntMike)
           a1 == intmike_format_setup_enable(e, TRUE)
           a2 == intmike_volume_setup(a1)
           a3 == intmike_stream_on_nid(a2)
           a4 == really_update_stream_format(a3, "adc", 0, 0)
           a5 == InputsOff(a4)
           a6 == volume_mute(a5, "adc")
           a7 == volume_mute(a6, "linein")
           a8 == volume_unmute(a7, "adc")
           d == volume_unmute(a8, "linein")
<1>0. d = BootInputs(b)
    BY DEF BootInputs, BootVolumes
<1>1. /\ "adc" \in InputNodes /\ "linein" \in InputNodes /\ "adc" \in Converters /\ 0 \in {0, 1}
      /\ 0 \in Tags /\ IntMike \in Formats \cup {IntMike}
    BY DEF InputNodes, Converters, Tags
<1>2. /\ e \in Bridge /\ Keeps(e, b, {"store"})
      /\ Sets(e.store, b.store, "adc", [tag |-> 0, chan |-> 0, fmt |-> IntMike])
    BY <1>1, StoreStreamEffect
<1> HIDE DEF e, a1, a2, a3, a4, a5, a6, a7, a8, d
<1>3. Inputs(a2, e)
  <2>1. Inputs(a1, e)
      BY <1>2, AdcSteps DEF a1
  <2> QED
      BY <2>1, LineinSteps, InputsStep DEF a2, Inputs, LineinStep
<1>4. Inputs(a4, e)
  <2>1. Inputs(a3, e)
      BY <1>3, LineinSteps, InputsStep DEF a3, Inputs, LineinStep
  <2>2. Inputs(a4, a3)
      BY <1>1, <2>1, AdcSteps DEF a4, Inputs
  <2> QED
      BY <2>1, <2>2, InputsStep
<1>5. Inputs(a5, e) /\ Untagged(a5, "adc") /\ a5.d0 \cap {"adc", "linein"} = {}
    BY <1>4, InputsOffEffect, InputsStep DEF a5, Inputs
<1>6. Inputs(a6, e) /\ Untagged(a6, "adc") /\ a6.d0 = a5.d0
    BY <1>1, <1>5, LineinSteps, VolumeConverters, InputsStep DEF a6, Inputs, LineinStep
<1>7. Inputs(a7, e) /\ Untagged(a7, "adc") /\ a7.d0 = a6.d0
    BY <1>1, <1>6, LineinSteps, VolumeConverters, InputsStep DEF a7, Inputs, LineinStep
<1>8. Inputs(a8, e) /\ Untagged(a8, "adc") /\ a8.d0 = a7.d0
    BY <1>1, <1>7, LineinSteps, VolumeConverters, InputsStep DEF a8, Inputs, LineinStep
<1>9. Inputs(d, e) /\ Untagged(d, "adc") /\ d.d0 = a8.d0
    BY <1>1, <1>8, LineinSteps, VolumeConverters, InputsStep DEF d, Inputs, LineinStep
<1> QED
    BY <1>0, <1>2, <1>5, <1>6, <1>7, <1>8, <1>9 DEF e

LEMMA BootSpeakersEffect ==
    ASSUME NEW b \in Bridge
    PROVE  LET d == BootSpeakers(b)
           IN  /\ d \in Bridge /\ SpeakersOff(d) /\ Untagged(d, "adc")
               /\ d.d0 \cap {"adc", "linein"} = {}
               /\ d.store = b.store /\ d.reg["1a"] = b.reg["1a"]
               /\ "hsout" \in d.slots <=> "hsout" \in b.slots
<1> DEFINE a1 == setup_amps12(setup_TDM_amps12(b, TRUE), FALSE)
           a2 == setup_amps34(setup_TDM_amps34(a1, TRUE, 0), FALSE)
           a3 == sync_converters_on(a2, TRUE)
           a4 == sync_converters_off(a3, TRUE)
           a5 == disable_TDM_amps34(disable_amps34(disable_TDM_amps12(disable_amps12(a4))))
           a6 == volume_unmute(a5, "adc")
           a7 == volume_unmute(a6, "linein")
           a8 == inputs_power_nids_off(a7)
           a9 == volume_unmute(a8, "adc")
           b1 == volume_unmute(a9, "linein")
           b2 == really_update_stream_format(b1, "adc", 0, 0)
           d == InputsOff(b2)
<1>0. d = BootSpeakers(b)
    BY DEF BootSpeakers
<1> HIDE DEF a1, a2, a3, a4, a5, a6, a7, a8, a9, b1, b2, d
<1>1. "adc" \in InputNodes /\ "linein" \in InputNodes /\ 0 \in {0, 1}
    BY DEF InputNodes
<1>2. a4 \in Bridge /\ NotSpeakers(a4, b)
  <2>1. a1 \in Bridge /\ NotSpeakers(a1, b)
      BY NullAmpsEffect DEF a1
  <2>2. a2 \in Bridge /\ NotSpeakers(a2, b)
      BY <2>1, NullAmpsEffect, NotSpeakersStep DEF a2
  <2>3. a3 \in Bridge /\ NotSpeakers(a3, b)
      BY <2>2, NullSyncEffect, NotSpeakersStep DEF a3
  <2> QED
      BY <2>3, NullSyncEffect, NotSpeakersStep DEF a4
<1>3. a5 \in Bridge /\ NotSpeakers(a5, b) /\ SpeakersOff(a5)
    BY <1>2, BothOffEffect, NotSpeakersStep DEF a5
<1>4. Inputs(a8, a5)
  <2>1. Inputs(a6, a5)
      BY <1>1, <1>3, LineinSteps DEF a6, LineinStep
  <2>2. Inputs(a7, a5)
      BY <1>1, <2>1, LineinSteps, InputsStep DEF a7, Inputs, LineinStep
  <2> QED
      BY <2>2, LineinSteps, InputsStep DEF a8, Inputs, LineinStep
<1>5. Inputs(b2, a5)
  <2>1. Inputs(a9, a5)
      BY <1>1, <1>4, LineinSteps, InputsStep DEF a9, Inputs, LineinStep
  <2>2. Inputs(b1, a5)
      BY <1>1, <2>1, LineinSteps, InputsStep DEF b1, Inputs, LineinStep
  <2>3. Inputs(b2, b1)
      BY <1>1, <2>2, AdcSteps DEF b2, Inputs
  <2> QED
      BY <2>2, <2>3, InputsStep
<1>6. Inputs(d, a5) /\ Untagged(d, "adc") /\ d.d0 \cap {"adc", "linein"} = {}
    BY <1>5, InputsOffEffect, InputsStep DEF d, Inputs
<1>7. "02" \in Converters /\ "03" \in Converters /\ "1a" \in Converters
    BY DEF Converters
<1>8. SpeakersOff(d)
    BY <1>3, <1>6, <1>7 DEF SpeakersOff, Inputs, InputOnly, InputNodes, Keeps, Parts, SetsOnly
<1>9. d.store = a5.store /\ d.reg["1a"] = a5.reg["1a"] /\ d.slots = a5.slots
    BY <1>6, <1>7 DEF Inputs, InputOnly, InputNodes, Keeps, Parts, SetsOnly
<1>10. a5.store = b.store /\ a5.reg["1a"] = b.reg["1a"] /\ ("hsout" \in a5.slots <=> "hsout" \in b.slots)
    BY <1>3, <1>7 DEF NotSpeakers, SpeakerParts, Keeps, Parts, SetsOnly
<1> QED
    BY <1>0, <1>6, <1>8, <1>9, <1>10 DEF Inputs

-----------------------------------------------------------------------------
(* The invariant.  The types, in three parts.                              *)

HardwareOK == c \in Bridge /\ x \in L83!Chip

DriverOK ==
    /\ stage \in {"boot", "idle", "plugin", "type", "button", "unplug"}
    /\ jack_present \in {0, 1} /\ headset_enable \in {0, 1} /\ have_mike \in BOOLEAN
    /\ playing \in BOOLEAN /\ capturing \in BOOLEAN
    /\ play_init_count \in 0 .. 2 /\ capture_init_count \in 0 .. 2
    /\ headset_play_format_setup_needed \in BOOLEAN
    /\ headset_capture_format_setup_needed \in BOOLEAN
    /\ stream_channels \in {0, 2, 4}

UserOK ==
    /\ jack \in Kinds
    /\ heard \in PlayFormats \cup {NoFormat}
    /\ taken \in [nid : {"none", "adc", "1a"}, fmt : CaptureFormats \cup {NoFormat}]
    /\ alone \in BOOLEAN /\ undisturbed \in BOOLEAN /\ pulled \in BOOLEAN

(* What the driver knows of the jack, stage by stage.                      *)
FlagsInv ==
    /\ stage \in {"boot", "plugin"} => jack_present = 0 /\ ~have_mike
    /\ stage = "boot" => ~playing /\ ~capturing /\ ~pulled
    /\ stage = "type" => jack_present = 1 /\ ~have_mike
    /\ stage = "button" => jack_present = 1 /\ have_mike /\ jack = "headset"
    /\ stage = "unplug" => jack_present = 1 /\ jack = "none"
    /\ stage = "idle" => /\ jack_present = IF Plugged THEN 1 ELSE 0
                         /\ have_mike <=> jack = "headset"
    /\ stage \in {"plugin", "type"} => Plugged
    /\ jack_present = 1 => headset_enable = 1

(* A stream that plays is stored for the three converters that may carry   *)
(* it.                                                                     *)
StreamsInv ==
    /\ playing <=> play_init_count # 0
    /\ capturing <=> capture_init_count # 0
    /\ playing =>
          /\ heard \in PlayFormats /\ stream_channels = Channels(heard)
          /\ c.store["02"] = [tag |-> PlayTag, chan |-> 0, fmt |-> heard]
          /\ c.store["03"] = [tag |-> PlayTag, chan |-> 0, fmt |-> heard]
          /\ c.store["0a"] = [tag |-> PlayTag, chan |-> 0, fmt |-> heard]

(* The setups are only done with a headset in the jack, or just pulled out.*)
NeededInv ==
    /\ \/ stage = "unplug" \/ (stage = "idle" /\ jack = "headset")
       \/ headset_play_format_setup_needed /\ headset_capture_format_setup_needed
    /\ ~headset_play_format_setup_needed => playing \/ capturing
    /\ ~headset_capture_format_setup_needed => capturing
    /\ stage = "unplug" /\ capturing
       /\ (~headset_play_format_setup_needed \/ ~headset_capture_format_setup_needed) => pulled

(* The speakers are off without a stream, and with something in the jack.  *)
SpeakersInv == ~playing \/ (stage = "idle" /\ Plugged) => SpeakersOff(c)

OutputOff == "hsout" \notin c.slots /\ x.dac = FALSE /\ "output" \notin x.powered

(* The headphone output is on for a stream, or for a microphone's clocks.  *)
OutputInv ==
    \/ pulled \/ OutputOff
    \/ stage = "unplug" /\ playing
    \/ stage = "idle" /\ Plugged /\ (playing \/ ~headset_play_format_setup_needed)

(* The headset's inputs are on for its microphone.                         *)
InputInv ==
    "input" \in x.powered => pulled \/ (stage = "idle" /\ ~headset_capture_format_setup_needed)

(* The internal converters are on for a recording with nothing in the jack.*)
ConvertersInv ==
    ~capturing \/ (stage = "idle" /\ Plugged) => c.d0 \cap {"adc", "linein"} = {}

(* Headphones that are set up are on from end to end.                      *)
PhonesInv ==
    stage = "idle" /\ Plugged =>
        /\ playing \/ ~headset_play_format_setup_needed => HeadphonesOn
        /\ playing /\ alone /\ play_init_count = 1 =>
               c.reg["0a"] = [tag |-> PlayTag, chan |-> 0, fmt |-> heard]

(* What is stored for the inputs is a recording's or none, and a converter *)
(* without one is silent.                                                  *)
StoreInv ==
    /\ c.store["1a"] = Silent => c.reg["1a"] = Silent
    /\ \/ c.store["1a"] = Silent
       \/ \E f \in CaptureFormats : c.store["1a"] = [tag |-> CaptureTag, chan |-> 0, fmt |-> f]
    /\ c.store["adc"].tag = 0 => Untagged(c, "adc")
    /\ c.store["adc"].chan = 0
    /\ stage # "boot" => c.store["adc"].fmt # NoFormat

(* What an undisturbed recording from the headset finds.                   *)
HeadsetInv ==
    stage = "idle" /\ jack = "headset" /\ undisturbed =>
        /\ ~headset_play_format_setup_needed /\ ~headset_capture_format_setup_needed
        /\ "hsin" \in c.slots /\ "3c" \in c.pins
        /\ "input" \in x.powered /\ x.adc = TRUE /\ x.tx = TRUE /\ "in" \in x.rates
        /\ c.cache["1a"] = c.reg["1a"]
        /\ taken.nid = "1a" =>
               c.reg["1a"] = [tag |-> CaptureTag, chan |-> 0, fmt |-> taken.fmt]

(* What an undisturbed recording from the internal microphone finds.       *)
InternalInv ==
    stage = "idle" /\ jack = "none" /\ undisturbed =>
        /\ {"afg", "adc"} \subseteq c.d0
        /\ "intmike" \in c.pins /\ "intmike" \in c.clocks /\ "adc" \in c.unmuted
        /\ c.cache["adc"] = c.reg["adc"]
        /\ taken.nid = "adc" =>
               c.reg["adc"] = [tag |-> CaptureTag, chan |-> 0, fmt |-> taken.fmt]

UndisturbedInv == undisturbed => capturing /\ stage = "idle"

(* The headset codec, stage by stage.                                      *)
CodecInv ==
    /\ stage = "boot" => c = BridgeReset /\ x = ChipReset
    /\ stage = "unplug" \/ x.watch = IF stage \in {"boot", "plugin"} \/ (stage = "idle" /\ ~Plugged)
                                       THEN "plug" ELSE "unplug"
    /\ x.typeint = TRUE => stage \in {"type", "unplug"}
    /\ stage = "button" => x.buttons = "detect"
    /\ stage = "idle" /\ jack = "headset" =>
          x.buttons = "press" /\ x.bias = "on" /\ x.micdet = TRUE /\ x.sense = TRUE
    /\ stage \in {"boot", "plugin", "type"} \/ (stage = "idle" /\ jack # "headset") =>
          x.buttons = "off"
    /\ stage \in {"boot", "plugin"} \/ (stage = "idle" /\ jack # "headset") => x.bias # "on"
    /\ x.sense = TRUE => have_mike /\ stage \in {"idle", "unplug"}

IndInv ==
    /\ HardwareOK /\ DriverOK /\ UserOK
    /\ FlagsInv /\ StreamsInv /\ NeededInv /\ SpeakersInv /\ OutputInv /\ InputInv
    /\ ConvertersInv /\ PhonesInv /\ StoreInv /\ HeadsetInv /\ InternalInv /\ UndisturbedInv
    /\ CodecInv /\ SpeakersPlay

-----------------------------------------------------------------------------
LEMMA ResetTyped == BridgeReset \in Bridge
<1>1. Silent \in Setup
    BY DEF Silent, Setup, Tags
<1> QED
    BY <1>1 DEF BridgeReset, Bridge

LEMMA InitInv == Init => IndInv
<1> SUFFICES ASSUME Init PROVE IndInv
    OBVIOUS
<1>1. HardwareOK /\ DriverOK /\ UserOK
  <2>1. HardwareOK
      BY ResetTyped, ChipResetEffect DEF Init, HardwareOK
  <2>2. DriverOK
    <3>1. /\ have_mike \in BOOLEAN /\ playing \in BOOLEAN /\ capturing \in BOOLEAN
          /\ headset_play_format_setup_needed \in BOOLEAN
          /\ headset_capture_format_setup_needed \in BOOLEAN
        BY DEF Init
    <3>2. /\ play_init_count \in 0 .. 2 /\ capture_init_count \in 0 .. 2
          /\ jack_present \in {0, 1} /\ headset_enable \in {0, 1}
          /\ stream_channels \in {0, 2, 4}
        BY DEF Init
    <3>3. stage = "boot"
        BY DEF Init
    <3> QED
        BY <3>1, <3>2, <3>3 DEF DriverOK
  <2>3. UserOK
      BY DEF Init, UserOK, Kinds, NotTaken
  <2> QED
      BY <2>1, <2>2, <2>3
<1>2. FlagsInv /\ NeededInv /\ UndisturbedInv
    BY DEF Init, FlagsInv, NeededInv, UndisturbedInv, Plugged
<1>3. StreamsInv
    BY DEF Init, StreamsInv
<1>4. SpeakersInv /\ ConvertersInv /\ StoreInv
  <2>1. \A n \in {"02", "03", "1a", "adc"} : n \in Converters
      BY DEF Converters
  <2>2. /\ BridgeReset.amps = {} /\ BridgeReset.slots = {} /\ BridgeReset.d0 = {"afg"}
        /\ BridgeReset.reg["02"] = Silent /\ BridgeReset.reg["03"] = Silent
        /\ BridgeReset.reg["1a"] = Silent /\ BridgeReset.store["1a"] = Silent
        /\ BridgeReset.reg["adc"] = Silent /\ BridgeReset.store["adc"] = Silent
      BY <2>1 DEF BridgeReset
  <2> QED
      BY <2>2 DEF Init, SpeakersInv, SpeakersOff, ConvertersInv, StoreInv, Untagged, Silent
<1>5. OutputInv /\ InputInv
    BY ChipResetEffect DEF Init, OutputInv, OutputOff, InputInv, BridgeReset
<1>6. PhonesInv /\ HeadsetInv /\ InternalInv /\ SpeakersPlay
    BY DEF Init, PhonesInv, HeadsetInv, InternalInv, SpeakersPlay
<1>7. CodecInv
    BY ChipResetEffect DEF Init, CodecInv
<1> QED
    BY <1>1, <1>2, <1>3, <1>4, <1>5, <1>6, <1>7 DEF IndInv

LEMMA PlugStep == IndInv /\ Plug => IndInv'
<1> SUFFICES ASSUME IndInv, Plug PROVE IndInv'
    OBVIOUS
<1> USE DEF IndInv, Plug, found, streams, setup
<1>1. HardwareOK' /\ DriverOK' /\ UserOK'
  <2>1. HardwareOK'
      BY DEF HardwareOK
  <2>2. DriverOK'
      BY DEF DriverOK
  <2>3. UserOK'
      BY DEF UserOK
  <2> QED
      BY <2>1, <2>2, <2>3
<1>2. FlagsInv' /\ NeededInv' /\ UndisturbedInv'
    BY DEF FlagsInv, NeededInv, UndisturbedInv, Plugged, Kinds
<1>3. StreamsInv' /\ StoreInv'
    BY DEF StreamsInv, StoreInv, PlayTag, CaptureTag, Channels
<1>4. SpeakersInv' /\ ConvertersInv'
    BY DEF SpeakersInv, ConvertersInv, Plugged
<1>5. OutputInv' /\ InputInv'
    BY DEF OutputInv, OutputOff, InputInv, Plugged, NeededInv
<1>6. PhonesInv' /\ HeadsetInv' /\ InternalInv' /\ SpeakersPlay'
    BY DEF PhonesInv, HeadsetInv, InternalInv, SpeakersPlay
<1>7. CodecInv'
    BY DEF CodecInv, Plugged, FlagsInv
<1> QED
    BY <1>1, <1>2, <1>3, <1>4, <1>5, <1>6, <1>7

LEMMA UnplugStep == IndInv /\ Unplug => IndInv'
<1> SUFFICES ASSUME IndInv, Unplug PROVE IndInv'
    OBVIOUS
<1> USE DEF IndInv, Unplug, found, streams, setup
<1>1. HardwareOK' /\ DriverOK' /\ UserOK'
  <2>1. HardwareOK'
      BY DEF HardwareOK
  <2>2. DriverOK'
      BY DEF DriverOK
  <2>3. UserOK'
    <3>1. pulled' \in BOOLEAN /\ jack' \in Kinds
        BY DEF UserOK, DriverOK, Kinds
    <3> QED
        BY <3>1 DEF UserOK
  <2> QED
      BY <2>1, <2>2, <2>3
<1>2. FlagsInv' /\ NeededInv' /\ UndisturbedInv'
    BY DEF FlagsInv, NeededInv, UndisturbedInv, Plugged, DriverOK, UserOK, Kinds
<1>3. StreamsInv' /\ StoreInv'
    BY DEF StreamsInv, StoreInv, PlayTag, CaptureTag, Channels
<1>4. SpeakersInv' /\ ConvertersInv'
    BY DEF SpeakersInv, ConvertersInv, Plugged
<1>5. OutputInv' /\ InputInv'
    BY DEF OutputInv, OutputOff, InputInv, Plugged, NeededInv, DriverOK, UserOK
<1>6. PhonesInv' /\ HeadsetInv' /\ InternalInv' /\ SpeakersPlay'
    BY DEF PhonesInv, HeadsetInv, InternalInv, SpeakersPlay
<1>7. CodecInv'
    BY DEF CodecInv, Plugged, FlagsInv
<1> QED
    BY <1>1, <1>2, <1>3, <1>4, <1>5, <1>6, <1>7

-----------------------------------------------------------------------------
(* What the inputs leave alone, part by part.                              *)

Frame(d, b) ==
    /\ d.slots = b.slots /\ d.buses = b.buses /\ d.tdm = b.tdm /\ d.run = b.run
    /\ d.sync = b.sync /\ d.amps = b.amps /\ d.store = b.store
    /\ d.reg["02"] = b.reg["02"] /\ d.reg["03"] = b.reg["03"]
    /\ d.reg["0a"] = b.reg["0a"] /\ d.reg["1a"] = b.reg["1a"]
    /\ d.cache["1a"] = b.cache["1a"]
    /\ "amps" \in d.clocks <=> "amps" \in b.clocks
    /\ "headset" \in d.clocks <=> "headset" \in b.clocks
    /\ "24" \in d.pins <=> "24" \in b.pins
    /\ "25" \in d.pins <=> "25" \in b.pins
    /\ "2c" \in d.pins <=> "2c" \in b.pins
    /\ "3c" \in d.pins <=> "3c" \in b.pins

LEMMA InputsFrame ==
    ASSUME NEW b, NEW d, Inputs(d, b)
    PROVE  d \in Bridge /\ Frame(d, b)
<1>1. \A n \in {"02", "03", "0a", "1a"} : n \in Converters \ InputNodes
    BY DEF Converters, InputNodes
<1>2. /\ d.reg["02"] = b.reg["02"] /\ d.reg["03"] = b.reg["03"]
      /\ d.reg["0a"] = b.reg["0a"] /\ d.reg["1a"] = b.reg["1a"]
      /\ d.cache["1a"] = b.cache["1a"]
    BY <1>1 DEF Inputs, InputOnly, SetsOnly
<1>3. /\ d.slots = b.slots /\ d.buses = b.buses /\ d.tdm = b.tdm /\ d.run = b.run
      /\ d.sync = b.sync /\ d.amps = b.amps /\ d.store = b.store
    BY DEF Inputs, InputOnly, Keeps, Parts
<1> QED
    BY <1>2, <1>3 DEF Frame, Inputs, InputOnly

LEMMA PowerFrame ==
    ASSUME NEW b \in Bridge
    PROVE  LET d == Power(b, {"afg"})
           IN  /\ d \in Bridge /\ Frame(d, b) /\ Keeps(d, b, {"d0"})
               /\ d.d0 = b.d0 \cup {"afg"}
<1>1. {"afg"} \in SUBSET {"afg", "adc", "linein"}
    OBVIOUS
<1> QED
    BY <1>1, PowerEffect DEF Frame, Keeps, Parts

(* Booting sets the inputs up and leaves them off; the speakers are set up *)
(* and off as well.                                                        *)
LEMMA BootBridge ==
    ASSUME stage = "boot", CodecInv
    PROVE  /\ \A d \in {BootInputs(c), BootHeadsetInput(BootInputs(c)),
                        BootSpeakers(BootInputs(c))} :
                 /\ d \in Bridge /\ SpeakersOff(d) /\ "hsout" \notin d.slots
                 /\ d.d0 \cap {"adc", "linein"} = {}
                 /\ d.store["1a"] = Silent /\ d.reg["1a"] = Silent
                 /\ d.store["adc"] = [tag |-> 0, chan |-> 0, fmt |-> IntMike]
                 /\ Untagged(d, "adc")
<1> DEFINE b == BridgeReset
           e == store_stream_format(b, "adc", 0, IntMike)
           d1 == BootInputs(b)
           a2 == intmike_linein_disable(d1)
           d2 == headset_mike_format_setup_enable(a2)
           d3 == BootSpeakers(d1)
           Booted(d) == /\ d \in Bridge /\ SpeakersOff(d) /\ "hsout" \notin d.slots
                        /\ d.d0 \cap {"adc", "linein"} = {}
                        /\ d.store["1a"] = Silent /\ d.reg["1a"] = Silent
                        /\ d.store["adc"] = [tag |-> 0, chan |-> 0, fmt |-> IntMike]
                        /\ Untagged(d, "adc")
<1>1. c = b /\ b \in Bridge
    BY ResetTyped DEF CodecInv
<1>2. /\ b.amps = {} /\ b.slots = {} /\ b.reg["02"] = Silent /\ b.reg["03"] = Silent
      /\ b.reg["1a"] = Silent /\ b.store["1a"] = Silent
    BY DEF BridgeReset, Converters
<1>3. \A n \in {"adc", "1a", "02", "03"} : n \in Converters
    BY DEF Converters
<1> HIDE DEF b
<1>4. Booted(d1)
  <2>1. /\ Inputs(d1, e) /\ Untagged(d1, "adc") /\ d1.d0 \cap {"adc", "linein"} = {}
        /\ e \in Bridge /\ Keeps(e, b, {"store"})
        /\ Sets(e.store, b.store, "adc", [tag |-> 0, chan |-> 0, fmt |-> IntMike])
      BY <1>1, BootInputsEffect
  <2> HIDE DEF d1, e
  <2>2. d1 \in Bridge /\ Frame(d1, e)
      BY <2>1, InputsFrame
  <2>3. /\ e.amps = {} /\ e.slots = {} /\ e.reg = b.reg /\ e.store["1a"] = Silent
        /\ e.store["adc"] = [tag |-> 0, chan |-> 0, fmt |-> IntMike]
      BY <1>2, <1>3, <2>1 DEF Keeps, Parts, Sets
  <2> QED
      BY <1>2, <2>1, <2>2, <2>3 DEF Frame, SpeakersOff, Silent
<1> HIDE DEF d1
<1>5. Booted(d2)
  <2>1. Inputs(a2, d1) /\ Untagged(a2, "adc") /\ a2.d0 = d1.d0 \ {"adc", "linein"}
      BY <1>4, LineinDisableEffect, LineinDisableOff
  <2> HIDE DEF a2
  <2>2. a2 \in Bridge /\ Frame(a2, d1)
      BY <2>1, InputsFrame
  <2>3. /\ d2 \in Bridge /\ Keeps(d2, a2, {"slots", "buses", "run", "pins", "reg", "cache"})
        /\ d2.slots = a2.slots \cup {"hsin"}
        /\ SetsOnly(d2.reg, a2.reg, {"1a"})
        /\ a2.store["1a"] = Silent => d2.reg["1a"] = a2.reg["1a"]
      BY <2>2, HeadsetMikeEffect
  <2> HIDE DEF d2
  <2>4. /\ d2.reg["02"] = a2.reg["02"] /\ d2.reg["03"] = a2.reg["03"]
        /\ d2.reg["adc"] = a2.reg["adc"] /\ d2.amps = a2.amps /\ d2.store = a2.store
        /\ d2.d0 = a2.d0
      BY <1>3, <2>3 DEF Keeps, Parts, SetsOnly
  <2> QED
      BY <1>4, <2>1, <2>2, <2>3, <2>4 DEF Frame, SpeakersOff, Untagged
<1>6. Booted(d3)
    BY <1>4, BootSpeakersEffect
<1> QED
    BY <1>1, <1>4, <1>5, <1>6 DEF BootHeadsetInput, d1

LEMMA BootStep == IndInv /\ Boot => IndInv'
<1> SUFFICES ASSUME IndInv, Boot PROVE IndInv'
    OBVIOUS
<1>1. stage = "boot" /\ stage' \in {"idle", "type"}
    BY DEF Boot, BootNoHeadset, BootLate, BootPhones, BootHeadset
<1>2. /\ c' \in Bridge /\ SpeakersOff(c') /\ "hsout" \notin c'.slots
      /\ c'.d0 \cap {"adc", "linein"} = {}
      /\ c'.store["1a"] = Silent /\ c'.reg["1a"] = Silent
      /\ c'.store["adc"] = [tag |-> 0, chan |-> 0, fmt |-> IntMike]
      /\ Untagged(c', "adc")
  <2>1. c' \in {BootInputs(c), BootHeadsetInput(BootInputs(c)), BootSpeakers(BootInputs(c))}
      BY DEF Boot, BootNoHeadset, BootLate, BootPhones, BootHeadset
  <2>2. CodecInv
      BY DEF IndInv
  <2> QED
      BY <1>1, <2>1, <2>2, BootBridge
<1>3. /\ UNCHANGED <<jack, streams, setup, stream_channels, user>>
      /\ ~playing /\ ~capturing /\ ~pulled /\ ~undisturbed
      /\ headset_play_format_setup_needed /\ headset_capture_format_setup_needed
    BY <1>1 DEF Boot, BootNoHeadset, BootLate, BootPhones, BootHeadset, IndInv, FlagsInv,
                UndisturbedInv, NeededInv
<1>4. /\ stage' = "idle" => /\ jack_present' = IF Plugged THEN 1 ELSE 0
                            /\ have_mike' <=> jack = "headset"
      /\ stage' = "type" => jack_present' = 1 /\ ~have_mike' /\ Plugged
      /\ jack_present' = 1 => headset_enable' = 1
      /\ jack_present' \in {0, 1} /\ headset_enable' \in {0, 1} /\ have_mike' \in BOOLEAN
  <2>1. /\ jack_present = 0 /\ ~have_mike /\ have_mike \in BOOLEAN
        /\ headset_enable \in {0, 1}
      BY <1>1 DEF IndInv, FlagsInv, DriverOK
  <2>2. CASE BootNoHeadset
      BY <2>1, <2>2 DEF BootNoHeadset, Plugged
  <2>3. CASE BootLate
      BY <2>1, <2>3 DEF BootLate, Plugged
  <2>4. CASE BootPhones
      BY <2>1, <2>4 DEF BootPhones, Plugged
  <2>5. CASE BootHeadset
      BY <2>1, <2>5 DEF BootHeadset, Plugged
  <2> QED
      BY <2>2, <2>3, <2>4, <2>5 DEF Boot
<1>5. /\ x' \in L83!Chip /\ x'.powered = {} /\ x'.dac = FALSE
      /\ x'.watch = IF stage' = "idle" /\ ~Plugged THEN "plug" ELSE "unplug"
      /\ stage' = "idle" => x'.typeint = FALSE
      /\ jack = "headset" /\ stage' = "idle" =>
            x'.buttons = "press" /\ x'.bias = "on" /\ x'.micdet = TRUE /\ x'.sense = TRUE
      /\ stage' = "type" \/ jack # "headset" => x'.buttons = "off" /\ x'.sense = FALSE
      /\ stage' = "idle" /\ jack # "headset" => x'.bias # "on"
  <2>1. /\ x \in L83!Chip /\ x.powered = {} /\ x.dac = FALSE /\ x.watch = "plug"
        /\ x.buttons = "off" /\ x.typeint = FALSE /\ x.bias = "open" /\ x.sense = FALSE
      BY <1>1, ChipResetEffect DEF IndInv, CodecInv
  <2> DEFINE h == L83!plugin_complete_detect(L83!plugin_handle_detect(x))
  <2>2. /\ h \in L83!Chip /\ h.powered = {} /\ h.dac = FALSE /\ h.watch = "unplug"
        /\ h.buttons = "off" /\ h.sense = FALSE
      BY <2>1, ChipPluginEffect DEF ChipKeeps, ChipParts
  <2>3. CASE BootNoHeadset
      BY <2>1, <2>3 DEF BootNoHeadset, Plugged
  <2>4. CASE BootLate
    <3>1. x' = h /\ stage' = "type"
        BY <2>4 DEF BootLate
    <3> QED
        BY <2>2, <3>1
  <2>5. CASE BootPhones
    <3>1. x' = L83!headset_type_detect_event(h, FALSE) /\ stage' = "idle" /\ jack = "phones"
        BY <2>5 DEF BootPhones
    <3> HIDE DEF h
    <3>2. /\ x' \in L83!Chip
          /\ ChipKeeps(x', h, {"hpout", "typeint", "hsdet", "bias", "micdet"})
          /\ x'.typeint = FALSE /\ x'.bias = "ground"
        BY <2>2, <3>1, ChipPhonesEffect
    <3> QED
        BY <2>2, <3>1, <3>2 DEF ChipKeeps, ChipParts, Plugged
  <2>6. CASE BootHeadset
    <3>1. x' = BootHeadsetChip(x) /\ stage' = "idle" /\ jack = "headset"
        BY <2>6 DEF BootHeadset
    <3> QED
        BY <2>1, <3>1, BootHeadsetChipEffect DEF Plugged
  <2> QED
      BY <2>3, <2>4, <2>5, <2>6 DEF Boot
<1> USE DEF IndInv, streams, setup, user
<1>6. HardwareOK' /\ DriverOK' /\ UserOK'
  <2>1. HardwareOK'
      BY <1>2, <1>5 DEF HardwareOK
  <2>2. DriverOK'
      BY <1>1, <1>3, <1>4 DEF DriverOK
  <2>3. UserOK'
      BY <1>3 DEF UserOK
  <2> QED
      BY <2>1, <2>2, <2>3
<1>7. FlagsInv' /\ NeededInv' /\ UndisturbedInv'
    BY <1>1, <1>3, <1>4 DEF FlagsInv, NeededInv, UndisturbedInv, Plugged
<1>8. StreamsInv'
    BY <1>3 DEF StreamsInv
<1>9. SpeakersInv' /\ ConvertersInv' /\ StoreInv'
    BY <1>2, FormatAssumption DEF SpeakersInv, ConvertersInv, StoreInv, IntMike, NoFormat
<1>10. OutputInv' /\ InputInv'
    BY <1>2, <1>5 DEF OutputInv, OutputOff, InputInv
<1>11. PhonesInv' /\ HeadsetInv' /\ InternalInv' /\ SpeakersPlay'
    BY <1>3 DEF PhonesInv, HeadsetInv, InternalInv, SpeakersPlay
<1>12. CodecInv'
    BY <1>1, <1>3, <1>4, <1>5 DEF CodecInv, Plugged, UserOK, Kinds
<1> QED
    BY <1>6, <1>7, <1>8, <1>9, <1>10, <1>11, <1>12

LEMMA PluginEventStep == IndInv /\ PluginEvent => IndInv'
<1> SUFFICES ASSUME IndInv, PluginEvent PROVE IndInv'
    OBVIOUS
<1>1. /\ c' \in Bridge /\ Frame(c', c) /\ Keeps(c', c, {"d0"}) /\ c'.d0 = c.d0 \cup {"afg"}
  <2>1. c \in Bridge
      BY DEF IndInv, HardwareOK
  <2> QED
      BY <2>1, PowerFrame DEF PluginEvent
<1>2. c'.reg = c.reg /\ c'.cache = c.cache /\ c'.store = c.store /\ c'.slots = c.slots /\ c'.amps = c.amps
    BY <1>1 DEF Keeps, Parts
<1>3. /\ x' \in L83!Chip
      /\ ChipKeeps(x', x, {"hpout", "watch", "buttons", "typeint", "hsdet", "bias", "micdet"})
      /\ x'.watch = "unplug" /\ x'.buttons = "off"
    BY ChipPluginEffect DEF PluginEvent, IndInv, HardwareOK
<1>4. x'.powered = x.powered /\ x'.dac = x.dac /\ x'.sense = x.sense
    BY <1>3 DEF ChipKeeps, ChipParts
<1>5. /\ stage = "plugin" /\ stage' = "type" /\ jack_present' = 1 /\ headset_enable' = 1
      /\ UNCHANGED <<jack, have_mike, streams, setup, stream_channels, user>>
    BY DEF PluginEvent
<1> USE DEF IndInv, streams, setup, user
<1>6. HardwareOK' /\ DriverOK' /\ UserOK'
  <2>1. HardwareOK'
      BY <1>1, <1>3 DEF HardwareOK
  <2>2. DriverOK'
      BY <1>5 DEF DriverOK
  <2>3. UserOK'
      BY <1>5 DEF UserOK
  <2> QED
      BY <2>1, <2>2, <2>3
<1>7. FlagsInv' /\ NeededInv' /\ UndisturbedInv'
    BY <1>5 DEF FlagsInv, NeededInv, UndisturbedInv, Plugged
<1>8. StreamsInv' /\ StoreInv'
    BY <1>2, <1>5 DEF StreamsInv, StoreInv, PlayTag, CaptureTag, Channels, Untagged
<1>9. SpeakersInv' /\ ConvertersInv'
    BY <1>1, <1>2, <1>5 DEF SpeakersInv, SpeakersOff, ConvertersInv
<1>10. OutputInv' /\ InputInv'
    BY <1>2, <1>4, <1>5 DEF OutputInv, OutputOff, InputInv
<1>11. PhonesInv' /\ HeadsetInv' /\ InternalInv' /\ SpeakersPlay'
    BY <1>5 DEF PhonesInv, HeadsetInv, InternalInv, SpeakersPlay
<1>12. CodecInv'
    BY <1>3, <1>4, <1>5 DEF CodecInv, FlagsInv
<1> QED
    BY <1>6, <1>7, <1>8, <1>9, <1>10, <1>11, <1>12

(* A plug that is dealt with: the speakers give way to the headphones, the *)
(* internal microphone to the headset's.                                   *)
LEMMA ContinuedBridge ==
    ASSUME IndInv, stage \in {"type", "button"}, NEW h, NEW mike \in BOOLEAN, Continued(h, mike)
    PROVE  /\ c' \in Bridge /\ SpeakersOff(c') /\ c'.store = c.store
           /\ c'.d0 \cap {"adc", "linein"} = {}
           /\ c'.reg["1a"] = c.reg["1a"]
           /\ Untagged(c, "adc") => Untagged(c', "adc")
           /\ "hsout" \in c'.slots <=> playing \/ "hsout" \in c.slots
           /\ playing => /\ "2c" \in c'.pins /\ "headset" \in c'.buses
                         /\ "headset" \in c'.clocks /\ "headset" \in c'.tdm /\ c'.run = TRUE
                         /\ c'.reg["0a"] = [tag |-> PlayTag, chan |-> 0, fmt |-> heard]
<1> DEFINE b == Power(c, {"afg"})
           a1 == amps_disable_streaming(b)
           a2 == headset_amp_format_setup(a1)
           b1 == IF playing THEN a2 ELSE b
           b2 == inputs_power_nids_off(b1)
           b3 == intmike_linein_disable(b2)
<1>1. c' = IF mike THEN b3 ELSE b2
    BY DEF Continued
<1>2. \A n \in {"02", "03", "0a", "1a", "adc"} : n \in Converters
    BY DEF Converters
<1>3. /\ c \in Bridge /\ playing \in BOOLEAN
      /\ ~playing => SpeakersOff(c)
      /\ playing => c.store["0a"] = [tag |-> PlayTag, chan |-> 0, fmt |-> heard]
                    /\ heard \in PlayFormats
    BY DEF IndInv, HardwareOK, DriverOK, SpeakersInv, StreamsInv
<1>4. b \in Bridge /\ Frame(b, c) /\ Keeps(b, c, {"d0"})
    BY <1>3, PowerFrame
<1> HIDE DEF b
<1>5. b.reg = c.reg /\ b.store = c.store /\ b.slots = c.slots /\ b.amps = c.amps
    BY <1>4 DEF Keeps, Parts
<1>6. /\ a1 \in Bridge /\ a1.store = b.store /\ SpeakersOff(a1)
      /\ a1.reg["1a"] = b.reg["1a"] /\ a1.reg["adc"] = b.reg["adc"]
  <2>1. /\ a1 \in Bridge /\ Keeps(a1, b, SpeakerParts) /\ SpeakersOff(a1) /\ NotSpeakers(a1, b)
      BY <1>4, SpeakersStopEffect
  <2> HIDE DEF a1
  <2> QED
      BY <1>2, <2>1 DEF Keeps, Parts, SpeakerParts, NotSpeakers, SetsOnly
<1> HIDE DEF a1
<1>7. playing => /\ a2 \in Bridge /\ a2.store = b.store /\ SpeakersOff(a2)
                 /\ a2.reg["1a"] = b.reg["1a"] /\ a2.reg["adc"] = b.reg["adc"]
                 /\ "hsout" \in a2.slots /\ "2c" \in a2.pins /\ "headset" \in a2.buses
                 /\ "headset" \in a2.clocks /\ "headset" \in a2.tdm /\ a2.run = TRUE
                 /\ a2.reg["0a"] = [tag |-> PlayTag, chan |-> 0, fmt |-> heard]
  <2> SUFFICES ASSUME playing
               PROVE  /\ a2 \in Bridge /\ a2.store = b.store /\ SpeakersOff(a2)
                      /\ a2.reg["1a"] = b.reg["1a"] /\ a2.reg["adc"] = b.reg["adc"]
                      /\ "hsout" \in a2.slots /\ "2c" \in a2.pins /\ "headset" \in a2.buses
                      /\ "headset" \in a2.clocks /\ "headset" \in a2.tdm /\ a2.run = TRUE
                      /\ a2.reg["0a"] = [tag |-> PlayTag, chan |-> 0, fmt |-> heard]
      OBVIOUS
  <2>1. /\ a2 \in Bridge
        /\ Keeps(a2, a1, {"slots", "clocks", "tdm", "buses", "run", "pins", "reg", "cache"})
        /\ a2.slots = a1.slots \cup {"hsout"} /\ a2.clocks = a1.clocks \cup {"headset"}
        /\ a2.tdm = a1.tdm \cup {"headset"} /\ a2.buses = a1.buses \cup {"headset"}
        /\ a2.run = TRUE /\ a2.pins = a1.pins \cup {"2c"}
        /\ SetsOnly(a2.reg, a1.reg, {"0a"})
        /\ a1.store["0a"].tag # 0 /\ a1.store["0a"].fmt # NoFormat =>
              a2.reg["0a"] = [tag |-> a1.store["0a"].tag, chan |-> 0, fmt |-> a1.store["0a"].fmt]
      BY <1>6, HeadsetAmpEffect
  <2> HIDE DEF a2
  <2>2. /\ a1.store["0a"].tag = PlayTag /\ a1.store["0a"].fmt = heard
        /\ PlayTag # 0 /\ heard # NoFormat
      BY <1>3, <1>5, <1>6, FormatAssumption DEF PlayTag, Formats
  <2>3. /\ a2.reg["02"] = a1.reg["02"] /\ a2.reg["03"] = a1.reg["03"]
        /\ a2.reg["1a"] = a1.reg["1a"] /\ a2.reg["adc"] = a1.reg["adc"]
        /\ a2.store = a1.store /\ a2.amps = a1.amps
      BY <1>2, <2>1 DEF Keeps, Parts, SetsOnly
  <2> QED
      BY <1>6, <2>1, <2>2, <2>3 DEF SpeakersOff
<1> HIDE DEF a2
<1>8. /\ b1 \in Bridge /\ b1.store = c.store /\ SpeakersOff(b1)
      /\ b1.reg["1a"] = c.reg["1a"] /\ b1.reg["adc"] = c.reg["adc"]
      /\ "hsout" \in b1.slots <=> playing \/ "hsout" \in c.slots
      /\ playing => /\ "2c" \in b1.pins /\ "headset" \in b1.buses
                    /\ "headset" \in b1.clocks /\ "headset" \in b1.tdm /\ b1.run = TRUE
                    /\ b1.reg["0a"] = [tag |-> PlayTag, chan |-> 0, fmt |-> heard]
  <2>1. CASE playing
      BY <1>5, <1>7, <2>1
  <2>2. CASE ~playing
      BY <1>3, <1>4, <1>5, <2>2 DEF SpeakersOff
  <2> QED
      BY <2>1, <2>2
<1> HIDE DEF b1
<1>9. /\ b2 \in Bridge /\ Frame(b2, b1) /\ b2.reg["adc"] = b1.reg["adc"]
      /\ b2.d0 \cap {"adc", "linein"} = {}
    BY <1>8, LineinSteps, InputsFrame, InputsPoweredOff DEF LineinStep
<1> HIDE DEF b2
<1>10. /\ b3 \in Bridge /\ Frame(b3, b2) /\ Untagged(b3, "adc")
       /\ b3.d0 \cap {"adc", "linein"} = {}
    BY <1>9, LineinDisableEffect, LineinDisableOff, InputsFrame
<1> HIDE DEF b3
<1>11. CASE mike
    BY <1>1, <1>8, <1>9, <1>10, <1>11 DEF Frame, SpeakersOff, Untagged
<1>12. CASE ~mike
    BY <1>1, <1>8, <1>9, <1>12 DEF Frame, SpeakersOff, Untagged
<1> QED
    BY <1>11, <1>12

LEMMA ContinuedChip ==
    ASSUME NEW h \in L83!Chip, NEW mike \in BOOLEAN, Continued(h, mike), playing \in BOOLEAN
    PROVE  /\ x' \in L83!Chip
           /\ x'.watch = h.watch /\ x'.typeint = h.typeint /\ x'.bias = h.bias
           /\ x'.micdet = h.micdet
           /\ "input" \in x'.powered <=> "input" \in h.powered
           /\ playing => /\ "output" \in x'.powered /\ x'.dac = TRUE /\ x'.rx = TRUE
                         /\ x'.pll = TRUE /\ "out" \in x'.rates
           /\ ~playing => x'.powered = h.powered /\ x'.dac = h.dac
           /\ mike => x'.buttons = "press" /\ x'.sense = TRUE
           /\ ~mike => x'.buttons = h.buttons /\ x'.sense = h.sense
<1> DEFINE g == L83!enable_headset_streaming(h)
           h1 == IF playing THEN g ELSE h
           g2 == L83!headset_mike_buttons_enable(h1)
<1>1. x' = IF mike THEN g2 ELSE h1
    BY DEF Continued
<1>2. /\ g \in L83!Chip
      /\ ChipKeeps(g, h, {"powered", "dac", "rx", "pll", "rates", "hpout"})
      /\ g.powered = h.powered \cup {"output"} /\ g.dac = TRUE /\ g.rx = TRUE
      /\ g.pll = TRUE /\ g.rates = h.rates \cup {"out"}
    BY ChipPlayEffect
<1> HIDE DEF g
<1>3. /\ h1 \in L83!Chip
      /\ ChipKeeps(h1, h, {"powered", "dac", "rx", "pll", "rates", "hpout"})
      /\ "input" \in h1.powered <=> "input" \in h.powered
      /\ playing => /\ "output" \in h1.powered /\ h1.dac = TRUE /\ h1.rx = TRUE
                    /\ h1.pll = TRUE /\ "out" \in h1.rates
      /\ ~playing => h1.powered = h.powered /\ h1.dac = h.dac
  <2>1. CASE playing
      BY <1>2, <2>1
  <2>2. CASE ~playing
      BY <2>2 DEF ChipKeeps
  <2> QED
      BY <2>1, <2>2
<1> HIDE DEF h1
<1>4. /\ g2 \in L83!Chip /\ ChipKeeps(g2, h1, {"buttons", "sense"})
      /\ g2.buttons = "press" /\ g2.sense = TRUE
    BY <1>3, ChipSenseEffect
<1> HIDE DEF g2
<1>5. CASE mike
    BY <1>1, <1>3, <1>4, <1>5 DEF ChipKeeps, ChipParts
<1>6. CASE ~mike
    BY <1>1, <1>3, <1>6 DEF ChipKeeps, ChipParts
<1> QED
    BY <1>5, <1>6

LEMMA ContinuedStep ==
    ASSUME IndInv, stage \in {"type", "button"}, Plugged,
           NEW h \in L83!Chip, NEW mike \in BOOLEAN, Continued(h, mike),
           stage' = "idle", have_mike' \in BOOLEAN, have_mike' <=> mike,
           mike <=> jack = "headset",
           UNCHANGED <<jack, jack_present, headset_enable, streams, setup, stream_channels, user>>,
           h.powered = x.powered, h.dac = x.dac, h.watch = "unplug", h.typeint = FALSE,
           mike => h.bias = "on" /\ h.micdet = TRUE,
           ~mike => h.bias = "ground" /\ h.buttons = "off" /\ h.sense = FALSE
    PROVE  IndInv'
<1>0. UNCHANGED <<jack, jack_present, headset_enable, playing, capturing, play_init_count,
                  capture_init_count, headset_play_format_setup_needed,
                  headset_capture_format_setup_needed, stream_channels, heard, alone, taken,
                  undisturbed, pulled>>
    BY DEF streams, setup, user
<1>1. /\ c' \in Bridge /\ SpeakersOff(c') /\ c'.store = c.store
      /\ c'.d0 \cap {"adc", "linein"} = {}
      /\ c'.reg["1a"] = c.reg["1a"]
      /\ Untagged(c, "adc") => Untagged(c', "adc")
      /\ "hsout" \in c'.slots <=> playing \/ "hsout" \in c.slots
      /\ playing => /\ "2c" \in c'.pins /\ "headset" \in c'.buses
                    /\ "headset" \in c'.clocks /\ "headset" \in c'.tdm /\ c'.run = TRUE
                    /\ c'.reg["0a"] = [tag |-> PlayTag, chan |-> 0, fmt |-> heard]
    BY ContinuedBridge
<1>2. /\ x' \in L83!Chip
      /\ x'.watch = "unplug" /\ x'.typeint = FALSE /\ x'.bias = h.bias /\ x'.micdet = h.micdet
      /\ "input" \in x'.powered <=> "input" \in x.powered
      /\ playing => /\ "output" \in x'.powered /\ x'.dac = TRUE /\ x'.rx = TRUE
                    /\ x'.pll = TRUE /\ "out" \in x'.rates
      /\ ~playing => x'.powered = x.powered /\ x'.dac = x.dac
      /\ mike => x'.buttons = "press" /\ x'.sense = TRUE
      /\ ~mike => x'.buttons = h.buttons /\ x'.sense = h.sense
  <2>1. playing \in BOOLEAN
      BY DEF IndInv, DriverOK
  <2> QED
      BY <2>1, ContinuedChip
<1>3. /\ headset_play_format_setup_needed /\ headset_capture_format_setup_needed
      /\ ~undisturbed
    BY DEF IndInv, NeededInv, UndisturbedInv
<1>4. /\ jack_present = 1
    BY DEF IndInv, FlagsInv
<1> USE DEF IndInv
<1>5. HardwareOK' /\ DriverOK' /\ UserOK'
  <2>1. HardwareOK'
      BY <1>1, <1>2 DEF HardwareOK
  <2>2. DriverOK'
      BY <1>0 DEF DriverOK
  <2>3. UserOK'
      BY <1>0 DEF UserOK
  <2> QED
      BY <2>1, <2>2, <2>3
<1>6. FlagsInv' /\ NeededInv' /\ UndisturbedInv'
    BY <1>0, <1>3, <1>4 DEF FlagsInv, NeededInv, UndisturbedInv, Plugged
<1>7. StreamsInv'
    BY <1>0, <1>1 DEF StreamsInv, PlayTag, Channels
<1>8. SpeakersInv' /\ ConvertersInv'
    BY <1>1 DEF SpeakersInv, ConvertersInv
<1>9. StoreInv'
    BY <1>1 DEF StoreInv, CaptureTag
<1>10. OutputInv' /\ InputInv'
    BY <1>0, <1>1, <1>2, <1>3 DEF OutputInv, OutputOff, InputInv, Plugged
<1>11. PhonesInv'
    BY <1>0, <1>1, <1>2, <1>3 DEF PhonesInv, HeadphonesOn, PlayTag
<1>12. HeadsetInv' /\ InternalInv' /\ SpeakersPlay'
    BY <1>0, <1>3 DEF HeadsetInv, InternalInv, SpeakersPlay, Plugged
<1>13. CodecInv'
    BY <1>0, <1>2 DEF CodecInv, Plugged
<1> QED
    BY <1>5, <1>6, <1>7, <1>8, <1>9, <1>10, <1>11, <1>12, <1>13

LEMMA TypeDetectStep == IndInv /\ TypeDetect => IndInv'
<1> SUFFICES ASSUME IndInv, TypeDetect PROVE IndInv'
    OBVIOUS
<1>1. /\ stage = "type" /\ Plugged /\ ~have_mike /\ jack_present = 1 /\ headset_enable = 1
      /\ have_mike \in BOOLEAN /\ ~undisturbed
      /\ headset_play_format_setup_needed /\ headset_capture_format_setup_needed
      /\ x \in L83!Chip /\ c \in Bridge /\ x.watch = "unplug" /\ x.buttons = "off" /\ x.sense # TRUE
      /\ x.sense \in BOOLEAN
    BY DEF TypeDetect, IndInv, FlagsInv, DriverOK, HardwareOK, CodecInv, NeededInv, UndisturbedInv,
           L83!Chip
<1>2. /\ have_mike' <=> jack = "headset"
      /\ have_mike' \in BOOLEAN
      /\ UNCHANGED <<jack, jack_present, headset_enable, streams, setup, stream_channels, user>>
    BY <1>1 DEF TypeDetect
<1>3. CASE jack = "headset"
  <2>1. /\ c' = Power(c, {"afg"}) /\ x' = L83!headset_type_detect_event(x, TRUE)
        /\ stage' = "button" /\ have_mike'
      BY <1>2, <1>3 DEF TypeDetect
  <2>2. c' \in Bridge /\ Keeps(c', c, {"d0"}) /\ c'.d0 = c.d0 \cup {"afg"}
      BY <1>1, <2>1, PowerFrame
  <2>3. c'.reg = c.reg /\ c'.store = c.store /\ c'.slots = c.slots /\ c'.amps = c.amps
      BY <2>2 DEF Keeps, Parts
  <2>4. /\ x' \in L83!Chip
        /\ ChipKeeps(x', x, {"hpout", "typeint", "hsdet", "bias", "micdet", "buttons", "sense"})
        /\ x'.typeint = FALSE /\ x'.buttons = "detect" /\ x'.sense = FALSE
      BY <1>1, <2>1, ChipHeadsetEffect
  <2>5. x'.powered = x.powered /\ x'.dac = x.dac /\ x'.watch = x.watch
      BY <2>4 DEF ChipKeeps, ChipParts
  <2>6. UNCHANGED <<jack, jack_present, headset_enable, playing, capturing, play_init_count,
                    capture_init_count, headset_play_format_setup_needed,
                    headset_capture_format_setup_needed, stream_channels, heard, alone, taken,
                    undisturbed, pulled>>
      BY <1>2 DEF streams, setup, user
  <2> USE DEF IndInv
  <2>7. HardwareOK' /\ DriverOK' /\ UserOK'
    <3>1. HardwareOK'
        BY <2>2, <2>4 DEF HardwareOK
    <3>2. DriverOK'
        BY <1>2, <2>1, <2>6 DEF DriverOK
    <3>3. UserOK'
        BY <2>6 DEF UserOK
    <3> QED
        BY <3>1, <3>2, <3>3
  <2>8. FlagsInv' /\ NeededInv' /\ UndisturbedInv'
      BY <1>1, <1>3, <2>1, <2>6 DEF FlagsInv, NeededInv, UndisturbedInv
  <2>9. StreamsInv' /\ StoreInv'
      BY <1>1, <2>1, <2>3, <2>6 DEF StreamsInv, StoreInv, PlayTag, CaptureTag, Channels, Untagged
  <2>10. SpeakersInv' /\ ConvertersInv'
      BY <2>1, <2>2, <2>3, <2>6 DEF SpeakersInv, SpeakersOff, ConvertersInv
  <2>11. OutputInv' /\ InputInv'
      BY <1>1, <2>1, <2>3, <2>5, <2>6 DEF OutputInv, OutputOff, InputInv
  <2>12. PhonesInv' /\ HeadsetInv' /\ InternalInv' /\ SpeakersPlay'
      BY <2>1 DEF PhonesInv, HeadsetInv, InternalInv, SpeakersPlay
  <2>13. CodecInv'
      BY <1>1, <2>1, <2>4, <2>5 DEF CodecInv
  <2> QED
      BY <2>7, <2>8, <2>9, <2>10, <2>11, <2>12, <2>13
<1>4. CASE jack # "headset"
  <2> DEFINE h == L83!headset_type_detect_event(x, FALSE)
  <2>1. ~have_mike' /\ Continued(h, FALSE) /\ stage' = "idle"
      BY <1>2, <1>4 DEF TypeDetect
  <2>2. /\ h \in L83!Chip
        /\ ChipKeeps(h, x, {"hpout", "typeint", "hsdet", "bias", "micdet"})
        /\ h.typeint = FALSE /\ h.bias = "ground"
      BY <1>1, ChipPhonesEffect
  <2> HIDE DEF h
  <2>3. /\ h.powered = x.powered /\ h.dac = x.dac /\ h.watch = "unplug" /\ h.buttons = "off"
        /\ h.sense = FALSE
      BY <1>1, <2>2 DEF ChipKeeps, ChipParts
  <2>4. FALSE \in BOOLEAN /\ stage \in {"type", "button"}
      BY <1>1
  <2> QED
      BY <1>1, <1>2, <1>4, <2>1, <2>2, <2>3, <2>4, ContinuedStep
<1> QED
    BY <1>3, <1>4

LEMMA ButtonDetectStep == IndInv /\ ButtonDetect => IndInv'
<1> SUFFICES ASSUME IndInv, ButtonDetect PROVE IndInv'
    OBVIOUS
<1> DEFINE h == L83!headset_button_detect_event(x)
<1>1. /\ stage = "button" /\ stage \in {"type", "button"} /\ jack = "headset" /\ Plugged /\ have_mike
      /\ have_mike \in BOOLEAN /\ x \in L83!Chip /\ x.watch = "unplug" /\ x.typeint # TRUE
      /\ x.typeint \in BOOLEAN
    BY DEF ButtonDetect, IndInv, FlagsInv, DriverOK, HardwareOK, CodecInv, Plugged, L83!Chip
<1>2. /\ Continued(h, have_mike) /\ stage' = "idle" /\ have_mike' = have_mike
      /\ UNCHANGED <<jack, jack_present, headset_enable, streams, setup, stream_channels, user>>
    BY DEF ButtonDetect, found
<1>3. /\ h \in L83!Chip /\ ChipKeeps(h, x, {"buttons", "bias", "micdet"})
      /\ h.bias = "on" /\ h.micdet = TRUE
    BY <1>1, ChipButtonEffect
<1> HIDE DEF h
<1>4. h.powered = x.powered /\ h.dac = x.dac /\ h.watch = "unplug" /\ h.typeint = FALSE
    BY <1>1, <1>3 DEF ChipKeeps, ChipParts
<1> QED
    BY <1>1, <1>2, <1>3, <1>4, ContinuedStep

-----------------------------------------------------------------------------
(* The speakers as the properties want them, on any bridge.                *)
SpeakersCarry(b, f) ==
    /\ b.reg["02"] = [tag |-> PlayTag, chan |-> 0, fmt |-> f]
    /\ b.reg["03"] = [tag |-> PlayTag, chan |-> IF Channels(f) = 2 THEN 0 ELSE 2, fmt |-> f]
    /\ "amps12" \in b.slots /\ "amps34" \in b.slots
    /\ "amps" \in b.buses /\ "amps" \in b.clocks /\ "amps" \in b.tdm
    /\ b.run = TRUE /\ b.sync = {"02", "03"} /\ "24" \in b.pins /\ "25" \in b.pins
    /\ b.amps = {"12", "34"}

LEMMA PlaySpeakersCarry ==
    ASSUME NEW b \in Bridge, NEW f \in PlayFormats,
           b.store["02"] = [tag |-> PlayTag, chan |-> 0, fmt |-> f],
           b.store["03"] = [tag |-> PlayTag, chan |-> 0, fmt |-> f]
    PROVE  LET d == PlaySpeakers(b, Channels(f))
           IN  /\ d \in Bridge /\ SpeakersCarry(d, f)
               /\ d.store = b.store /\ d.d0 = b.d0 /\ d.unmuted = b.unmuted
               /\ "hsout" \in d.slots <=> "hsout" \in b.slots
               /\ "intmike" \in d.pins <=> "intmike" \in b.pins
               /\ "intmike" \in d.clocks <=> "intmike" \in b.clocks
               /\ d.reg["1a"] = b.reg["1a"] /\ d.reg["adc"] = b.reg["adc"]
               /\ d.cache["1a"] = b.cache["1a"] /\ d.cache["adc"] = b.cache["adc"]
               /\ "hsin" \in d.slots <=> "hsin" \in b.slots
               /\ "3c" \in d.pins <=> "3c" \in b.pins
<1> DEFINE sc == Channels(f)
           d == PlaySpeakers(b, sc)
<1>1. PlayTag # 0 /\ f # NoFormat
    BY FormatAssumption DEF PlayTag, Formats
<1>2. /\ d \in Bridge
      /\ Keeps(d, b, {"slots", "clocks", "tdm", "buses", "run", "pins", "reg", "cache",
                      "amps", "sync"})
      /\ d.slots = b.slots \cup {"amps12", "amps34"}
      /\ d.clocks = b.clocks \cup {"amps"}
      /\ d.tdm = b.tdm \cup {"amps"} /\ d.buses = b.buses \cup {"amps"}
      /\ d.run = TRUE /\ d.pins = b.pins \cup {"24", "25"}
      /\ d.amps = {"12", "34"} /\ d.sync = {"02", "03"}
      /\ d.reg["02"] = [tag |-> PlayTag, chan |-> 0, fmt |-> f]
      /\ d.reg["03"] = [tag |-> PlayTag, chan |-> IF sc = 2 THEN 0 ELSE 2, fmt |-> f]
      /\ SetsOnly(d.reg, b.reg, {"02", "03"})
      /\ SetsOnly(d.cache, b.cache, {"02", "03"})
    BY <1>1, PlaySpeakersEffect
<1>3. SpeakersCarry(d, f)
    BY <1>2 DEF SpeakersCarry
<1> HIDE DEF d
<1>4. \A n \in {"1a", "adc"} : n \in Converters
    BY DEF Converters
<1>5. /\ d.store = b.store /\ d.d0 = b.d0 /\ d.unmuted = b.unmuted
      /\ d.reg["1a"] = b.reg["1a"] /\ d.reg["adc"] = b.reg["adc"]
      /\ d.cache["1a"] = b.cache["1a"] /\ d.cache["adc"] = b.cache["adc"]
    BY <1>2, <1>4 DEF Keeps, Parts, SetsOnly
<1> QED
    BY <1>2, <1>3, <1>5 DEF d

(* A headset that is pulled out: its output stops, the speakers take over, *)
(* and the internal microphone is set up anew.                             *)
LEMMA DisconnectBridgeEffect ==
    ASSUME IndInv, stage = "unplug", UnplugEvent
    PROVE  /\ c' \in Bridge /\ c'.store = c.store
           /\ c'.d0 \cap {"adc", "linein"} = {}
           /\ playing => SpeakersCarry(c', heard) /\ "hsout" \notin c'.slots
           /\ ~playing => SpeakersOff(c') /\ ("hsout" \in c'.slots <=> "hsout" \in c.slots)
           /\ c'.reg["1a"] = c.reg["1a"] \/ c'.reg["1a"] = Silent
           /\ Untagged(c, "adc") => Untagged(c', "adc")
<1> DEFINE b == Power(c, {"afg"})
           a1 == headset_amp_format_setup_disable(b, ~have_mike)
           a2 == PlaySpeakers(a1, stream_channels)
           b1 == IF playing THEN a2 ELSE b
           a3 == headset_amp_disable_and_mike_format_setup_disable(b1)
           a4 == intmike_linein_resetup(a3)
           b2 == IF have_mike THEN a4 ELSE b1
           d == inputs_power_nids_off(b2)
<1>1. c' = d
    BY DEF UnplugEvent, DisconnectBridge
<1>2. \A n \in {"02", "03", "0a", "1a", "adc"} : n \in Converters
    BY DEF Converters
<1>3. /\ c \in Bridge /\ playing \in BOOLEAN /\ have_mike \in BOOLEAN
      /\ ~playing => SpeakersOff(c)
      /\ playing => /\ c.store["02"] = [tag |-> PlayTag, chan |-> 0, fmt |-> heard]
                    /\ c.store["03"] = [tag |-> PlayTag, chan |-> 0, fmt |-> heard]
                    /\ heard \in PlayFormats /\ stream_channels = Channels(heard)
    BY DEF IndInv, HardwareOK, DriverOK, SpeakersInv, StreamsInv
<1>4. b \in Bridge /\ Keeps(b, c, {"d0"})
    BY <1>3, PowerFrame
<1> HIDE DEF b
<1>5. b.reg = c.reg /\ b.store = c.store /\ b.slots = c.slots /\ b.amps = c.amps
    BY <1>4 DEF Keeps, Parts
<1>6. /\ a1 \in Bridge /\ a1.store = c.store /\ a1.slots = c.slots \ {"hsout"}
      /\ a1.reg["1a"] = c.reg["1a"] /\ a1.reg["adc"] = c.reg["adc"]
  <2> DEFINE full == ~have_mike
  <2>1. full \in BOOLEAN
      BY <1>3
  <2> HIDE DEF full
  <2>2. LET e == headset_amp_format_setup_disable(b, full)
        IN  /\ e \in Bridge
            /\ Keeps(e, b, {"slots", "clocks", "tdm", "buses", "run", "pins", "reg"})
            /\ e.slots = b.slots \ {"hsout"} /\ Sets(e.reg, b.reg, "0a", Silent)
      BY <1>4, <2>1, HeadsetAmpOffEffect
  <2>3. /\ a1 \in Bridge
        /\ Keeps(a1, b, {"slots", "clocks", "tdm", "buses", "run", "pins", "reg"})
        /\ a1.slots = b.slots \ {"hsout"} /\ Sets(a1.reg, b.reg, "0a", Silent)
      BY <2>2 DEF full
  <2> HIDE DEF a1
  <2> QED
      BY <1>2, <1>5, <2>3 DEF Keeps, Parts, Sets
<1> HIDE DEF a1
<1>7. playing => /\ a2 \in Bridge /\ a2.store = c.store /\ SpeakersCarry(a2, heard)
                 /\ "hsout" \notin a2.slots
                 /\ a2.reg["1a"] = c.reg["1a"] /\ a2.reg["adc"] = c.reg["adc"]
  <2> SUFFICES ASSUME playing
               PROVE  /\ a2 \in Bridge /\ a2.store = c.store /\ SpeakersCarry(a2, heard)
                      /\ "hsout" \notin a2.slots
                      /\ a2.reg["1a"] = c.reg["1a"] /\ a2.reg["adc"] = c.reg["adc"]
      OBVIOUS
  <2> DEFINE e == PlaySpeakers(a1, Channels(heard))
  <2>1. /\ e \in Bridge /\ SpeakersCarry(e, heard) /\ e.store = a1.store
        /\ "hsout" \in e.slots <=> "hsout" \in a1.slots
        /\ e.reg["1a"] = a1.reg["1a"] /\ e.reg["adc"] = a1.reg["adc"]
    <3>1. /\ heard \in PlayFormats
          /\ a1.store["02"] = [tag |-> PlayTag, chan |-> 0, fmt |-> heard]
          /\ a1.store["03"] = [tag |-> PlayTag, chan |-> 0, fmt |-> heard]
        BY <1>3, <1>6
    <3> QED
        BY <1>6, <3>1, PlaySpeakersCarry
  <2>2. a2 = e
      BY <1>3
  <2> HIDE DEF e, a2
  <2> QED
      BY <1>6, <2>1, <2>2
<1> HIDE DEF a2
<1>8. /\ b1 \in Bridge /\ b1.store = c.store
      /\ playing => SpeakersCarry(b1, heard) /\ "hsout" \notin b1.slots
      /\ ~playing => SpeakersOff(b1) /\ ("hsout" \in b1.slots <=> "hsout" \in c.slots)
      /\ b1.reg["1a"] = c.reg["1a"] /\ b1.reg["adc"] = c.reg["adc"]
  <2>1. CASE playing
      BY <1>7, <2>1
  <2>2. CASE ~playing
      BY <1>3, <1>4, <1>5, <2>2 DEF SpeakersOff
  <2> QED
      BY <2>1, <2>2
<1> HIDE DEF b1
<1>9. /\ a3 \in Bridge /\ a3.store = b1.store
      /\ Keeps(a3, b1, {"slots", "clocks", "tdm", "run", "pins", "reg"})
      /\ a3.slots = b1.slots \ {"hsin"} /\ a3.clocks = b1.clocks \ {"headset"}
      /\ a3.tdm = b1.tdm \ {"headset"} /\ a3.run = TRUE /\ a3.pins = b1.pins \ {"3c"}
      /\ a3.reg["1a"] = Silent /\ a3.reg["02"] = b1.reg["02"] /\ a3.reg["03"] = b1.reg["03"]
  <2>1. /\ a3 \in Bridge
        /\ Keeps(a3, b1, {"slots", "clocks", "tdm", "run", "pins", "reg"})
        /\ a3.slots = b1.slots \ {"hsin"} /\ a3.clocks = b1.clocks \ {"headset"}
        /\ a3.tdm = b1.tdm \ {"headset"} /\ a3.run = TRUE /\ a3.pins = b1.pins \ {"3c"}
        /\ Sets(a3.reg, b1.reg, "1a", Silent)
      BY <1>8, HeadsetOffEffect
  <2> HIDE DEF a3
  <2> QED
      BY <1>2, <2>1 DEF Keeps, Parts, Sets
<1> HIDE DEF a3
<1>10. a4 \in Bridge /\ Frame(a4, a3) /\ Untagged(a4, "adc")
    BY <1>9, LineinResetupEffect, InputsFrame
<1> HIDE DEF a4
<1>11. /\ b2 \in Bridge /\ b2.store = c.store
       /\ playing => SpeakersCarry(b2, heard) /\ "hsout" \notin b2.slots
       /\ ~playing => SpeakersOff(b2) /\ ("hsout" \in b2.slots <=> "hsout" \in c.slots)
       /\ b2.reg["1a"] = c.reg["1a"] \/ b2.reg["1a"] = Silent
       /\ Untagged(c, "adc") => Untagged(b2, "adc")
  <2>1. CASE have_mike
    <3>1. b2 = a4
        BY <2>1
    <3>2. /\ a4.store = c.store /\ a4.reg["1a"] = Silent
          /\ "hsout" \in a4.slots <=> "hsout" \in b1.slots
        BY <1>8, <1>9, <1>10 DEF Frame
    <3>3. a4.buses = b1.buses /\ a4.sync = b1.sync /\ a4.amps = b1.amps
        BY <1>9, <1>10 DEF Frame, Keeps, Parts
    <3>4. SpeakersCarry(b1, heard) => SpeakersCarry(a4, heard)
        BY <1>9, <1>10, <3>3 DEF Frame, SpeakersCarry
    <3>5. SpeakersOff(b1) => SpeakersOff(a4)
        BY <1>9, <1>10, <3>3 DEF Frame, SpeakersOff
    <3> QED
        BY <1>8, <1>10, <3>1, <3>2, <3>4, <3>5
  <2>2. CASE ~have_mike
    <3>1. b2 = b1
        BY <2>2
    <3> QED
        BY <1>8, <3>1 DEF Untagged
  <2> QED
      BY <1>3, <2>1, <2>2
<1> HIDE DEF b2
<1>12. /\ d \in Bridge /\ Frame(d, b2) /\ d.reg["adc"] = b2.reg["adc"]
       /\ d.d0 \cap {"adc", "linein"} = {}
    BY <1>11, LineinSteps, InputsFrame, InputsPoweredOff DEF LineinStep
<1> HIDE DEF d
<1>13. /\ SpeakersCarry(b2, heard) => SpeakersCarry(d, heard)
       /\ SpeakersOff(b2) => SpeakersOff(d)
       /\ d.store = b2.store /\ d.slots = b2.slots /\ d.reg["1a"] = b2.reg["1a"]
       /\ Untagged(b2, "adc") => Untagged(d, "adc")
    BY <1>12 DEF Frame, SpeakersCarry, SpeakersOff, Untagged
<1> QED
    BY <1>1, <1>11, <1>12, <1>13

LEMMA UnplugEventStep == IndInv /\ UnplugEvent => IndInv'
<1> SUFFICES ASSUME IndInv, UnplugEvent PROVE IndInv'
    OBVIOUS
<1>1. /\ stage = "unplug" /\ stage' = "idle" /\ jack = "none" /\ jack' = "none" /\ ~undisturbed
      /\ playing \in BOOLEAN /\ have_mike \in BOOLEAN /\ x.sense \in BOOLEAN
      /\ x.dac \in BOOLEAN
      /\ jack_present' = 0 /\ ~have_mike'
      /\ headset_play_format_setup_needed' /\ headset_capture_format_setup_needed'
      /\ UNCHANGED <<headset_enable, playing, capturing, play_init_count, capture_init_count,
                     stream_channels, heard, alone, taken, undisturbed, pulled>>
    BY DEF UnplugEvent, IndInv, FlagsInv, UndisturbedInv, DriverOK, HardwareOK, L83!Chip,
           streams, user
<1>2. /\ c' \in Bridge /\ c'.store = c.store
      /\ c'.d0 \cap {"adc", "linein"} = {}
      /\ playing => SpeakersCarry(c', heard) /\ "hsout" \notin c'.slots
      /\ ~playing => SpeakersOff(c') /\ ("hsout" \in c'.slots <=> "hsout" \in c.slots)
      /\ c'.reg["1a"] = c.reg["1a"] \/ c'.reg["1a"] = Silent
      /\ Untagged(c, "adc") => Untagged(c', "adc")
    BY <1>1, DisconnectBridgeEffect
<1>3. /\ x' \in L83!Chip
      /\ x'.watch = "plug" /\ x'.typeint = FALSE /\ x'.buttons = "off"
      /\ x'.bias = "ground" /\ x'.sense = FALSE
      /\ x'.powered = IF playing THEN x.powered \ {"output"} ELSE x.powered
      /\ x'.dac = IF playing THEN FALSE ELSE x.dac
  <2>1. x \in L83!Chip /\ (x.sense = TRUE => have_mike)
      BY DEF IndInv, HardwareOK, CodecInv
  <2>2. /\ x' \in L83!Chip
        /\ x'.watch = "plug" /\ x'.typeint = FALSE /\ x'.buttons = "off"
        /\ x'.bias = "ground" /\ x'.sense = (IF have_mike THEN FALSE ELSE x.sense)
        /\ x'.powered = IF playing THEN x.powered \ {"output"} ELSE x.powered
        /\ x'.dac = IF playing THEN FALSE ELSE x.dac
      BY <1>1, <2>1, ChipDisconnectEffect DEF UnplugEvent
  <2> QED
      BY <1>1, <2>1, <2>2
<1> USE DEF IndInv
<1>4. HardwareOK' /\ DriverOK' /\ UserOK'
  <2>1. HardwareOK'
      BY <1>2, <1>3 DEF HardwareOK
  <2>2. DriverOK'
      BY DEF DriverOK, UnplugEvent, streams
  <2>3. UserOK'
      BY <1>1 DEF UserOK
  <2> QED
      BY <2>1, <2>2, <2>3
<1>5. FlagsInv' /\ NeededInv' /\ UndisturbedInv'
    BY <1>1 DEF FlagsInv, NeededInv, UndisturbedInv, Plugged
<1>6. StreamsInv'
    BY <1>1, <1>2 DEF StreamsInv, PlayTag, Channels
<1>7. SpeakersInv' /\ ConvertersInv'
    BY <1>1, <1>2 DEF SpeakersInv, ConvertersInv, Plugged
<1>8. StoreInv'
    BY <1>1, <1>2 DEF StoreInv, CaptureTag
<1>9. OutputInv' /\ InputInv'
    BY <1>1, <1>2, <1>3 DEF OutputInv, OutputOff, InputInv
<1>10. PhonesInv' /\ HeadsetInv' /\ InternalInv'
    BY <1>1 DEF PhonesInv, HeadsetInv, InternalInv, Plugged
<1>11. SpeakersPlay'
    BY <1>1, <1>2 DEF SpeakersPlay, SpeakersOn, SpeakersCarry, PlayTag, Channels
<1>12. CodecInv'
    BY <1>1, <1>3 DEF CodecInv, Plugged
<1> QED
    BY <1>4, <1>5, <1>6, <1>7, <1>8, <1>9, <1>10, <1>11, <1>12

-----------------------------------------------------------------------------
(* The PCM calls.  None of them touches what the headset codec listens to. *)

LEMMA CodecKept ==
    ASSUME CodecInv, stage = "idle", stage' = "idle", jack' = jack, have_mike' = have_mike,
           x'.watch = x.watch, x'.typeint = x.typeint, x'.buttons = x.buttons,
           x'.bias = x.bias, x'.micdet = x.micdet, x'.sense = x.sense
    PROVE  CodecInv'
BY DEF CodecInv, Plugged

LEMMA PlayCleanupStep == IndInv /\ PlayCleanup => IndInv'
<1> SUFFICES ASSUME IndInv, PlayCleanup PROVE IndInv'
    OBVIOUS
<1>1. /\ stage = "idle" /\ stage' = "idle" /\ c \in Bridge /\ x \in L83!Chip
      /\ jack_present = IF Plugged THEN 1 ELSE 0
      /\ capturing \in BOOLEAN
      /\ ~playing' /\ playing' \in BOOLEAN /\ play_init_count' = 0 /\ heard' = NoFormat
      /\ alone' = FALSE /\ undisturbed' = FALSE
      /\ headset_play_format_setup_needed \in BOOLEAN
      /\ UNCHANGED <<jack, jack_present, headset_enable, have_mike, capturing,
                     capture_init_count, headset_capture_format_setup_needed,
                     stream_channels, taken, pulled>>
    BY DEF PlayCleanup, PcmMay, IndInv, HardwareOK, DriverOK, FlagsInv, found
<1>2. \A n \in {"02", "03", "1a", "adc"} : n \in Converters
    BY DEF Converters
<1>3. /\ c' \in Bridge /\ SpeakersOff(c') /\ c'.store = c.store
      /\ c'.reg["1a"] = c.reg["1a"] /\ c'.reg["adc"] = c.reg["adc"]
      /\ IF Plugged
           THEN "hsout" \notin c'.slots /\ c'.d0 = c.d0
           ELSE /\ "hsout" \in c'.slots <=> "hsout" \in c.slots
                /\ c'.d0 \cap {"adc", "linein"} = {}
  <2>1. CASE Plugged
    <3>1. c' = headset_amp_format_setup_disable(c, TRUE)
        BY <1>1, <2>1 DEF PlayCleanup
    <3>2. TRUE \in BOOLEAN
        OBVIOUS
    <3>3. /\ c' \in Bridge
          /\ Keeps(c', c, {"slots", "clocks", "tdm", "buses", "run", "pins", "reg"})
          /\ c'.slots = c.slots \ {"hsout"} /\ Sets(c'.reg, c.reg, "0a", Silent)
        BY <1>1, <3>1, <3>2, HeadsetAmpOffEffect
    <3>4. SpeakersOff(c)
        BY <1>1, <2>1 DEF IndInv, SpeakersInv
    <3>5. /\ c'.reg["02"] = c.reg["02"] /\ c'.reg["03"] = c.reg["03"]
          /\ c'.reg["1a"] = c.reg["1a"] /\ c'.reg["adc"] = c.reg["adc"]
          /\ c'.store = c.store /\ c'.amps = c.amps /\ c'.d0 = c.d0
        BY <1>2, <3>3 DEF Keeps, Parts, Sets
    <3> QED
        BY <2>1, <3>3, <3>4, <3>5 DEF SpeakersOff
  <2>2. CASE ~Plugged
    <3> DEFINE a == amps_disable_streaming(c)
               b == PowerOff(a, {"afg"})
               d == inputs_power_nids_off(b)
    <3>1. c' = d
        BY <1>1, <2>2 DEF PlayCleanup
    <3>2. a \in Bridge /\ Keeps(a, c, SpeakerParts) /\ SpeakersOff(a) /\ NotSpeakers(a, c)
        BY <1>1, SpeakersStopEffect
    <3> HIDE DEF a
    <3>3. /\ a.store = c.store /\ a.reg["1a"] = c.reg["1a"] /\ a.reg["adc"] = c.reg["adc"]
          /\ "hsout" \in a.slots <=> "hsout" \in c.slots
        BY <1>2, <3>2 DEF Keeps, Parts, SpeakerParts, NotSpeakers, SetsOnly
    <3>4. b \in Bridge /\ Keeps(b, a, {"d0"})
      <4>1. {"afg"} \in SUBSET {"afg", "adc", "linein"}
          OBVIOUS
      <4> QED
          BY <3>2, <4>1, PowerEffect
    <3> HIDE DEF b
    <3>5. b.store = a.store /\ b.reg = a.reg /\ b.slots = a.slots /\ b.amps = a.amps
        BY <3>4 DEF Keeps, Parts
    <3>6. /\ d \in Bridge /\ Frame(d, b) /\ d.reg["adc"] = b.reg["adc"]
          /\ d.d0 \cap {"adc", "linein"} = {}
        BY <3>4, LineinSteps, InputsFrame, InputsPoweredOff DEF LineinStep
    <3> HIDE DEF d
    <3> QED
        BY <2>2, <3>1, <3>2, <3>3, <3>5, <3>6 DEF Frame, SpeakersOff
  <2> QED
      BY <2>1, <2>2
<1>4. /\ x' \in L83!Chip
      /\ x'.watch = x.watch /\ x'.typeint = x.typeint /\ x'.buttons = x.buttons
      /\ x'.bias = x.bias /\ x'.micdet = x.micdet /\ x'.sense = x.sense
      /\ "input" \in x'.powered <=> "input" \in x.powered
      /\ IF Plugged
           THEN "output" \notin x'.powered /\ x'.dac = FALSE
           ELSE x' = x
  <2>1. CASE Plugged
    <3>1. x' = L83!disable_headset_streaming(x)
        BY <1>1, <2>1 DEF PlayCleanup
    <3>2. /\ x' \in L83!Chip
          /\ ChipKeeps(x', x, {"powered", "dac", "rx", "pll"})
          /\ x'.powered = x.powered \ {"output"} /\ x'.dac = FALSE
        BY <1>1, <3>1, ChipStopEffect
    <3> QED
        BY <2>1, <3>2 DEF ChipKeeps, ChipParts
  <2>2. CASE ~Plugged
      BY <1>1, <2>2 DEF PlayCleanup
  <2> QED
      BY <2>1, <2>2
<1>5. headset_play_format_setup_needed' = TRUE
  <2>1. CASE Plugged
      BY <1>1, <2>1 DEF PlayCleanup
  <2>2. CASE ~Plugged
    <3>1. headset_play_format_setup_needed
        BY <1>1, <2>2 DEF IndInv, NeededInv, Plugged
    <3>2. headset_play_format_setup_needed' = headset_play_format_setup_needed
        BY <1>1, <2>2 DEF PlayCleanup
    <3> QED
        BY <1>1, <3>1, <3>2
  <2> QED
      BY <2>1, <2>2
<1> USE DEF IndInv
<1>6. HardwareOK' /\ DriverOK' /\ UserOK'
  <2>1. HardwareOK'
      BY <1>3, <1>4 DEF HardwareOK
  <2>2. DriverOK'
      BY <1>1, <1>5 DEF DriverOK
  <2>3. UserOK'
      BY <1>1 DEF UserOK
  <2> QED
      BY <2>1, <2>2, <2>3
<1>7. FlagsInv' /\ NeededInv' /\ UndisturbedInv'
    BY <1>1, <1>5 DEF FlagsInv, NeededInv, UndisturbedInv, Plugged
<1>8. StreamsInv'
    BY <1>1 DEF StreamsInv
<1>9. SpeakersInv' /\ ConvertersInv'
    BY <1>1, <1>3 DEF SpeakersInv, ConvertersInv, Plugged
<1>10. StoreInv'
    BY <1>1, <1>3 DEF StoreInv, CaptureTag, Untagged
<1>11. OutputInv' /\ InputInv'
    BY <1>1, <1>3, <1>4 DEF OutputInv, OutputOff, InputInv, Plugged
<1>12. PhonesInv' /\ HeadsetInv' /\ InternalInv' /\ SpeakersPlay'
    BY <1>1, <1>5 DEF PhonesInv, HeadsetInv, InternalInv, SpeakersPlay
<1>13. CodecInv'
    BY <1>1, <1>4, CodecKept
<1> QED
    BY <1>6, <1>7, <1>8, <1>9, <1>10, <1>11, <1>12, <1>13

(* Storing a stream's parameters for the three output converters.          *)
Stored(b, f) ==
    store_stream_format(store_stream_format(store_stream_format(
        b, "02", PlayTag, f), "03", PlayTag, f), "0a", PlayTag, f)

LEMMA StoredEffect ==
    ASSUME NEW b \in Bridge, NEW f \in PlayFormats
    PROVE  LET d == Stored(b, f)
           IN  /\ d \in Bridge /\ Keeps(d, b, {"store"})
               /\ d.store["02"] = [tag |-> PlayTag, chan |-> 0, fmt |-> f]
               /\ d.store["03"] = [tag |-> PlayTag, chan |-> 0, fmt |-> f]
               /\ d.store["0a"] = [tag |-> PlayTag, chan |-> 0, fmt |-> f]
               /\ d.store["1a"] = b.store["1a"] /\ d.store["adc"] = b.store["adc"]
<1> DEFINE s == [tag |-> PlayTag, chan |-> 0, fmt |-> f]
           d1 == store_stream_format(b, "02", PlayTag, f)
           d2 == store_stream_format(d1, "03", PlayTag, f)
           d3 == store_stream_format(d2, "0a", PlayTag, f)
<1>1. /\ "02" \in Converters /\ "03" \in Converters /\ "0a" \in Converters
      /\ "1a" \in Converters /\ "adc" \in Converters
      /\ PlayTag \in Tags /\ f \in Formats \cup {IntMike}
    BY DEF Converters, Tags, PlayTag, Formats
<1>2. d1 \in Bridge /\ Keeps(d1, b, {"store"}) /\ Sets(d1.store, b.store, "02", s)
    BY <1>1, StoreStreamEffect
<1> HIDE DEF d1
<1>3. d2 \in Bridge /\ Keeps(d2, d1, {"store"}) /\ Sets(d2.store, d1.store, "03", s)
    BY <1>1, <1>2, StoreStreamEffect
<1> HIDE DEF d2
<1>4. d3 \in Bridge /\ Keeps(d3, d2, {"store"}) /\ Sets(d3.store, d2.store, "0a", s)
    BY <1>1, <1>3, StoreStreamEffect
<1>5. Stored(b, f) = d3
    BY DEF Stored, d1, d2
<1> HIDE DEF d3
<1> QED
    BY <1>1, <1>2, <1>3, <1>4, <1>5 DEF Keeps, Sets

(* What a playing stream leaves of the inputs.                             *)
InputsStay(d, b) ==
    /\ d.store["1a"] = b.store["1a"] /\ d.store["adc"] = b.store["adc"]
    /\ d.reg["1a"] = b.reg["1a"] /\ d.reg["adc"] = b.reg["adc"]
    /\ d.cache["1a"] = b.cache["1a"] /\ d.cache["adc"] = b.cache["adc"]
    /\ "hsin" \in d.slots <=> "hsin" \in b.slots
    /\ "3c" \in d.pins <=> "3c" \in b.pins
    /\ "intmike" \in d.pins <=> "intmike" \in b.pins
    /\ "intmike" \in d.clocks <=> "intmike" \in b.clocks
    /\ "adc" \in d.unmuted <=> "adc" \in b.unmuted
    /\ "adc" \in d.d0 <=> "adc" \in b.d0
    /\ "linein" \in d.d0 <=> "linein" \in b.d0
    /\ "afg" \in b.d0 => "afg" \in d.d0

(* The headphones as the properties want them, on any bridge.              *)
PhonesCarry(b) ==
    /\ "hsout" \in b.slots /\ "2c" \in b.pins /\ "headset" \in b.buses
    /\ "headset" \in b.clocks /\ "headset" \in b.tdm /\ b.run = TRUE

LEMMA PhonesStart ==
    ASSUME NEW b \in Bridge
    PROVE  LET d == headset_amp_format_setup(b)
           IN  /\ d \in Bridge /\ InputsStay(d, b) /\ PhonesCarry(d)
               /\ d.store = b.store /\ d.amps = b.amps /\ d.d0 = b.d0
               /\ d.reg["02"] = b.reg["02"] /\ d.reg["03"] = b.reg["03"]
               /\ "amps12" \in d.slots <=> "amps12" \in b.slots
               /\ "amps34" \in d.slots <=> "amps34" \in b.slots
               /\ b.store["0a"].tag # 0 /\ b.store["0a"].fmt # NoFormat =>
                     d.reg["0a"] = [tag |-> b.store["0a"].tag, chan |-> 0, fmt |-> b.store["0a"].fmt]
<1> DEFINE d == headset_amp_format_setup(b)
<1>1. \A n \in {"02", "03", "1a", "adc"} : n \in Converters
    BY DEF Converters
<1>2. /\ d \in Bridge
      /\ Keeps(d, b, {"slots", "clocks", "tdm", "buses", "run", "pins", "reg", "cache"})
      /\ d.slots = b.slots \cup {"hsout"} /\ d.clocks = b.clocks \cup {"headset"}
      /\ d.tdm = b.tdm \cup {"headset"} /\ d.buses = b.buses \cup {"headset"}
      /\ d.run = TRUE /\ d.pins = b.pins \cup {"2c"}
      /\ SetsOnly(d.reg, b.reg, {"0a"}) /\ SetsOnly(d.cache, b.cache, {"0a"})
      /\ b.store["0a"].tag # 0 /\ b.store["0a"].fmt # NoFormat =>
            d.reg["0a"] = [tag |-> b.store["0a"].tag, chan |-> 0, fmt |-> b.store["0a"].fmt]
    BY HeadsetAmpEffect
<1> HIDE DEF d
<1>3. /\ d.reg["02"] = b.reg["02"] /\ d.reg["03"] = b.reg["03"]
      /\ d.reg["1a"] = b.reg["1a"] /\ d.reg["adc"] = b.reg["adc"]
      /\ d.cache["1a"] = b.cache["1a"] /\ d.cache["adc"] = b.cache["adc"]
      /\ d.store = b.store /\ d.amps = b.amps /\ d.d0 = b.d0 /\ d.unmuted = b.unmuted
    BY <1>1, <1>2 DEF Keeps, Parts, SetsOnly
<1> QED
    BY <1>2, <1>3 DEF InputsStay, PhonesCarry, d

LEMMA SpeakersStart ==
    ASSUME NEW b \in Bridge, NEW f \in PlayFormats,
           b.store["02"] = [tag |-> PlayTag, chan |-> 0, fmt |-> f],
           b.store["03"] = [tag |-> PlayTag, chan |-> 0, fmt |-> f]
    PROVE  LET d == PlaySpeakers(Power(b, {"afg"}), Channels(f))
           IN  /\ d \in Bridge /\ InputsStay(d, b) /\ SpeakersCarry(d, f)
               /\ d.store = b.store
               /\ "hsout" \in d.slots <=> "hsout" \in b.slots
<1> DEFINE a == Power(b, {"afg"})
           d == PlaySpeakers(a, Channels(f))
<1>1. a \in Bridge /\ Keeps(a, b, {"d0"}) /\ a.d0 = b.d0 \cup {"afg"}
    BY PowerFrame
<1> HIDE DEF a
<1>2. /\ a.store = b.store /\ a.reg = b.reg /\ a.cache = b.cache /\ a.slots = b.slots
      /\ a.pins = b.pins /\ a.clocks = b.clocks /\ a.unmuted = b.unmuted
    BY <1>1 DEF Keeps, Parts
<1>3. /\ a.store["02"] = [tag |-> PlayTag, chan |-> 0, fmt |-> f]
      /\ a.store["03"] = [tag |-> PlayTag, chan |-> 0, fmt |-> f]
    BY <1>2
<1>4. /\ d \in Bridge /\ SpeakersCarry(d, f)
      /\ d.store = a.store /\ d.d0 = a.d0 /\ d.unmuted = a.unmuted
      /\ "hsout" \in d.slots <=> "hsout" \in a.slots
      /\ "intmike" \in d.pins <=> "intmike" \in a.pins
      /\ "intmike" \in d.clocks <=> "intmike" \in a.clocks
      /\ d.reg["1a"] = a.reg["1a"] /\ d.reg["adc"] = a.reg["adc"]
      /\ d.cache["1a"] = a.cache["1a"] /\ d.cache["adc"] = a.cache["adc"]
      /\ "hsin" \in d.slots <=> "hsin" \in a.slots
      /\ "3c" \in d.pins <=> "3c" \in a.pins
    BY <1>1, <1>3, PlaySpeakersCarry
<1> HIDE DEF d
<1> QED
    BY <1>1, <1>2, <1>4 DEF InputsStay, d, a

(* A prepare turns on what the stream comes out of, unless it is on.       *)
LEMMA PrepareBridge ==
    ASSUME IndInv, NEW f \in PlayFormats, PlayPrepare(f)
    PROVE  /\ c' \in Bridge /\ InputsStay(c', c)
           /\ c'.store["02"] = [tag |-> PlayTag, chan |-> 0, fmt |-> f]
           /\ c'.store["03"] = [tag |-> PlayTag, chan |-> 0, fmt |-> f]
           /\ c'.store["0a"] = [tag |-> PlayTag, chan |-> 0, fmt |-> f]
           /\ Plugged => SpeakersOff(c') /\ PhonesCarry(c')
           /\ Plugged /\ alone' /\ play_init_count' = 1 =>
                 c'.reg["0a"] = [tag |-> PlayTag, chan |-> 0, fmt |-> f]
           /\ ~Plugged => ("hsout" \in c'.slots <=> "hsout" \in c.slots)
           /\ ~Plugged /\ play_init_count' = 1 => SpeakersCarry(c', f)
<1> DEFINE s == Stored(c, f)
           needed == ~have_mike \/ headset_play_format_setup_needed
           p == headset_amp_format_setup(s)
           q == PlaySpeakers(Power(s, {"afg"}), Channels(f))
<1>1. /\ c \in Bridge /\ stage = "idle" /\ play_init_count \in 0 .. 2
      /\ jack_present = IF Plugged THEN 1 ELSE 0
      /\ jack_present = 1 => headset_enable = 1
      /\ Plugged => SpeakersOff(c)
      /\ Plugged /\ (playing \/ ~headset_play_format_setup_needed) => HeadphonesOn
      /\ playing <=> play_init_count # 0
      /\ ~headset_play_format_setup_needed => playing \/ capturing
    BY DEF IndInv, HardwareOK, DriverOK, FlagsInv, StreamsInv, NeededInv, SpeakersInv, PhonesInv,
           PlayPrepare, PcmMay
<1>2. play_init_count' = 1 <=> ~playing
    BY <1>1 DEF PlayPrepare, AtMost
<1>3. \/ play_init_count' = 1 /\ jack_present # 0 /\ needed /\ c' = headplay_real(s)
      \/ play_init_count' = 1 /\ jack_present = 0 /\ c' = q
      \/ (play_init_count' # 1 \/ (jack_present # 0 /\ ~needed)) /\ c' = s
    BY DEF PlayPrepare, Stored
<1>4. /\ s \in Bridge /\ Keeps(s, c, {"store"})
      /\ s.store["02"] = [tag |-> PlayTag, chan |-> 0, fmt |-> f]
      /\ s.store["03"] = [tag |-> PlayTag, chan |-> 0, fmt |-> f]
      /\ s.store["0a"] = [tag |-> PlayTag, chan |-> 0, fmt |-> f]
      /\ s.store["1a"] = c.store["1a"] /\ s.store["adc"] = c.store["adc"]
    BY <1>1, StoredEffect
<1> HIDE DEF s
<1>5. InputsStay(s, c)
    BY <1>4 DEF InputsStay, Keeps, Parts
<1>6. /\ s.slots = c.slots /\ s.amps = c.amps /\ s.reg = c.reg /\ s.pins = c.pins
      /\ s.buses = c.buses /\ s.clocks = c.clocks /\ s.tdm = c.tdm /\ s.run = c.run
    BY <1>4 DEF Keeps, Parts
<1>7. PlayTag # 0 /\ f # NoFormat
    BY FormatAssumption DEF PlayTag, Formats
<1>8. CASE play_init_count' = 1 /\ jack_present # 0 /\ needed /\ c' = headplay_real(s)
  <2>1. c' = p /\ Plugged
      BY <1>1, <1>8 DEF headplay_real
  <2>2. /\ p \in Bridge /\ InputsStay(p, s) /\ PhonesCarry(p)
        /\ p.store = s.store /\ p.amps = s.amps
        /\ p.reg["02"] = s.reg["02"] /\ p.reg["03"] = s.reg["03"]
        /\ "amps12" \in p.slots <=> "amps12" \in s.slots
        /\ "amps34" \in p.slots <=> "amps34" \in s.slots
        /\ s.store["0a"].tag # 0 /\ s.store["0a"].fmt # NoFormat =>
             p.reg["0a"] = [tag |-> s.store["0a"].tag, chan |-> 0, fmt |-> s.store["0a"].fmt]
      BY <1>4, PhonesStart
  <2> HIDE DEF p
  <2>3. s.store["0a"].tag = PlayTag /\ s.store["0a"].fmt = f
      BY <1>4
  <2>4. p.reg["0a"] = [tag |-> PlayTag, chan |-> 0, fmt |-> f]
      BY <1>7, <2>2, <2>3
  <2>5. InputsStay(p, c)
      BY <1>5, <2>2 DEF InputsStay
  <2>6. SpeakersOff(p)
      BY <1>1, <1>6, <2>1, <2>2 DEF SpeakersOff
  <2> QED
      BY <1>4, <2>1, <2>2, <2>4, <2>5, <2>6
<1>9. CASE play_init_count' = 1 /\ jack_present = 0 /\ c' = q
  <2>1. c' = q /\ ~Plugged
      BY <1>1, <1>9
  <2>2. /\ q \in Bridge /\ InputsStay(q, s) /\ SpeakersCarry(q, f)
        /\ q.store = s.store
        /\ "hsout" \in q.slots <=> "hsout" \in s.slots
      BY <1>4, SpeakersStart
  <2> HIDE DEF q
  <2>3. InputsStay(q, c)
      BY <1>5, <2>2 DEF InputsStay
  <2> QED
      BY <1>4, <1>6, <2>1, <2>2, <2>3
<1>10. CASE (play_init_count' # 1 \/ (jack_present # 0 /\ ~needed)) /\ c' = s
  <2>1. Plugged => /\ playing \/ ~headset_play_format_setup_needed
                   /\ SpeakersOff(s) /\ PhonesCarry(s)
    <3>1. SpeakersOff(c) => SpeakersOff(s)
        BY <1>6 DEF SpeakersOff
    <3>2. HeadphonesOn => PhonesCarry(s)
      <4>1. c.run = TRUE <=> c.run
          BY <1>1 DEF Bridge
      <4> QED
          BY <1>6, <4>1 DEF HeadphonesOn, PhonesCarry
    <3>3. playing \/ ~headset_play_format_setup_needed
        BY <1>2, <1>10
    <3> QED
        BY <1>1, <3>1, <3>2, <3>3
  <2>2. play_init_count' = 1 => ~alone' /\ Plugged
    <3> SUFFICES ASSUME play_init_count' = 1 PROVE ~alone' /\ Plugged
        OBVIOUS
    <3>1. ~playing /\ Plugged /\ ~headset_play_format_setup_needed
        BY <1>1, <1>2, <1>10
    <3>2. capturing /\ alone' = ~capturing
        BY <1>1, <3>1 DEF PlayPrepare
    <3> QED
        BY <3>1, <3>2
  <2> QED
      BY <1>4, <1>5, <1>6, <1>10, <2>1, <2>2
<1> QED
    BY <1>3, <1>8, <1>9, <1>10

LEMMA PrepareChip ==
    ASSUME IndInv, NEW f \in PlayFormats, PlayPrepare(f)
    PROVE  /\ x' \in L83!Chip
           /\ x'.watch = x.watch /\ x'.typeint = x.typeint /\ x'.buttons = x.buttons
           /\ x'.bias = x.bias /\ x'.micdet = x.micdet /\ x'.sense = x.sense
           /\ x'.adc = x.adc /\ x'.tx = x.tx
           /\ "input" \in x'.powered <=> "input" \in x.powered
           /\ "in" \in x'.rates <=> "in" \in x.rates
           /\ Plugged => /\ "output" \in x'.powered /\ x'.dac /\ x'.rx /\ x'.pll
                         /\ "out" \in x'.rates
           /\ ~Plugged => x' = x
<1>1. /\ x \in L83!Chip /\ stage = "idle" /\ play_init_count \in 0 .. 2
      /\ jack_present = IF Plugged THEN 1 ELSE 0
      /\ jack_present = 1 => headset_enable = 1
      /\ Plugged /\ (playing \/ ~headset_play_format_setup_needed) => HeadphonesOn
      /\ playing <=> play_init_count # 0
    BY DEF IndInv, HardwareOK, DriverOK, FlagsInv, StreamsInv, PhonesInv, PlayPrepare, PcmMay
<1>2. play_init_count' = 1 <=> ~playing
    BY <1>1 DEF PlayPrepare, AtMost
<1>3. \/ jack_present # 0 /\ x' = headplay_chip(x)
      \/ /\ jack_present = 0 \/ play_init_count' # 1 \/ ~headset_play_format_setup_needed
         /\ x' = x
    BY DEF PlayPrepare
<1>4. CASE jack_present # 0 /\ x' = headplay_chip(x)
  <2>1. x' = L83!enable_headset_streaming(x) /\ Plugged
      BY <1>1, <1>4 DEF headplay_chip
  <2>2. /\ x' \in L83!Chip
        /\ ChipKeeps(x', x, {"powered", "dac", "rx", "pll", "rates", "hpout"})
        /\ x'.powered = x.powered \cup {"output"} /\ x'.dac = TRUE /\ x'.rx = TRUE
        /\ x'.pll = TRUE /\ x'.rates = x.rates \cup {"out"}
      BY <1>1, <2>1, ChipPlayEffect
  <2> QED
      BY <2>1, <2>2 DEF ChipKeeps, ChipParts
<1>5. CASE /\ jack_present = 0 \/ play_init_count' # 1 \/ ~headset_play_format_setup_needed
           /\ x' = x
    BY <1>1, <1>2, <1>5 DEF HeadphonesOn
<1> QED
    BY <1>3, <1>4, <1>5

LEMMA PlayPrepareStep == ASSUME NEW f \in PlayFormats PROVE IndInv /\ PlayPrepare(f) => IndInv'
<1> SUFFICES ASSUME IndInv, PlayPrepare(f) PROVE IndInv'
    OBVIOUS
<1>1. /\ stage = "idle" /\ stage' = "idle" /\ playing' = TRUE /\ heard' = f
      /\ stream_channels' = Channels(f)
      /\ play_init_count' \in 1 .. 2 /\ alone' \in BOOLEAN
      /\ UNCHANGED <<jack, jack_present, headset_enable, have_mike, capturing,
                     capture_init_count, headset_capture_format_setup_needed, taken,
                     undisturbed, pulled>>
  <2>1. play_init_count \in 0 .. 2 /\ capturing \in BOOLEAN /\ alone \in BOOLEAN
      BY DEF IndInv, DriverOK, UserOK
  <2>2. alone' \in BOOLEAN
      BY <2>1 DEF PlayPrepare
  <2>3. play_init_count' \in 1 .. 2
      BY <2>1 DEF PlayPrepare, AtMost
  <2> QED
      BY <2>2, <2>3 DEF PlayPrepare, PcmMay, found
<1>2. /\ headset_play_format_setup_needed' \in BOOLEAN
      /\ headset_play_format_setup_needed' => headset_play_format_setup_needed
      /\ jack # "headset" => headset_play_format_setup_needed'
  <2>1. /\ headset_play_format_setup_needed \in BOOLEAN /\ have_mike \in BOOLEAN
        /\ jack # "headset" => ~have_mike /\ headset_play_format_setup_needed
      BY <1>1 DEF IndInv, DriverOK, FlagsInv, NeededInv
  <2>2. \/ headset_play_format_setup_needed' = (headset_play_format_setup_needed /\ ~have_mike)
        \/ headset_play_format_setup_needed' = headset_play_format_setup_needed
      BY DEF PlayPrepare
  <2>3. CASE headset_play_format_setup_needed' = headset_play_format_setup_needed
      BY <2>1, <2>3
  <2>4. CASE headset_play_format_setup_needed' = (headset_play_format_setup_needed /\ ~have_mike)
    <3>1. CASE have_mike
        BY <2>1, <2>4, <3>1
    <3>2. CASE ~have_mike
      <4>1. headset_play_format_setup_needed' = headset_play_format_setup_needed
          BY <2>1, <2>4, <3>2
      <4> QED
          BY <2>1, <4>1
    <3> QED
        BY <3>1, <3>2
  <2> QED
      BY <2>2, <2>3, <2>4
<1>3. /\ c' \in Bridge /\ InputsStay(c', c)
      /\ c'.store["02"] = [tag |-> PlayTag, chan |-> 0, fmt |-> f]
      /\ c'.store["03"] = [tag |-> PlayTag, chan |-> 0, fmt |-> f]
      /\ c'.store["0a"] = [tag |-> PlayTag, chan |-> 0, fmt |-> f]
      /\ Plugged => SpeakersOff(c') /\ PhonesCarry(c')
      /\ Plugged /\ alone' /\ play_init_count' = 1 =>
            c'.reg["0a"] = [tag |-> PlayTag, chan |-> 0, fmt |-> f]
      /\ ~Plugged => ("hsout" \in c'.slots <=> "hsout" \in c.slots)
      /\ ~Plugged /\ play_init_count' = 1 => SpeakersCarry(c', f)
    BY PrepareBridge
<1>4. /\ x' \in L83!Chip
      /\ x'.watch = x.watch /\ x'.typeint = x.typeint /\ x'.buttons = x.buttons
      /\ x'.bias = x.bias /\ x'.micdet = x.micdet /\ x'.sense = x.sense
      /\ x'.adc = x.adc /\ x'.tx = x.tx
      /\ "input" \in x'.powered <=> "input" \in x.powered
      /\ "in" \in x'.rates <=> "in" \in x.rates
      /\ Plugged => /\ "output" \in x'.powered /\ x'.dac /\ x'.rx /\ x'.pll
                    /\ "out" \in x'.rates
      /\ ~Plugged => x' = x
    BY PrepareChip
<1>5. HardwareOK' /\ DriverOK' /\ UserOK'
  <2>1. HardwareOK'
      BY <1>3, <1>4 DEF HardwareOK
  <2>2. DriverOK'
    <3>1. stream_channels' \in {0, 2, 4} /\ play_init_count' \in 0 .. 2
        BY <1>1 DEF Channels
    <3> QED
        BY <1>1, <1>2, <3>1 DEF IndInv, DriverOK
  <2>3. UserOK'
      BY <1>1 DEF IndInv, UserOK
  <2> QED
      BY <2>1, <2>2, <2>3
<1> USE DEF IndInv
<1>6. FlagsInv' /\ NeededInv' /\ UndisturbedInv'
  <2>1. FlagsInv'
      BY <1>1 DEF FlagsInv, Plugged
  <2>2. NeededInv'
      BY <1>1, <1>2 DEF NeededInv
  <2>3. UndisturbedInv'
      BY <1>1 DEF UndisturbedInv
  <2> QED
      BY <2>1, <2>2, <2>3
<1>7. StreamsInv'
    BY <1>1, <1>3 DEF StreamsInv, PlayTag, Channels
<1>8. SpeakersInv' /\ ConvertersInv'
    BY <1>1, <1>3 DEF SpeakersInv, ConvertersInv, InputsStay, Plugged
<1>9. StoreInv'
    BY <1>1, <1>3 DEF StoreInv, InputsStay, CaptureTag, Untagged
<1>10. OutputInv' /\ InputInv'
  <2>1. OutputInv'
    <3>1. CASE Plugged
        BY <1>1, <3>1 DEF OutputInv, Plugged
    <3>2. CASE ~Plugged
        BY <1>1, <1>3, <1>4, <3>2 DEF OutputInv, OutputOff
    <3> QED
        BY <3>1, <3>2
  <2>2. InputInv'
      BY <1>1, <1>4 DEF InputInv
  <2> QED
      BY <2>1, <2>2
<1>11. PhonesInv'
    BY <1>1, <1>3, <1>4 DEF PhonesInv, HeadphonesOn, PhonesCarry, Plugged, PlayTag
<1>12. HeadsetInv'
  <2>1. ~headset_play_format_setup_needed => ~headset_play_format_setup_needed'
      BY <1>2
  <2> QED
      BY <1>1, <1>3, <1>4, <2>1 DEF HeadsetInv, InputsStay, CaptureTag
<1>13. InternalInv'
    BY <1>1, <1>3 DEF InternalInv, InputsStay, CaptureTag
<1>14. SpeakersPlay'
    BY <1>1, <1>3 DEF SpeakersPlay, SpeakersOn, SpeakersCarry, Plugged, PlayTag, Channels
<1>15. CodecInv'
    BY <1>1, <1>4, CodecKept
<1> QED
    BY <1>5, <1>6, <1>7, <1>8, <1>9, <1>10, <1>11, <1>12, <1>13, <1>14, <1>15

(* The end of a recording in a headset: the microphone is turned off, and  *)
(* the headphones when no stream plays on them.                            *)
LEMMA StopBridge ==
    ASSUME IndInv, CaptureCleanup, Plugged
    PROVE  /\ c' \in Bridge /\ SpeakersOff(c') /\ c'.store = c.store /\ c'.d0 = c.d0
           /\ c'.reg["1a"] = c.reg["1a"] \/ c'.reg["1a"] = Silent
           /\ c'.reg["adc"] = c.reg["adc"]
           /\ playing => /\ PhonesCarry(c) => PhonesCarry(c')
                         /\ c'.reg["0a"] = c.reg["0a"]
           /\ "hsout" \in c'.slots =>
                 "hsout" \in c.slots /\ (playing \/ headset_play_format_setup_needed)
<1> DEFINE mike == ~headset_capture_format_setup_needed
           phones == ~playing /\ ~headset_play_format_setup_needed
           a == headset_mike_format_setup_disable(c)
           b1 == IF mike THEN a ELSE c
           d == headset_amp_format_setup_disable(b1, TRUE)
<1>1. /\ c \in Bridge /\ SpeakersOff(c) /\ jack_present # 0
      /\ playing \in BOOLEAN /\ headset_play_format_setup_needed \in BOOLEAN
    BY DEF IndInv, HardwareOK, DriverOK, SpeakersInv, FlagsInv, CaptureCleanup, PcmMay
<1>2. c' = IF phones THEN d ELSE b1
    BY <1>1 DEF CaptureCleanup
<1>3. \A n \in {"02", "03", "0a", "1a", "adc"} : n \in Converters
    BY DEF Converters
<1>4. /\ a \in Bridge /\ Keeps(a, c, {"slots", "run", "pins", "reg"})
      /\ a.slots = c.slots \ {"hsin"} /\ a.run = TRUE /\ a.pins = c.pins \ {"3c"}
      /\ Sets(a.reg, c.reg, "1a", Silent)
    BY <1>1, HeadsetMikeOffEffect
<1> HIDE DEF a
<1>5. /\ a.reg["02"] = c.reg["02"] /\ a.reg["03"] = c.reg["03"] /\ a.reg["0a"] = c.reg["0a"]
      /\ a.reg["1a"] = Silent /\ a.reg["adc"] = c.reg["adc"]
      /\ a.store = c.store /\ a.amps = c.amps /\ a.d0 = c.d0
      /\ a.buses = c.buses /\ a.clocks = c.clocks /\ a.tdm = c.tdm
    BY <1>3, <1>4 DEF Keeps, Parts, Sets
<1>6. /\ b1 \in Bridge /\ SpeakersOff(b1) /\ b1.store = c.store /\ b1.d0 = c.d0
      /\ b1.reg["1a"] = c.reg["1a"] \/ b1.reg["1a"] = Silent
      /\ b1.reg["adc"] = c.reg["adc"] /\ b1.reg["0a"] = c.reg["0a"]
      /\ PhonesCarry(c) => PhonesCarry(b1)
      /\ "hsout" \in b1.slots => "hsout" \in c.slots
  <2>1. CASE mike
    <3>1. b1 = a
        BY <2>1
    <3> QED
        BY <1>1, <1>4, <1>5, <3>1 DEF SpeakersOff, PhonesCarry
  <2>2. CASE ~mike
      BY <1>1, <2>2
  <2> QED
      BY <2>1, <2>2
<1> HIDE DEF b1
<1>7. /\ d \in Bridge
      /\ Keeps(d, b1, {"slots", "clocks", "tdm", "buses", "run", "pins", "reg"})
      /\ d.slots = b1.slots \ {"hsout"} /\ Sets(d.reg, b1.reg, "0a", Silent)
  <2>1. TRUE \in BOOLEAN
      OBVIOUS
  <2> QED
      BY <1>6, <2>1, HeadsetAmpOffEffect
<1> HIDE DEF d
<1>8. /\ d.reg["02"] = b1.reg["02"] /\ d.reg["03"] = b1.reg["03"]
      /\ d.reg["1a"] = b1.reg["1a"] /\ d.reg["adc"] = b1.reg["adc"]
      /\ d.store = b1.store /\ d.amps = b1.amps /\ d.d0 = b1.d0
    BY <1>3, <1>7 DEF Keeps, Parts, Sets
<1>9. CASE phones
    BY <1>1, <1>2, <1>6, <1>7, <1>8, <1>9 DEF SpeakersOff
<1>10. CASE ~phones
    BY <1>1, <1>2, <1>6, <1>10
<1> QED
    BY <1>9, <1>10

LEMMA StopChip ==
    ASSUME IndInv, CaptureCleanup, Plugged
    PROVE  /\ x' \in L83!Chip
           /\ x'.watch = x.watch /\ x'.typeint = x.typeint /\ x'.buttons = x.buttons
           /\ x'.bias = x.bias /\ x'.micdet = x.micdet /\ x'.sense = x.sense
           /\ "input" \in x'.powered =>
                 "input" \in x.powered /\ headset_capture_format_setup_needed
           /\ IF ~playing /\ ~headset_play_format_setup_needed
                THEN "output" \notin x'.powered /\ x'.dac = FALSE
                ELSE /\ x'.dac = x.dac /\ x'.rx = x.rx /\ x'.pll = x.pll /\ x'.rates = x.rates
                     /\ "output" \in x'.powered <=> "output" \in x.powered
<1> DEFINE mike == ~headset_capture_format_setup_needed
           phones == ~playing /\ ~headset_play_format_setup_needed
           a == L83!disable_headset_mike_streaming(x)
           h1 == IF mike THEN a ELSE x
           g == L83!disable_headset_streaming(h1)
<1>1. x \in L83!Chip /\ jack_present # 0
    BY DEF IndInv, HardwareOK, FlagsInv, CaptureCleanup, PcmMay
<1>2. x' = IF phones THEN g ELSE h1
    BY <1>1 DEF CaptureCleanup
<1>3. /\ a \in L83!Chip /\ ChipKeeps(a, x, {"powered", "adc", "tx"})
      /\ a.powered = x.powered \ {"input"}
    BY <1>1, ChipRecordOffEffect
<1> HIDE DEF a
<1>4. /\ h1 \in L83!Chip /\ ChipKeeps(h1, x, {"powered", "adc", "tx"})
      /\ h1.powered = IF mike THEN x.powered \ {"input"} ELSE x.powered
  <2>1. CASE mike
      BY <1>3, <2>1
  <2>2. CASE ~mike
      BY <1>1, <2>2 DEF ChipKeeps
  <2> QED
      BY <2>1, <2>2
<1> HIDE DEF h1
<1>5. /\ g \in L83!Chip /\ ChipKeeps(g, h1, {"powered", "dac", "rx", "pll"})
      /\ g.powered = h1.powered \ {"output"} /\ g.dac = FALSE
    BY <1>4, ChipStopEffect
<1> HIDE DEF g
<1>6. CASE phones
    BY <1>2, <1>4, <1>5, <1>6 DEF ChipKeeps, ChipParts
<1>7. CASE ~phones
    BY <1>2, <1>4, <1>7 DEF ChipKeeps, ChipParts
<1> QED
    BY <1>6, <1>7

LEMMA CaptureCleanupStep == IndInv /\ CaptureCleanup => IndInv'
<1> SUFFICES ASSUME IndInv, CaptureCleanup PROVE IndInv'
    OBVIOUS
<1>1. /\ stage = "idle" /\ stage' = "idle" /\ ~capturing' /\ capturing' \in BOOLEAN
      /\ capture_init_count' = 0 /\ taken' = NotTaken /\ undisturbed' = FALSE
      /\ playing \in BOOLEAN /\ jack_present = IF Plugged THEN 1 ELSE 0
      /\ headset_play_format_setup_needed \in BOOLEAN
      /\ jack # "headset" =>
            headset_play_format_setup_needed /\ headset_capture_format_setup_needed
      /\ UNCHANGED <<jack, jack_present, headset_enable, have_mike, playing, play_init_count,
                     stream_channels, heard, alone, pulled>>
    BY DEF CaptureCleanup, PcmMay, IndInv, DriverOK, FlagsInv, NeededInv, found
<1>2. /\ headset_capture_format_setup_needed' = TRUE
      /\ IF Plugged
           THEN headset_play_format_setup_needed' =
                   (headset_play_format_setup_needed \/ ~playing)
           ELSE headset_play_format_setup_needed' = headset_play_format_setup_needed
  <2>1. CASE Plugged
      BY <1>1, <2>1 DEF CaptureCleanup
  <2>2. CASE ~Plugged
    <3>1. headset_capture_format_setup_needed = TRUE
        BY <1>1, <2>2 DEF IndInv, DriverOK, Plugged
    <3>2. UNCHANGED setup
        BY <1>1, <2>2 DEF CaptureCleanup
    <3> QED
        BY <2>2, <3>1, <3>2 DEF setup
  <2> QED
      BY <2>1, <2>2
<1>3. /\ headset_play_format_setup_needed' \in BOOLEAN
      /\ ~headset_play_format_setup_needed' => playing /\ ~headset_play_format_setup_needed
      /\ jack # "headset" => headset_play_format_setup_needed'
  <2>1. CASE Plugged
      BY <1>1, <1>2, <2>1
  <2>2. CASE ~Plugged
    <3>1. headset_play_format_setup_needed
        BY <1>1, <2>2 DEF Plugged
    <3> QED
        BY <1>1, <1>2, <2>2, <3>1
  <2> QED
      BY <2>1, <2>2
<1> USE DEF IndInv
<1>4. FlagsInv' /\ NeededInv' /\ UndisturbedInv'
  <2>1. FlagsInv'
      BY <1>1 DEF FlagsInv, Plugged
  <2>2. NeededInv'
      BY <1>1, <1>2, <1>3 DEF NeededInv
  <2>3. UndisturbedInv'
      BY <1>1 DEF UndisturbedInv
  <2> QED
      BY <2>1, <2>2, <2>3
<1>5. DriverOK' /\ UserOK'
  <2>1. DriverOK'
      BY <1>1, <1>2, <1>3 DEF DriverOK
  <2>2. UserOK'
      BY <1>1 DEF UserOK, NotTaken
  <2> QED
      BY <2>1, <2>2
<1>6. HeadsetInv' /\ InternalInv'
    BY <1>1 DEF HeadsetInv, InternalInv
<1>7. CASE Plugged
  <2>1. /\ c' \in Bridge /\ SpeakersOff(c') /\ c'.store = c.store /\ c'.d0 = c.d0
        /\ c'.reg["1a"] = c.reg["1a"] \/ c'.reg["1a"] = Silent
        /\ c'.reg["adc"] = c.reg["adc"]
        /\ playing => /\ PhonesCarry(c) => PhonesCarry(c')
                      /\ c'.reg["0a"] = c.reg["0a"]
        /\ "hsout" \in c'.slots =>
              "hsout" \in c.slots /\ (playing \/ headset_play_format_setup_needed)
      BY <1>7, StopBridge
  <2>2. /\ x' \in L83!Chip
        /\ x'.watch = x.watch /\ x'.typeint = x.typeint /\ x'.buttons = x.buttons
        /\ x'.bias = x.bias /\ x'.micdet = x.micdet /\ x'.sense = x.sense
        /\ "input" \in x'.powered =>
              "input" \in x.powered /\ headset_capture_format_setup_needed
        /\ IF ~playing /\ ~headset_play_format_setup_needed
             THEN "output" \notin x'.powered /\ x'.dac = FALSE
             ELSE /\ x'.dac = x.dac /\ x'.rx = x.rx /\ x'.pll = x.pll /\ x'.rates = x.rates
                  /\ "output" \in x'.powered <=> "output" \in x.powered
      BY <1>7, StopChip
  <2>3. HardwareOK'
      BY <2>1, <2>2 DEF HardwareOK
  <2>4. StreamsInv'
      BY <1>1, <2>1 DEF StreamsInv, PlayTag, Channels
  <2>5. SpeakersInv' /\ ConvertersInv' /\ SpeakersPlay'
      BY <1>1, <1>7, <2>1 DEF SpeakersInv, ConvertersInv, SpeakersPlay, Plugged
  <2>6. StoreInv'
      BY <1>1, <2>1 DEF StoreInv, CaptureTag, Untagged
  <2>7. InputInv'
      BY <1>1, <2>2 DEF InputInv
  <2>8. OutputInv'
    <3>1. CASE playing
        BY <1>1, <1>7, <3>1 DEF OutputInv, Plugged
    <3>2. CASE ~playing
        BY <1>1, <2>1, <2>2, <3>2 DEF OutputInv, OutputOff
    <3> QED
        BY <3>1, <3>2
  <2>9. PhonesInv'
    <3>1. CASE playing
      <4>1. HeadphonesOn
          BY <1>1, <1>7, <3>1 DEF PhonesInv
      <4>2. c.run \in BOOLEAN
          BY DEF HardwareOK, Bridge
      <4>3. HeadphonesOn'
          BY <2>1, <2>2, <3>1, <4>1, <4>2 DEF HeadphonesOn, PhonesCarry
      <4>4. /\ alone /\ play_init_count = 1 =>
                  c'.reg["0a"] = [tag |-> PlayTag, chan |-> 0, fmt |-> heard]
          BY <1>1, <1>7, <2>1, <3>1 DEF PhonesInv
      <4> QED
          BY <1>1, <4>3, <4>4 DEF PhonesInv, PlayTag
    <3>2. CASE ~playing
      <4>1. headset_play_format_setup_needed'
          BY <1>3, <3>2
      <4> QED
          BY <1>1, <3>2, <4>1 DEF PhonesInv
    <3> QED
        BY <3>1, <3>2
  <2>10. CodecInv'
      BY <1>1, <2>2, CodecKept
  <2> QED
      BY <1>4, <1>5, <1>6, <2>3, <2>4, <2>5, <2>6, <2>7, <2>8, <2>9, <2>10
<1>8. CASE ~Plugged
  <2>1. c' = capturestop_real(c) /\ x' = x /\ c \in Bridge
      BY <1>1, <1>8 DEF CaptureCleanup, HardwareOK
  <2>2. Inputs(c', c) /\ Untagged(c', "adc") /\ c'.d0 \cap {"adc", "linein"} = {}
      BY <2>1, CaptureStopEffect
  <2>3. c' \in Bridge /\ Frame(c', c)
      BY <2>2, InputsFrame
  <2>4. HardwareOK'
      BY <2>1, <2>3 DEF HardwareOK
  <2>5. StreamsInv'
      BY <1>1, <2>3 DEF StreamsInv, PlayTag, Channels, Frame
  <2>6. SpeakersInv' /\ ConvertersInv'
      BY <1>1, <1>8, <2>2, <2>3 DEF SpeakersInv, SpeakersOff, ConvertersInv, Plugged, Frame
  <2>7. StoreInv'
      BY <1>1, <2>2, <2>3 DEF StoreInv, CaptureTag, Frame
  <2>8. OutputInv' /\ InputInv'
      BY <1>1, <1>2, <1>8, <2>1, <2>3 DEF OutputInv, OutputOff, InputInv, Plugged, Frame
  <2>9. PhonesInv'
      BY <1>1, <1>8 DEF PhonesInv, Plugged
  <2>10. SpeakersPlay'
      BY <1>1, <2>3 DEF SpeakersPlay, SpeakersOn, Frame, PlayTag, Channels
  <2>11. CodecInv'
      BY <1>1, <2>1, CodecKept
  <2> QED
      BY <1>4, <1>5, <1>6, <2>4, <2>5, <2>6, <2>7, <2>8, <2>9, <2>10, <2>11
<1> QED
    BY <1>7, <1>8

(* A recording's parameters are stored first, and the stream set last.     *)
Taken(f) == [tag |-> CaptureTag, chan |-> 0, fmt |-> f]

Inlets == {"1a", "adc"}

LEMMA TakenTyped ==
    ASSUME NEW f \in CaptureFormats
    PROVE  /\ Taken(f) \in Setup /\ Taken(f).tag # 0 /\ Taken(f).chan = 0
           /\ Taken(f).fmt = f /\ Taken(f).fmt # NoFormat /\ Taken(f) # Silent
<1>1. f \in Formats /\ f # NoFormat
    BY FormatAssumption DEF Formats
<1>2. Taken(f) \in Setup
    BY <1>1 DEF Taken, CaptureTag, Setup, Tags
<1>3. Taken(f).tag # Silent.tag
    BY DEF Taken, CaptureTag, Silent
<1> QED
    BY <1>1, <1>2, <1>3 DEF Taken, CaptureTag

LEMMA TakeStored ==
    ASSUME NEW b \in Bridge, NEW nid \in Inlets, NEW f \in CaptureFormats
    PROVE  LET d == store_stream_format(b, nid, CaptureTag, f)
           IN  /\ d \in Bridge /\ Keeps(d, b, {"store"})
               /\ d.store["02"] = b.store["02"] /\ d.store["03"] = b.store["03"]
               /\ d.store["0a"] = b.store["0a"] /\ d.store[nid] = Taken(f)
               /\ \A m \in Inlets \ {nid} : d.store[m] = b.store[m]
<1>1. /\ nid \in Converters /\ nid \notin {"02", "03", "0a"}
      /\ \A m \in Inlets \cup {"02", "03", "0a"} : m \in Converters
      /\ CaptureTag \in Tags /\ f \in Formats \cup {IntMike}
    BY DEF Inlets, Converters, Tags, CaptureTag, Formats
<1> DEFINE d == store_stream_format(b, nid, CaptureTag, f)
<1>2. d \in Bridge /\ Keeps(d, b, {"store"}) /\ Sets(d.store, b.store, nid, Taken(f))
    BY <1>1, StoreStreamEffect DEF Taken
<1> HIDE DEF d
<1> QED
    BY <1>1, <1>2 DEF Sets, d

LEMMA TakeSet ==
    ASSUME NEW b \in Bridge, NEW nid \in Inlets, NEW f \in CaptureFormats
    PROVE  LET d == snd_hda_codec_setup_stream(b, nid, Taken(f))
           IN  /\ d \in Bridge /\ Keeps(d, b, {"reg", "cache"})
               /\ d.reg["02"] = b.reg["02"] /\ d.reg["03"] = b.reg["03"]
               /\ d.reg["0a"] = b.reg["0a"]
               /\ \A m \in Inlets \ {nid} : d.reg[m] = b.reg[m] /\ d.cache[m] = b.cache[m]
               /\ d.cache[nid] = Taken(f)
               /\ b.cache[nid] = b.reg[nid] => d.reg[nid] = Taken(f)
<1>1. /\ nid \in Converters /\ nid \notin {"02", "03", "0a"}
      /\ \A m \in Inlets \cup {"02", "03", "0a"} : m \in Converters
    BY DEF Inlets, Converters
<1> DEFINE d == snd_hda_codec_setup_stream(b, nid, Taken(f))
           s == Taken(f)
<1>2. s \in Setup
    BY TakenTyped
<1> HIDE DEF s
<1>3. /\ d \in Bridge /\ Keeps(d, b, {"reg", "cache"})
      /\ Sets(d.reg, b.reg, nid, Sent(b.cache[nid], b.reg[nid], s))
      /\ Sets(d.cache, b.cache, nid, s)
  <2>1. LET e == snd_hda_codec_setup_stream(b, nid, s)
        IN  /\ e \in Bridge /\ Keeps(e, b, {"reg", "cache"})
            /\ Sets(e.reg, b.reg, nid, Sent(b.cache[nid], b.reg[nid], s))
            /\ Sets(e.cache, b.cache, nid, s)
      BY <1>1, <1>2, SetupStreamEffect
  <2> QED
      BY <2>1 DEF s
<1> HIDE DEF d
<1>4. b.cache[nid] = b.reg[nid] => Sent(b.cache[nid], b.reg[nid], s) = s
  <2>1. b.cache[nid] \in Setup /\ b.reg[nid] \in Setup
      BY <1>1, ConvertersTyped
  <2> QED
      BY <1>2, <2>1, SentTyped
<1> QED
    BY <1>1, <1>3, <1>4 DEF Sets, d, s

(* What every prepare of a recording keeps or brings about.                *)
RecordKeeps(nid, f) ==
    /\ c' \in Bridge
    /\ c'.store["02"] = c.store["02"] /\ c'.store["03"] = c.store["03"]
    /\ c'.store["0a"] = c.store["0a"] /\ c'.store[nid] = Taken(f)
    /\ \A m \in Inlets \ {nid} : c'.store[m] = c.store[m]
    /\ nid = "adc" /\ c.store["1a"] = Silent => c'.reg["1a"] = Silent
    /\ nid = "1a" /\ c.store["adc"].tag = 0 => Untagged(c', "adc")
    /\ c'.reg["02"] = c.reg["02"] /\ c'.reg["03"] = c.reg["03"]
    /\ c'.amps = c.amps
    /\ "amps12" \in c'.slots <=> "amps12" \in c.slots
    /\ "amps34" \in c'.slots <=> "amps34" \in c.slots
    /\ x' \in L83!Chip
    /\ x'.watch = x.watch /\ x'.typeint = x.typeint /\ x'.buttons = x.buttons
    /\ x'.bias = x.bias /\ x'.micdet = x.micdet /\ x'.sense = x.sense

(* In a headset: the first prepare turns its microphone on, and the        *)
(* headphones unless they are.                                             *)
LEMMA RecordHeadset ==
    ASSUME IndInv, NEW nid \in Inlets, NEW f \in CaptureFormats, CapturePrepare(nid, f),
           capture_init_count' = 1, jack = "headset"
    PROVE  /\ RecordKeeps(nid, f)
           /\ ~headset_play_format_setup_needed' /\ ~headset_capture_format_setup_needed'
           /\ headset_play_format_setup_needed' \in BOOLEAN
           /\ headset_capture_format_setup_needed' \in BOOLEAN
           /\ c'.d0 = c.d0 /\ PhonesCarry(c')
           /\ playing => \/ c'.reg["0a"] = c.reg["0a"]
                         \/ c'.reg["0a"] = [tag |-> PlayTag, chan |-> 0, fmt |-> heard]
           /\ "hsin" \in c'.slots /\ "3c" \in c'.pins /\ c'.cache["1a"] = c'.reg["1a"]
           /\ nid = "1a" => c'.reg["1a"] = Taken(f)
           /\ "output" \in x'.powered /\ x'.dac /\ x'.rx /\ x'.pll /\ "out" \in x'.rates
           /\ "input" \in x'.powered /\ x'.adc = TRUE /\ x'.tx = TRUE /\ "in" \in x'.rates
<1> DEFINE s == store_stream_format(c, nid, CaptureTag, f)
           p == headset_amp_format_setup(s)
           b1 == IF headset_play_format_setup_needed THEN p ELSE s
           b2 == headset_mike_format_setup_enable(b1)
           d == snd_hda_codec_setup_stream(b2, nid, Taken(f))
           g == L83!enable_headset_streaming(x)
           h1 == IF headset_play_format_setup_needed THEN g ELSE x
           h2 == L83!enable_headset_mike_streaming(h1)
<1>1. /\ c \in Bridge /\ x \in L83!Chip /\ stage = "idle" /\ Plugged
      /\ jack_present = 1 /\ headset_enable = 1 /\ have_mike = TRUE
      /\ ~capturing /\ headset_capture_format_setup_needed = TRUE
      /\ headset_play_format_setup_needed \in BOOLEAN
      /\ ~headset_play_format_setup_needed => playing /\ HeadphonesOn
      /\ playing => /\ c.store["0a"] = [tag |-> PlayTag, chan |-> 0, fmt |-> heard]
                    /\ heard \in PlayFormats
      /\ c.store["1a"] = Silent => c.reg["1a"] = Silent
      /\ \/ c.store["1a"] = Silent
         \/ \E k \in CaptureFormats : c.store["1a"] = Taken(k)
      /\ c.store["adc"].tag = 0 => Untagged(c, "adc")
  <2>1. stage = "idle" /\ jack = "headset" /\ Plugged
      BY DEF CapturePrepare, PcmMay, Plugged
  <2>2. ~capturing
    <3>1. capture_init_count \in 0 .. 2 /\ (capturing <=> capture_init_count # 0)
        BY DEF IndInv, DriverOK, StreamsInv
    <3> QED
        BY <3>1 DEF CapturePrepare, AtMost
  <2>3. headset_capture_format_setup_needed = TRUE
      BY <2>2 DEF IndInv, DriverOK, NeededInv
  <2>4. ~headset_play_format_setup_needed => playing /\ HeadphonesOn
      BY <2>1, <2>2 DEF IndInv, NeededInv, PhonesInv
  <2>5. jack_present = 1 /\ headset_enable = 1 /\ have_mike = TRUE
      BY <2>1 DEF IndInv, FlagsInv, DriverOK
  <2>6. c \in Bridge /\ x \in L83!Chip /\ headset_play_format_setup_needed \in BOOLEAN
      BY DEF IndInv, HardwareOK, DriverOK
  <2> QED
      BY <2>1, <2>2, <2>3, <2>4, <2>5, <2>6 DEF IndInv, StreamsInv, StoreInv, Taken
<1>2. /\ c' = d
      /\ x' = h2
      /\ headset_play_format_setup_needed' = FALSE
      /\ headset_capture_format_setup_needed' = FALSE
  <2>1. c' = d
      BY <1>1 DEF CapturePrepare, headplay_real, headcapture_real, Taken
  <2>2. x' = h2
      BY <1>1 DEF CapturePrepare, headplay_chip, headcapture_chip
  <2>3. /\ headset_play_format_setup_needed' = FALSE
        /\ headset_capture_format_setup_needed' = FALSE
    <3> DEFINE headset == capture_init_count' = 1 /\ jack_present # 0 /\ have_mike
    <3>1. /\ headset_play_format_setup_needed' =
               (headset_play_format_setup_needed /\ ~headset)
          /\ headset_capture_format_setup_needed' =
               (headset_capture_format_setup_needed /\ ~headset)
        BY DEF CapturePrepare
    <3>2. headset = TRUE
        BY <1>1
    <3> HIDE DEF headset
    <3> QED
        BY <1>1, <3>1, <3>2
  <2> QED
      BY <2>1, <2>2, <2>3
<1>3. \A n \in {"02", "03", "0a", "1a", "adc"} : n \in Converters
    BY DEF Converters
<1>4. /\ s \in Bridge /\ Keeps(s, c, {"store"})
      /\ s.store["02"] = c.store["02"] /\ s.store["03"] = c.store["03"]
      /\ s.store["0a"] = c.store["0a"] /\ s.store[nid] = Taken(f)
      /\ \A m \in Inlets \ {nid} : s.store[m] = c.store[m]
    BY <1>1, TakeStored
<1> HIDE DEF s
<1>5. /\ s.slots = c.slots /\ s.amps = c.amps /\ s.reg = c.reg /\ s.cache = c.cache /\ s.pins = c.pins
      /\ s.buses = c.buses /\ s.clocks = c.clocks /\ s.tdm = c.tdm /\ s.run = c.run
      /\ s.d0 = c.d0
    BY <1>4 DEF Keeps, Parts
<1>6. /\ b1 \in Bridge /\ b1.store = s.store /\ PhonesCarry(b1) /\ b1.d0 = c.d0
      /\ b1.amps = c.amps /\ b1.reg["02"] = c.reg["02"] /\ b1.reg["03"] = c.reg["03"]
      /\ b1.reg["1a"] = c.reg["1a"] /\ b1.reg["adc"] = c.reg["adc"]
      /\ "amps12" \in b1.slots <=> "amps12" \in c.slots
      /\ "amps34" \in b1.slots <=> "amps34" \in c.slots
      /\ playing => \/ b1.reg["0a"] = c.reg["0a"]
                    \/ b1.reg["0a"] = [tag |-> PlayTag, chan |-> 0, fmt |-> heard]
  <2>1. CASE headset_play_format_setup_needed
    <3>1. b1 = p
        BY <2>1
    <3>2. /\ p \in Bridge /\ InputsStay(p, s) /\ PhonesCarry(p)
          /\ p.store = s.store /\ p.amps = s.amps /\ p.d0 = s.d0
          /\ p.reg["02"] = s.reg["02"] /\ p.reg["03"] = s.reg["03"]
          /\ "amps12" \in p.slots <=> "amps12" \in s.slots
          /\ "amps34" \in p.slots <=> "amps34" \in s.slots
          /\ s.store["0a"].tag # 0 /\ s.store["0a"].fmt # NoFormat =>
               p.reg["0a"] = [tag |-> s.store["0a"].tag, chan |-> 0, fmt |-> s.store["0a"].fmt]
        BY <1>4, PhonesStart
    <3> HIDE DEF p
    <3>3. playing => p.reg["0a"] = [tag |-> PlayTag, chan |-> 0, fmt |-> heard]
      <4>1. playing => /\ s.store["0a"].tag = PlayTag /\ s.store["0a"].fmt = heard
                       /\ PlayTag # 0 /\ heard # NoFormat
          BY <1>1, <1>4, FormatAssumption DEF PlayTag, Formats
      <4> QED
          BY <3>2, <4>1
    <3> QED
        BY <1>5, <3>1, <3>2, <3>3 DEF InputsStay
  <2>2. CASE ~headset_play_format_setup_needed
    <3>1. c.run \in BOOLEAN
        BY <1>1 DEF Bridge
    <3>2. PhonesCarry(s)
        BY <1>1, <1>5, <2>2, <3>1 DEF HeadphonesOn, PhonesCarry
    <3>3. b1 = s
        BY <2>2
    <3> QED
        BY <1>4, <1>5, <3>2, <3>3
  <2> QED
      BY <2>1, <2>2
<1> HIDE DEF b1
<1>7. /\ b2 \in Bridge
      /\ Keeps(b2, b1, {"slots", "buses", "run", "pins", "reg", "cache"})
      /\ b2.slots = b1.slots \cup {"hsin"} /\ b2.buses = {"headset"}
      /\ b2.run = TRUE /\ b2.pins = b1.pins \cup {"3c"}
      /\ SetsOnly(b2.reg, b1.reg, {"1a"}) /\ SetsOnly(b2.cache, b1.cache, {"1a"})
      /\ b2.cache["1a"] = [tag |-> b1.store["1a"].tag, chan |-> 0, fmt |-> b1.store["1a"].fmt]
      /\ b1.store["1a"].tag # 0 /\ b1.store["1a"].fmt # NoFormat =>
            b2.reg["1a"] = [tag |-> b1.store["1a"].tag, chan |-> 0, fmt |-> b1.store["1a"].fmt]
      /\ b1.store["1a"] = Silent => b2.reg["1a"] = b1.reg["1a"]
    BY <1>6, HeadsetMikeEffect
<1> HIDE DEF b2
<1>8. /\ b2.reg["02"] = b1.reg["02"] /\ b2.reg["03"] = b1.reg["03"]
      /\ b2.reg["0a"] = b1.reg["0a"] /\ b2.reg["adc"] = b1.reg["adc"]
      /\ b2.store = b1.store /\ b2.amps = b1.amps /\ b2.d0 = b1.d0
      /\ b2.clocks = b1.clocks /\ b2.tdm = b1.tdm
    BY <1>3, <1>7 DEF Keeps, Parts, SetsOnly
<1>9. /\ b2.cache["1a"] = b2.reg["1a"]
      /\ nid = "1a" => b2.reg["1a"] = Taken(f)
      /\ nid = "adc" /\ c.store["1a"] = Silent => b2.reg["1a"] = Silent
  <2>1. CASE nid = "adc" /\ c.store["1a"] = Silent
    <3>1. b1.store["1a"] = Silent /\ c.reg["1a"] = Silent
        BY <1>1, <1>4, <1>6, <2>1 DEF Inlets
    <3>2. [tag |-> Silent.tag, chan |-> 0, fmt |-> Silent.fmt] = Silent
        BY DEF Silent
    <3> QED
        BY <1>6, <1>7, <2>1, <3>1, <3>2
  <2>2. CASE ~(nid = "adc" /\ c.store["1a"] = Silent)
    <3>1. PICK k \in CaptureFormats : /\ b1.store["1a"] = Taken(k)
                                      /\ nid = "1a" => k = f
        BY <1>1, <1>4, <1>6, <2>2 DEF Inlets
    <3>2. /\ b1.store["1a"].tag # 0 /\ b1.store["1a"].fmt # NoFormat
          /\ [tag |-> b1.store["1a"].tag, chan |-> 0, fmt |-> b1.store["1a"].fmt] = Taken(k)
        BY <3>1, TakenTyped DEF Taken
    <3> QED
        BY <1>7, <2>2, <3>1, <3>2
  <2> QED
      BY <2>1, <2>2
<1>10. /\ d \in Bridge /\ Keeps(d, b2, {"reg", "cache"})
       /\ d.reg["02"] = b2.reg["02"] /\ d.reg["03"] = b2.reg["03"]
       /\ d.reg["0a"] = b2.reg["0a"]
       /\ \A m \in Inlets \ {nid} : d.reg[m] = b2.reg[m] /\ d.cache[m] = b2.cache[m]
       /\ d.cache[nid] = Taken(f)
       /\ b2.cache[nid] = b2.reg[nid] => d.reg[nid] = Taken(f)
    BY <1>7, TakeSet
<1> HIDE DEF d
<1>11. /\ d.store = b2.store /\ d.amps = b2.amps /\ d.d0 = b2.d0 /\ d.slots = b2.slots
       /\ d.pins = b2.pins /\ d.buses = b2.buses /\ d.clocks = b2.clocks /\ d.tdm = b2.tdm
       /\ d.run = b2.run
    BY <1>10 DEF Keeps, Parts
<1>12. /\ d.cache["1a"] = d.reg["1a"]
       /\ nid = "1a" => d.reg["1a"] = Taken(f)
       /\ nid = "adc" /\ c.store["1a"] = Silent => d.reg["1a"] = Silent
       /\ nid = "1a" /\ c.store["adc"].tag = 0 => Untagged(d, "adc")
  <2>1. CASE nid = "1a"
    <3>1. "adc" \in Inlets \ {nid} /\ "1a" # "adc"
        BY <2>1 DEF Inlets
    <3>2. d.reg["adc"] = c.reg["adc"] /\ d.cache["1a"] = Taken(f) /\ d.reg["1a"] = Taken(f)
        BY <1>6, <1>8, <1>9, <1>10, <2>1, <3>1
    <3> QED
        BY <1>1, <2>1, <3>1, <3>2 DEF Untagged
  <2>2. CASE nid = "adc"
    <3>1. "1a" \in Inlets \ {nid} /\ "1a" # "adc"
        BY <2>2 DEF Inlets
    <3> QED
        BY <1>9, <1>10, <2>2, <3>1
  <2> QED
      BY <2>1, <2>2 DEF Inlets
<1>13. h1 \in L83!Chip /\ ChipKeeps(h1, x, {"powered", "dac", "rx", "pll", "rates", "hpout"})
       /\ "output" \in h1.powered /\ h1.dac /\ h1.rx /\ h1.pll /\ "out" \in h1.rates
  <2>1. CASE headset_play_format_setup_needed
    <3>1. /\ g \in L83!Chip /\ ChipKeeps(g, x, {"powered", "dac", "rx", "pll", "rates", "hpout"})
          /\ g.powered = x.powered \cup {"output"} /\ g.dac = TRUE /\ g.rx = TRUE
          /\ g.pll = TRUE /\ g.rates = x.rates \cup {"out"}
        BY <1>1, ChipPlayEffect
    <3> HIDE DEF g
    <3> QED
        BY <2>1, <3>1
  <2>2. CASE ~headset_play_format_setup_needed
      BY <1>1, <2>2 DEF HeadphonesOn, ChipKeeps
  <2> QED
      BY <2>1, <2>2
<1> HIDE DEF h1
<1>14. /\ h2 \in L83!Chip /\ ChipKeeps(h2, h1, {"powered", "adc", "tx", "rates"})
       /\ h2.powered = h1.powered \cup {"input"} /\ h2.adc = TRUE /\ h2.tx = TRUE
       /\ h2.rates = h1.rates \cup {"in"}
    BY <1>13, ChipRecordEffect
<1> HIDE DEF h2
<1>15. /\ h2.watch = x.watch /\ h2.typeint = x.typeint /\ h2.buttons = x.buttons
       /\ h2.bias = x.bias /\ h2.micdet = x.micdet /\ h2.sense = x.sense
       /\ h2.dac = h1.dac /\ h2.rx = h1.rx /\ h2.pll = h1.pll
    BY <1>13, <1>14 DEF ChipKeeps, ChipParts
<1>16. PhonesCarry(d)
    BY <1>6, <1>7, <1>8, <1>11 DEF PhonesCarry
<1>17. RecordKeeps(nid, f)
    BY <1>2, <1>4, <1>6, <1>7, <1>8, <1>10, <1>11, <1>12, <1>14, <1>15 DEF RecordKeeps
<1> QED
    BY <1>2, <1>6, <1>7, <1>8, <1>10, <1>11, <1>12, <1>13, <1>14, <1>15, <1>16, <1>17

(* With nothing in the jack: the first prepare turns the internal          *)
(* microphone on.                                                          *)
LEMMA RecordInternal ==
    ASSUME IndInv, NEW nid \in Inlets, NEW f \in CaptureFormats, CapturePrepare(nid, f),
           capture_init_count' = 1, jack = "none"
    PROVE  /\ RecordKeeps(nid, f) /\ x' = x
           /\ UNCHANGED setup
           /\ "hsout" \in c'.slots <=> "hsout" \in c.slots
           /\ SpeakersCarry(c, heard) => SpeakersCarry(c', heard)
           /\ {"afg", "adc"} \subseteq c'.d0
           /\ "intmike" \in c'.pins /\ "intmike" \in c'.clocks /\ "adc" \in c'.unmuted
           /\ c'.cache["adc"] = c'.reg["adc"]
           /\ nid = "adc" => c'.reg["adc"] = Taken(f)
<1> DEFINE s == store_stream_format(c, nid, CaptureTag, f)
           a == Power(s, {"afg"})
           b == capture_real(s)
           d == snd_hda_codec_setup_stream(b, nid, Taken(f))
<1>1. /\ c \in Bridge /\ x \in L83!Chip /\ stage = "idle" /\ jack_present = 0
      /\ headset_play_format_setup_needed = TRUE /\ headset_capture_format_setup_needed = TRUE
      /\ c.store["1a"] = Silent => c.reg["1a"] = Silent
      /\ \/ c.store["1a"] = Silent
         \/ \E k \in CaptureFormats : c.store["1a"] = Taken(k)
      /\ c.store["adc"].tag = 0 => Untagged(c, "adc")
      /\ c.store["adc"].chan = 0 /\ c.store["adc"].fmt # NoFormat
  <2>1. stage = "idle" /\ jack = "none" /\ ~Plugged
      BY DEF CapturePrepare, PcmMay, Plugged
  <2>2. headset_play_format_setup_needed = TRUE /\ headset_capture_format_setup_needed = TRUE
      BY <2>1 DEF IndInv, DriverOK, NeededInv
  <2>3. jack_present = 0 /\ c \in Bridge /\ x \in L83!Chip
      BY <2>1 DEF IndInv, FlagsInv, HardwareOK
  <2> QED
      BY <2>1, <2>2, <2>3 DEF IndInv, StoreInv, Taken
<1>2. c' = d /\ x' = x /\ UNCHANGED setup
  <2>1. c' = d
      BY <1>1 DEF CapturePrepare, Taken
  <2>2. x' = x
      BY <1>1 DEF CapturePrepare
  <2>3. UNCHANGED setup
    <3> DEFINE headset == capture_init_count' = 1 /\ jack_present # 0 /\ have_mike
    <3>1. /\ headset_play_format_setup_needed' =
               (headset_play_format_setup_needed /\ ~headset)
          /\ headset_capture_format_setup_needed' =
               (headset_capture_format_setup_needed /\ ~headset)
        BY DEF CapturePrepare
    <3>2. headset = FALSE
        BY <1>1
    <3> HIDE DEF headset
    <3> QED
        BY <1>1, <3>1, <3>2 DEF setup
  <2> QED
      BY <2>1, <2>2, <2>3
<1>3. /\ s \in Bridge /\ Keeps(s, c, {"store"})
      /\ s.store["02"] = c.store["02"] /\ s.store["03"] = c.store["03"]
      /\ s.store["0a"] = c.store["0a"] /\ s.store[nid] = Taken(f)
      /\ \A m \in Inlets \ {nid} : s.store[m] = c.store[m]
    BY <1>1, TakeStored
<1> HIDE DEF s
<1>4. /\ s.slots = c.slots /\ s.amps = c.amps /\ s.reg = c.reg /\ s.cache = c.cache /\ s.pins = c.pins
      /\ s.buses = c.buses /\ s.clocks = c.clocks /\ s.tdm = c.tdm /\ s.run = c.run
      /\ s.sync = c.sync
    BY <1>3 DEF Keeps, Parts
<1>5. a \in Bridge /\ Frame(a, s)
    BY <1>3, PowerFrame
<1>6. /\ b \in Bridge /\ Inputs(b, a)
      /\ {"afg", "adc"} \subseteq b.d0
      /\ "intmike" \in b.pins /\ "intmike" \in b.clocks /\ "adc" \in b.unmuted
      /\ s.store["adc"].tag # 0 /\ s.store["adc"].fmt # NoFormat =>
             b.reg["adc"] = s.store["adc"] /\ b.cache["adc"] = s.store["adc"]
      /\ s.store["adc"].tag = 0 /\ s.store["adc"].chan = 0 /\ Untagged(s, "adc") =>
             Untagged(b, "adc")
      /\ s.store["adc"].tag = 0 /\ s.store["adc"].chan = 0 /\ Untagged(s, "adc")
         /\ s.store["adc"].fmt # NoFormat => b.reg["adc"] = b.cache["adc"]
    BY <1>3, CaptureRealEffect
<1> HIDE DEF a, b
<1>7. Frame(b, s)
    BY <1>5, <1>6, InputsFrame DEF Frame
<1>8. /\ b.cache["adc"] = b.reg["adc"]
      /\ nid = "adc" => b.reg["adc"] = Taken(f)
      /\ nid = "1a" /\ c.store["adc"].tag = 0 => Untagged(b, "adc")
  <2>1. CASE nid = "adc"
      BY <1>3, <1>6, <2>1, TakenTyped
  <2>2. CASE nid = "1a"
    <3>1. s.store["adc"] = c.store["adc"] /\ "1a" # "adc"
        BY <1>3, <2>2 DEF Inlets
    <3>2. Untagged(c, "adc") => Untagged(s, "adc")
        BY <1>4 DEF Untagged
    <3> QED
        BY <1>1, <1>6, <2>2, <3>1, <3>2
  <2> QED
      BY <2>1, <2>2 DEF Inlets
<1>9. /\ d \in Bridge /\ Keeps(d, b, {"reg", "cache"})
      /\ d.reg["02"] = b.reg["02"] /\ d.reg["03"] = b.reg["03"]
      /\ d.reg["0a"] = b.reg["0a"]
      /\ \A m \in Inlets \ {nid} : d.reg[m] = b.reg[m] /\ d.cache[m] = b.cache[m]
      /\ d.cache[nid] = Taken(f)
      /\ b.cache[nid] = b.reg[nid] => d.reg[nid] = Taken(f)
    BY <1>6, TakeSet
<1> HIDE DEF d
<1>10. /\ d.store = b.store /\ d.amps = b.amps /\ d.d0 = b.d0 /\ d.slots = b.slots
       /\ d.pins = b.pins /\ d.buses = b.buses /\ d.clocks = b.clocks /\ d.tdm = b.tdm
       /\ d.run = b.run /\ d.sync = b.sync /\ d.unmuted = b.unmuted
    BY <1>9 DEF Keeps, Parts
<1>11. /\ d.cache["adc"] = d.reg["adc"]
       /\ nid = "adc" => d.reg["adc"] = Taken(f)
       /\ nid = "adc" /\ c.store["1a"] = Silent => d.reg["1a"] = Silent
       /\ nid = "1a" /\ c.store["adc"].tag = 0 => Untagged(d, "adc")
  <2>1. CASE nid = "adc"
    <3>1. "1a" \in Inlets \ {nid} /\ "1a" # "adc"
        BY <2>1 DEF Inlets
    <3>2. d.reg["1a"] = c.reg["1a"]
        BY <1>4, <1>7, <1>9, <3>1 DEF Frame
    <3> QED
        BY <1>1, <1>8, <1>9, <2>1, <3>1, <3>2
  <2>2. CASE nid = "1a"
    <3>1. "adc" \in Inlets \ {nid} /\ "1a" # "adc"
        BY <2>2 DEF Inlets
    <3> QED
        BY <1>8, <1>9, <2>2, <3>1 DEF Untagged
  <2> QED
      BY <2>1, <2>2 DEF Inlets
<1>12. RecordKeeps(nid, f)
    BY <1>1, <1>2, <1>3, <1>4, <1>7, <1>9, <1>10, <1>11 DEF RecordKeeps, Frame
<1>13. SpeakersCarry(c, heard) => SpeakersCarry(d, heard)
    BY <1>4, <1>7, <1>9, <1>10 DEF Frame, SpeakersCarry
<1> QED
    BY <1>2, <1>4, <1>6, <1>7, <1>10, <1>11, <1>12, <1>13 DEF Frame

(* Otherwise only the stream is set: the recording was prepared before, or *)
(* the headphones have no microphone.                                      *)
LEMMA RecordAgain ==
    ASSUME IndInv, NEW nid \in Inlets, NEW f \in CaptureFormats, CapturePrepare(nid, f),
           capture_init_count' # 1 \/ jack = "phones"
    PROVE  /\ RecordKeeps(nid, f) /\ x' = x
           /\ UNCHANGED setup
           /\ Keeps(c', c, {"reg", "cache", "store"})
           /\ c'.reg["0a"] = c.reg["0a"]
           /\ \A m \in Inlets \ {nid} : c'.reg[m] = c.reg[m] /\ c'.cache[m] = c.cache[m]
           /\ c'.cache[nid] = Taken(f)
           /\ c.cache[nid] = c.reg[nid] => c'.reg[nid] = Taken(f)
<1> DEFINE s == store_stream_format(c, nid, CaptureTag, f)
           d == snd_hda_codec_setup_stream(s, nid, Taken(f))
           first == capture_init_count' = 1
           headset == first /\ jack_present # 0 /\ have_mike
<1>1. /\ c \in Bridge /\ x \in L83!Chip /\ stage = "idle"
      /\ headset = FALSE /\ ~(first /\ jack_present = 0)
      /\ headset_play_format_setup_needed \in BOOLEAN
      /\ headset_capture_format_setup_needed \in BOOLEAN
      /\ c.store["1a"] = Silent => c.reg["1a"] = Silent
      /\ c.store["adc"].tag = 0 => Untagged(c, "adc")
  <2>1. stage = "idle"
      BY DEF CapturePrepare, PcmMay
  <2>2. jack = "phones" => jack_present = 1 /\ ~have_mike
      BY <2>1 DEF IndInv, FlagsInv, Plugged
  <2> QED
      BY <2>1, <2>2 DEF IndInv, HardwareOK, DriverOK, StoreInv
<1>2. c' = d /\ x' = x /\ UNCHANGED setup
  <2>1. c' = d
      BY <1>1 DEF CapturePrepare, Taken
  <2>2. x' = x
      BY <1>1 DEF CapturePrepare
  <2>3. UNCHANGED setup
    <3>1. /\ headset_play_format_setup_needed' =
               (headset_play_format_setup_needed /\ ~headset)
          /\ headset_capture_format_setup_needed' =
               (headset_capture_format_setup_needed /\ ~headset)
        BY DEF CapturePrepare
    <3>2. headset = FALSE
        BY <1>1
    <3> HIDE DEF headset
    <3>3. ~headset = TRUE
        BY <3>2
    <3>4. /\ headset_play_format_setup_needed' = headset_play_format_setup_needed
          /\ headset_capture_format_setup_needed' = headset_capture_format_setup_needed
        BY <1>1, <3>1, <3>3
    <3> QED
        BY <3>4 DEF setup
  <2> QED
      BY <2>1, <2>2, <2>3
<1>3. /\ s \in Bridge /\ Keeps(s, c, {"store"})
      /\ s.store["02"] = c.store["02"] /\ s.store["03"] = c.store["03"]
      /\ s.store["0a"] = c.store["0a"] /\ s.store[nid] = Taken(f)
      /\ \A m \in Inlets \ {nid} : s.store[m] = c.store[m]
    BY <1>1, TakeStored
<1> HIDE DEF s
<1>4. s.slots = c.slots /\ s.amps = c.amps /\ s.reg = c.reg /\ s.cache = c.cache
    BY <1>3 DEF Keeps, Parts
<1>5. /\ d \in Bridge /\ Keeps(d, s, {"reg", "cache"})
      /\ d.reg["02"] = s.reg["02"] /\ d.reg["03"] = s.reg["03"]
      /\ d.reg["0a"] = s.reg["0a"]
      /\ \A m \in Inlets \ {nid} : d.reg[m] = s.reg[m] /\ d.cache[m] = s.cache[m]
      /\ d.cache[nid] = Taken(f)
      /\ s.cache[nid] = s.reg[nid] => d.reg[nid] = Taken(f)
    BY <1>3, TakeSet
<1> HIDE DEF d
<1>6. Keeps(d, c, {"reg", "cache", "store"})
    BY <1>3, <1>5 DEF Keeps
<1>7. d.store = s.store /\ d.amps = c.amps /\ d.slots = c.slots
    BY <1>4, <1>5 DEF Keeps, Parts
<1>8. /\ nid = "adc" /\ c.store["1a"] = Silent => d.reg["1a"] = Silent
      /\ nid = "1a" /\ c.store["adc"].tag = 0 => Untagged(d, "adc")
  <2>1. /\ nid = "adc" => "1a" \in Inlets \ {nid}
        /\ nid = "1a" => "adc" \in Inlets \ {nid}
      BY DEF Inlets
  <2> QED
      BY <1>1, <1>4, <1>5, <2>1 DEF Untagged
<1>9. RecordKeeps(nid, f)
    BY <1>1, <1>2, <1>3, <1>4, <1>5, <1>7, <1>8 DEF RecordKeeps
<1> QED
    BY <1>2, <1>4, <1>5, <1>6, <1>9

(* What all three cases share.                                             *)
LEMMA RecordShared ==
    ASSUME IndInv, NEW nid \in Inlets, NEW f \in CaptureFormats, CapturePrepare(nid, f),
           RecordKeeps(nid, f),
           headset_play_format_setup_needed' \in BOOLEAN,
           headset_capture_format_setup_needed' \in BOOLEAN
    PROVE  /\ HardwareOK' /\ DriverOK' /\ UserOK'
           /\ FlagsInv' /\ StreamsInv' /\ SpeakersInv' /\ StoreInv' /\ UndisturbedInv' /\ CodecInv'
<1>1. /\ stage = "idle" /\ stage' = "idle" /\ capturing' = TRUE
      /\ taken' = [nid |-> nid, fmt |-> f] /\ nid \in {"adc", "1a"}
      /\ capture_init_count' \in 1 .. 2 /\ undisturbed' \in BOOLEAN
      /\ UNCHANGED <<jack, jack_present, headset_enable, have_mike, playing, play_init_count,
                     stream_channels, heard, alone, pulled>>
  <2>1. capture_init_count \in 0 .. 2 /\ undisturbed \in BOOLEAN
      BY DEF IndInv, DriverOK, UserOK
  <2>2. capture_init_count' \in 1 .. 2
      BY <2>1 DEF CapturePrepare, AtMost
  <2>3. undisturbed' \in BOOLEAN
      BY <2>1 DEF CapturePrepare
  <2> QED
      BY <2>2, <2>3 DEF CapturePrepare, PcmMay, found, Inlets
<1> USE DEF IndInv
<1>2. HardwareOK' /\ DriverOK' /\ UserOK'
  <2>1. HardwareOK'
      BY DEF HardwareOK, RecordKeeps
  <2>2. DriverOK'
      BY <1>1 DEF DriverOK
  <2>3. UserOK'
      BY <1>1 DEF UserOK
  <2> QED
      BY <2>1, <2>2, <2>3
<1>3. FlagsInv' /\ UndisturbedInv'
    BY <1>1 DEF FlagsInv, UndisturbedInv, Plugged
<1>4. StreamsInv'
    BY <1>1 DEF StreamsInv, RecordKeeps, PlayTag, Channels
<1>5. SpeakersInv'
    BY <1>1 DEF SpeakersInv, SpeakersOff, RecordKeeps, Plugged
<1>6. StoreInv'
  <2>1. CASE nid = "1a"
    <3>1. c'.store["adc"] = c.store["adc"] /\ c'.store["1a"] = Taken(f) /\ Taken(f) # Silent
        BY <2>1, TakenTyped DEF RecordKeeps, Inlets
    <3>2. c.store["adc"].tag = 0 => Untagged(c', "adc")
        BY <2>1 DEF RecordKeeps
    <3> QED
        BY <1>1, <3>1, <3>2 DEF StoreInv, Taken, CaptureTag
  <2>2. CASE nid = "adc"
    <3>1. c'.store["1a"] = c.store["1a"] /\ c'.store["adc"] = Taken(f)
        BY <2>2 DEF RecordKeeps, Inlets
    <3>2. c.store["1a"] = Silent => c'.reg["1a"] = Silent
        BY <2>2 DEF RecordKeeps
    <3> QED
        BY <1>1, <3>1, <3>2, TakenTyped DEF StoreInv, CaptureTag
  <2> QED
      BY <1>1, <2>1, <2>2
<1>7. CodecInv'
    BY <1>1, CodecKept DEF RecordKeeps
<1> QED
    BY <1>2, <1>3, <1>4, <1>5, <1>6, <1>7

LEMMA CapturePrepareStep ==
    ASSUME NEW nid \in Inlets, NEW f \in CaptureFormats
    PROVE  IndInv /\ CapturePrepare(nid, f) => IndInv'
<1> SUFFICES ASSUME IndInv, CapturePrepare(nid, f) PROVE IndInv'
    OBVIOUS
<1>1. /\ stage = "idle" /\ stage' = "idle" /\ capturing' = TRUE
      /\ taken' = [nid |-> nid, fmt |-> f] /\ jack \in Kinds
      /\ headset_play_format_setup_needed \in BOOLEAN
      /\ headset_capture_format_setup_needed \in BOOLEAN
      /\ capture_init_count' # 1 => undisturbed' = undisturbed
      /\ capture_init_count' # 1 => capturing
      /\ UNCHANGED <<jack, jack_present, headset_enable, have_mike, playing, play_init_count,
                     stream_channels, heard, alone, pulled>>
  <2>1. /\ capture_init_count \in 0 .. 2 /\ undisturbed \in BOOLEAN /\ jack \in Kinds
        /\ headset_play_format_setup_needed \in BOOLEAN
        /\ headset_capture_format_setup_needed \in BOOLEAN
        /\ capturing <=> capture_init_count # 0
      BY DEF IndInv, DriverOK, UserOK, StreamsInv
  <2>2. capture_init_count' # 1 => capturing
      BY <2>1 DEF CapturePrepare, AtMost
  <2>3. capture_init_count' # 1 => undisturbed' = undisturbed
      BY <2>1 DEF CapturePrepare
  <2> QED
      BY <2>1, <2>2, <2>3 DEF CapturePrepare, PcmMay, found
<1>2. CASE capture_init_count' = 1 /\ jack = "headset"
  <2>1. /\ RecordKeeps(nid, f)
        /\ ~headset_play_format_setup_needed' /\ ~headset_capture_format_setup_needed'
        /\ headset_play_format_setup_needed' \in BOOLEAN
        /\ headset_capture_format_setup_needed' \in BOOLEAN
        /\ c'.d0 = c.d0 /\ PhonesCarry(c')
        /\ playing => \/ c'.reg["0a"] = c.reg["0a"]
                      \/ c'.reg["0a"] = [tag |-> PlayTag, chan |-> 0, fmt |-> heard]
        /\ "hsin" \in c'.slots /\ "3c" \in c'.pins /\ c'.cache["1a"] = c'.reg["1a"]
        /\ nid = "1a" => c'.reg["1a"] = Taken(f)
        /\ "output" \in x'.powered /\ x'.dac /\ x'.rx /\ x'.pll /\ "out" \in x'.rates
        /\ "input" \in x'.powered /\ x'.adc = TRUE /\ x'.tx = TRUE /\ "in" \in x'.rates
      BY <1>2, RecordHeadset
  <2>2. /\ HardwareOK' /\ DriverOK' /\ UserOK'
        /\ FlagsInv' /\ StreamsInv' /\ SpeakersInv' /\ StoreInv' /\ UndisturbedInv' /\ CodecInv'
      BY <2>1, RecordShared
  <2> USE DEF IndInv
  <2>3. NeededInv' /\ OutputInv' /\ InputInv'
      BY <1>1, <1>2, <2>1 DEF NeededInv, OutputInv, InputInv, Plugged
  <2>4. ConvertersInv'
      BY <1>1, <1>2, <2>1 DEF ConvertersInv, Plugged
  <2>5. PhonesInv'
    <3>1. HeadphonesOn'
        BY <2>1 DEF HeadphonesOn, PhonesCarry
    <3>2. playing /\ alone /\ play_init_count = 1 =>
              c'.reg["0a"] = [tag |-> PlayTag, chan |-> 0, fmt |-> heard]
        BY <1>1, <1>2, <2>1 DEF PhonesInv, Plugged
    <3> QED
        BY <1>1, <3>1, <3>2 DEF PhonesInv, PlayTag
  <2>6. HeadsetInv'
      BY <1>1, <2>1 DEF HeadsetInv, Taken, CaptureTag
  <2>7. InternalInv' /\ SpeakersPlay'
      BY <1>1, <1>2 DEF InternalInv, SpeakersPlay
  <2> QED
      BY <2>2, <2>3, <2>4, <2>5, <2>6, <2>7
<1>3. CASE capture_init_count' = 1 /\ jack = "none"
  <2>1. /\ RecordKeeps(nid, f) /\ x' = x
        /\ UNCHANGED setup
        /\ "hsout" \in c'.slots <=> "hsout" \in c.slots
        /\ SpeakersCarry(c, heard) => SpeakersCarry(c', heard)
        /\ {"afg", "adc"} \subseteq c'.d0
        /\ "intmike" \in c'.pins /\ "intmike" \in c'.clocks /\ "adc" \in c'.unmuted
        /\ c'.cache["adc"] = c'.reg["adc"]
        /\ nid = "adc" => c'.reg["adc"] = Taken(f)
      BY <1>3, RecordInternal
  <2>2. /\ headset_play_format_setup_needed' = headset_play_format_setup_needed
        /\ headset_capture_format_setup_needed' = headset_capture_format_setup_needed
      BY <2>1 DEF setup
  <2>3. /\ HardwareOK' /\ DriverOK' /\ UserOK'
        /\ FlagsInv' /\ StreamsInv' /\ SpeakersInv' /\ StoreInv' /\ UndisturbedInv' /\ CodecInv'
      BY <1>1, <2>1, <2>2, RecordShared
  <2> USE DEF IndInv
  <2>4. NeededInv' /\ OutputInv' /\ InputInv'
      BY <1>1, <1>3, <2>1, <2>2 DEF NeededInv, OutputInv, OutputOff, InputInv, Plugged
  <2>5. ConvertersInv' /\ PhonesInv' /\ HeadsetInv'
      BY <1>1, <1>3 DEF ConvertersInv, PhonesInv, HeadsetInv, Plugged
  <2>6. InternalInv'
      BY <1>1, <2>1 DEF InternalInv, Taken, CaptureTag
  <2>7. SpeakersPlay'
    <3>1. SpeakersOn(heard) => SpeakersCarry(c, heard)
      <4>1. c.run \in BOOLEAN
          BY DEF HardwareOK, Bridge
      <4> QED
          BY <4>1 DEF SpeakersOn, SpeakersCarry
    <3>2. SpeakersCarry(c', heard) => SpeakersOn(heard)'
        BY <1>1 DEF SpeakersOn, SpeakersCarry, PlayTag, Channels
    <3> QED
        BY <1>1, <2>1, <3>1, <3>2 DEF SpeakersPlay
  <2> QED
      BY <2>3, <2>4, <2>5, <2>6, <2>7
<1>4. CASE capture_init_count' # 1 \/ jack = "phones"
  <2>1. /\ RecordKeeps(nid, f) /\ x' = x
        /\ UNCHANGED setup
        /\ Keeps(c', c, {"reg", "cache", "store"})
        /\ c'.reg["0a"] = c.reg["0a"]
        /\ \A m \in Inlets \ {nid} : c'.reg[m] = c.reg[m] /\ c'.cache[m] = c.cache[m]
        /\ c'.cache[nid] = Taken(f)
        /\ c.cache[nid] = c.reg[nid] => c'.reg[nid] = Taken(f)
      BY <1>4, RecordAgain
  <2>2. /\ headset_play_format_setup_needed' = headset_play_format_setup_needed
        /\ headset_capture_format_setup_needed' = headset_capture_format_setup_needed
      BY <2>1 DEF setup
  <2>3. /\ HardwareOK' /\ DriverOK' /\ UserOK'
        /\ FlagsInv' /\ StreamsInv' /\ SpeakersInv' /\ StoreInv' /\ UndisturbedInv' /\ CodecInv'
      BY <1>1, <2>1, <2>2, RecordShared
  <2>4. /\ c'.slots = c.slots /\ c'.buses = c.buses /\ c'.tdm = c.tdm /\ c'.clocks = c.clocks
        /\ c'.pins = c.pins /\ c'.run = c.run /\ c'.sync = c.sync /\ c'.amps = c.amps
        /\ c'.d0 = c.d0 /\ c'.unmuted = c.unmuted
      BY <2>1 DEF Keeps, Parts
  <2>5. \A m \in Inlets :
           c.cache[m] = c.reg[m] => /\ c'.cache[m] = c'.reg[m]
                                    /\ nid = m => c'.reg[m] = Taken(f)
                                    /\ nid # m => c'.reg[m] = c.reg[m]
      BY <2>1
  <2>6. "1a" \in Inlets /\ "adc" \in Inlets
      BY DEF Inlets
  <2> USE DEF IndInv
  <2>7. NeededInv' /\ OutputInv' /\ InputInv'
      BY <1>1, <2>1, <2>2, <2>4 DEF NeededInv, OutputInv, OutputOff, InputInv, Plugged
  <2>8. ConvertersInv'
      BY <1>1, <1>4, <2>4 DEF ConvertersInv, Plugged
  <2>9. PhonesInv'
      BY <1>1, <2>1, <2>2, <2>4 DEF PhonesInv, HeadphonesOn, Plugged, PlayTag
  <2>10. HeadsetInv'
    <3> SUFFICES ASSUME jack = "headset", undisturbed' PROVE HeadsetInv'
        BY <1>1 DEF HeadsetInv
    <3>1. undisturbed
        BY <1>1, <1>4
    <3> QED
        BY <1>1, <2>1, <2>2, <2>4, <2>5, <2>6, <3>1 DEF HeadsetInv, Taken, CaptureTag
  <2>11. InternalInv'
    <3> SUFFICES ASSUME jack = "none", undisturbed' PROVE InternalInv'
        BY <1>1 DEF InternalInv
    <3>1. undisturbed
        BY <1>1, <1>4
    <3> QED
        BY <1>1, <2>4, <2>5, <2>6, <3>1 DEF InternalInv, Taken, CaptureTag
  <2>12. SpeakersPlay'
      BY <1>1, <2>1, <2>4 DEF SpeakersPlay, SpeakersOn, RecordKeeps, PlayTag, Channels
  <2> QED
      BY <2>3, <2>7, <2>8, <2>9, <2>10, <2>11, <2>12
<1> QED
    BY <1>1, <1>2, <1>3, <1>4 DEF Kinds

LEMMA StutterStep == IndInv /\ UNCHANGED vars => IndInv'
<1> SUFFICES ASSUME IndInv, UNCHANGED vars PROVE IndInv'
    OBVIOUS
<1>1. UNCHANGED <<c, x, jack, stage, jack_present, headset_enable, have_mike, playing, capturing,
                  play_init_count, capture_init_count, headset_play_format_setup_needed,
                  headset_capture_format_setup_needed, stream_channels, heard, alone, taken,
                  undisturbed, pulled>>
    BY DEF vars, found, streams, setup, user
<1> USE <1>1 DEF IndInv
<1>2. HardwareOK' /\ DriverOK' /\ UserOK'
    BY DEF HardwareOK, DriverOK, UserOK
<1>3. FlagsInv' /\ NeededInv' /\ UndisturbedInv'
    BY DEF FlagsInv, NeededInv, UndisturbedInv, Plugged
<1>4. StreamsInv' /\ StoreInv'
    BY DEF StreamsInv, StoreInv, PlayTag, CaptureTag, Channels
<1>5. SpeakersInv' /\ ConvertersInv'
    BY DEF SpeakersInv, ConvertersInv, Plugged
<1>6. OutputInv' /\ InputInv'
    BY DEF OutputInv, OutputOff, InputInv, Plugged
<1>7. PhonesInv'
    BY DEF PhonesInv, HeadphonesOn, Plugged, PlayTag
<1>8. HeadsetInv' /\ InternalInv'
    BY DEF HeadsetInv, InternalInv, CaptureTag
<1>9. SpeakersPlay'
    BY DEF SpeakersPlay, SpeakersOn, PlayTag, Channels
<1>10. CodecInv'
    BY DEF CodecInv, Plugged
<1> QED
    BY <1>2, <1>3, <1>4, <1>5, <1>6, <1>7, <1>8, <1>9, <1>10

-----------------------------------------------------------------------------
(* Booting, plugging, unplugging and the PCM calls keep all of it: the     *)
(* driver's flags, the stored streams, the bridge and the headset codec    *)
(* agree with each other and with the jack, stage by stage.                *)
THEOREM Invariant == Spec => []IndInv
<1>1. Init => IndInv
    BY InitInv
<1>2. IndInv /\ [Next]_vars => IndInv'
  <2> SUFFICES ASSUME IndInv, [Next]_vars PROVE IndInv'
      OBVIOUS
  <2>1. CASE Boot
      BY <2>1, BootStep
  <2>2. CASE Plug
      BY <2>2, PlugStep
  <2>3. CASE Unplug
      BY <2>3, UnplugStep
  <2>4. CASE PluginEvent
      BY <2>4, PluginEventStep
  <2>5. CASE TypeDetect
      BY <2>5, TypeDetectStep
  <2>6. CASE ButtonDetect
      BY <2>6, ButtonDetectStep
  <2>7. CASE UnplugEvent
      BY <2>7, UnplugEventStep
  <2>8. CASE \E f \in PlayFormats : PlayPrepare(f)
      BY <2>8, PlayPrepareStep
  <2>9. CASE \E nid \in {"adc", "1a"}, f \in CaptureFormats : CapturePrepare(nid, f)
      BY <2>9, CapturePrepareStep DEF Inlets
  <2>10. CASE PlayCleanup
      BY <2>10, PlayCleanupStep
  <2>11. CASE CaptureCleanup
      BY <2>11, CaptureCleanupStep
  <2>12. CASE UNCHANGED vars
      BY <2>12, StutterStep
  <2> QED
      BY <2>1, <2>2, <2>3, <2>4, <2>5, <2>6, <2>7, <2>8, <2>9, <2>10, <2>11, <2>12
         DEF Next, Handler, PcmCall
<1> QED
    BY <1>1, <1>2, PTL DEF Spec

(* Every variable keeps its type, whatever the sequence of handlers and    *)
(* PCM calls.                                                              *)
THEOREM TypeCorrect == Spec => []TypeOK
<1>1. IndInv => TypeOK
    BY DEF IndInv, HardwareOK, DriverOK, UserOK, TypeOK
<1> QED
    BY <1>1, Invariant, PTL

(* With nothing in the jack a playing stream comes out of both pairs of    *)
(* speakers, in the format it was prepared with: play_real and the unplug  *)
(* handler set every stage from the converters to the amplifiers.          *)
THEOREM SpeakersAlwaysPlay == Spec => []SpeakersPlay
<1>1. IndInv => SpeakersPlay
    BY DEF IndInv
<1> QED
    BY <1>1, Invariant, PTL

(* With headphones in the jack a playing stream comes out of them, in its  *)
(* format unless a recording set the output up before it.                  *)
THEOREM HeadphonesAlwaysPlay == Spec => []HeadphonesPlay
<1>1. IndInv => HeadphonesPlay
    BY DEF IndInv, PhonesInv, HeadphonesPlay
<1> QED
    BY <1>1, Invariant, PTL

(* A headset's microphone reaches its converter, with the output that      *)
(* gives it its clocks, until the headset is pulled out or playback stops. *)
THEOREM HeadsetAlwaysRecords == Spec => []HeadsetRecords
<1>1. IndInv => HeadsetRecords
  <2> SUFFICES ASSUME IndInv, stage = "idle", jack = "headset", taken.nid = "1a", undisturbed
               PROVE  HeadsetMikeOn(taken.fmt) /\ HeadphonesOn
      BY DEF HeadsetRecords
  <2>1. HeadphonesOn
      BY DEF IndInv, HeadsetInv, PhonesInv, Plugged
  <2>2. HeadsetMikeOn(taken.fmt)
      BY <2>1 DEF IndInv, HeadsetInv, HeadsetMikeOn, HeadphonesOn
  <2> QED
      BY <2>1, <2>2
<1> QED
    BY <1>1, Invariant, PTL

(* The internal microphone reaches its converter until a plug or the end   *)
(* of playback powers the converter off.                                   *)
THEOREM InternalAlwaysRecords == Spec => []InternalRecords
<1>1. IndInv => InternalRecords
    BY DEF IndInv, InternalInv, InternalRecords, InternalMikeOn
<1> QED
    BY <1>1, Invariant, PTL

(* Sound has one way out: the speakers are off with something in the jack, *)
(* the headphone output without, but for a headset pulled out of a         *)
(* recording.                                                              *)
THEOREM OneRouteOnly == Spec => []OneRoute
<1>1. IndInv => OneRoute
  <2> SUFFICES ASSUME IndInv, stage = "idle" PROVE OneRoute
      BY DEF OneRoute
  <2>1. CASE Plugged
      BY <2>1 DEF IndInv, SpeakersInv, SpeakersOff, OneRoute
  <2>2. CASE ~Plugged
      BY <2>2 DEF IndInv, OutputInv, OutputOff, OneRoute
  <2> QED
      BY <2>1, <2>2
<1> QED
    BY <1>1, Invariant, PTL

(* What a stopped stream used is off: its amplifiers and converters, and   *)
(* with the last stream the headset codec.                                 *)
THEOREM StoppedIsQuiet == Spec => []QuietWhenStopped
<1>1. IndInv => QuietWhenStopped
  <2> SUFFICES ASSUME IndInv, stage = "idle" PROVE QuietWhenStopped
      BY DEF QuietWhenStopped
  <2>1. ~playing => c.amps = {} /\ c.reg["02"].tag = 0 /\ c.reg["03"].tag = 0
      BY DEF IndInv, SpeakersInv, SpeakersOff
  <2>2. ~capturing => c.d0 \cap {"adc", "linein"} = {}
      BY DEF IndInv, ConvertersInv
  <2>3. ~playing /\ ~capturing /\ ~pulled => ~x.dac /\ x.powered = {}
    <3> SUFFICES ASSUME ~playing, ~capturing, ~pulled PROVE ~x.dac /\ x.powered = {}
        OBVIOUS
    <3>1. headset_play_format_setup_needed /\ headset_capture_format_setup_needed
        BY DEF IndInv, NeededInv
    <3>2. x.dac = FALSE /\ "output" \notin x.powered
        BY <3>1 DEF IndInv, OutputInv, OutputOff
    <3>3. "input" \notin x.powered
        BY <3>1 DEF IndInv, InputInv
    <3>4. x.powered \in SUBSET {"output", "input"}
        BY DEF IndInv, HardwareOK, L83!Chip
    <3> QED
        BY <3>2, <3>3, <3>4
  <2> QED
      BY <2>1, <2>2, <2>3 DEF QuietWhenStopped
<1> QED
    BY <1>1, Invariant, PTL

(* The headset codec waits for the other move of the jack and, with a      *)
(* headset, for its buttons: no handler leaves a detection half done.      *)
THEOREM CodecAlwaysListens == Spec => []CodecListens
<1>1. IndInv => CodecListens
  <2> SUFFICES ASSUME IndInv, stage = "idle" PROVE CodecListens
      BY DEF CodecListens
  <2>1. x \in L83!Chip /\ (x.sense = TRUE => have_mike) /\ (have_mike <=> jack = "headset")
      BY DEF IndInv, HardwareOK, CodecInv, FlagsInv
  <2>2. /\ x.watch = IF Plugged THEN "unplug" ELSE "plug"
        /\ x.typeint # TRUE
        /\ jack = "headset" =>
              x.buttons = "press" /\ x.bias = "on" /\ x.micdet = TRUE /\ x.sense = TRUE
        /\ jack # "headset" => x.buttons = "off" /\ x.bias # "on"
      BY DEF IndInv, CodecInv
  <2>3. x.typeint \in BOOLEAN /\ x.sense \in BOOLEAN
      BY <2>1 DEF L83!Chip
  <2> QED
      BY <2>1, <2>2, <2>3 DEF CodecListens
<1> QED
    BY <1>1, Invariant, PTL
=============================================================================
