------------------------------ MODULE CS42L83 ------------------------------
(***************************************************************************)
(* The registers of the CS42L83 headset codec as the functions of          *)
(* patch_cirrus_real84_i2c.h write them.  A state of the chip is a record: *)
(*   powered   halves of the codec that are powered          (0x1101)      *)
(*   dac, adc  headphone DAC and microphone ADC are unmuted  (0x2001,1d03) *)
(*   rx, tx    serial port slots are received and sent       (0x2a01,2901) *)
(*   pll       the PLL and the serial clock run              (0x1501,1107) *)
(*   rates     sample rate converters that are set up        (0x1209)      *)
(*   hpout     what holds the headphone pins down            (0x1f06)      *)
(*   watch     the tip sense interrupt let through           (0x1b79)      *)
(*   buttons   the button detection interrupts let through   (0x1b7a)      *)
(*   typeint   the type detection interrupt is let through   (0x131b)      *)
(*   hsdet     how the headset switches are driven           (0x1120)      *)
(*   bias      the microphone bias, micdet its level detector (0x1b74)     *)
(*   sense     the bias sense is on                          (0x1b70)      *)
(* Registers that are written once with one value are left out.            *)
(***************************************************************************)

Chip == [powered : SUBSET {"output", "input"},
         dac : BOOLEAN, adc : BOOLEAN,
         rx : BOOLEAN, tx : BOOLEAN, pll : BOOLEAN,
         rates : SUBSET {"out", "in"},
         hpout : SUBSET {"clamped", "pulldown"},
         watch : {"none", "plug", "unplug"},
         buttons : {"off", "detect", "press"},
         typeint : BOOLEAN,
         hsdet : {"off", "manual", "auto", "switches"},
         bias : {"open", "ground", "on"}, micdet : BOOLEAN,
         sense : BOOLEAN]

-----------------------------------------------------------------------------
(* Detecting what is plugged in.                                           *)

headset_button_detect_interrupts_off(x) == [x EXCEPT !.buttons = "off"]

set_hpout_clamp_disable(x) == [x EXCEPT !.hpout = {"pulldown"}]

complete_jack_detect(x) == [x EXCEPT !.bias = "open", !.micdet = FALSE]

power_hs_bias_on(x) == [x EXCEPT !.hsdet = "manual", !.bias = "on", !.micdet = FALSE]

enable_hs_auto_int_on(x) == [x EXCEPT !.typeint = TRUE]

enable_hs_auto_int_off(x) == [x EXCEPT !.typeint = FALSE]

unplug_interrupt_setup(x) == [x EXCEPT !.watch = "unplug"]

plugin_interrupt_setup(x) == [x EXCEPT !.watch = "plug"]

set_hpout_pulldown_off(x) == [x EXCEPT !.hpout = @ \ {"pulldown"}]

set_hpout_pulldown_on(x) == [x EXCEPT !.hpout = {"pulldown"}]

set_hpout_clamp_enable(x) == [x EXCEPT !.hpout = @ \cup {"clamped"}]

headset_detect_on(x) == [x EXCEPT !.hsdet = "auto"]

headset_detect_off(x) == [x EXCEPT !.hsdet = "off"]

unplug_headset_detect_off(x) == headset_detect_off(x)

headset_switch_control(x) == [x EXCEPT !.hsdet = "switches"]

headset_mike_detect_off(x) == [x EXCEPT !.bias = "on", !.micdet = FALSE]

power_hs_bias_off(x) == [x EXCEPT !.hsdet = "off", !.bias = "ground", !.micdet = FALSE]

headset_detect2_off(x) ==
    [x EXCEPT !.buttons = "off", !.bias = "ground", !.micdet = FALSE]

-----------------------------------------------------------------------------
(* Buttons and the bias they are sensed on.                                *)

enable_hsbias_auto_clamp_on(x) == [x EXCEPT !.sense = FALSE]

enable_hsbias_auto_clamp_off0(x) == [x EXCEPT !.sense = FALSE]

enable_hsbias_auto_clamp_off1(x) == [x EXCEPT !.sense = FALSE]

enable_hsbias_auto_clamp_off2(x) == [x EXCEPT !.sense = FALSE]

enable_hsbias_auto_clamp_off3(x) == [x EXCEPT !.sense = FALSE]

hsbias_sense_on(x) == [x EXCEPT !.sense = TRUE]

setup_button_detect(x) ==
    [x EXCEPT !.buttons = "detect", !.bias = "ground", !.micdet = TRUE]

power_hs_bias_button_on(x) ==
    [x EXCEPT !.hsdet = "off", !.bias = "on", !.micdet = TRUE]

(* Returns early unless the press and release interrupts are let through.  *)
handle_button_detect(x) ==
    IF x.buttons = "detect"
      THEN [x EXCEPT !.buttons = "off", !.bias = "on", !.micdet = TRUE]
      ELSE x

(* Bit 0 of the bias is dropped while the level is read, and set again.    *)
mike_connected(x) == [x EXCEPT !.bias = "on", !.micdet = TRUE]

configure_headset_button_interrupts(x) == [x EXCEPT !.buttons = "press"]

disable_button_interrupts(x) == [x EXCEPT !.buttons = "off"]

-----------------------------------------------------------------------------
(* The headphone output and the microphone input.                          *)

configure_int_mclk(x) == [x EXCEPT !.pll = TRUE]

power_onoff(x, onflag) == [x EXCEPT !.pll = onflag]

output_set_input_sample_rate(x) == [x EXCEPT !.rates = @ \cup {"out"}]

input_set_output_sample_rate(x) == [x EXCEPT !.rates = @ \cup {"in"}]

setup_audio_output(x) == [x EXCEPT !.hpout = {"clamped", "pulldown"}, !.dac = FALSE]

buffers_onoff_off(x, onflag) == [x EXCEPT !.rx = FALSE]
buffers_onoff(x, onflag) == [x EXCEPT !.rx = onflag]

headset_enable_on(x) == [x EXCEPT !.dac = TRUE]

headset_enable_off(x) == [x EXCEPT !.dac = FALSE]

power_off_codec_output(x) == [x EXCEPT !.powered = @ \ {"output"}]

power_off_codec_input(x) == [x EXCEPT !.powered = @ \ {"input"}]

set_power_state_on_output(x, instate) == [x EXCEPT !.powered = @ \cup {"output"}]
set_power_state_on(x, instate) ==
    [x EXCEPT !.powered = @ \cup {IF instate = 1 THEN "input" ELSE "output"}]

mike_enable(x) == [x EXCEPT !.tx = TRUE]

mike_disable(x) == [x EXCEPT !.tx = FALSE]

headset_mike_adc_unmutevol(x, unmute) == [x EXCEPT !.adc = unmute]

-----------------------------------------------------------------------------
(* Sequences of patch_cirrus_real84.h, their part on the chip.             *)

headset_play_setup_on(x) ==
    LET x1 == power_onoff(configure_int_mclk(x), TRUE)
    IN  buffers_onoff(setup_audio_output(output_set_input_sample_rate(x1)), TRUE)

headset_disable(x) == power_onoff(buffers_onoff(x, FALSE), FALSE)

enable_headset_streaming(x) ==
    headset_enable_on(set_power_state_on(headset_play_setup_on(x), 0))

disable_headset_streaming_no_power(x) == headset_disable(headset_enable_off(x))
disable_headset_streaming(x) ==
    LET x1 == headset_disable(power_off_codec_output(headset_enable_off(x)))
    IN  power_off_codec_output(headset_enable_off(x1))

enable_headset_mike_streaming(x) ==
    LET x1 == mike_enable(input_set_output_sample_rate(x))
    IN  headset_mike_adc_unmutevol(set_power_state_on(x1, 1), TRUE)

disable_headset_mike_streaming(x) ==
    LET x1 == power_off_codec_input(headset_mike_adc_unmutevol(x, FALSE))
    IN  power_off_codec_input(headset_mike_adc_unmutevol(mike_disable(x1), FALSE))

plugin_handle_detect(x) == set_hpout_clamp_disable(headset_button_detect_interrupts_off(x))

plugin_complete_detect(x) ==
    LET x1 == power_hs_bias_on(complete_jack_detect(x))
        x2 == unplug_interrupt_setup(enable_hs_auto_int_on(x1))
    IN  headset_detect_on(set_hpout_pulldown_off(x2))

headset_type_detect_event(x, have_mike) ==
    LET x1 == headset_detect_off(enable_hs_auto_int_off(x))
        x2 == set_hpout_clamp_enable(set_hpout_pulldown_on(x1))
    IN  IF have_mike
          THEN LET x3 == enable_hsbias_auto_clamp_off0(enable_hsbias_auto_clamp_on(x2))
                   x4 == setup_button_detect(power_hs_bias_off(x3))
               IN  enable_hsbias_auto_clamp_off1(power_hs_bias_button_on(x4))
          ELSE power_hs_bias_off(headset_mike_detect_off(x2))

headset_button_detect_event(x) == mike_connected(handle_button_detect(x))

headset_mike_buttons_enable_unsensed(x) ==
    enable_hsbias_auto_clamp_off2(configure_headset_button_interrupts(x))
headset_mike_buttons_enable(x) ==
    hsbias_sense_on(enable_hsbias_auto_clamp_off2(configure_headset_button_interrupts(x)))

=============================================================================
