---------------------------- MODULE CS8409Paths ----------------------------
(***************************************************************************)
(* The sound paths of the CS8409 bridge as the functions of                *)
(* patch_cirrus_real84.h set them up and take them down, and the stream    *)
(* format caches of patch_cirrus_new84.h.  A state of the bridge is a      *)
(* record:                                                                 *)
(*   slots    TDM slots that are connected            (coef 19-1c,29,2a,49)*)
(*   buses    TDM buses let onto the wire             (coef 71)            *)
(*   run      the TDM engine runs                     (vendor verb 7f0)    *)
(*   clocks   serial clocks that are driven           (coef 82)            *)
(*   tdm      serial ports that are enabled           (coef 01)            *)
(*   sync     converters that start together          (coef 17)            *)
(*   d0       function group and converters in D0                          *)
(*   pins     pins that are enabled                                        *)
(*   amps     speaker amplifiers that are on          (I2C, no codec)      *)
(*   unmuted  input amplifiers that are not muted                          *)
(*   reg      stream tag, channel and format of each converter             *)
(*   cache    what the kernel believes reg to be      (cvt_setups)         *)
(*   store    what the driver means reg to be         (spec->nid_0x..)     *)
(* Coefficients that are written once with one value, gains, and the input *)
(* selects of coefficient 9 are left out.                                  *)
(***************************************************************************)
EXTENDS Integers

CONSTANTS
    AmpKind,    \* the board's amplifiers: "max", "ssm3" or "tas576"
    PlayFormats, CaptureFormats     \* stream formats of the user's streams

ASSUME AmpAssumption == AmpKind \in {"max", "ssm3", "tas576"}

Formats == PlayFormats \cup CaptureFormats

NoFormat == "0000"          \* register values the driver writes itself
NullOut  == "4033"
IntMike  == "4031"

(* A stream is 24 or 32 bits wide: none is of format 0.                    *)
ASSUME FormatAssumption == NoFormat \notin Formats

Converters == {"02", "03", "0a", "1a", "adc", "linein"}

Tags == 0 .. 2

Setup == [tag : Tags, chan : {0, 2}, fmt : Formats \cup {NoFormat, NullOut, IntMike}]

Bridge == [slots : SUBSET {"amps12", "amps34", "hsout", "hsin"},
           buses : SUBSET {"amps", "headset"},
           run : BOOLEAN,
           clocks : SUBSET {"amps", "headset", "intmike", "linein"},
           tdm : SUBSET {"amps", "headset"},
           sync : SUBSET {"02", "03"},
           d0 : SUBSET {"afg", "adc", "linein"},
           pins : SUBSET {"24", "25", "2c", "3c", "intmike", "linein"},
           amps : SUBSET {"12", "34"},
           unmuted : SUBSET {"adc", "linein"},
           reg : [Converters -> Setup],
           cache : [Converters -> Setup],
           store : [Converters -> Setup]]

-----------------------------------------------------------------------------
(* Stream formats.                                                         *)

Silent == [tag |-> 0, chan |-> 0, fmt |-> NoFormat]

WithTag(c, nid, t, ch) == [c EXCEPT !.reg[nid].tag = t, !.reg[nid].chan = ch]

WithFormat(c, nid, f) == [c EXCEPT !.reg[nid].fmt = f]

(* The kernel writes only what differs from its cache.                     *)
snd_hda_codec_setup_stream(c, nid, s) ==
    LET was == c.cache[nid]
        moved == was.tag # s.tag \/ was.chan # s.chan
        c1 == IF moved THEN WithTag(c, nid, s.tag, s.chan) ELSE c
        c2 == IF was.fmt # s.fmt THEN WithFormat(c1, nid, s.fmt) ELSE c1
    IN  [c2 EXCEPT !.cache[nid] = s]

store_stream_format(c, nid, t, f) ==
    [c EXCEPT !.store[nid] = [tag |-> t, chan |-> 0, fmt |-> f]]

(* What the cache forgets is written again.                                *)
Forget(c, nid, id, format) ==
    [c EXCEPT !.cache[nid] =
        [tag  |-> IF id THEN 0 ELSE @.tag,
         chan |-> IF id THEN 0 ELSE @.chan,
         fmt  |-> IF format THEN NoFormat ELSE @.fmt]]

really_update_stream_format(c, nid, id, new_channel_id) ==
    LET s == c.store[nid]
    IN  snd_hda_codec_setup_stream(Forget(c, nid, id > 0, TRUE), nid,
            [s EXCEPT !.chan = IF id = 2 THEN new_channel_id ELSE @])

(* save_and_clear_stream_format, and update_from_save_stream_format of the *)
(* tag and channel saved: the tag is silent in between.                    *)
save_and_clear_stream_format(c, nid) == WithTag(c, nid, 0, 0)

update_from_save_stream_format(c, nid, saved) ==
    snd_hda_codec_setup_stream(Forget(c, nid, TRUE, FALSE), nid, saved)

(* Both converters are cleared, coefficient 17 is written, and both come   *)
(* back; with nullformat nothing comes back.                               *)
Resync(c, set, nullformat, chan3) ==
    LET c1 == save_and_clear_stream_format(save_and_clear_stream_format(c, "02"), "03")
        c2 == [c1 EXCEPT !.sync = set]
    IN  IF nullformat
          THEN WithTag(WithTag(c2, "02", 0, 0), "03", 0, chan3)
          ELSE update_from_save_stream_format(
                   update_from_save_stream_format(c2, "02", c.cache["02"]),
                   "03", c.cache["03"])

-----------------------------------------------------------------------------
(* The speakers.                                                           *)

setup_TDM_proper_amps12(c) ==
    [c EXCEPT !.slots = @ \cup {"amps12"}, !.clocks = @ \cup {"amps"},
              !.tdm = @ \cup {"amps"}, !.buses = @ \cup {"amps"}, !.run = TRUE]

setup_TDM_amps12(c, nullformat) ==
    LET c1 == IF nullformat
                THEN WithTag(WithFormat(c, "02", NullOut), "02", 0, 0)
                ELSE really_update_stream_format(c, "02", 2, 0)
    IN  [setup_TDM_proper_amps12(c1) EXCEPT !.pins = @ \cup {"24"}]

(* The max and ssm3 amplifiers play once they are set up; the tas576 has   *)
(* to be enabled.                                                          *)
setup_amps12(c, amps_enable) ==
    IF AmpKind = "tas576" /\ ~amps_enable THEN c ELSE [c EXCEPT !.amps = @ \cup {"12"}]

setup_TDM_proper_amps34(c) ==
    [c EXCEPT !.slots = @ \cup {"amps34"}, !.buses = @ \cup {"amps"}, !.run = TRUE]

(* Two channels are played by both pairs of amplifiers.                    *)
setup_TDM_amps34_no_copy(c, nullformat, stream_channels) ==
    LET c1 == IF nullformat
                THEN WithTag(WithFormat(c, "03", NullOut), "03", 0, 2)
                ELSE really_update_stream_format(c, "03", 2, 2)
    IN  [setup_TDM_proper_amps34(c1) EXCEPT !.pins = @ \cup {"25"}]
setup_TDM_amps34_channels(c, nullformat, stream_channels) ==
    LET c1 == IF nullformat
                THEN WithTag(WithFormat(c, "03", NullOut), "03", 0, 2)
                ELSE really_update_stream_format(c, "03", 2, stream_channels)
    IN  [setup_TDM_proper_amps34(c1) EXCEPT !.pins = @ \cup {"25"}]
setup_TDM_amps34(c, nullformat, stream_channels) ==
    LET c1 == IF nullformat
                THEN WithTag(WithFormat(c, "03", NullOut), "03", 0, 2)
                ELSE really_update_stream_format(c, "03", 2, IF stream_channels = 2 THEN 0 ELSE 2)
    IN  [setup_TDM_proper_amps34(c1) EXCEPT !.pins = @ \cup {"25"}]

setup_amps34(c, amps_enable) ==
    IF AmpKind = "tas576" /\ ~amps_enable THEN c ELSE [c EXCEPT !.amps = @ \cup {"34"}]

sync_converters_on(c, nullformat) == Resync(c, {"02", "03"}, nullformat, 2)

(* Coefficient 1 is written whole: the headset port goes with it.          *)
sync_converters_off(c, nullformat) ==
    [Resync(c, {}, nullformat, 0) EXCEPT !.tdm = {"amps"}]

disable_amps12(c) == [c EXCEPT !.amps = @ \ {"12"}]

disable_amps34(c) == [c EXCEPT !.amps = @ \ {"34"}]

disable_TDM_proper_amps12(c) == [c EXCEPT !.slots = @ \ {"amps12"}, !.run = TRUE]

disable_TDM_amps12(c) ==
    [WithFormat(WithTag(disable_TDM_proper_amps12(c), "02", 0, 0), "02", NoFormat)
        EXCEPT !.pins = @ \ {"24"}]

(* Coefficient 71 is cleared, the headset's bus with it.                   *)
disable_TDM_proper_amps34(c) ==
    [c EXCEPT !.slots = @ \ {"amps34"}, !.clocks = @ \ {"amps"}, !.tdm = @ \ {"amps"},
              !.buses = {}, !.run = FALSE]

disable_TDM_amps34(c) ==
    [WithFormat(WithTag(disable_TDM_proper_amps34(c), "03", 0, 0), "03", NoFormat)
        EXCEPT !.pins = @ \ {"25"}]

amps_disable_streaming_once(c) == disable_TDM_amps34(disable_amps34(sync_converters_off(c, FALSE)))
amps_disable_streaming(c) ==
    LET c1 == sync_converters_off(c, FALSE)
        c2 == disable_TDM_amps12(disable_amps12(c1))
        c3 == disable_TDM_amps34(disable_amps34(c2))
    IN  disable_amps34(disable_amps12(c3))

(* Turning the speakers on, in play_real and after an unplug.              *)
PlaySpeakers(c, stream_channels) ==
    LET c1 == setup_amps12(setup_TDM_amps12(c, FALSE), TRUE)
        c2 == setup_amps34(setup_TDM_amps34(c1, FALSE, stream_channels), TRUE)
    IN  sync_converters_on(c2, FALSE)

-----------------------------------------------------------------------------
(* Power of the function group and of the input converters.                *)

Power(c, nodes) == [c EXCEPT !.d0 = @ \cup nodes]

PowerOff(c, nodes) == [c EXCEPT !.d0 = @ \ nodes]

inputs_power_nids_on(c) == Power(c, {"adc", "linein"})

inputs_power_nids_off(c) == PowerOff(c, {"adc", "linein"})

-----------------------------------------------------------------------------
(* The internal microphone, and the line input set up with it.             *)

volume_mute(c, nid) == [c EXCEPT !.unmuted = @ \ {nid}]

volume_unmute(c, nid) == [c EXCEPT !.unmuted = @ \cup {nid}]

intmike_format_setup_enable(c, powered_down) ==
    LET c1 == really_update_stream_format(c, "adc", 1, 0)
    IN  IF powered_down THEN PowerOff(c1, {"adc"}) ELSE c1

linein_format_setup_enable(c) ==
    PowerOff(really_update_stream_format(c, "linein", 1, 0), {"linein"})

intmike_volume_setup(c) == volume_mute(c, "adc")

linein_volume_setup(c) == volume_mute(c, "linein")

intmike_stream_on_nid(c) ==
    [c EXCEPT !.clocks = @ \cup {"intmike"}, !.pins = @ \cup {"intmike"}]

linein_stream_on_nid(c) ==
    [c EXCEPT !.clocks = @ \cup {"linein"}, !.pins = @ \cup {"linein"}]

(* conn_off and off_nid: powered up, silenced, powered down.               *)
intmike_stream_conn_off(c) == PowerOff(WithTag(c, "adc", 0, 0), {"adc"})

linein_stream_conn_off(c) == PowerOff(WithTag(c, "linein", 0, 0), {"linein"})

intmike_stream_off_nid(c) == intmike_stream_conn_off(c)

linein_stream_off_nid(c) == linein_stream_conn_off(c)

intmike_stream_conn_off_disable(c) == intmike_stream_conn_off(c)

intmike_stream_conn_off_enable(c) == intmike_stream_conn_off(c)

(* Stream 1 is written to the converter that stops.                        *)
intmike_stream_reset_nid_on(c) == WithTag(Power(c, {"adc"}), "adc", 1, 0)

linein_stream_reset_nid_off(c) == WithTag(Power(c, {"linein"}), "linein", 0, 0)

intmike_format_setup_disable(c) ==
    [WithFormat(intmike_stream_conn_off(c), "adc", NoFormat)
        EXCEPT !.clocks = @ \ {"intmike"}, !.pins = @ \ {"intmike"}]

linein_format_setup_disable(c) ==
    [WithFormat(linein_stream_conn_off(c), "linein", NoFormat)
        EXCEPT !.clocks = @ \ {"linein"}, !.pins = @ \ {"linein"}]

intmike_linein_disable(c) ==
    LET c1 == linein_stream_conn_off(intmike_stream_conn_off(c))
        c2 == linein_stream_off_nid(intmike_stream_off_nid(c1))
        c3 == intmike_format_setup_disable(intmike_volume_setup(c2))
    IN  linein_format_setup_disable(linein_volume_setup(c3))

intmike_linein_resetup(c) ==
    LET c1 == intmike_stream_on_nid(intmike_volume_setup(intmike_format_setup_enable(c, TRUE)))
        c2 == linein_stream_on_nid(linein_volume_setup(linein_format_setup_enable(c1)))
        c3 == linein_stream_conn_off(intmike_stream_conn_off_disable(c2))
        c4 == linein_stream_off_nid(intmike_stream_off_nid(c3))
        c5 == linein_volume_setup(really_update_stream_format(c4, "adc", 0, 0))
        c6 == intmike_stream_conn_off_enable(linein_format_setup_disable(c5))
        c7 == intmike_stream_off_nid(linein_stream_conn_off(c6))
        c8 == linein_stream_off_nid(c7)
        c9 == volume_mute(volume_mute(c8, "adc"), "linein")
    IN  inputs_power_nids_off(volume_unmute(volume_unmute(c9, "adc"), "linein"))

-----------------------------------------------------------------------------
(* The headset.                                                            *)

headset_amp_setup_TDM_proper(c) ==
    [c EXCEPT !.slots = @ \cup {"hsout"}, !.clocks = @ \cup {"headset"},
              !.tdm = @ \cup {"headset"}, !.buses = @ \cup {"headset"}, !.run = TRUE]

headset_amp_format_setup(c) ==
    [headset_amp_setup_TDM_proper(really_update_stream_format(c, "0a", 2, 0))
        EXCEPT !.pins = @ \cup {"2c"}]

(* Taken down in full it clears coefficient 71, otherwise it writes the    *)
(* headset's bus there: the speakers' goes either way.                     *)
headset_amp_disable_TDM_proper(c, full) ==
    LET c1 == [c EXCEPT !.slots = @ \ {"hsout"}]
    IN  IF full
          THEN [c1 EXCEPT !.clocks = @ \ {"headset"}, !.tdm = @ \ {"headset"},
                          !.buses = {}, !.run = FALSE]
          ELSE [c1 EXCEPT !.buses = {"headset"}, !.run = TRUE]

headset_amp_format_setup_disable(c, full) ==
    [WithFormat(WithTag(headset_amp_disable_TDM_proper(c, full), "0a", 0, 0), "0a", NoFormat)
        EXCEPT !.pins = @ \ {"2c"}]

headset_mike_format_setup_enable(c) ==
    [really_update_stream_format(c, "1a", 2, 0)
        EXCEPT !.slots = @ \cup {"hsin"}, !.buses = {"headset"}, !.run = TRUE,
               !.pins = @ \cup {"3c"}]

headset_mike_format_setup_disable(c) ==
    [WithFormat(WithTag(c, "1a", 0, 0), "1a", NoFormat)
        EXCEPT !.slots = @ \ {"hsin"}, !.run = TRUE, !.pins = @ \ {"3c"}]

amp_disable_and_mike_disable_TDM_proper(c) ==
    [c EXCEPT !.slots = @ \ {"hsin"}, !.clocks = @ \ {"headset"}, !.tdm = @ \ {"headset"},
              !.run = TRUE]

headset_amp_disable_and_mike_format_setup_disable(c) ==
    [WithFormat(WithTag(amp_disable_and_mike_disable_TDM_proper(c), "1a", 0, 0), "1a", NoFormat)
        EXCEPT !.pins = @ \ {"3c"}]

=============================================================================
