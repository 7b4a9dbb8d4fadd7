---------------------------- MODULE CS42L42Jack ----------------------------
(***************************************************************************)
(* The jack of a CS42L42 companion codec as cs8409.c follows it: tip sense *)
(* and headset type detection on the chip, its interrupt line on a GPIO of *)
(* the bridge, the worker that handles the unsolicited responses the line  *)
(* raises, and the suspend and resume that meet it at any point.           *)
(*                                                                         *)
(* One codec of its board: the only one of a Bullseye, Warlock or Cyborg,  *)
(* or either of the two of a Dolphin, whose other codec only adds          *)
(* responses.  I2C accesses are whole: I2CBridge has what is in them.      *)
(***************************************************************************)
EXTENDS Integers

CONSTANTS
    MaxResponses,       \* unsolicited responses in the kernel's queue
    SwitchAsleep        \* the speaker switch may be thrown while suspended

ASSUME ResponsesAssumption == MaxResponses \in Nat \ {0}
ASSUME SwitchAssumption    == SwitchAsleep \in BOOLEAN

VARIABLES
    board, no_type_dect,    \* the board, and whether the codec detects types
    jack, tip,              \* what is in the jack, and what tip sense makes of it
    chip,                   \* interrupts and detection of the codec
    ur, responses,          \* responses are enabled, and wait to be handled
    gpio, gpio_data,        \* the reset bit of the bridge's pins, and of the driver's copy
    put,                    \* that of the value the speaker switch is about to write
    \* struct sub_codec, and the jacks as they are reported
    suspended, hp_jack_in, mic_jack_in, reported,
    \* where the threads are
    worker, seen,           \* the worker, and what it has read
    pm, build_ctrl_done,    \* the power management thread
    rushed                  \* something moved under a detection or a handler, or a
                            \* detection was handled before the responses were enabled

driver == <<suspended, hp_jack_in, mic_jack_in>>
pins   == <<gpio, gpio_data, put>>
power  == <<pm, build_ctrl_done>>
fixed  == <<board, no_type_dect>>
vars   == <<fixed, jack, tip, chip, ur, responses, pins, driver, reported,
            worker, seen, power, rushed>>

Kinds == {"none", "phones", "headset"}

Types == {"invalid", "phones", "headset"}

Tips == {"plug", "unplug", "trans"}

Chip == [ts : BOOLEAN, ts_open : BOOLEAN,       \* TSRS_PLUG_STATUS and its mask
         done : BOOLEAN, done_open : BOOLEAN,   \* HSDET_AUTO_DONE and its mask
         detecting : BOOLEAN, type : Types]

OutOfReset == [ts |-> FALSE, ts_open |-> FALSE, done |-> FALSE, done_open |-> FALSE,
               detecting |-> FALSE, type |-> "invalid"]

TypeOf(k) == IF k = "none" THEN "invalid" ELSE k

TipOf(k) == IF k = "none" THEN "unplug" ELSE "plug"

Readings == [failed : BOOLEAN, done : BOOLEAN, type : Types, tip : Tips]

Nothing == [failed |-> FALSE, done |-> FALSE, type |-> "invalid", tip |-> "trans"]

-----------------------------------------------------------------------------
(* The chip's interrupt line, and the response its falling edge raises; a  *)
(* response to its rising edge is ignored by the handler, and left out.    *)

Interrupt(x) == (x.ts /\ x.ts_open) \/ (x.done /\ x.done_open)

AtMost(n, i) == IF i < n THEN i ELSE n

Raised_uncapped(n) == responses + n

Raised(n) == AtMost(MaxResponses, responses + n)

Becomes(x) ==
    /\ chip' = x
    /\ responses' = Raised(IF ur /\ Interrupt(x) /\ ~Interrupt(chip) THEN 1 ELSE 0)

(* Accesses to a codec that is suspended, or in reset, have no effect.     *)
Reachable == ~suspended /\ gpio

Written(x) == Becomes(IF Reachable THEN x ELSE chip)

-----------------------------------------------------------------------------
(* The jack and the chip.                                                  *)

Clean == ~chip.ts /\ ~chip.done /\ responses = 0

Busy == worker # "idle" \/ responses > 0 \/ chip.detecting \/ chip.done \/ pm # "awake"

Move ==
    /\ build_ctrl_done
    /\ IF jack = "none" THEN jack' \in Kinds \ {"none"} ELSE jack' = "none"
    /\ tip' = IF gpio THEN "trans" ELSE tip
    /\ rushed' = (rushed \/ (Busy /\ pm # "asleep"))
    /\ UNCHANGED <<fixed, chip, ur, responses, pins, driver, reported, worker, seen, power>>

TipSensed ==
    /\ gpio /\ tip # TipOf(jack)
    /\ tip' = TipOf(jack)
    /\ Becomes([chip EXCEPT !.ts = TRUE])
    /\ UNCHANGED <<fixed, jack, ur, pins, driver, reported, worker, seen, power, rushed>>

(* The detection sees what is in the jack when it ends.                    *)
Detected ==
    /\ chip.detecting
    /\ Becomes([chip EXCEPT !.detecting = FALSE, !.done = TRUE, !.type = TypeOf(jack)])
    /\ UNCHANGED <<fixed, jack, tip, ur, pins, driver, reported, worker, seen, power, rushed>>

(* A response to the other codec's line tells the level of this one's too. *)
OtherCodec ==
    /\ board = "dolphin" /\ ur /\ Interrupt(chip) /\ responses < MaxResponses
    /\ responses' = responses + 1
    /\ UNCHANGED <<fixed, jack, tip, chip, ur, pins, driver, reported, worker, seen, power,
                   rushed>>

-----------------------------------------------------------------------------
(* cs42l42_run_jack_detect: the interrupts are cleared and tip sense is    *)
(* masked, then the detection is started and its interrupt let through.    *)

(* The type is read with the interrupt that announces it, and not later.   *)
DoneCleared(x) == [x EXCEPT !.done = FALSE, !.type = "invalid"]

TipCleared_unread(x) == x

TipCleared(x) == [x EXCEPT !.ts = FALSE]

DetectCleared(x) == [DoneCleared(TipCleared(x)) EXCEPT !.ts_open = FALSE]

DetectStarted_masked(x) == [x EXCEPT !.detecting = TRUE]

DetectStarted(x) == [x EXCEPT !.done_open = TRUE, !.detecting = TRUE]

-----------------------------------------------------------------------------
(* The worker: cs8409_cs42l42_jack_unsol_event, dolphin_jack_unsol_event.  *)

(* What was read is forgotten where nothing depends on it any more.        *)
Goes(step) ==
    /\ worker' = step
    /\ seen' = IF step \in {"clear", "start", "report", "idle"} THEN Nothing ELSE seen

(* The kernel drops the responses of a suspended codec, and the Dolphin    *)
(* handler ignores them.                                                   *)
Drop ==
    /\ worker = "idle" /\ responses > 0 /\ suspended
    /\ responses' = responses - 1
    /\ UNCHANGED <<fixed, jack, tip, chip, ur, pins, driver, reported, worker, seen, power,
                   rushed>>

(* On a Bullseye a response that waited for the worker may reach it after  *)
(* the codec was suspended.                                                *)
Respond ==
    /\ worker = "idle" /\ responses > 0
    /\ board = "dolphin" => ~suspended
    /\ responses' = responses - 1
    /\ Goes("status")
    /\ rushed' = (rushed \/ pm \in {"power down", "reset"})
    /\ UNCHANGED <<fixed, jack, tip, chip, ur, pins, driver, reported, power>>

ReadStatus ==
    /\ worker = "status"
    /\ worker' = "tip"
    /\ seen' = IF Reachable THEN [Nothing EXCEPT !.done = chip.done, !.type = chip.type]
                           ELSE [Nothing EXCEPT !.failed = TRUE]
    /\ Written(DoneCleared(chip))
    /\ UNCHANGED <<fixed, jack, tip, ur, pins, driver, reported, power, rushed>>

(* An error is reported as if the jack had changed.                        *)
ReadTip ==
    /\ worker = "tip"
    /\ Written(TipCleared(chip))
    /\ \/ /\ seen.failed \/ ~Reachable
          /\ Goes("report")
       \/ /\ ~seen.failed /\ Reachable
          /\ worker' = IF seen.done THEN "mask" ELSE "apply"
          /\ seen' = IF seen.done /\ ~no_type_dect THEN seen ELSE [seen EXCEPT !.tip = tip]
    /\ UNCHANGED <<fixed, jack, tip, ur, pins, driver, reported, power, rushed>>

MaskDetection ==
    /\ worker = "mask"
    /\ Written([chip EXCEPT !.done_open = FALSE, !.detecting = FALSE])
    /\ Goes(IF no_type_dect THEN "apply" ELSE IF seen.type = "headset" THEN "assign" ELSE "manual")
    /\ UNCHANGED <<fixed, jack, tip, ur, pins, driver, reported, power, rushed>>

(* cs42l42_manual_hs_det compares twice, 100 ms apart.                     *)
CompareFirst ==
    /\ worker = "manual"
    /\ worker' = "compare"
    /\ seen' = [seen EXCEPT !.type = IF Reachable THEN TypeOf(jack) ELSE "invalid"]
    /\ UNCHANGED <<fixed, jack, tip, chip, ur, responses, pins, driver, reported, power,
                   rushed>>

CompareSecond ==
    /\ worker = "compare"
    /\ worker' = "assign"
    /\ \/ Reachable /\ seen.type = TypeOf(jack) /\ UNCHANGED seen
       \/ /\ ~Reachable \/ seen.type # TypeOf(jack)
          /\ \E t \in Types : seen' = [seen EXCEPT !.type = t]
    /\ UNCHANGED <<fixed, jack, tip, chip, ur, responses, pins, driver, reported, power,
                   rushed>>

(* A jack that is found before resume enables the responses makes it leave *)
(* its own detection out, and the end of another may raise no response.    *)
Assign ==
    /\ worker = "assign"
    /\ hp_jack_in' = (seen.type # "invalid")
    /\ mic_jack_in' = (seen.type = "headset")
    /\ Goes("unmask")
    /\ rushed' = (rushed \/ ~ur)
    /\ UNCHANGED <<fixed, jack, tip, chip, ur, responses, pins, suspended, reported, power>>

(* cs42l42_handle_tip_sense; after a detection tip sense is unmasked.      *)
Apply ==
    /\ worker = "apply"
    /\ \/ /\ seen.tip = "plug" /\ no_type_dect
          /\ hp_jack_in' = TRUE /\ mic_jack_in' = FALSE
          /\ Goes(IF seen.done THEN "unmask" ELSE "report")
          /\ UNCHANGED rushed
       \/ /\ seen.tip = "plug" /\ ~no_type_dect
          /\ Goes("clear")
          /\ UNCHANGED <<hp_jack_in, mic_jack_in, rushed>>
       \/ /\ seen.tip = "unplug"
          /\ hp_jack_in' = FALSE /\ mic_jack_in' = FALSE
          /\ Goes(IF seen.done THEN "unmask" ELSE "report")
          /\ rushed' = (rushed /\ ~(Clean /\ pm = "awake" /\ jack = "none" /\ tip = "unplug"))
       \/ /\ seen.tip = "trans"
          /\ Goes(IF seen.done THEN "unmask" ELSE "idle")
          /\ UNCHANGED <<hp_jack_in, mic_jack_in, rushed>>
    /\ UNCHANGED <<fixed, jack, tip, chip, ur, responses, pins, suspended, reported, power>>

Clear ==
    /\ worker = "clear"
    /\ Written(DetectCleared(chip))
    /\ Goes("start")
    /\ UNCHANGED <<fixed, jack, tip, ur, pins, driver, reported, power, rushed>>

Start ==
    /\ worker = "start"
    /\ Written(DetectStarted(chip))
    /\ Goes("idle")
    /\ rushed' = (rushed /\ ~(Clean /\ ~chip.ts_open /\ pm = "awake" /\ Reachable))
    /\ UNCHANGED <<fixed, jack, tip, ur, pins, driver, reported, power>>

UnmaskTip_silent ==
    /\ worker = "unmask"
    /\ Written([chip EXCEPT !.ts_open = TRUE])
    /\ Goes("idle")
    /\ UNCHANGED <<fixed, jack, tip, ur, pins, driver, reported, power, rushed>>

(* The Dolphin's line output reports nothing of a jack that moves.         *)
UnmaskTip ==
    /\ worker = "unmask"
    /\ Written([chip EXCEPT !.ts_open = TRUE])
    /\ Goes(IF no_type_dect /\ seen.tip = "trans" THEN "idle" ELSE "report")
    /\ UNCHANGED <<fixed, jack, tip, ur, pins, driver, reported, power, rushed>>

(* The pin sense of exec_verb answers with the flags.                      *)
Report ==
    /\ worker = "report"
    /\ reported' = [hp |-> hp_jack_in, mic |-> mic_jack_in]
    /\ Goes("idle")
    /\ UNCHANGED <<fixed, jack, tip, chip, ur, responses, pins, driver, power, rushed>>

Worker ==
    \/ Drop \/ Respond \/ ReadStatus \/ ReadTip \/ MaskDetection
    \/ CompareFirst \/ CompareSecond \/ Assign \/ Apply \/ Clear \/ Start
    \/ UnmaskTip \/ Report

-----------------------------------------------------------------------------
(* Suspend and resume.                                                     *)

Suspend ==
    /\ pm = "awake" /\ build_ctrl_done
    /\ ur' = FALSE
    /\ pm' = "power down"
    /\ rushed' = (rushed \/ worker # "idle")
    /\ UNCHANGED <<fixed, jack, tip, chip, responses, pins, driver, reported, worker, seen,
                   build_ctrl_done>>

MarkSuspended_kept ==
    /\ pm = "power down"
    /\ suspended' = TRUE
    /\ pm' = "reset"
    /\ UNCHANGED <<fixed, jack, tip, chip, ur, responses, pins, hp_jack_in, mic_jack_in, reported,
                   worker, seen, build_ctrl_done, rushed>>

MarkSuspended ==
    /\ pm = "power down"
    /\ suspended' = TRUE /\ hp_jack_in' = FALSE /\ mic_jack_in' = FALSE
    /\ pm' = "reset"
    /\ UNCHANGED <<fixed, jack, tip, chip, ur, responses, pins, reported, worker, seen,
                   build_ctrl_done, rushed>>

AssertReset ==
    /\ pm = "reset"
    /\ gpio_data' = FALSE /\ gpio' = FALSE
    /\ chip' = OutOfReset
    /\ pm' = "asleep"
    /\ UNCHANGED <<fixed, jack, tip, ur, responses, put, driver, reported, worker, seen,
                   build_ctrl_done, rushed>>

ReleaseReset_held ==
    /\ pm = "asleep"
    /\ gpio' = gpio_data
    /\ tip' = "unplug"
    /\ pm' = "initialise"
    /\ UNCHANGED <<fixed, jack, chip, ur, responses, gpio_data, put, driver, reported, worker, seen,
                   build_ctrl_done, rushed>>

(* cs8409_cs42l42_hw_init writes the driver's copy, cs42l42_resume reads   *)
(* it back and adds the reset bit.                                         *)
ReleaseReset ==
    /\ pm = "asleep"
    /\ gpio_data' = TRUE /\ gpio' = TRUE
    /\ tip' = "unplug"
    /\ pm' = "initialise"
    /\ UNCHANGED <<fixed, jack, chip, ur, responses, put, driver, reported, worker, seen,
                   build_ctrl_done, rushed>>

Initialise ==
    /\ pm = "initialise"
    /\ suspended' = FALSE
    /\ Becomes(DoneCleared(TipCleared(chip)))
    /\ pm' = "enable"
    /\ UNCHANGED <<fixed, jack, tip, ur, pins, hp_jack_in, mic_jack_in, reported, worker,
                   seen, build_ctrl_done, rushed>>

EnableJackDetect ==
    /\ pm = "enable"
    /\ Written([TipCleared(chip) EXCEPT !.ts_open = TRUE])
    /\ pm' = "responses"
    /\ UNCHANGED <<fixed, jack, tip, ur, pins, driver, reported, worker, seen,
                   build_ctrl_done, rushed>>

(* With the controls built the detection is run, unless a jack is known.   *)
EnableUr ==
    /\ pm = "responses"
    /\ ur' = TRUE
    /\ pm' = IF build_ctrl_done /\ ~hp_jack_in THEN "clear" ELSE "report"
    /\ UNCHANGED <<fixed, jack, tip, chip, responses, pins, driver, reported, worker, seen,
                   build_ctrl_done, rushed>>

(* The controls are built once, after the first initialisation.            *)
Build ==
    /\ pm = "awake" /\ ~build_ctrl_done
    /\ build_ctrl_done' = TRUE
    /\ pm' = IF ~hp_jack_in THEN "clear" ELSE "report"
    /\ UNCHANGED <<fixed, jack, tip, chip, ur, responses, pins, driver, reported, worker,
                   seen, rushed>>

ClearResumed ==
    /\ pm = "clear"
    /\ Written(DetectCleared(chip))
    /\ pm' = "start"
    /\ UNCHANGED <<fixed, jack, tip, ur, pins, driver, reported, worker, seen,
                   build_ctrl_done, rushed>>

StartResumed ==
    /\ pm = "start"
    /\ Written(DetectStarted(chip))
    /\ pm' = "report"
    /\ rushed' = (rushed /\ ~(Clean /\ ~chip.ts_open /\ worker = "idle"))
    /\ UNCHANGED <<fixed, jack, tip, ur, pins, driver, reported, worker, seen,
                   build_ctrl_done>>

(* The kernel reports the jacks of a codec that is resumed.                *)
ReportResumed ==
    /\ pm = "report"
    /\ reported' = [hp |-> hp_jack_in, mic |-> mic_jack_in]
    /\ pm' = "awake"
    /\ UNCHANGED <<fixed, jack, tip, chip, ur, responses, pins, driver, worker, seen,
                   build_ctrl_done, rushed>>

Resume ==
    \/ ReleaseReset \/ Initialise \/ EnableJackDetect \/ EnableUr
    \/ ClearResumed \/ StartResumed \/ ReportResumed

-----------------------------------------------------------------------------
(* The speaker switch: cs8409_spk_sw_gpio_put works on the driver's copy   *)
(* of all the pins, and its write waits until the codec is resumed.        *)

NoPut == [value |-> FALSE, under_way |-> FALSE]

PutStore ==
    /\ board = "bullseye" /\ ~put.under_way /\ build_ctrl_done
    /\ SwitchAsleep \/ pm = "awake"
    /\ put' = [value |-> gpio_data, under_way |-> TRUE]
    /\ UNCHANGED <<fixed, jack, tip, chip, ur, responses, gpio, gpio_data, driver, reported,
                   worker, seen, power, rushed>>

PutWrite ==
    /\ put.under_way /\ pm = "awake"
    /\ gpio' = put.value
    /\ put' = NoPut
    /\ chip' = IF gpio' THEN chip ELSE OutOfReset
    /\ UNCHANGED <<fixed, jack, tip, ur, responses, gpio_data, driver, reported, worker,
                   seen, power, rushed>>

-----------------------------------------------------------------------------
Init ==
    /\ board \in {"bullseye", "dolphin"}
    /\ no_type_dect \in (IF board = "dolphin" THEN BOOLEAN ELSE {FALSE})
    /\ jack \in Kinds /\ tip = "unplug"
    /\ chip = OutOfReset
    /\ ur = FALSE /\ responses = 0
    /\ gpio = FALSE /\ gpio_data = FALSE
    /\ put = NoPut
    /\ suspended = TRUE /\ hp_jack_in = FALSE /\ mic_jack_in = FALSE
    /\ reported = [hp |-> FALSE, mic |-> FALSE]
    /\ worker = "idle" /\ seen = Nothing
    /\ pm = "asleep" /\ build_ctrl_done = FALSE
    /\ rushed = FALSE

Environment == Move \/ OtherCodec \/ PutStore \/ PutWrite

Hardware == TipSensed \/ Detected

PowerDown == MarkSuspended \/ AssertReset

Next == Environment \/ Hardware \/ Worker \/ Suspend \/ PowerDown \/ Resume \/ Build

Spec == Init /\ [][Next]_vars

(* The chip senses and detects, the worker is scheduled, and a suspend or  *)
(* a resume that has begun is carried through.  A detection, which takes   *)
(* much longer than a handler's reads, does not always end between them.   *)
FairSpec ==
    /\ Spec
    /\ WF_vars(TipSensed) /\ WF_vars(Detected) /\ SF_vars(worker = "idle" /\ Detected)
    /\ WF_vars(Worker) /\ WF_vars(PowerDown) /\ WF_vars(Resume) /\ WF_vars(Build)

-----------------------------------------------------------------------------
(* Properties.                                                             *)

Steps == {"idle", "status", "tip", "mask", "manual", "compare", "assign", "apply",
          "clear", "start", "unmask", "report"}

Phases == {"awake", "power down", "reset", "asleep", "initialise", "enable", "responses",
           "clear", "start", "report"}

(* Every variable keeps its type.                                          *)
TypeOK ==
    /\ board \in {"bullseye", "dolphin"} /\ no_type_dect \in BOOLEAN
    /\ jack \in Kinds /\ tip \in Tips
    /\ chip \in Chip
    /\ ur \in BOOLEAN /\ responses \in 0 .. MaxResponses
    /\ gpio \in BOOLEAN /\ gpio_data \in BOOLEAN
    /\ put \in [value : BOOLEAN, under_way : BOOLEAN]
    /\ suspended \in BOOLEAN /\ hp_jack_in \in BOOLEAN /\ mic_jack_in \in BOOLEAN
    /\ reported \in [hp : BOOLEAN, mic : BOOLEAN]
    /\ worker \in Steps /\ seen \in Readings
    /\ pm \in Phases
    /\ build_ctrl_done \in BOOLEAN /\ rushed \in BOOLEAN

(* The driver and user space know what is in the jack.                     *)
Known(k) ==
    /\ hp_jack_in = (k # "none")
    /\ mic_jack_in = (k = "headset" /\ ~no_type_dect)
    /\ reported = [hp |-> hp_jack_in, mic |-> mic_jack_in]

Settled == ~Busy /\ build_ctrl_done /\ tip = TipOf(jack)

(* Once everything has come to rest the driver and user space know what is *)
(* in the jack, after any suspends and resumes, unless the jack moved or a *)
(* suspend began under a handler or a detection, or a handler was at work  *)
(* before the responses were enabled, and until the next plug.             *)
JackRight == Settled /\ ~rushed => Known(jack)

(* While the codec is awake and no handler runs it waits for the next plug *)
(* or unplug, or for its detection to end: whatever a suspend, a resume or *)
(* the building of the controls does to the masks under a handler.         *)
Watches(x) == x.ts_open \/ (x.done_open /\ (x.detecting \/ x.done))

JackWatched == pm = "awake" /\ worker = "idle" => Watches(chip)

(* An interrupt the chip raises has a response to be handled: without one  *)
(* its line stays low, no other interrupt makes an edge, and the driver is *)
(* deaf to the jack for good.                                              *)
NeverDeaf ==
    pm = "awake" /\ build_ctrl_done /\ worker = "idle" /\ ~rushed =>
        (Interrupt(chip) => responses > 0)

(* An awake codec is out of reset, whenever the speaker switch is thrown   *)
(* while it is awake: its write goes to the register with the reset bit.   *)
AwakeOutOfReset == pm = "awake" => gpio

(* Again and again user space knows the jack of an awake codec, unless it  *)
(* keeps moving under the handler: no move and no detection is forgotten.  *)
JackReported ==
    (pm = "awake" /\ build_ctrl_done) ~> (Known(jack) \/ rushed \/ pm # "awake")

=============================================================================
