# A TLA+ verification of the MacBookPro14,1 sound driver

The repository makes the hardware of a MacBookPro14,1 work under Linux. Its
program proper is an ALSA HDA codec driver: the CS8409 bridge chip with Apple's
CS42L83 headset codec behind it (`src/patch_cirrus`). This directory holds
TLA+ models of that driver, the TLC runs that check them on small instances, and
TLAPS proofs of what holds for every instance. The rest of the repository is
scripts and data (see *What is not modelled*).

Everything below names source files relative to `src/patch_cirrus/`, with
`new84.h`, `real84.h`, `real84_i2c.h`, `boot84.h` for `patch_cirrus_*.h`.

## 1. Inventory

| component | state | operations | talks to |
|---|---|---|---|
| blocked unsolicited responses (`new84.h` 1283-1380) | `block_unsol`, `unsol_list`, ten preallocated items and their `used` marks | respond, store, perform the stored ones | called by the HDA core's unsolicited work and by the PCM hooks; calls the jack handlers |
| headset jack (`real84.h` 3437-5707, `real84_i2c.h`) | `jack_present`, `have_mike`, `headset_enable`, the setup-needed flags; status and mask registers of the CS42L83 | plug, type detection, button detection, unplug | the codec's interrupt line, jack reporting, the sound paths |
| PCM hooks (`new84.h` 1531-1925) | `playing`, `capturing`, init counts, setup-needed flags | prepare and cleanup of playback and capture | read the jack state, run verb blocks, perform stored responses |
| jack reporting (`cirrus_apple.h` 1396-1441, 1871-1921) | `jack_dirty` of the kernel's jack table | mark, answer the pin sense, report | the kernel's jack layer |
| sound paths: TDM, converters, amplifiers (`real84.h` 74-2043, 3775-4600) | coefficient registers | set up, stop | called by hooks and handlers |
| stream format cache (`new84.h` 860-957) | `hda_cvt_setup_apple` records | store, really update | PCM hooks, generic HDA code |
| boot setup (`real84.h` 2072-3150, `boot84.h`) | `headset_phase` | one pass at probe | all of the above |
| input controls (`cirrus_apple.h` 1694-1744) | the generic parser's ADC list | create controls | generic HDA code |
| CS8409 I2C bridge (`cs8409.c` 85-370) | mutex, clock-off work, `last_page`, `suspended` | read, write, bulk read and write | every access to the companion codec |
| CS42L42 companion codec (`cs8409.c` 630-1090) | jack flags, `suspended`, reset line | unsolicited event, suspend, resume | I2C bridge, jack reporting |
| dolphin boards (`cs8409.c` 1243-1305) | two companion codecs | as above | |
| probe and fixups (`patch_cs8409.c`, `cirrus_apple.h`) | none after probe | fixup actions | generic HDA parser |
| scripts: driver install, DKMS, hardware fixer, Bluetooth firmware, fan, tests | files | sequential | the system |

What is hard here:

* **Concurrency.** A jack event arrives as an unsolicited response in the HDA
  core's work; streams are prepared and cleaned up in user threads. Both run
  *verb blocks* that last seconds. The driver has no lock around them, only the
  flag `block_unsol`, which makes the worker store a response for later.
  (`NOTES.md` 2-11 says why and what is still open.)
* **Ordering with the chip.** The CS42L83 raises one level interrupt for all its
  events; reading a status register clears it; masks are rewritten as the
  headset moves through its phases. An edge cleared by the wrong read is gone.
* **State remembered across steps.** `jack_present` is read when a stream is
  prepared and again when it is cleaned up; `switch_input_src` *toggles*; the
  setup-needed flags remember what a stream has already set up.
* **Shared registers.** The speakers, the headphones and the two microphones share
  serial ports, buses, converters and the function group of the bridge; each path
  is set up and taken down by functions that know nothing of the others.
* **Suspend.** The CS42L42's suspend and resume meet its interrupt handler at any
  point; what one forgets the other may write afterwards.
* **Bounds.** Ten items in the pool; eleven turns of the status read loop.

What makes each component correct:

* responses: each one runs once, no two verb blocks overlap, items are neither
  leaked nor given out twice, the list stays intact, blocking always ends;
* headset: when things are quiet the driver, the masks, the input path and user
  space agree with the jack; sound goes to the headphones exactly when they are
  plugged in; nothing streams that nobody uses; every event is dealt with;
* hooks: what a prepare turned on a cleanup turns off;
* sound paths: the stream that runs has every stage of one path from converter
  to plug, in its own format, and the other paths are off;
* companion codec: awake, it is out of reset, watches its jack and is heard;
  at rest the driver and user space know what is in the jack;
* I2C bridge: no access with the clock off or while suspended, the page register
  always matches the cache.

The hazards, each at its line and with the properties aimed at it, are listed in
`PROJECT.json`.

## 2. Modules

| module | what it is |
|---|---|
| `SerialResponses` | abstract: what blocking the responses is for |
| `UnsolQueue` | the queue, its two contexts, one shared access per step |
| `UnsolQueue_proofs` | theorems that hold under every interleaving, and about paced contexts: serial blocks, the list, the items |
| `UnsolQueueRefines_proofs` | the paced queue implements `SerialResponses` |
| `HeadsetJack` | jack, chip, handlers, PCM hooks |
| `HeadsetJack_proofs` | types, and what holds whatever the jack does |
| `HeadsetJackPatient_proofs` | what the driver knows of a patient jack, and where the sound goes |
| `CS8409Paths` | operators: the functions that set up and take down a path of the bridge |
| `CS42L83` | operators: the functions that write the headset codec's registers |
| `SoundPaths` | composes both with boot, handlers and PCM calls |
| `CS8409Paths_proofs` | lemmas: what each function does to a bridge |
| `SoundPaths_proofs` | the codec's sequences, the invariant, and theorems about `SoundPaths` |
| `I2CBridge` | register accesses, I2C clock, suspend and resume of the CS8409 bridge |
| `MCI2CBridge` | `I2CBridge` with a symmetry set for TLC (callers are alike), for `i2c_waits` |
| `I2CBridge_proofs` | theorems about the bridge |
| `CS42L42Jack` | the companion codec's jack, its handler, suspend and resume |
| `CS42L42Jack_proofs` | theorems about it |

### UnsolQueue

State: `block`, `used`, `item`, `list` are `spec->block_unsol`,
`unsol_items_prealloc_used`, `unsol_items_prealloc` and `unsol_list`. `pc`,
`pos` (`unsol_entry`), `nxt` (`unsol_temp`) and `resp` are the two contexts'
positions and locals. `arrived`, `handled`, `lost` are history; `broken` is set
by the step that corrupts the list, after which the model stops, since the
memory the kernel would touch next is arbitrary.

The *worker* raises a response and runs `cs_8409_cs42l83_unsolicited_response`
(`Raise`, then `Claim`/`Ignore`/`Append_item`, or `Take`/`Finish_taken`). The
*pcm* context makes one of three kinds of call (`Call`): without a jack the
`*_real` function performs the responses and unblocks, then the hook does both
again; with a jack only the hook does; a repeated prepare runs the hook alone.
Both contexts share `Perform`, the iteration
`list_for_each_entry_safe` with each of its accesses a step of its own. A verb
block begins and ends in different steps and is otherwise empty: what it does is
`HeadsetJack`'s subject.

There is one worker because the HDA core handles unsolicited events in one work
item, and one PCM context because prepare and cleanup are serialised by the
generic code's and ALSA's locks per stream; playback and capture calls at the same
time are not modelled.

`Paced` separates the two questions one can ask. `FALSE`: every interleaving,
the kernel as it is. `TRUE`: the PCM thread moves only between two responses of
the worker, no response is raised while a hook performs the stored ones or between
freeing and zeroing an item: what the author gets by
waiting "a few seconds after eg plugging in before starting to play" (`NOTES.md`
10). Blocking, storing and performing still happen in every combination: a
response during a verb block, several of them, more than the pool holds, one
during the performing of others.

### HeadsetJack

State: the chip (`status`, `unmasked`, `detecting`, `armed`, `sensed_mike`), the
driver's flags under their own names, the sound paths as Booleans (`amps`, `hs`,
`intmic`, `hsmic`, `inputs`) and `input_path`, what user space was told
(`reported`, `dirty`), and the point where the handler is (`h`).

A handler is split exactly where the jack can move under it and the code looks
again: at each status read, headphone sense and interrupt-mask change. The PCM
calls are two steps: the verbs, and the hook after the stored responses ran.
The handlers that run between the two are those of responses stored
meanwhile. Handlers and PCM verbs do not overlap here; that they can is
`UnsolQueue`'s finding, and modelling it would only say that everything can
fail.

`raised` becomes true when the level of the interrupt line changes in either
direction, as the comment at `real84_i2c.h` 1307 observes: one response with the
interrupt set and one with it cleared.

`JackPatient` says whether the user waits until all is quiet before moving the
jack, which the stronger properties need, as `NOTES.md` 8-11 admits. Streams start
and stop between any two handlers. `crossed` becomes true, for good, when a PCM
call comes while handlers are due: where the sound goes is promised only until
then, what is known of the jack is promised even afterwards.

Abstracted: verbs and coefficient values (`SoundPaths` has them), headset types
beyond "has a microphone", button presses after detection, volume, and a second
prepare without a cleanup.

### SoundPaths, CS8409Paths, CS42L83

The other half of the Apple driver: what its handlers and PCM calls *write*.
`CS8409Paths` has a state of the bridge as a record: which TDM slots are connected,
which buses, clocks, serial ports, converters, pins and amplifiers are on, and for
each converter the stream tag, channel and format the codec has, the one the
kernel's `cvt_setups` remembers and the one the driver's `hda_cvt_setup_apple`
does. `CS42L83` has a state of the headset codec in the same way. Each function of
`real84.h` and `real84_i2c.h` that sets up, switches or disables a path is an
operator from a state to the next, under its own name where it has one;
`snd_hda_codec_setup_stream` and the cleanup of streams are the kernel's, as the
driver calls them. `AmpKind` chooses between the three kinds of speaker amplifiers.

`SoundPaths` composes them. `c` and `x` are the bridge and the codec, `jack` and
`stage` what is plugged in and which handler is due, the others the driver's flags.
A boot, a handler or a PCM call with its hook is one step; the jack moves when no
handler is due, or again before the headset's type or buttons are detected; PCM
calls come when none is due. (`HeadsetJack` has them in between, without the
registers.) Booting finds nothing, phones, a headset, or one whose type detection
does not answer in time (`BootLate`). A stream may be prepared again before it is
cleaned up, in the same or another format.

History: `heard` is the format of the playback, `alone` says that nothing was being
recorded when it was first prepared, `taken` is the converter and format of the
recording, `undisturbed` that no playback stopped and the jack kept still since it
began, `pulled` that a headset was ever pulled out of a recording. Each marks
a case section 4 lists.

Left out: gains, the input selects of coefficient 9, what is written once with one
value, the fixed sleeps, and the kernel's purge of cached formats of inactive
converters.

### I2CBridge

The bridge of `cs8409.c`, which the boards with a CS42L42 use (the Apple codec has
its own accesses, without a lock). State: `i2c_mux`, `i2c_clck_enabled`, `dev_addr`,
and per codec `suspended` and `last_page` under their own names; `queued` and
`running` are `i2c_clk_work`; `in_reset` and `page` are the codec chips. Coefficient
0 and the I2C address register are written together with the variables that
remember them, so one variable stands for both.

A thread makes accesses one after another: test `suspended`, take the mutex and
set the address, enable the clock, write the page if it differs, wait, remember
the page, transfer, wait, and either go on with the next register of a sequence
or unlock. `cs8409_i2c_read` and `_write` are sequences of one. Every wait
may time out. Registers are abstracted to their pages, values are left out.
The thread `PM` suspends and resumes the codecs one by one, with accesses of its
own in between, any number of them. During `cancel_delayed_work_sync` the work
cannot be queued, as in the kernel.

`SuspendWaits` says whether a suspend finds the other threads outside their
accesses and keeps them out; the driver does nothing for that, it depends on
who calls. `LateWrites` says whether a page write may still reach its codec after
the 20 ms the driver waits. A page write to a codec in reset has no effect.

### CS42L42Jack

One codec of its board: that of a Bullseye, Warlock or Cyborg, or either of the two
of a Dolphin, where `no_type_dect` may be set and the other codec only adds
responses. `jack` and `tip` are the jack and what tip sense makes of it (`"trans"`
while it moves), `chip` the codec's two interrupts with their masks, its detection
and the type found. A falling edge of the interrupt line raises a response, at
most `MaxResponses` of them wait, as in the kernel's ring.

The *worker* runs `cs42l42_jack_unsol_event` in steps: read (and clear) the
detection's status, read tip sense, mask, and, when the detection found no headset,
compare twice as the manual one does; then assign the type, let
tip sense through again or start a detection, and report. The *power
management* thread runs suspend and resume: mark suspended, assert reset; release it,
initialise, enable the detection, the responses, and run the detection again with
its own report, `Build` being the same at the end of probe. The speaker switch
(`PutStore`, `PutWrite`) takes a copy of the pins and writes it in another step.
Accesses to a suspended codec have no effect.

`SwitchAsleep` says whether the switch may be thrown while the codec is suspended.
`rushed` becomes true when the jack moves, or a suspend begins, under a
handler or a detection, and when a handler runs into the power-down or finds a type
before resume has enabled the responses. It is false again when a detection starts
afresh, or an unplug is taken note of, with nothing pending. `JackRight`, `NeverDeaf`
and `JackReported` ask for that much rest, `JackWatched` and `AwakeOutOfReset` for none.

I2C accesses are whole here (`I2CBridge` has what is in them) and do not fail;
mute and volume (`cs8409.c` 516-640) are left out.

## 3. Runs

| run | asks | bounds |
|---|---|---|
| `queue_paced` | does the queue do its job when the contexts are paced: `SerialBlocks`, `ListIntact`, `SlotsAccounted`, `NothingStranded`, and the refinement `ImplementsSerialResponses` with liveness | pool of 2, 5 responses: the pool fills, overflows and is reused |
| `queue_free` | does blocking always end, whatever the interleaving: `BlockHasOwner`, `BlockEnds`, `TypeOK` | pool of 2, 3 responses: one running, two stored, and slots reused |
| `jack_pcm` | patient jack, streams at any time: `JackKnown`, `NextEdgeWatched`, `InputPathRight`, `PlugReported`, `Settles`, and `PlayRoute`, `NothingLeftOn` while no PCM call has crossed a handler | `LoopMax` 2 |
| `jack_free` | anything at any time: `ForgottenWhenUnplugged`, `DetectionWatched`, `TypeOK` | `LoopMax` 1: one repeated read and the exit by count |
| `sound` | is the stream that runs heard or recorded, by one route, and the rest off, after booting, plugging, playing and recording in any order: `SpeakersPlay`, `HeadphonesPlay`, `HeadsetRecords`, `InternalRecords`, `OneRoute`, `QuietWhenStopped`, `CodecListens`, `TypeOK` | one board, a stereo and a four-channel playback format, one recording format, both capture converters; endless calls |
| `i2c_waits` | quiet suspends: `RightRegister`, `TransfersAwake`, `ClockOffAsleep` | two callers, two codecs, two pages: every shared register has a rival, suspend takes two rounds |
| `i2c_free` | suspend at any point, late page writes: `ClockWhileTransferring`, `ClockWillStop`, `TypeOK`, and does every access and suspend end: `AccessEnds`, `SuspendEnds` | one caller, one codec beside PM and the work: three rivals for the mutex |
| `cs42l42` | is the jack known, reported and watched through suspends and resumes at any point: `JackRight`, `JackWatched`, `NeverDeaf`, `AwakeOutOfReset`, `JackReported`, `TypeOK` | `MaxResponses` 3: enough left over from before a suspend for a whole detection during the resume; `SwitchAsleep` FALSE |
| `queue_serial`, `queue_list`, `jack_lost`, `i2c_asleep` | one counterexample each, to a sentence of the repository (section 4) | as small as shows it |

The pool has ten items in the driver; nothing in the code depends on the number
but the search loop, and the theorems hold for every size. `LoopMax` is 11 in the
driver; the loop's turns are alike, and the theorems hold for every number. The
kernel's ring holds 64 responses; the handler reads the level of the line and
not the count. There is one jack, one headset at a time, and streams may start and
stop for ever: those models are not bounded otherwise. In `SoundPaths` the counts
of prepares stop at 2, for they are only compared with 1. The three kinds of
amplifiers differ in `CS8409Paths` only in that `max` and `ssm3` pairs are on once
they are set up while a `tas576` pair waits to be enabled; the run takes those of
the MacBookPro14,1, `ssm3`.

`queue_free` does not check deadlock: the model stops on a corrupted list.

Each property of a passing run has a slip in the code that breaks it: a
definition next to the right one with a name that says what is wrong
(`Free_unchecked`, `Filled_no_idx`, `MaskPlug_forgotten`, ...). They are used
nowhere else.

**Fairness.** Weak fairness of the worker, of the PCM context, of the handlers
and of the hooks: each is a kernel thread inside a function whose loops are
bounded. Weak fairness of the chip: type detection and button detection
answer. None for raising responses, moving the jack or calling the PCM
operations. In `I2CBridge`, strong fairness of what waits for the mutex (a Linux
mutex hands over to its waiters), of the end of a sequence (its length is fixed
when it begins) and of the power-down and initialisation PM does; weak fairness of the rest
of what has begun; none for beginning accesses, suspend and resume. In
`CS42L42Jack`, weak fairness of the chip, of the worker and of a suspend or resume
that has begun, and strong fairness of a detection's end while the worker is idle:
a detection takes far longer than the reads of a handler, so it does not end
between them every time. `AccessEnds`, `SuspendEnds`, `BlockEnds`, the refinement,
`PlugReported`, `Settles` and `JackReported` use it.

## 4. Disagreements

* `queue_serial`: `NOTES.md` 4 says the response verb blocks are done serially.
  The hooks set `block_unsol = 0` (`new84.h` 1693, 1722, 1873, 1911) before they
  perform the stored responses.
* `queue_list`: `new84.h` 1297 frees an item that 1298 zeroes. A response
  stored in between is linked and then wiped.
* `jack_lost`: `real84.h` 4876 leaves a vanished headset to the unplug interrupt,
  which `real84_i2c.h` 191 has cleared. The driver then watches for an unplug
  that cannot come: the next headset goes unnoticed.
* `i2c_asleep`: `cs8409.c` 204 tests `suspended` before it takes the mutex; an
  access in between two others of an unsolicited response enables the clock of
  a bridge that has been suspended meanwhile (`cs8409.c` 1033 wants it off).

More were met while modelling and are not runs: no sentence of the repository
promises the opposite, or the user has to be quick. The properties say which cases
they leave to this list.

The Apple codec's sound paths:

* `new84.h` 1797 thinks capturing with a headset without a microphone
  impossible; the hook is reached with one, and sets nothing up.
* `real84.h` 3248 powers the inputs off when playback stops, 4043 the function
  group, and 1874 clears the bus bit both directions share: a recording that
  goes on is disturbed (`undisturbed`).
* `new84.h` 1593-1595: a recording with the headset's microphone sets the headphones
  up for its clocks; a playback that starts then finds nothing needed, and its
  converter keeps the old tag and format (`alone`).
* `new84.h` 1548: a second prepare without a cleanup only stores its format
  (`play_init_count`).
* `real84.h` 5505: a headset pulled out while only recording leaves the output
  half of the codec powered (`pulled`).
* `real84.h` 4756: a cleanup between a plug and the end of its type detection
  stops the headphones and leaves the amplifiers on (`crossed`).
* `real84.h` 5660 with `new84.h` 965: an unplug between type and button detection
  toggles the input source, which the plug has not toggled yet (`JackPatient`).
* `cirrus_apple.h` 1251: resume restores nothing of the Apple registers.

The bridge and the CS42L42:

* With `LateWrites`, `RightRegister` fails: `cs8409.c` 183 leaves `last_page` as it
  was when a page write times out, and if the codec took the page a later read
  of the old page succeeds on the wrong one.
* `cs8409.c` 810-850: an unplug between the read of the detection's status and
  that of tip sense is cleared by the second and handled as the first (`rushed`).
* `cs8409.c` 1021 and 1212: a handler that outlives the suspend sets `hp_jack_in`
  again, and resume then leaves the detection out. So does one that handles responses
  of before the suspend once `suspended` is clear (892): with three of them left over it
  finds a jack, resume leaves out the detection that would clear the masks, and an
  interrupt raised before the responses were enabled holds the line for good. Only an
  attempt to prove `NeverDeaf` showed it, for a queue of two is too short (`rushed`).
* `cs8409.c` 1085: an edge between letting tip sense through and enabling the
  responses raises none.
* `cs8409.c` 1208: resume, or the building of the controls, starts a second detection
  under a handler that runs one, and both interrupts are let through together.
* `cs8409.c` 437-451: the speaker switch thrown while suspended writes the reset bit
  as it was then; if the resume comes in between, it puts the codec into reset
  again. With `SwitchAsleep`, `AwakeOutOfReset` fails.

## 5. Proofs

`UnsolQueue_proofs` (every pool size, every number of responses, `Paced` or not):

* `TypeCorrect`: `Spec => []TypeOK`. The inductive invariant `TypeInv` adds
  that the worker's cursor is a pool slot while it fills an item, and that what
  it runs or stores was raised. Lemmas type the list operations.
* `BlockAlwaysHasOwner`: `Spec => []BlockHasOwner`, by an invariant on the
  points at which each context can be when `block_unsol` is set: the flag may be
  cleared early by the other context, but it is never left set by the last one
  that set it.

The same module, assuming `Paced`:

* `BlocksSerial` (`SerialBlocks`), from `PacingInv`: at which points one context can
  be while the other is at one of its own.
* `ListStaysIntact`, `SlotsStayAccounted`, `NothingIsStranded`, from `ListInv`: the
  items on `list` are linked and carry their own index (`LinkedInv`), an item being
  filled is neither on it nor being run (`FillInv`), the cursor and its saved successor
  are at the head, for nobody else unlinks (`CursorInv`), and the list is empty when both have gone home
  (`EmptyInv`). `UnlinkEffect` and `AppendEffect` say what the two list
  operations do to such a list. The run `queue_list` shows that pacing is needed.

`UnsolQueueRefines_proofs` (every pool size and number of responses, assuming `Paced`):

* `QueueImplements`: `Spec => Abstract!Spec`. `IdInv` says that a response is in one
  place only, and runs when it has left the list. `StepMaps` then takes every
  step to `Arrive`, `Ignore`, `Start`, `Finish` or a stutter of `SerialResponses`. The step that
  ignores a response needs the most: `AllTaken` counts, by a pigeonhole argument
  over the pool's slots, that as many others as the pool holds are waiting or
  running, which the abstract specification asks of an overflow. Fairness, the
  other half of the refinement, is TLC's.

`HeadsetJack_proofs` (every `LoopMax`, both patiences):

* `TypeCorrect`: `Spec => []TypeOK`.
* `HeadsetForgotten`: `Spec => []ForgottenWhenUnplugged`, and
  `DetectionAlwaysWatched`: `Spec => []DetectionWatched`. Both follow from
  `JackInv`: PLUG is unmasked alone and otherwise UNPLUG is (`MaskInv`); which
  handlers can be running follows from the masks (`HandlerInv`); and with PLUG
  unmasked the flags are clear except at the end of a disconnect (`MemoryInv`).
  The masks must be part of it because the code has no other record of the phase
  a headset is in.

`HeadsetJackPatient_proofs` (every `LoopMax`, assuming `JackPatient`):

* `JackAlwaysKnown`, `EdgeAlwaysWatched`, `InputPathAlwaysRight`. A jack that is moved
  only at rest goes through six stages, from the plug being seen to the last headset
  being forgotten; `StageInv` says for each what is pending, unmasked and
  remembered and where the handler can be. At rest only the two stages are left in which
  the driver knows all of it.
* `SoundRouted` (`PlayRoute`) and `NothingStaysOn` (`NothingLeftOn`), from `RouteInv`:
  what each of those stages leaves of the sound paths, the setup-needed flags and
  the counts, until a PCM call crosses a handler.

`CS8409Paths_proofs` and `SoundPaths_proofs` (every amplifier kind, any playback and
capture formats):

* `TypeCorrect` (`TypeOK`), and every other invariant of the run `sound`: `SpeakersAlwaysPlay`,
  `HeadphonesAlwaysPlay`, `HeadsetAlwaysRecords`, `InternalAlwaysRecords`, `OneRouteOnly`,
  `StoppedIsQuiet`, `CodecAlwaysListens`. All follow from `Invariant`:
  `Spec => []IndInv`, which TLC checked first, on `ssm3` and on `tas576` amplifiers.
* `CS8409Paths_proofs` says of each function of the bridge which parts it may change
  (`Keeps`, `Sets`) and what these are afterwards; the first part of `SoundPaths_proofs`
  says the same of the codec's sequences. A step of `SoundPaths` is a composition of
  up to a dozen of them, and its proof cites the effects and never opens a function.
* `IndInv` is what the stages of the jack leave of the hardware. `FlagsInv`, `StreamsInv` and `NeededInv`
  are the driver's own flags: nothing is recorded of the speakers, so whether they carry the
  stream must be told from the stage and the flags. `SpeakersInv` and `OutputInv` say when each
  output must be off, `InputInv` and `ConvertersInv` the same of the inputs; the functions that turn
  one on do not look at the others. `PhonesInv`, `HeadsetInv` and `InternalInv` are the paths
  that are on, `StoreInv` what a later setup will find stored for a converter, and `CodecInv` the
  detection. `SpeakersPlay` is inductive only beside `StreamsInv`: after an unplug the speakers
  get the stored format, which must still be that of the stream.

`I2CBridge_proofs` (any callers, codecs and pages):

* `TypeCorrect`, `ClockKept` (`ClockWhileTransferring`) and `ClockStops`
  (`ClockWillStop`), without further assumptions, from `BaseInv`: a thread is
  between lock and unlock exactly when it holds the mutex (`MuxInv`), and the
  clock is on from its enabling to the end of the transfer (`ClockInv`), which
  the work cannot disturb because it needs the mutex.
* `TransfersRight` (`RightRegister`), `CodecsAwake` (`TransfersAwake`) and
  `AsleepClockOff` (`ClockOffAsleep`), assuming `Quiesced` (`SuspendWaits`, not
  `LateWrites`), from `QuietInv`: nobody is inside an access to a suspended codec
  (`ActiveInv`), reset lies within suspended (`ResetInv`), the remembered page is the
  codec's except between two named steps (`CacheInv`), the holder's address and
  page stay (`SettledInv`), and after the last codec the clock runs down
  (`SleepInv`). `CacheInv` is why the order of storing `last_page` and of the reset
  matters. The run `i2c_asleep` shows that the first is needed.

`CS42L42Jack_proofs` (any number of responses):

* `TypeCorrect`: `Spec => []TypeOK`.
* `CodecOutOfReset` (`AwakeOutOfReset`), assuming `~SwitchAsleep`, from `ResetInv`: a
  write of the pins under way carries the reset bit, which only the power
  management thread clears.
* `AlwaysWatched` (`JackWatched`), under the same assumption, from `JackInv`: between
  its initialisation and its next reset the codec watches the jack or the end of a detection, or the
  worker has taken the masks away and is at a point that leads to letting one through
  (`WatchInv`), where what it has read decides (`HandlerInv`). `ResetInv` is needed
  because masks written to a codec in reset are lost.
* `JackAlwaysRight` (`JackRight`) and `NeverGoesDeaf` (`NeverDeaf`), under the same
  assumption, from `RestInv`, which TLC checked first for three responses. `BasisInv`
  holds however rushed the threads are: how the phases of a resume go with the responses
  and with `suspended`, when the end of a detection may be let through, and that a
  changed flag is going to be reported (`ToldInv`). `CalmInv` holds unless they are
  rushed. Its core is `HeardInv`, an interrupt that is raised has a response or a handler
  that has not yet read it, and `KnownInv`, the flags are the jack's or something is still
  to be seen or done. An interrupt can hide another only if both are let through, and then
  the jack keeps still (`BothInv`). `FoundInv` and `StaleInv` tie what the handler read to
  the jack, `ReadPlugInv` and `EarlyInv` a plug that was read, or that a resume meets, to
  what is still there; `FlagInv` says what a resume may believe. One lemma for each action
  says what it does (`MoveEffect`, ...); from it follow what it does to the two parts.

Assumptions used: `PoolAssumption`, `PacedAssumption`, `LoopAssumption`,
`PatienceAssumption`, `ThreadAssumption`, `CodecAssumption`, `ResponsesAssumption`,
`SwitchAssumption`, `AmpAssumption`, which only say what kind of value the constants are;
`FormatAssumption`, that the value for "no format" is not one of the formats (those of
`cirrus_apple.h` 1103-1142 are all other than 0); and, where
a theorem names them, `Paced`, `JackPatient`, `Quiesced` and `~SwitchAsleep`, which
are choices of the model explained in section 2.

Every invariant of the passing runs is proved. Only model-checked is liveness, which is
beyond the prover: `BlockEnds`, the fairness half of `ImplementsSerialResponses`,
`PlugReported`, `Settles`, `AccessEnds`, `SuspendEnds`, `JackReported`.

## 6. Plan

Done: the queue with its refinement, the headset jack, the I2C bridge, the sound
paths with boot and format cache, the companion codec, and proofs about all of them.
Left, in this order:

1. `HeadsetJack` over `UnsolQueue`: the handlers as the verb blocks the queue runs.
2. `RegisterFile`, an abstract register file that `I2CBridge` implements, and
   `AppleI2C`: the lockless accesses of `new84.h` 249-470 against the same one.
3. `AdcShrink`: the input controls' list against a reference definition.
4. Mute and volume of the CS42L42, which resume restores from the driver's copy.

## 7. What is not modelled

Kernel code (ALSA, the generic HDA parser, the HDA bus) appears only as the
driver uses it. The Apple codec's input controls are made once at probe and keep no
state. Of the boot, the clock, GPIO and I2C set-up of the bridge, sequences of
constant writes, is left out; `boot84.h` is a recording of it. Probe and fallback
patching run once, in order. The recorded verb tables are constants. The install, DKMS,
fixer, Bluetooth, fan and test scripts are sequential file, network and sysfs I/O.
`PROJECT.json` lists each with its reason.
