------------------------------ MODULE I2CBridge -----------------------------
(***************************************************************************)
(* The I2C bridge of the CS8409 (cs8409.c): register accesses of several   *)
(* threads to the companion codecs behind it, the work that stops the I2C  *)
(* clock, and suspend and resume.                                          *)
(*                                                                         *)
(* An access selects a codec, writes the codec's page register if the page *)
(* remembered in last_page is another, and then transfers the register.    *)
(* Registers are abstracted to their pages.                                *)
(***************************************************************************)
EXTENDS Integers

CONSTANTS
    Callers,        \* threads: unsolicited work, controls, PCM hooks
    PM,             \* the thread that suspends and resumes
    NONE,           \* nobody holds the mutex
    NumCodecs,      \* num_scodecs
    Pages,          \* register pages the driver uses
    ResetPage,      \* page register of a codec after reset, last_page = 0
    SuspendWaits,   \* TRUE: a suspend waits for the accesses of the callers
    LateWrites      \* TRUE: a page write that timed out may reach the codec

ASSUME ThreadAssumption == PM \notin Callers /\ NONE \notin Callers \cup {PM}

ASSUME CodecAssumption == NumCodecs \in Nat \ {0}

ASSUME PageAssumption == ResetPage \notin Pages

ASSUME ModeAssumption == SuspendWaits \in BOOLEAN /\ LateWrites \in BOOLEAN

VARIABLES
    \* struct cs8409_spec
    i2c_mux,            \* who holds the mutex
    i2c_clck_enabled,   \* and bit 3 of coefficient 0, always written together
    dev_addr,           \* and the I2C address register, likewise
    \* i2c_clk_work
    queued, running,    \* its timer is set; cs8409_disable_i2c_clock_worker runs
    \* struct sub_codec, one each
    suspended, last_page,
    \* the codec chips
    in_reset, page,
    \* control
    pc, op,             \* the threads: point in an access, its codec and page
    stage, cur          \* suspend and resume: how far, and with which codec

clock   == <<i2c_clck_enabled, queued, running>>
codecs  == <<suspended, last_page, in_reset, page>>
power   == <<stage, cur>>
threads == <<pc, op>>
vars    == <<i2c_mux, dev_addr, clock, codecs, threads, power>>

-----------------------------------------------------------------------------
Codecs == 1 .. NumCodecs

Threads == Callers \cup {PM}

(* Points of an access at which its thread holds the mutex, and those at   *)
(* which the codec is being talked to.                                     *)
Held == {"locked", "page", "paging", "paged", "access", "waiting", "unlock"}

Transferring == {"paging", "waiting"}

Init ==
    /\ i2c_mux = NONE
    /\ i2c_clck_enabled = FALSE /\ queued = FALSE /\ running = FALSE
    /\ dev_addr = 0
    /\ suspended = [c \in Codecs |-> TRUE]
    /\ last_page = [c \in Codecs |-> ResetPage]
    /\ in_reset = [c \in Codecs |-> TRUE]
    /\ page = [c \in Codecs |-> ResetPage]
    /\ pc = [t \in Threads |-> "idle"]
    /\ op \in [Threads -> [codec : {1}, page : {ResetPage}]]
    /\ stage = "asleep" /\ cur = 1

Goto(t, p) == pc' = [pc EXCEPT ![t] = p]

-----------------------------------------------------------------------------
(* One access, or a sequence of them.                                      *)

(* The suspend and resume sequences talk to one codec at a time.           *)
MayAccess(t, c) ==
    IF t = PM THEN stage \in {"down", "up"} /\ c = cur
    ELSE SuspendWaits => stage \notin {"down", "suspended", "forgotten"}

Begin_unchecked(t) ==
    /\ pc[t] = "idle"
    /\ \E c \in Codecs : MayAccess(t, c) /\ op' = [op EXCEPT ![t].codec = c]
    /\ Goto(t, "checked")
    /\ UNCHANGED <<i2c_mux, dev_addr, clock, codecs, power>>

(* The test of suspended, before the mutex is taken.  A suspended codec    *)
(* answers -EPERM and nothing changes.                                     *)
Begin(t) ==
    /\ pc[t] = "idle"
    /\ \E c \in Codecs :
           /\ MayAccess(t, c)
           /\ ~suspended[c]
           /\ op' = [op EXCEPT ![t].codec = c]
    /\ Goto(t, "checked")
    /\ UNCHANGED <<i2c_mux, dev_addr, clock, codecs, power>>

Lock_same_address(t) ==
    /\ pc[t] = "checked"
    /\ i2c_mux = NONE
    /\ i2c_mux' = t
    /\ dev_addr' = IF dev_addr = 0 THEN op[t].codec ELSE dev_addr
    /\ Goto(t, "locked")
    /\ UNCHANGED <<op, clock, codecs, power>>

(* mutex_lock and cs8409_set_i2c_dev_addr.                                 *)
Lock(t) ==
    /\ pc[t] = "checked"
    /\ i2c_mux = NONE
    /\ i2c_mux' = t
    /\ dev_addr' = op[t].codec
    /\ Goto(t, "locked")
    /\ UNCHANGED <<op, clock, codecs, power>>

EnableClock_once(t) ==
    /\ pc[t] = "locked"
    /\ i2c_clck_enabled' = TRUE
    /\ queued' = IF i2c_clck_enabled THEN FALSE ELSE TRUE
    /\ \E p \in Pages : op' = [op EXCEPT ![t].page = p]
    /\ Goto(t, "page")
    /\ UNCHANGED <<i2c_mux, dev_addr, running, codecs, power>>

(* cs8409_enable_i2c_clock, once for every register of a sequence, whose   *)
(* page is chosen here.  While the work is being cancelled for good it     *)
(* cannot be queued.                                                       *)
EnableClock(t) ==
    /\ pc[t] = "locked"
    /\ i2c_clck_enabled' = TRUE
    /\ queued' = IF stage = "canceling" THEN queued ELSE TRUE
    /\ \E p \in Pages : op' = [op EXCEPT ![t].page = p]
    /\ Goto(t, "page")
    /\ UNCHANGED <<i2c_mux, dev_addr, running, codecs, power>>

(* cs8409_i2c_set_page: the page register is written only if it differs.   *)
SetPage(t) ==
    /\ pc[t] = "page"
    /\ Goto(t, IF last_page[op[t].codec] # op[t].page THEN "paging" ELSE "access")
    /\ UNCHANGED <<i2c_mux, dev_addr, op, clock, codecs, power>>

(* What a page write that reaches its codec does: nothing in reset.        *)
Paged(c, p) == page' = [page EXCEPT ![c] = IF in_reset[c] THEN @ ELSE p]

(* cs8409_i2c_wait_complete of a page write: in time, or too late.         *)
PageDone(t) ==
    /\ pc[t] = "paging"
    /\ Paged(op[t].codec, op[t].page)
    /\ Goto(t, "paged")
    /\ UNCHANGED <<i2c_mux, dev_addr, op, clock, suspended, last_page, in_reset, power>>

(* The page is remembered after the write completed, also when it timed    *)
(* out.                                                                    *)
PageTimesOut_remembered(t) ==
    /\ pc[t] = "paging"
    /\ last_page' = [last_page EXCEPT ![op[t].codec] = op[t].page]
    /\ Goto(t, "unlock")
    /\ UNCHANGED <<i2c_mux, dev_addr, op, clock, suspended, page, in_reset, power>>

PageTimesOut(t) ==
    /\ pc[t] = "paging"
    /\ \/ UNCHANGED page
       \/ LateWrites /\ Paged(op[t].codec, op[t].page)
    /\ Goto(t, "unlock")
    /\ UNCHANGED <<i2c_mux, dev_addr, op, clock, suspended, last_page, in_reset, power>>

(* last_page is stored without regard to a suspend in between.             *)
StorePage(t) ==
    /\ pc[t] = "paged"
    /\ last_page' = [last_page EXCEPT ![op[t].codec] = op[t].page]
    /\ Goto(t, "access")
    /\ UNCHANGED <<i2c_mux, dev_addr, op, clock, suspended, page, in_reset, power>>

Access(t) ==
    /\ pc[t] = "access"
    /\ Goto(t, "waiting")
    /\ UNCHANGED <<i2c_mux, dev_addr, op, clock, codecs, power>>

(* A timeout that returns without unlocking.                               *)
AccessDone_keeps_mutex(t) ==
    /\ pc[t] = "waiting"
    /\ \E p \in {"locked", "unlock", "idle"} : Goto(t, p)
    /\ UNCHANGED <<i2c_mux, dev_addr, op, clock, codecs, power>>

(* The transfer ends, in time or not; a sequence goes on with its next     *)
(* register if it was in time.                                             *)
AccessDone(t) ==
    /\ pc[t] = "waiting"
    /\ \E p \in {"locked", "unlock"} : Goto(t, p)
    /\ UNCHANGED <<i2c_mux, dev_addr, op, clock, codecs, power>>

Unlock(t) ==
    /\ pc[t] = "unlock"
    /\ i2c_mux' = NONE
    /\ Goto(t, "idle")
    /\ UNCHANGED <<dev_addr, op, clock, codecs, power>>

AccessStep(t) ==
    \/ Lock(t) \/ EnableClock(t) \/ SetPage(t) \/ PageDone(t) \/ PageTimesOut(t)
    \/ StorePage(t) \/ Access(t) \/ AccessDone(t) \/ Unlock(t)

-----------------------------------------------------------------------------
(* The work that stops the clock.                                          *)

(* 25 ms after the last access.  The work does not run twice at once.      *)
TimerExpires ==
    /\ queued /\ ~running
    /\ queued' = FALSE /\ running' = TRUE
    /\ UNCHANGED <<i2c_mux, dev_addr, i2c_clck_enabled, codecs, threads, power>>

Worker_no_mutex ==
    /\ running
    /\ i2c_clck_enabled' = FALSE
    /\ running' = FALSE
    /\ UNCHANGED <<i2c_mux, dev_addr, queued, codecs, threads, power>>

(* cs8409_disable_i2c_clock, all of it with the mutex held.                *)
Worker ==
    /\ running
    /\ i2c_mux = NONE
    /\ i2c_clck_enabled' = FALSE
    /\ running' = FALSE
    /\ UNCHANGED <<i2c_mux, dev_addr, queued, codecs, threads, power>>

-----------------------------------------------------------------------------
(* Suspend and resume.                                                     *)

Stage(s, c) == stage' = s /\ cur' = c

(* cs8409_cs42l42_suspend, whose cs42l42_suspend first powers the codec    *)
(* down with accesses of its own.                                          *)
Suspend ==
    /\ stage = "awake"
    /\ SuspendWaits => \A t \in Callers : pc[t] = "idle"
    /\ Stage("down", 1)
    /\ UNCHANGED <<i2c_mux, dev_addr, clock, codecs, threads>>

MarkSuspended ==
    /\ stage = "down" /\ pc[PM] = "idle"
    /\ suspended' = [suspended EXCEPT ![cur] = TRUE]
    /\ Stage("suspended", cur)
    /\ UNCHANGED <<i2c_mux, dev_addr, clock, last_page, in_reset, page, threads>>

ForgetPage_kept ==
    /\ stage = "suspended"
    /\ Stage("forgotten", cur)
    /\ UNCHANGED <<i2c_mux, dev_addr, clock, codecs, threads>>

ForgetPage ==
    /\ stage = "suspended"
    /\ last_page' = [last_page EXCEPT ![cur] = ResetPage]
    /\ Stage("forgotten", cur)
    /\ UNCHANGED <<i2c_mux, dev_addr, clock, suspended, in_reset, page, threads>>

AssertReset_one_more ==
    /\ stage = "forgotten"
    /\ in_reset' = [in_reset EXCEPT ![cur] = TRUE]
    /\ page' = [page EXCEPT ![cur] = ResetPage]
    /\ IF cur <= NumCodecs THEN Stage("down", cur + 1) ELSE Stage("cancel", 1)
    /\ UNCHANGED <<i2c_mux, dev_addr, clock, suspended, last_page, threads>>

AssertReset ==
    /\ stage = "forgotten"
    /\ in_reset' = [in_reset EXCEPT ![cur] = TRUE]
    /\ page' = [page EXCEPT ![cur] = ResetPage]
    /\ IF cur < NumCodecs THEN Stage("down", cur + 1) ELSE Stage("cancel", 1)
    /\ UNCHANGED <<i2c_mux, dev_addr, clock, suspended, last_page, threads>>

(* cancel_delayed_work_sync: the timer is stopped, then a running work     *)
(* waited for.                                                             *)
CancelWork ==
    /\ stage = "cancel"
    /\ queued' = FALSE
    /\ Stage("canceling", 1)
    /\ UNCHANGED <<i2c_mux, dev_addr, i2c_clck_enabled, running, codecs, threads>>

Cancelled ==
    /\ stage = "canceling" /\ ~running
    /\ Stage("disable", 1)
    /\ UNCHANGED <<i2c_mux, dev_addr, clock, codecs, threads>>

StopClock_skipped ==
    /\ stage = "disable"
    /\ Stage("asleep", 1)
    /\ UNCHANGED <<i2c_mux, dev_addr, clock, codecs, threads>>

(* cs8409_disable_i2c_clock, for a clock the cancelled work left on.       *)
StopClock ==
    /\ stage = "disable"
    /\ i2c_mux = NONE
    /\ i2c_clck_enabled' = FALSE
    /\ Stage("asleep", 1)
    /\ UNCHANGED <<i2c_mux, dev_addr, queued, running, codecs, threads>>

(* cs8409_cs42l42_hw_init and dolphin_hw_init: cs42l42_resume for every    *)
(* codec.                                                                  *)
ReleaseReset ==
    /\ stage \in {"asleep", "next"}
    /\ in_reset' = [in_reset EXCEPT ![cur] = FALSE]
    /\ Stage("released", cur)
    /\ UNCHANGED <<i2c_mux, dev_addr, clock, suspended, last_page, page, threads>>

ClearSuspended ==
    /\ stage = "released"
    /\ suspended' = [suspended EXCEPT ![cur] = FALSE]
    /\ Stage("up", cur)
    /\ UNCHANGED <<i2c_mux, dev_addr, clock, last_page, in_reset, page, threads>>

(* The codec has been initialised with accesses of its own.                *)
Resumed ==
    /\ stage = "up" /\ pc[PM] = "idle"
    /\ IF cur < NumCodecs THEN Stage("next", cur + 1) ELSE Stage("awake", 1)
    /\ UNCHANGED <<i2c_mux, dev_addr, clock, codecs, threads>>

PmStep ==
    \/ Suspend \/ MarkSuspended \/ ForgetPage \/ AssertReset
    \/ CancelWork \/ Cancelled \/ StopClock
    \/ ReleaseReset \/ ClearSuspended \/ Resumed

-----------------------------------------------------------------------------
Next ==
    \/ \E t \in Threads : Begin(t) \/ AccessStep(t)
    \/ TimerExpires \/ Worker \/ PmStep

(* Mutex waiters are served, sequences of accesses are finite, and what    *)
(* has begun goes on.  Nobody need access a codec, suspend or resume.      *)
Fairness ==
    /\ \A t \in Threads : /\ WF_vars(AccessStep(t))
                          /\ SF_vars(Lock(t))
                          /\ SF_vars(AccessDone(t) /\ pc'[t] = "unlock")
    /\ WF_vars(TimerExpires) /\ SF_vars(Worker)
    /\ WF_vars(PmStep /\ stage \notin {"awake", "asleep"})
    /\ SF_vars(MarkSuspended) /\ SF_vars(StopClock) /\ SF_vars(Resumed)

Spec == Init /\ [][Next]_vars

FairSpec == Spec /\ Fairness

-----------------------------------------------------------------------------
(* Properties.                                                             *)

Points == {"idle", "checked"} \cup Held

Stages == {"awake", "down", "suspended", "forgotten", "cancel", "canceling",
           "disable", "asleep", "released", "up", "next"}

(* Every variable keeps its type.                                          *)
TypeOK ==
    /\ i2c_mux \in Threads \cup {NONE}
    /\ i2c_clck_enabled \in BOOLEAN /\ queued \in BOOLEAN /\ running \in BOOLEAN
    /\ dev_addr \in Codecs \cup {0}
    /\ suspended \in [Codecs -> BOOLEAN] /\ in_reset \in [Codecs -> BOOLEAN]
    /\ last_page \in [Codecs -> Pages \cup {ResetPage}]
    /\ page \in [Codecs -> Pages \cup {ResetPage}]
    /\ pc \in [Threads -> Points]
    /\ op \in [Threads -> [codec : Codecs, page : Pages \cup {ResetPage}]]
    /\ stage \in Stages /\ cur \in Codecs

(* The work never stops the clock under a transfer, although its timer may *)
(* expire at any moment and enabling the clock does not wait for it.       *)
ClockWhileTransferring ==
    \A t \in Threads : pc[t] \in Transferring => i2c_clck_enabled

(* A clock that is on will be stopped: the work is queued or running, or   *)
(* the suspend that cancelled it is about to stop the clock itself.        *)
ClockWillStop ==
    i2c_clck_enabled => queued \/ running \/ stage \in {"canceling", "disable"}

(* A transfer goes to the codec and the page its thread asked for, though  *)
(* threads and codecs share the address and the page is only remembered.   *)
RightRegister ==
    \A t \in Threads :
        pc[t] = "waiting" => /\ dev_addr = op[t].codec
                             /\ page[op[t].codec] = op[t].page

(* No transfer to a codec that is held in reset.                           *)
TransfersAwake ==
    \A t \in Threads : pc[t] \in Transferring => ~in_reset[op[t].codec]

(* Suspended, the clock is off and no work is left that would need the     *)
(* bridge.                                                                 *)
ClockOffAsleep == stage = "asleep" => ~i2c_clck_enabled /\ ~queued

(* An access that was begun ends, and lets the next one have the mutex,    *)
(* whatever times out.                                                     *)
AccessEnds == \A t \in Threads : pc[t] = "checked" ~> pc[t] = "idle"

(* A suspend comes to its end, though it waits for the mutex and for the   *)
(* work, which waits for the mutex too.                                    *)
SuspendEnds == stage = "down" ~> stage = "asleep"
=============================================================================
