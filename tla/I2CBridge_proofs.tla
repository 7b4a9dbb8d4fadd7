-------------------------- MODULE I2CBridge_proofs --------------------------
(***************************************************************************)
(* What the I2C bridge keeps for any number of callers, codecs and pages.  *)
(* The mutex and the clock hold whatever meets whatever.  That a transfer  *)
(* goes to the right register of a codec that is awake, and that the clock *)
(* is off in suspend, needs the two assumptions named Quiesced: a suspend  *)
(* finds the callers idle, and a page write that timed out is lost.        *)
(***************************************************************************)
EXTENDS I2CBridge, TLAPS

-----------------------------------------------------------------------------
(* The inductive invariants.                                               *)

(* A thread holds the mutex exactly at the points between lock and unlock. *)
MuxInv == \A t \in Threads : pc[t] \in Held <=> i2c_mux = t

(* The clock is on from the moment a holder enabled it to the end of its   *)
(* transfer.                                                               *)
ClockInv ==
    \A t \in Threads :
        pc[t] \in {"page", "paging", "paged", "access", "waiting"} => i2c_clck_enabled

BaseInv == TypeOK /\ MuxInv /\ ClockInv /\ ClockWillStop

(* Nobody talks to a suspended codec, and nobody but PM while it suspends. *)
ActiveInv ==
    /\ \A t \in Callers :
           pc[t] # "idle" => stage \notin {"down", "suspended", "forgotten"}
    /\ pc[PM] # "idle" => stage \in {"down", "up"} /\ op[PM].codec = cur
    /\ \A t \in Threads : pc[t] # "idle" => ~suspended[op[t].codec]

(* Only suspended codecs are in reset.                                     *)
ResetInv ==
    /\ \A c \in Codecs : in_reset[c] => suspended[c]
    /\ stage \in {"suspended", "forgotten"} => suspended[cur]
    /\ stage = "released" => ~in_reset[cur]

(* The remembered page is the codec's but between a page write and its     *)
(* store, and between the two steps of a suspend.                          *)
CacheInv ==
    /\ \A c \in Codecs :
           \/ last_page[c] = page[c]
           \/ stage = "forgotten" /\ cur = c
           \/ \E t \in Threads : pc[t] = "paged" /\ op[t].codec = c
    /\ stage = "forgotten" => last_page[cur] = ResetPage

(* What a holder has settled: address, then page.                          *)
SettledInv ==
    \A t \in Threads :
        /\ pc[t] \in Held => dev_addr = op[t].codec
        /\ pc[t] \in {"paged", "access", "waiting"} => page[op[t].codec] = op[t].page

(* Codecs are suspended one by one; after the last the clock runs down.    *)
SleepInv ==
    /\ stage \in {"down", "suspended", "forgotten"} => \A c \in 1 .. cur - 1 : suspended[c]
    /\ stage \in {"cancel", "canceling", "disable", "asleep"} =>
           \A c \in Codecs : suspended[c]
    /\ stage \in {"canceling", "disable", "asleep"} => ~queued
    /\ stage \in {"disable", "asleep"} => ~running
    /\ stage = "asleep" => ~i2c_clck_enabled

QuietInv == ActiveInv /\ ResetInv /\ CacheInv /\ SettledInv /\ SleepInv

Quiesced == SuspendWaits = TRUE /\ LateWrites = FALSE

-----------------------------------------------------------------------------
(* Every step keeps the types.                                             *)
LEMMA TypeStep == TypeOK /\ [Next]_vars => TypeOK'
<1> SUFFICES ASSUME TypeOK, [Next]_vars
             PROVE  TypeOK'
    OBVIOUS
<1> USE CodecAssumption DEF TypeOK, Threads, Codecs, Held, Points, Stages
<1>1. ASSUME NEW t \in Threads, Begin(t) \/ AccessStep(t)
      PROVE  TypeOK'
  <2>1. CASE Begin(t)
    <3>1. PICK c \in Codecs : op' = [op EXCEPT ![t].codec = c]
      BY <2>1 DEF Begin
    <3>2. op' \in [Threads -> [codec : Codecs, page : Pages \cup {ResetPage}]]
      BY <3>1
    <3> QED
      BY <2>1, <3>2 DEF Begin, Goto, clock, codecs, power
  <2>2. CASE Lock(t)
    BY <2>2 DEF Lock, Goto, clock, codecs, power
  <2>3. CASE EnableClock(t)
    <3>1. PICK p \in Pages : op' = [op EXCEPT ![t].page = p]
      BY <2>3 DEF EnableClock
    <3>2. op' \in [Threads -> [codec : Codecs, page : Pages \cup {ResetPage}]]
      BY <3>1
    <3> QED
      BY <2>3, <3>2 DEF EnableClock, Goto, clock, codecs, power
  <2>4. CASE SetPage(t)
    BY <2>4 DEF SetPage, Goto, clock, codecs, power
  <2>5. CASE PageDone(t)
    BY <2>5 DEF PageDone, Goto, Paged, clock, power
  <2>6. CASE PageTimesOut(t)
    BY <2>6 DEF PageTimesOut, Goto, Paged, clock, power
  <2>7. CASE StorePage(t)
    BY <2>7 DEF StorePage, Goto, clock, power
  <2>8. CASE Access(t)
    BY <2>8 DEF Access, Goto, clock, codecs, power
  <2>9. CASE AccessDone(t)
    BY <2>9 DEF AccessDone, Goto, clock, codecs, power
  <2>10. CASE Unlock(t)
    BY <2>10 DEF Unlock, Goto, clock, codecs, power
  <2> QED
    BY <1>1, <2>1, <2>2, <2>3, <2>4, <2>5, <2>6, <2>7, <2>8, <2>9, <2>10 DEF AccessStep
<1>2. CASE TimerExpires
  BY <1>2 DEF TimerExpires, codecs, power, threads
<1>3. CASE Worker
  BY <1>3 DEF Worker, codecs, power, threads
<1>4. CASE PmStep
  <2>1. CASE Suspend
    BY <2>1 DEF Suspend, Stage, clock, codecs, threads
  <2>2. CASE MarkSuspended
    BY <2>2 DEF MarkSuspended, Stage, clock, threads
  <2>3. CASE ForgetPage
    BY <2>3 DEF ForgetPage, Stage, clock, threads
  <2>4. CASE AssertReset
    BY <2>4 DEF AssertReset, Stage, clock, threads
  <2>5. CASE CancelWork
    <3>1. i2c_clck_enabled' \in BOOLEAN /\ queued' \in BOOLEAN /\ running' \in BOOLEAN
      BY <2>5, Zenon DEF CancelWork, clock
    <3>2. stage' \in Stages /\ cur' \in Codecs
      BY <2>5 DEF CancelWork, Stage
    <3> QED
      BY <2>5, <3>1, <3>2 DEF CancelWork, codecs, threads
  <2>6. CASE Cancelled
    BY <2>6 DEF Cancelled, Stage, clock, codecs, threads
  <2>7. CASE StopClock
    <3>1. i2c_clck_enabled' \in BOOLEAN /\ queued' \in BOOLEAN /\ running' \in BOOLEAN
      BY <2>7, Zenon DEF StopClock, clock
    <3>2. stage' \in Stages /\ cur' \in Codecs
      BY <2>7 DEF StopClock, Stage
    <3> QED
      BY <2>7, <3>1, <3>2 DEF StopClock, codecs, threads
  <2>8. CASE ReleaseReset
    BY <2>8 DEF ReleaseReset, Stage, clock, threads
  <2>9. CASE ClearSuspended
    BY <2>9 DEF ClearSuspended, Stage, clock, threads
  <2>10. CASE Resumed
    BY <2>10 DEF Resumed, Stage, clock, codecs, threads
  <2> QED
    BY <1>4, <2>1, <2>2, <2>3, <2>4, <2>5, <2>6, <2>7, <2>8, <2>9, <2>10 DEF PmStep
<1>5. CASE UNCHANGED vars
    BY <1>5 DEF vars, clock, codecs, power, threads
<1> QED
    BY <1>1, <1>2, <1>3, <1>4, <1>5 DEF Next

(* Every step keeps the mutex with the thread that is between lock and     *)
(* unlock.                                                                 *)
LEMMA MuxStep == TypeOK /\ MuxInv /\ [Next]_vars => MuxInv'
<1> SUFFICES ASSUME TypeOK, MuxInv, [Next]_vars
             PROVE  MuxInv'
    OBVIOUS
<1> USE ThreadAssumption DEF TypeOK, MuxInv, Threads, Held
<1>1. ASSUME NEW t \in Threads, Begin(t) \/ AccessStep(t)
      PROVE  MuxInv'
  <2>1. CASE Begin(t)
    BY <2>1 DEF Begin, Goto, MayAccess, clock, codecs, power
  <2>2. CASE Lock(t)
    BY <2>2 DEF Lock, Goto, clock, codecs, power
  <2>3. CASE EnableClock(t)
    BY <2>3 DEF EnableClock, Goto, codecs, power
  <2>4. CASE SetPage(t)
    BY <2>4 DEF SetPage, Goto, clock, codecs, power
  <2>5. CASE PageDone(t)
    BY <2>5 DEF PageDone, Goto, Paged, clock, power
  <2>6. CASE PageTimesOut(t)
    BY <2>6 DEF PageTimesOut, Goto, Paged, clock, power
  <2>7. CASE StorePage(t)
    BY <2>7 DEF StorePage, Goto, clock, power
  <2>8. CASE Access(t)
    BY <2>8 DEF Access, Goto, clock, codecs, power
  <2>9. CASE AccessDone(t)
    BY <2>9 DEF AccessDone, Goto, clock, codecs, power
  <2>10. CASE Unlock(t)
    BY <2>10 DEF Unlock, Goto, clock, codecs, power
  <2> QED
    BY <1>1, <2>1, <2>2, <2>3, <2>4, <2>5, <2>6, <2>7, <2>8, <2>9, <2>10 DEF AccessStep
<1>2. CASE TimerExpires
  BY <1>2 DEF TimerExpires, codecs, power, threads
<1>3. CASE Worker
  BY <1>3 DEF Worker, codecs, power, threads
<1>4. CASE PmStep
  <2>1. CASE Suspend
    BY <2>1 DEF Suspend, Stage, clock, codecs, threads
  <2>2. CASE MarkSuspended
    BY <2>2 DEF MarkSuspended, Stage, clock, threads
  <2>3. CASE ForgetPage
    BY <2>3 DEF ForgetPage, Stage, clock, threads
  <2>4. CASE AssertReset
    BY <2>4 DEF AssertReset, Stage, clock, threads
  <2>5. CASE CancelWork
    BY <2>5 DEF CancelWork, Stage, codecs, threads
  <2>6. CASE Cancelled
    BY <2>6 DEF Cancelled, Stage, clock, codecs, threads
  <2>7. CASE StopClock
    BY <2>7 DEF StopClock, Stage, codecs, threads
  <2>8. CASE ReleaseReset
    BY <2>8 DEF ReleaseReset, Stage, clock, threads
  <2>9. CASE ClearSuspended
    BY <2>9 DEF ClearSuspended, Stage, clock, threads
  <2>10. CASE Resumed
    BY <2>10 DEF Resumed, Stage, clock, codecs, threads
  <2> QED
    BY <1>4, <2>1, <2>2, <2>3, <2>4, <2>5, <2>6, <2>7, <2>8, <2>9, <2>10 DEF PmStep
<1>5. CASE UNCHANGED vars
    BY <1>5 DEF vars, clock, codecs, power, threads
<1> QED
    BY <1>1, <1>2, <1>3, <1>4, <1>5 DEF Next

(* The work and a suspend stop the clock only with the mutex free.         *)
LEMMA ClockStep == TypeOK /\ MuxInv /\ ClockInv /\ [Next]_vars => ClockInv'
<1> SUFFICES ASSUME TypeOK, MuxInv, ClockInv, [Next]_vars
             PROVE  ClockInv'
    OBVIOUS
<1> USE ThreadAssumption DEF TypeOK, MuxInv, ClockInv, Threads, Held
<1>1. ASSUME NEW t \in Threads, Begin(t) \/ AccessStep(t)
      PROVE  ClockInv'
  <2>1. CASE Begin(t)
    BY <2>1 DEF Begin, Goto, MayAccess, clock, codecs, power
  <2>2. CASE Lock(t)
    BY <2>2 DEF Lock, Goto, clock, codecs, power
  <2>3. CASE EnableClock(t)
    BY <2>3 DEF EnableClock, Goto, codecs, power
  <2>4. CASE SetPage(t)
    BY <2>4 DEF SetPage, Goto, clock, codecs, power
  <2>5. CASE PageDone(t)
    BY <2>5 DEF PageDone, Goto, Paged, clock, power
  <2>6. CASE PageTimesOut(t)
    BY <2>6 DEF PageTimesOut, Goto, Paged, clock, power
  <2>7. CASE StorePage(t)
    BY <2>7 DEF StorePage, Goto, clock, power
  <2>8. CASE Access(t)
    BY <2>8 DEF Access, Goto, clock, codecs, power
  <2>9. CASE AccessDone(t)
    BY <2>9 DEF AccessDone, Goto, clock, codecs, power
  <2>10. CASE Unlock(t)
    BY <2>10 DEF Unlock, Goto, clock, codecs, power
  <2> QED
    BY <1>1, <2>1, <2>2, <2>3, <2>4, <2>5, <2>6, <2>7, <2>8, <2>9, <2>10 DEF AccessStep
<1>2. CASE TimerExpires
  BY <1>2 DEF TimerExpires, codecs, power, threads
<1>3. CASE Worker
  BY <1>3 DEF Worker, codecs, power, threads
<1>4. CASE PmStep
  <2>1. CASE Suspend
    BY <2>1 DEF Suspend, Stage, clock, codecs, threads
  <2>2. CASE MarkSuspended
    BY <2>2 DEF MarkSuspended, Stage, clock, threads
  <2>3. CASE ForgetPage
    BY <2>3 DEF ForgetPage, Stage, clock, threads
  <2>4. CASE AssertReset
    BY <2>4 DEF AssertReset, Stage, clock, threads
  <2>5. CASE CancelWork
    BY <2>5 DEF CancelWork, Stage, codecs, threads
  <2>6. CASE Cancelled
    BY <2>6 DEF Cancelled, Stage, clock, codecs, threads
  <2>7. CASE StopClock
    BY <2>7 DEF StopClock, Stage, codecs, threads
  <2>8. CASE ReleaseReset
    BY <2>8 DEF ReleaseReset, Stage, clock, threads
  <2>9. CASE ClearSuspended
    BY <2>9 DEF ClearSuspended, Stage, clock, threads
  <2>10. CASE Resumed
    BY <2>10 DEF Resumed, Stage, clock, codecs, threads
  <2> QED
    BY <1>4, <2>1, <2>2, <2>3, <2>4, <2>5, <2>6, <2>7, <2>8, <2>9, <2>10 DEF PmStep
<1>5. CASE UNCHANGED vars
    BY <1>5 DEF vars, clock, codecs, power, threads
<1> QED
    BY <1>1, <1>2, <1>3, <1>4, <1>5 DEF Next

(* Every step keeps somebody who will stop the clock.                      *)
LEMMA StopStep == TypeOK /\ ClockWillStop /\ [Next]_vars => ClockWillStop'
<1> SUFFICES ASSUME TypeOK, ClockWillStop, [Next]_vars
             PROVE  ClockWillStop'
    OBVIOUS
<1> USE DEF TypeOK, ClockWillStop
<1>1. ASSUME NEW t \in Threads, Begin(t) \/ AccessStep(t)
      PROVE  ClockWillStop'
  <2>1. CASE Begin(t)
    BY <2>1 DEF Begin, Goto, MayAccess, clock, codecs, power
  <2>2. CASE Lock(t)
    BY <2>2 DEF Lock, Goto, clock, codecs, power
  <2>3. CASE EnableClock(t)
    BY <2>3 DEF EnableClock, Goto, codecs, power
  <2>4. CASE SetPage(t)
    BY <2>4 DEF SetPage, Goto, clock, codecs, power
  <2>5. CASE PageDone(t)
    BY <2>5 DEF PageDone, Goto, Paged, clock, power
  <2>6. CASE PageTimesOut(t)
    BY <2>6 DEF PageTimesOut, Goto, Paged, clock, power
  <2>7. CASE StorePage(t)
    BY <2>7 DEF StorePage, Goto, clock, power
  <2>8. CASE Access(t)
    BY <2>8 DEF Access, Goto, clock, codecs, power
  <2>9. CASE AccessDone(t)
    BY <2>9 DEF AccessDone, Goto, clock, codecs, power
  <2>10. CASE Unlock(t)
    BY <2>10 DEF Unlock, Goto, clock, codecs, power
  <2> QED
    BY <1>1, <2>1, <2>2, <2>3, <2>4, <2>5, <2>6, <2>7, <2>8, <2>9, <2>10 DEF AccessStep
<1>2. CASE TimerExpires
  BY <1>2 DEF TimerExpires, codecs, power, threads
<1>3. CASE Worker
  BY <1>3 DEF Worker, codecs, power, threads
<1>4. CASE PmStep
  <2>1. CASE Suspend
    BY <2>1 DEF Suspend, Stage, clock, codecs, threads
  <2>2. CASE MarkSuspended
    BY <2>2 DEF MarkSuspended, Stage, clock, threads
  <2>3. CASE ForgetPage
    BY <2>3 DEF ForgetPage, Stage, clock, threads
  <2>4. CASE AssertReset
    BY <2>4 DEF AssertReset, Stage, clock, threads
  <2>5. CASE CancelWork
    BY <2>5 DEF CancelWork, Stage, codecs, threads
  <2>6. CASE Cancelled
    BY <2>6 DEF Cancelled, Stage, clock, codecs, threads
  <2>7. CASE StopClock
    BY <2>7 DEF StopClock, Stage, codecs, threads
  <2>8. CASE ReleaseReset
    BY <2>8 DEF ReleaseReset, Stage, clock, threads
  <2>9. CASE ClearSuspended
    BY <2>9 DEF ClearSuspended, Stage, clock, threads
  <2>10. CASE Resumed
    BY <2>10 DEF Resumed, Stage, clock, codecs, threads
  <2> QED
    BY <1>4, <2>1, <2>2, <2>3, <2>4, <2>5, <2>6, <2>7, <2>8, <2>9, <2>10 DEF PmStep
<1>5. CASE UNCHANGED vars
    BY <1>5 DEF vars, clock, codecs, power, threads
<1> QED
    BY <1>1, <1>2, <1>3, <1>4, <1>5 DEF Next

(* Who is active: a suspend finds the callers idle and lets none begin.    *)
LEMMA ActiveStep == Quiesced /\ TypeOK /\ ActiveInv /\ [Next]_vars => ActiveInv'
<1> SUFFICES ASSUME Quiesced, TypeOK, ActiveInv, [Next]_vars
             PROVE  ActiveInv'
    OBVIOUS
<1> USE ThreadAssumption DEF Quiesced, TypeOK, ActiveInv, Threads, Held
<1>1. ASSUME NEW t \in Threads, Begin(t) \/ AccessStep(t)
      PROVE  ActiveInv'
  <2>1. CASE Begin(t)
    BY <2>1 DEF Begin, Goto, MayAccess, clock, codecs, power
  <2>2. CASE Lock(t)
    BY <2>2 DEF Lock, Goto, clock, codecs, power
  <2>3. CASE EnableClock(t)
    BY <2>3 DEF EnableClock, Goto, codecs, power
  <2>4. CASE SetPage(t)
    BY <2>4 DEF SetPage, Goto, clock, codecs, power
  <2>5. CASE PageDone(t)
    BY <2>5 DEF PageDone, Goto, Paged, clock, power
  <2>6. CASE PageTimesOut(t)
    BY <2>6 DEF PageTimesOut, Goto, Paged, clock, power
  <2>7. CASE StorePage(t)
    BY <2>7 DEF StorePage, Goto, clock, power
  <2>8. CASE Access(t)
    BY <2>8 DEF Access, Goto, clock, codecs, power
  <2>9. CASE AccessDone(t)
    BY <2>9 DEF AccessDone, Goto, clock, codecs, power
  <2>10. CASE Unlock(t)
    BY <2>10 DEF Unlock, Goto, clock, codecs, power
  <2> QED
    BY <1>1, <2>1, <2>2, <2>3, <2>4, <2>5, <2>6, <2>7, <2>8, <2>9, <2>10 DEF AccessStep
<1>2. CASE TimerExpires
  BY <1>2 DEF TimerExpires, codecs, power, threads
<1>3. CASE Worker
  BY <1>3 DEF Worker, codecs, power, threads
<1>4. CASE PmStep
  <2>1. CASE Suspend
    BY <2>1 DEF Suspend, Stage, clock, codecs, threads
  <2>2. CASE MarkSuspended
    BY <2>2 DEF MarkSuspended, Stage, clock, threads
  <2>3. CASE ForgetPage
    BY <2>3 DEF ForgetPage, Stage, clock, threads
  <2>4. CASE AssertReset
    BY <2>4 DEF AssertReset, Stage, clock, threads
  <2>5. CASE CancelWork
    BY <2>5 DEF CancelWork, Stage, codecs, threads
  <2>6. CASE Cancelled
    BY <2>6 DEF Cancelled, Stage, clock, codecs, threads
  <2>7. CASE StopClock
    BY <2>7 DEF StopClock, Stage, codecs, threads
  <2>8. CASE ReleaseReset
    BY <2>8 DEF ReleaseReset, Stage, clock, threads
  <2>9. CASE ClearSuspended
    BY <2>9 DEF ClearSuspended, Stage, clock, threads
  <2>10. CASE Resumed
    BY <2>10 DEF Resumed, Stage, clock, codecs, threads
  <2> QED
    BY <1>4, <2>1, <2>2, <2>3, <2>4, <2>5, <2>6, <2>7, <2>8, <2>9, <2>10 DEF PmStep
<1>5. CASE UNCHANGED vars
    BY <1>5 DEF vars, clock, codecs, power, threads
<1> QED
    BY <1>1, <1>2, <1>3, <1>4, <1>5 DEF Next

(* Reset comes after the suspended mark and goes before it.                *)
LEMMA ResetStep == TypeOK /\ ResetInv /\ [Next]_vars => ResetInv'
<1> SUFFICES ASSUME TypeOK, ResetInv, [Next]_vars
             PROVE  ResetInv'
    OBVIOUS
<1> USE DEF TypeOK, ResetInv
<1>1. ASSUME NEW t \in Threads, Begin(t) \/ AccessStep(t)
      PROVE  ResetInv'
  <2>1. CASE Begin(t)
    BY <2>1 DEF Begin, Goto, MayAccess, clock, codecs, power
  <2>2. CASE Lock(t)
    BY <2>2 DEF Lock, Goto, clock, codecs, power
  <2>3. CASE EnableClock(t)
    BY <2>3 DEF EnableClock, Goto, codecs, power
  <2>4. CASE SetPage(t)
    BY <2>4 DEF SetPage, Goto, clock, codecs, power
  <2>5. CASE PageDone(t)
    BY <2>5 DEF PageDone, Goto, Paged, clock, power
  <2>6. CASE PageTimesOut(t)
    BY <2>6 DEF PageTimesOut, Goto, Paged, clock, power
  <2>7. CASE StorePage(t)
    BY <2>7 DEF StorePage, Goto, clock, power
  <2>8. CASE Access(t)
    BY <2>8 DEF Access, Goto, clock, codecs, power
  <2>9. CASE AccessDone(t)
    BY <2>9 DEF AccessDone, Goto, clock, codecs, power
  <2>10. CASE Unlock(t)
    BY <2>10 DEF Unlock, Goto, clock, codecs, power
  <2> QED
    BY <1>1, <2>1, <2>2, <2>3, <2>4, <2>5, <2>6, <2>7, <2>8, <2>9, <2>10 DEF AccessStep
<1>2. CASE TimerExpires
  BY <1>2 DEF TimerExpires, codecs, power, threads
<1>3. CASE Worker
  BY <1>3 DEF Worker, codecs, power, threads
<1>4. CASE PmStep
  <2>1. CASE Suspend
    BY <2>1 DEF Suspend, Stage, clock, codecs, threads
  <2>2. CASE MarkSuspended
    BY <2>2 DEF MarkSuspended, Stage, clock, threads
  <2>3. CASE ForgetPage
    BY <2>3 DEF ForgetPage, Stage, clock, threads
  <2>4. CASE AssertReset
    BY <2>4 DEF AssertReset, Stage, clock, threads
  <2>5. CASE CancelWork
    BY <2>5 DEF CancelWork, Stage, codecs, threads
  <2>6. CASE Cancelled
    BY <2>6 DEF Cancelled, Stage, clock, codecs, threads
  <2>7. CASE StopClock
    BY <2>7 DEF StopClock, Stage, codecs, threads
  <2>8. CASE ReleaseReset
    BY <2>8 DEF ReleaseReset, Stage, clock, threads
  <2>9. CASE ClearSuspended
    BY <2>9 DEF ClearSuspended, Stage, clock, threads
  <2>10. CASE Resumed
    BY <2>10 DEF Resumed, Stage, clock, codecs, threads
  <2> QED
    BY <1>4, <2>1, <2>2, <2>3, <2>4, <2>5, <2>6, <2>7, <2>8, <2>9, <2>10 DEF PmStep
<1>5. CASE UNCHANGED vars
    BY <1>5 DEF vars, clock, codecs, power, threads
<1> QED
    BY <1>1, <1>2, <1>3, <1>4, <1>5 DEF Next

(* Suspended codecs stay so, and the clock runs down.                      *)
LEMMA SleepStep == TypeOK /\ ActiveInv /\ ResetInv /\ SleepInv /\ [Next]_vars => SleepInv'
<1> SUFFICES ASSUME TypeOK, ActiveInv, ResetInv, SleepInv, [Next]_vars
             PROVE  SleepInv'
    OBVIOUS
<1> USE CodecAssumption DEF TypeOK, ActiveInv, ResetInv, SleepInv, Codecs
<1>1. ASSUME NEW t \in Threads, Begin(t) \/ AccessStep(t)
      PROVE  SleepInv'
  <2>1. CASE Begin(t)
    BY <2>1 DEF Begin, Goto, MayAccess, clock, codecs, power
  <2>2. CASE Lock(t)
    BY <2>2 DEF Lock, Goto, clock, codecs, power
  <2>3. CASE EnableClock(t)
    BY <2>3 DEF EnableClock, Goto, codecs, power
  <2>4. CASE SetPage(t)
    BY <2>4 DEF SetPage, Goto, clock, codecs, power
  <2>5. CASE PageDone(t)
    BY <2>5 DEF PageDone, Goto, Paged, clock, power
  <2>6. CASE PageTimesOut(t)
    BY <2>6 DEF PageTimesOut, Goto, Paged, clock, power
  <2>7. CASE StorePage(t)
    BY <2>7 DEF StorePage, Goto, clock, power
  <2>8. CASE Access(t)
    BY <2>8 DEF Access, Goto, clock, codecs, power
  <2>9. CASE AccessDone(t)
    BY <2>9 DEF AccessDone, Goto, clock, codecs, power
  <2>10. CASE Unlock(t)
    BY <2>10 DEF Unlock, Goto, clock, codecs, power
  <2> QED
    BY <1>1, <2>1, <2>2, <2>3, <2>4, <2>5, <2>6, <2>7, <2>8, <2>9, <2>10 DEF AccessStep
<1>2. CASE TimerExpires
  BY <1>2 DEF TimerExpires, codecs, power, threads
<1>3. CASE Worker
  BY <1>3 DEF Worker, codecs, power, threads
<1>4. CASE PmStep
  <2>1. CASE Suspend
    BY <2>1 DEF Suspend, Stage, clock, codecs, threads
  <2>2. CASE MarkSuspended
    BY <2>2 DEF MarkSuspended, Stage, clock, threads
  <2>3. CASE ForgetPage
    BY <2>3 DEF ForgetPage, Stage, clock, threads
  <2>4. CASE AssertReset
    BY <2>4 DEF AssertReset, Stage, clock, threads
  <2>5. CASE CancelWork
    BY <2>5 DEF CancelWork, Stage, codecs, threads
  <2>6. CASE Cancelled
    BY <2>6 DEF Cancelled, Stage, clock, codecs, threads
  <2>7. CASE StopClock
    BY <2>7 DEF StopClock, Stage, codecs, threads
  <2>8. CASE ReleaseReset
    BY <2>8 DEF ReleaseReset, Stage, clock, threads
  <2>9. CASE ClearSuspended
    BY <2>9 DEF ClearSuspended, Stage, clock, threads
  <2>10. CASE Resumed
    BY <2>10 DEF Resumed, Stage, clock, codecs, threads
  <2> QED
    BY <1>4, <2>1, <2>2, <2>3, <2>4, <2>5, <2>6, <2>7, <2>8, <2>9, <2>10 DEF PmStep
<1>5. CASE UNCHANGED vars
    BY <1>5 DEF vars, clock, codecs, power, threads
<1> QED
    BY <1>1, <1>2, <1>3, <1>4, <1>5 DEF Next

(* Every step keeps the remembered page right.                             *)
LEMMA CacheStep == Quiesced /\ TypeOK /\ MuxInv /\ ActiveInv /\ ResetInv /\ CacheInv /\ SettledInv /\ [Next]_vars => CacheInv'
<1> SUFFICES ASSUME Quiesced, TypeOK, MuxInv, ActiveInv, ResetInv, CacheInv, SettledInv, [Next]_vars
             PROVE  CacheInv'
    OBVIOUS
<1> USE ThreadAssumption DEF Quiesced, TypeOK, MuxInv, ActiveInv, CacheInv, SettledInv, Threads, Held
<1>1. ASSUME NEW t \in Threads, Begin(t) \/ AccessStep(t)
      PROVE  CacheInv'
  <2>1. CASE Begin(t)
    BY <2>1 DEF Begin, Goto, MayAccess, clock, codecs, power
  <2>2. CASE Lock(t)
    BY <2>2 DEF Lock, Goto, clock, codecs, power
  <2>3. CASE EnableClock(t)
    BY <2>3 DEF EnableClock, Goto, codecs, power
  <2>4. CASE SetPage(t)
    BY <2>4 DEF SetPage, Goto, clock, codecs, power
  <2>5. CASE PageDone(t)
    BY <2>5 DEF PageDone, Goto, Paged, clock, power
  <2>6. CASE PageTimesOut(t)
    BY <2>6 DEF PageTimesOut, Goto, Paged, clock, power
  <2>7. CASE StorePage(t)
    BY <2>7 DEF StorePage, Goto, clock, power
  <2>8. CASE Access(t)
    BY <2>8 DEF Access, Goto, clock, codecs, power
  <2>9. CASE AccessDone(t)
    BY <2>9 DEF AccessDone, Goto, clock, codecs, power
  <2>10. CASE Unlock(t)
    BY <2>10 DEF Unlock, Goto, clock, codecs, power
  <2> QED
    BY <1>1, <2>1, <2>2, <2>3, <2>4, <2>5, <2>6, <2>7, <2>8, <2>9, <2>10 DEF AccessStep
<1>2. CASE TimerExpires
  BY <1>2 DEF TimerExpires, codecs, power, threads
<1>3. CASE Worker
  BY <1>3 DEF Worker, codecs, power, threads
<1>4. CASE PmStep
  <2>1. CASE Suspend
    BY <2>1 DEF Suspend, Stage, clock, codecs, threads
  <2>2. CASE MarkSuspended
    BY <2>2 DEF MarkSuspended, Stage, clock, threads
  <2>3. CASE ForgetPage
    BY <2>3 DEF ForgetPage, Stage, clock, threads
  <2>4. CASE AssertReset
    <3>1. UNCHANGED <<pc, op, last_page>> /\ stage' # "forgotten"
      BY <2>4 DEF AssertReset, Stage, threads
    <3>2. ASSUME NEW c \in Codecs
          PROVE  \/ last_page[c] = page'[c]
                 \/ \E t \in Threads : pc[t] = "paged" /\ op[t].codec = c
      <4>1. CASE c = cur
        BY <2>4, <4>1 DEF AssertReset
      <4>2. CASE c # cur
        BY <2>4, <4>2 DEF AssertReset
      <4> QED
        BY <4>1, <4>2
    <3> QED
      BY <3>1, <3>2
  <2>5. CASE CancelWork
    BY <2>5 DEF CancelWork, Stage, codecs, threads
  <2>6. CASE Cancelled
    BY <2>6 DEF Cancelled, Stage, clock, codecs, threads
  <2>7. CASE StopClock
    BY <2>7 DEF StopClock, Stage, codecs, threads
  <2>8. CASE ReleaseReset
    BY <2>8 DEF ReleaseReset, Stage, clock, threads
  <2>9. CASE ClearSuspended
    BY <2>9 DEF ClearSuspended, Stage, clock, threads
  <2>10. CASE Resumed
    BY <2>10 DEF Resumed, Stage, clock, codecs, threads
  <2> QED
    BY <1>4, <2>1, <2>2, <2>3, <2>4, <2>5, <2>6, <2>7, <2>8, <2>9, <2>10 DEF PmStep
<1>5. CASE UNCHANGED vars
    BY <1>5 DEF vars, clock, codecs, power, threads
<1> QED
    BY <1>1, <1>2, <1>3, <1>4, <1>5 DEF Next

(* Every step keeps the address and page its holder settled.               *)
LEMMA SettledStep == Quiesced /\ TypeOK /\ MuxInv /\ ActiveInv /\ ResetInv /\ CacheInv /\ SettledInv /\ [Next]_vars => SettledInv'
<1> SUFFICES ASSUME Quiesced, TypeOK, MuxInv, ActiveInv, ResetInv, CacheInv, SettledInv, [Next]_vars
             PROVE  SettledInv'
    OBVIOUS
<1> USE ThreadAssumption DEF Quiesced, TypeOK, MuxInv, ActiveInv, ResetInv, CacheInv, SettledInv, Threads, Held
<1>1. ASSUME NEW t \in Threads, Begin(t) \/ AccessStep(t)
      PROVE  SettledInv'
  <2>1. CASE Begin(t)
    BY <2>1 DEF Begin, Goto, MayAccess, clock, codecs, power
  <2>2. CASE Lock(t)
    BY <2>2 DEF Lock, Goto, clock, codecs, power
  <2>3. CASE EnableClock(t)
    BY <2>3 DEF EnableClock, Goto, codecs, power
  <2>4. CASE SetPage(t)
    BY <2>4 DEF SetPage, Goto, clock, codecs, power
  <2>5. CASE PageDone(t)
    BY <2>5 DEF PageDone, Goto, Paged, clock, power
  <2>6. CASE PageTimesOut(t)
    BY <2>6 DEF PageTimesOut, Goto, Paged, clock, power
  <2>7. CASE StorePage(t)
    BY <2>7 DEF StorePage, Goto, clock, power
  <2>8. CASE Access(t)
    BY <2>8 DEF Access, Goto, clock, codecs, power
  <2>9. CASE AccessDone(t)
    BY <2>9 DEF AccessDone, Goto, clock, codecs, power
  <2>10. CASE Unlock(t)
    BY <2>10 DEF Unlock, Goto, clock, codecs, power
  <2> QED
    BY <1>1, <2>1, <2>2, <2>3, <2>4, <2>5, <2>6, <2>7, <2>8, <2>9, <2>10 DEF AccessStep
<1>2. CASE TimerExpires
  BY <1>2 DEF TimerExpires, codecs, power, threads
<1>3. CASE Worker
  BY <1>3 DEF Worker, codecs, power, threads
<1>4. CASE PmStep
  <2>1. CASE Suspend
    BY <2>1 DEF Suspend, Stage, clock, codecs, threads
  <2>2. CASE MarkSuspended
    BY <2>2 DEF MarkSuspended, Stage, clock, threads
  <2>3. CASE ForgetPage
    BY <2>3 DEF ForgetPage, Stage, clock, threads
  <2>4. CASE AssertReset
    BY <2>4 DEF AssertReset, Stage, clock, threads
  <2>5. CASE CancelWork
    BY <2>5 DEF CancelWork, Stage, codecs, threads
  <2>6. CASE Cancelled
    BY <2>6 DEF Cancelled, Stage, clock, codecs, threads
  <2>7. CASE StopClock
    BY <2>7 DEF StopClock, Stage, codecs, threads
  <2>8. CASE ReleaseReset
    BY <2>8 DEF ReleaseReset, Stage, clock, threads
  <2>9. CASE ClearSuspended
    BY <2>9 DEF ClearSuspended, Stage, clock, threads
  <2>10. CASE Resumed
    BY <2>10 DEF Resumed, Stage, clock, codecs, threads
  <2> QED
    BY <1>4, <2>1, <2>2, <2>3, <2>4, <2>5, <2>6, <2>7, <2>8, <2>9, <2>10 DEF PmStep
<1>5. CASE UNCHANGED vars
    BY <1>5 DEF vars, clock, codecs, power, threads
<1> QED
    BY <1>1, <1>2, <1>3, <1>4, <1>5 DEF Next

-----------------------------------------------------------------------------
(* The invariants hold at first: every codec is suspended and in reset.    *)
LEMMA InitInv == Init => BaseInv /\ QuietInv
<1> SUFFICES ASSUME Init PROVE BaseInv /\ QuietInv
    OBVIOUS
<1> USE ThreadAssumption, CodecAssumption DEF Init, Codecs, Threads, Held
<1>1. 1 \in Codecs /\ op \in [Threads -> [codec : Codecs, page : Pages \cup {ResetPage}]]
    OBVIOUS
<1>2. TypeOK
    BY <1>1 DEF TypeOK, Points, Stages
<1>3. MuxInv /\ ClockInv /\ ClockWillStop
    BY DEF MuxInv, ClockInv, ClockWillStop
<1>4. QuietInv
    BY DEF QuietInv, ActiveInv, ResetInv, CacheInv, SettledInv, SleepInv
<1> QED
    BY <1>2, <1>3, <1>4 DEF BaseInv

(* Types, mutex and clock hold in every behaviour.                         *)
LEMMA BaseInvHolds == Spec => []BaseInv
<1>1. BaseInv /\ [Next]_vars => BaseInv'
    BY TypeStep, MuxStep, ClockStep, StopStep DEF BaseInv
<1> QED
    BY <1>1, InitInv, PTL DEF Spec

(* The rest holds when a suspend finds the callers idle.                   *)
LEMMA QuietInvHolds == ASSUME Quiesced PROVE Spec => []QuietInv
<1>1. BaseInv /\ QuietInv /\ [Next]_vars => QuietInv'
    BY Quiesced, ActiveStep, ResetStep, SleepStep, CacheStep, SettledStep
       DEF BaseInv, QuietInv
<1> QED
    BY <1>1, InitInv, BaseInvHolds, PTL DEF Spec

-----------------------------------------------------------------------------
(* Every variable keeps its type.                                          *)
THEOREM TypeCorrect == Spec => []TypeOK
BY BaseInvHolds, PTL DEF BaseInv

(* No transfer loses its clock, for any number of callers, with suspends   *)
(* and timeouts at any point.                                              *)
THEOREM ClockKept == Spec => []ClockWhileTransferring
<1>1. BaseInv => ClockWhileTransferring
    BY DEF BaseInv, ClockInv, ClockWhileTransferring, Transferring
<1> QED
    BY <1>1, BaseInvHolds, PTL

(* The clock is never left on with nobody to stop it.                      *)
THEOREM ClockStops == Spec => []ClockWillStop
BY BaseInvHolds, PTL DEF BaseInv

(* Every transfer reaches the codec and the page that were asked for,      *)
(* although codecs and threads share one address register and the page is  *)
(* only remembered.                                                        *)
THEOREM TransfersRight == ASSUME Quiesced PROVE Spec => []RightRegister
<1>1. QuietInv => RightRegister
    BY DEF QuietInv, SettledInv, RightRegister, Held
<1> QED
    BY <1>1, QuietInvHolds, PTL

(* No transfer goes to a codec in reset.                                   *)
THEOREM CodecsAwake == ASSUME Quiesced PROVE Spec => []TransfersAwake
<1>1. BaseInv /\ QuietInv => TransfersAwake
    BY DEF BaseInv, TypeOK, QuietInv, ActiveInv, ResetInv, TransfersAwake, Transferring
<1> QED
    BY <1>1, BaseInvHolds, QuietInvHolds, PTL

(* Suspended, the clock is off and the work is not queued.                 *)
THEOREM AsleepClockOff == ASSUME Quiesced PROVE Spec => []ClockOffAsleep
<1>1. QuietInv => ClockOffAsleep
    BY DEF QuietInv, SleepInv, ClockOffAsleep
<1> QED
    BY <1>1, QuietInvHolds, PTL
=============================================================================
