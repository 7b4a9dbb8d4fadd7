----------------------------- MODULE UnsolQueue -----------------------------
(***************************************************************************)
(* The queue of blocked unsolicited responses of the Apple CS8409 driver   *)
(* (patch_cirrus_new84.h).  Two contexts share it without a lock:          *)
(*                                                                         *)
(*   "worker"  the HDA core's unsolicited-event work, which calls          *)
(*             cs_8409_cs42l83_unsolicited_response once per response;     *)
(*   "pcm"     the thread in a PCM prepare or cleanup, which runs verb     *)
(*             blocks and then performs the responses stored meanwhile.    *)
(*                                                                         *)
(* block_unsol tells the worker to store its response in one of PoolSize   *)
(* preallocated items instead of running it.  A step is one access to the  *)
(* shared state, or one list operation; verb blocks, which last seconds,   *)
(* begin and end in different steps.                                       *)
(***************************************************************************)
EXTENDS Integers, Sequences, FiniteSets

CONSTANTS
    PoolSize,        \* unsol_items_prealloc: 10 in the driver
    MaxResponses,    \* bound: responses raised in a behaviour
    Paced            \* TRUE: the two contexts meet only between whole responses

ASSUME PoolAssumption == PoolSize \in Nat \ {0} /\ MaxResponses \in Nat

ASSUME PacedAssumption == Paced \in BOOLEAN

VARIABLES
    block,      \* spec->block_unsol
    used,       \* spec->unsol_items_prealloc_used
    item,       \* spec->unsol_items_prealloc: res, idx and the state of the link
    list,       \* spec->unsol_list, the items from head to tail
    pc,         \* where each context is
    pos, nxt,   \* unsol_entry and unsol_temp of each context's iteration
    resp,       \* the response each context is running or about to store
    stage,      \* "body" or "hook": the part of the PCM call being run
    kind,       \* which verbs the PCM call runs
    arrived,    \* responses raised so far; the n-th one has identity n
    handled,    \* how often each response was run
    lost,       \* responses ignored because every item was in use
    broken      \* the list has been corrupted: what follows is undefined

qvars == <<block, used, item, list>>
tvars == <<pc, pos, nxt, resp, stage, kind>>
hvars == <<arrived, handled, lost>>
vars  == <<block, used, item, list, pc, pos, nxt, resp, stage, kind,
           arrived, handled, lost, broken>>

-----------------------------------------------------------------------------
Contexts  == {"worker", "pcm"}
Responses == 1 .. MaxResponses
Slots     == 0 .. PoolSize - 1
ListHead  == PoolSize           \* the address of unsol_list itself
Null      == PoolSize + 1       \* a zeroed link
Links     == {"listed", "self", "zero"}
Kinds     == {"real", "head", "again"}

(* An item as memset leaves it: no response, index 0, NULL link.           *)
Zeroed == [res |-> 0, idx |-> 0, link |-> "zero"]

Listed(s) == \E i \in 1 .. Len(list) : list[i] = s

Place(s) == CHOOSE i \in 1 .. Len(list) : list[i] = s

(* list_next_entry: the item after s, s itself once s is unlinked, NULL    *)
(* once it has been zeroed.                                                *)
Next_entry(s) ==
    CASE s \in Slots /\ item[s].link = "listed" /\ Listed(s) ->
           IF Place(s) = Len(list) THEN ListHead ELSE list[Place(s) + 1]
      [] s \in Slots /\ item[s].link = "self" -> s
      [] OTHER -> Null

(* list_del_init: nothing happens to an item that is linked to itself.     *)
Without_kept(s) == list
Without(s) ==
    IF Listed(s)
      THEN SubSeq(list, 1, Place(s) - 1) \o SubSeq(list, Place(s) + 1, Len(list))
      ELSE list

Goto(t, label) == pc' = [pc EXCEPT ![t] = label]

(* Running a verb block on the codec.                                      *)
InVerbs(t) == pc[t] \in {"verbs", "running"}

(* Iterating over the list.                                                *)
Draining(t) == pc[t] \in {"perform", "unlink", "running", "release", "zero", "advance"}

(* Pacing: the pcm context moves only between two responses of the worker, *)
(* and no response is raised while a PCM hook performs the stored ones,    *)
(* nor in the instant between freeing an item and zeroing it.              *)
PcmMay    == Paced => pc["worker"] = "idle"
WorkerMay == Paced => ~(stage = "hook" /\ Draining("pcm")) /\ pc["pcm"] # "zero"
May(t)    == t = "pcm" => PcmMay

-----------------------------------------------------------------------------
Init ==
    /\ block = 0
    /\ used = [s \in Slots |-> 0]
    /\ item = [s \in Slots |-> Zeroed]
    /\ list = <<>>
    /\ pc = [t \in Contexts |-> "idle"]
    /\ pos = [t \in Contexts |-> ListHead]
    /\ nxt = [t \in Contexts |-> ListHead]
    /\ resp = [t \in Contexts |-> 0]
    /\ stage = "body"
    /\ kind = "again"
    /\ arrived = 0
    /\ handled = [r \in Responses |-> 0]
    /\ lost = {}
    /\ broken = FALSE

-----------------------------------------------------------------------------
(* The worker: cs_8409_cs42l83_unsolicited_response.                       *)

(* A response is raised and the worker tests block_unsol.                  *)
Raise ==
    /\ pc["worker"] = "idle" /\ WorkerMay /\ arrived < MaxResponses
    /\ arrived' = arrived + 1
    /\ resp' = [resp EXCEPT !["worker"] = arrived + 1]
    /\ Goto("worker", IF block = 1 THEN "store" ELSE "take")
    /\ UNCHANGED <<qvars, pos, nxt, stage, kind, handled, lost, broken>>

(* The search goes through the items from the first to the last.           *)
Free_past_end == {s \in 0 .. PoolSize : s = PoolSize \/ used[s] = 0}
Free_unchecked == Slots
Free == {s \in Slots : used[s] = 0}

(* Blocked: claim the first free item.                                     *)
Claim ==
    /\ pc["worker"] = "store"
    /\ \E s \in Free :
          /\ \A o \in Free : s <= o
          /\ used' = [used EXCEPT ![s] = 1]
          /\ pos' = [pos EXCEPT !["worker"] = s]
    /\ Goto("worker", "append")
    /\ UNCHANGED <<block, item, list, nxt, resp, stage, kind, hvars, broken>>

(* Blocked with every item in use: the response is ignored.                *)
Ignore ==
    /\ pc["worker"] = "store"
    /\ Free = {}
    /\ lost' = lost \cup {resp["worker"]}
    /\ Goto("worker", "idle")
    /\ UNCHANGED <<qvars, pos, nxt, resp, stage, kind, arrived, handled, broken>>

(* memset, res and idx; the link is made below.                            *)
Filled_no_idx(r, s) == [res |-> r, idx |-> 0, link |-> "listed"]
Filled(r, s) == [res |-> r, idx |-> s, link |-> "listed"]

(* Fill the item and list_add_tail it.  Zeroing an item that is still      *)
(* linked breaks the list.                                                 *)
Append_item ==
    /\ pc["worker"] = "append"
    /\ LET s == pos["worker"] IN
          IF Listed(s)
            THEN broken' = TRUE /\ UNCHANGED <<item, list>>
            ELSE /\ item' = [item EXCEPT ![s] = Filled(resp["worker"], s)]
                 /\ list' = Append(list, s)
                 /\ UNCHANGED broken
    /\ Goto("worker", "idle")
    /\ UNCHANGED <<block, used, pos, nxt, resp, stage, kind, hvars>>

(* Not blocked: block, and run the response.                               *)
Take ==
    /\ pc["worker"] = "take"
    /\ block' = 1
    /\ Goto("worker", "verbs")
    /\ UNCHANGED <<used, item, list, pos, nxt, resp, stage, kind, hvars, broken>>

Finish_taken ==
    /\ pc["worker"] = "verbs"
    /\ handled' = [handled EXCEPT ![resp["worker"]] = @ + 1]
    /\ Goto("worker", "perform")
    /\ UNCHANGED <<qvars, pos, nxt, resp, stage, kind, arrived, lost, broken>>

-----------------------------------------------------------------------------
(* cs_8409_perform_external_device_unsolicited_responses, by either        *)
(* context: list_for_each_entry_safe, its body in four steps.              *)

(* A hook goes on to its last assignments, the others unblock.             *)
AfterPerform_returns(t) == "idle"
AfterPerform(t) == IF t = "pcm" /\ stage = "hook" THEN "idle" ELSE "unblock"

Perform_empty(t) ==
    /\ pc[t] = "perform" /\ May(t)
    /\ list = <<>>
    /\ Goto(t, AfterPerform(t))
    /\ UNCHANGED <<qvars, pos, nxt, resp, stage, kind, hvars, broken>>

Perform_first(t) ==
    /\ pc[t] = "perform" /\ May(t)
    /\ list # <<>>
    /\ pos' = [pos EXCEPT ![t] = list[1]]
    /\ nxt' = [nxt EXCEPT ![t] = Next_entry(list[1])]
    /\ Goto(t, "unlink")
    /\ UNCHANGED <<qvars, resp, stage, kind, hvars, broken>>

(* list_del_init, then finalize is called with the item's res.  Unlinking  *)
(* a zeroed item dereferences NULL.                                        *)
Unlink(t) ==
    /\ pc[t] = "unlink" /\ May(t)
    /\ LET s == pos[t] IN
          IF s \notin Slots \/ item[s].link = "zero"
            THEN broken' = TRUE /\ UNCHANGED <<item, list, resp>>
            ELSE /\ list' = Without(s)
                 /\ item' = [item EXCEPT ![s].link = "self"]
                 /\ resp' = [resp EXCEPT ![t] = item[s].res]
                 /\ UNCHANGED broken
    /\ Goto(t, "running")
    /\ UNCHANGED <<block, used, pos, nxt, stage, kind, hvars>>

Finish_stored(t) ==
    /\ pc[t] = "running" /\ May(t)
    /\ handled' = [r \in Responses |-> IF r = resp[t] THEN handled[r] + 1 ELSE handled[r]]
    /\ Goto(t, "release")
    /\ UNCHANGED <<qvars, pos, nxt, resp, stage, kind, arrived, lost, broken>>

(* unsol_items_prealloc_used[unsol_entry->idx] = 0                         *)
Release(t) ==
    /\ pc[t] = "release" /\ May(t)
    /\ used' = [used EXCEPT ![item[pos[t]].idx] = 0]
    /\ Goto(t, "zero")
    /\ UNCHANGED <<block, item, list, pos, nxt, resp, stage, kind, hvars, broken>>

Zero(t) ==
    /\ pc[t] = "zero" /\ May(t)
    /\ broken' = Listed(pos[t])
    /\ item' = [item EXCEPT ![pos[t]] = Zeroed]
    /\ Goto(t, "advance")
    /\ UNCHANGED <<block, used, list, pos, nxt, resp, stage, kind, hvars>>

Advance(t) ==
    /\ pc[t] = "advance" /\ May(t)
    /\ IF nxt[t] = ListHead
         THEN Goto(t, AfterPerform(t)) /\ UNCHANGED <<pos, nxt>>
         ELSE /\ pos' = [pos EXCEPT ![t] = nxt[t]]
              /\ nxt' = [nxt EXCEPT ![t] = Next_entry(nxt[t])]
              /\ Goto(t, "unlink")
    /\ UNCHANGED <<qvars, resp, stage, kind, hvars, broken>>

(* block_unsol = 0 after the responses: the worker's last statement, and   *)
(* the last one of cs_8409_play_real and its three siblings, after which   *)
(* the PCM hook follows in the same call.                                  *)
Unblock(t) ==
    /\ pc[t] = "unblock" /\ May(t)
    /\ block' = 0
    /\ IF t = "worker" THEN Goto(t, "idle") /\ UNCHANGED stage
                       ELSE Goto(t, "hook") /\ stage' = "hook"
    /\ UNCHANGED <<used, item, list, pos, nxt, resp, kind, hvars, broken>>

-----------------------------------------------------------------------------
(* The pcm context.  A prepare or a cleanup                                *)
(*   "real"   without a jack: play_real, playstop_real, capture_real or    *)
(*            capturestop_real, which perform and unblock by themselves;   *)
(*   "head"   with a jack: the headset functions, which leave it to the    *)
(*            hook;                                                        *)
(*   "again"  a repeated prepare: the hook alone.                          *)

Blocks_no_jack(k) == k = "real"
Blocks(k) == k # "again"

Call(k) ==
    /\ pc["pcm"] = "idle" /\ PcmMay
    /\ kind' = k
    /\ block' = IF Blocks(k) THEN 1 ELSE block
    /\ IF k = "again" THEN Goto("pcm", "hook") /\ stage' = "hook"
                      ELSE Goto("pcm", "verbs") /\ stage' = "body"
    /\ UNCHANGED <<used, item, list, pos, nxt, resp, hvars, broken>>

Finish_verbs ==
    /\ pc["pcm"] = "verbs" /\ PcmMay
    /\ IF kind = "real" THEN Goto("pcm", "perform") /\ UNCHANGED stage
                        ELSE Goto("pcm", "hook") /\ stage' = "hook"
    /\ UNCHANGED <<qvars, pos, nxt, resp, kind, hvars, broken>>

(* The hook clears block_unsol first and performs the stored responses     *)
(* after that.                                                             *)
Hook ==
    /\ pc["pcm"] = "hook" /\ PcmMay
    /\ block' = 0
    /\ Goto("pcm", "perform")
    /\ UNCHANGED <<used, item, list, pos, nxt, resp, stage, kind, hvars, broken>>

-----------------------------------------------------------------------------
Perform(t) ==
    \/ Perform_empty(t) \/ Perform_first(t) \/ Unlink(t) \/ Finish_stored(t)
    \/ Release(t) \/ Zero(t) \/ Advance(t) \/ Unblock(t)

WorkerStep ==
    /\ ~broken
    /\ Claim \/ Ignore \/ Append_item \/ Take \/ Finish_taken \/ Perform("worker")

PcmStep == ~broken /\ (Finish_verbs \/ Hook \/ Perform("pcm"))

RaiseStep == ~broken /\ Raise

CallStep == ~broken /\ \E k \in Kinds : Call(k)

Next == RaiseStep \/ CallStep \/ WorkerStep \/ PcmStep

(* Responses and PCM calls may never come; a context that runs keeps       *)
(* running.                                                                *)
Fairness == WF_vars(WorkerStep) /\ WF_vars(PcmStep)

Spec == Init /\ [][Next]_vars

FairSpec == Spec /\ Fairness

-----------------------------------------------------------------------------
(* Properties.                                                             *)

(* Every variable keeps its type, the links and the cursors included.      *)
Labels == {"idle", "store", "append", "take", "verbs", "perform", "unlink",
           "running", "release", "zero", "advance", "unblock", "hook"}

Cursors == Slots \cup {ListHead, Null}

Items == [res : 0 .. MaxResponses, idx : Slots, link : Links]

QueueTypeOK ==
    /\ block \in {0, 1}
    /\ used \in [Slots -> {0, 1}]
    /\ item \in [Slots -> Items]
    /\ list \in Seq(Slots)

ContextTypeOK ==
    /\ pc \in [Contexts -> Labels]
    /\ pos \in [Contexts -> Cursors]
    /\ nxt \in [Contexts -> Cursors]
    /\ resp \in [Contexts -> 0 .. MaxResponses]
    /\ stage \in {"body", "hook"}
    /\ kind \in Kinds

HistoryTypeOK ==
    /\ arrived \in 0 .. MaxResponses
    /\ handled \in [Responses -> Nat]
    /\ lost \subseteq Responses
    /\ broken \in BOOLEAN

TypeOK == QueueTypeOK /\ ContextTypeOK /\ HistoryTypeOK

(* A context that is going to execute block_unsol = 0: the worker after it *)
(* has blocked, a PCM call before its hook has run.                        *)
WillUnblock(t) ==
    IF t = "worker" THEN pc[t] \notin {"idle", "store", "append", "take"}
                    ELSE pc[t] # "idle" /\ (stage = "body" \/ pc[t] = "hook")

(* Whenever block_unsol is set, however the two contexts interleave, some  *)
(* context is still going to clear it: it cannot be left set, with every   *)
(* later jack event stored and none performed.                             *)
BlockHasOwner == block = 1 => \E t \in Contexts : WillUnblock(t)

(* The same over time: a block ends, unless the list was corrupted.        *)
BlockEnds == (block = 1) ~> (block = 0 \/ broken)

(* The verb blocks of responses and of PCM calls never overlap.            *)
SerialBlocks == ~(InVerbs("worker") /\ InVerbs("pcm"))

(* The verb blocks of two responses never overlap.                         *)
SerialResponseBlocks == ~(InVerbs("worker") /\ pc["pcm"] = "running")

(* The iterations never follow or overwrite a link that another one has    *)
(* zeroed: the list survives additions while it is walked.                 *)
ListIntact == ~broken

(* An item is in use exactly while it is linked, being filled, or being    *)
(* run: items neither leak nor are given out twice.                        *)
Owned(s) == \/ Listed(s)
            \/ pc["worker"] = "append" /\ pos["worker"] = s
            \/ \E t \in Contexts : pc[t] \in {"running", "release"} /\ pos[t] = s

SlotsAccounted == \A s \in Slots : used[s] = 1 <=> Owned(s)

(* No response is left in the list when both contexts have gone home.      *)
NothingStranded ==
    (\A t \in Contexts : pc[t] = "idle") => list = <<>>

(* The queue implements SerialResponses, liveness included.                *)
Current(t) == pc[t] \in {"running", "release"} \/ (t = "worker" /\ pc[t] = "verbs")

RunningNow == {resp[t] : t \in {c \in Contexts : Current(c)}}

WaitingNow == {item[list[i]].res : i \in 1 .. Len(list)} \cup
              {resp[t] : t \in {c \in {"worker"} : pc[c] \in {"store", "append", "take"}}}

Abstract == INSTANCE SerialResponses
              WITH Capacity <- PoolSize,
                   waiting  <- WaitingNow,
                   running  <- RunningNow,
                   done     <- {r \in Responses : handled[r] > 0} \ RunningNow

ImplementsSerialResponses == Abstract!FairSpec
=============================================================================
