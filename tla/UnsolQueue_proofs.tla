-------------------------- MODULE UnsolQueue_proofs --------------------------
(***************************************************************************)
(* Theorems about the queue, for every pool size and every number of       *)
(* responses.  Whatever the interleaving, its types are kept and a block   *)
(* has an owner.  When its contexts are paced, its verb blocks do not      *)
(* overlap, its list stays whole, its items are accounted for, and it is   *)
(* empty when both contexts have gone home.                                *)
(***************************************************************************)
EXTENDS UnsolQueue, SequenceTheorems, TLAPS

(* The worker fills an item of the pool, never the list head.              *)
FillsItem == pc["worker"] = "append" => pos["worker"] \in Slots

(* What the worker is about to store, to ignore or to run was raised.      *)
StoresRaised == pc["worker"] \in {"store", "take", "verbs"} => resp["worker"] \in Responses

TypeInv == TypeOK /\ FillsItem /\ StoresRaised

LEMMA PlaceType ==
    ASSUME NEW s, Listed(s)
    PROVE  Place(s) \in 1 .. Len(list) /\ list[Place(s)] = s
  BY DEF Listed, Place

LEMMA WithoutType ==
    ASSUME list \in Seq(Slots), NEW s
    PROVE  Without(s) \in Seq(Slots)
  <1>1. CASE Listed(s)
    <2>1. Place(s) \in 1 .. Len(list)
      BY <1>1, PlaceType
    <2>2. SubSeq(list, 1, Place(s) - 1) \in Seq(Slots)
      BY <2>1
    <2>3. SubSeq(list, Place(s) + 1, Len(list)) \in Seq(Slots)
      BY <2>1
    <2>4. QED
      BY <1>1, <2>2, <2>3 DEF Without
  <1>2. CASE ~Listed(s)
    BY <1>2 DEF Without
  <1>3. QED
    BY <1>1, <1>2

LEMMA NextEntryType ==
    ASSUME list \in Seq(Slots), NEW s
    PROVE  Next_entry(s) \in Cursors
  <1>1. CASE s \in Slots /\ item[s].link = "listed" /\ Listed(s)
    <2>1. Place(s) \in 1 .. Len(list)
      BY <1>1, PlaceType
    <2>2. Next_entry(s) = IF Place(s) = Len(list) THEN ListHead ELSE list[Place(s) + 1]
      BY <1>1 DEF Next_entry
    <2>3. CASE Place(s) = Len(list)
      BY <2>2, <2>3 DEF Cursors
    <2>4. CASE Place(s) # Len(list)
      <3>1. Place(s) + 1 \in 1 .. Len(list)
        BY <2>1, <2>4
      <3>2. list[Place(s) + 1] \in Slots
        BY <3>1
      <3>3. QED
        BY <2>2, <2>4, <3>2 DEF Cursors
    <2>5. QED
      BY <2>3, <2>4
  <1>2. CASE ~(s \in Slots /\ item[s].link = "listed" /\ Listed(s))
    BY <1>2 DEF Next_entry, Cursors
  <1>3. QED
    BY <1>1, <1>2

LEMMA TypeInit == Init => TypeInv
  <1> SUFFICES ASSUME Init PROVE TypeInv
    OBVIOUS
  <1>1. 0 \in Slots
    BY PoolAssumption DEF Slots
  <1>2. Zeroed \in Items
    BY <1>1, PoolAssumption DEF Zeroed, Items, Links
  <1>3. QueueTypeOK
    BY <1>2 DEF Init, QueueTypeOK
  <1>4. ContextTypeOK
    BY PoolAssumption DEF Init, ContextTypeOK, Contexts, Labels, Cursors, Kinds
  <1>5. HistoryTypeOK
    <2>1. [r \in Responses |-> 0] \in [Responses -> Nat]
      OBVIOUS
    <2>2. 0 \in 0 .. MaxResponses /\ {} \subseteq Responses
      BY PoolAssumption
    <2>3. QED
      BY <2>1, <2>2 DEF Init, HistoryTypeOK
  <1>6. FillsItem /\ StoresRaised
    BY DEF Init, FillsItem, StoresRaised, Contexts
  <1>7. QED
    BY <1>3, <1>4, <1>5, <1>6 DEF TypeInv, TypeOK

(* One pass over the list keeps the types, whichever context makes it.     *)
LEMMA TypePerform ==
    ASSUME TypeInv, NEW t \in Contexts, Perform(t)
    PROVE  TypeInv'
  <1> USE DEF TypeInv, TypeOK
  <1>0. Contexts = {"worker", "pcm"} /\ t \in Contexts
    BY DEF Contexts
  <1>1. CASE Perform_empty(t)
    BY <1>0, <1>1 DEF Perform_empty, QueueTypeOK, ContextTypeOK, HistoryTypeOK,
       FillsItem, StoresRaised, Goto, AfterPerform, Labels, qvars, hvars
  <1>2. CASE Perform_first(t)
    <2>1. list[1] \in Slots
      BY <1>2 DEF Perform_first, QueueTypeOK
    <2>2. list[1] \in Cursors /\ Next_entry(list[1]) \in Cursors
      BY <2>1, NextEntryType DEF QueueTypeOK, Cursors
    <2>3. QED
      BY <1>0, <1>2, <2>2 DEF Perform_first, QueueTypeOK, ContextTypeOK, HistoryTypeOK,
         FillsItem, StoresRaised, Goto, Labels, qvars, hvars
  <1>3. CASE Unlink(t)
    <2>1. QueueTypeOK'
      <3>1. CASE broken' = TRUE /\ UNCHANGED <<item, list, resp>>
        BY <1>3, <3>1 DEF Unlink, QueueTypeOK
      <3>2. CASE /\ pos[t] \in Slots
                 /\ list' = Without(pos[t])
                 /\ item' = [item EXCEPT ![pos[t]].link = "self"]
        <4>1. list' \in Seq(Slots)
          BY <3>2, WithoutType DEF QueueTypeOK
        <4>2. item' \in [Slots -> Items]
          BY <3>2 DEF QueueTypeOK, Items, Links
        <4>3. QED
          BY <1>3, <4>1, <4>2 DEF Unlink, QueueTypeOK
      <3>3. QED
        BY <1>3, <3>1, <3>2 DEF Unlink
    <2>2. resp' \in [Contexts -> 0 .. MaxResponses] /\ broken' \in BOOLEAN
      BY <1>3 DEF Unlink, QueueTypeOK, ContextTypeOK, HistoryTypeOK, Items
    <2>3. QED
      BY <1>0, <1>3, <2>1, <2>2 DEF Unlink, ContextTypeOK, HistoryTypeOK,
         FillsItem, StoresRaised, Goto, Labels, hvars
  <1>4. CASE Finish_stored(t)
    <2>1. handled' \in [Responses -> Nat]
      BY <1>4 DEF Finish_stored, HistoryTypeOK
    <2>2. QED
      BY <1>0, <1>4, <2>1 DEF Finish_stored, QueueTypeOK, ContextTypeOK, HistoryTypeOK,
         FillsItem, StoresRaised, Goto, Labels, qvars
  <1>5. CASE Release(t)
    BY <1>0, <1>5 DEF Release, QueueTypeOK, ContextTypeOK, HistoryTypeOK,
       FillsItem, StoresRaised, Goto, Labels, hvars
  <1>6. CASE Zero(t)
    <2>1. Zeroed \in Items
      <3>1. 0 \in Slots
        BY PoolAssumption DEF Slots
      <3>2. QED
        BY <3>1, PoolAssumption DEF Zeroed, Items, Links
    <2>2. item' \in [Slots -> Items]
      BY <1>6, <2>1 DEF Zero, QueueTypeOK
    <2>3. broken' \in BOOLEAN
      BY <1>6 DEF Zero, Listed
    <2>4. QED
      BY <1>0, <1>6, <2>2, <2>3 DEF Zero, QueueTypeOK, ContextTypeOK, HistoryTypeOK,
         FillsItem, StoresRaised, Goto, Labels, hvars
  <1>7. CASE Advance(t)
    <2>1. Next_entry(nxt[t]) \in Cursors
      BY NextEntryType DEF QueueTypeOK
    <2>2. QED
      BY <1>0, <1>7, <2>1 DEF Advance, QueueTypeOK, ContextTypeOK, HistoryTypeOK,
         FillsItem, StoresRaised, Goto, AfterPerform, Labels, qvars, hvars
  <1>8. CASE Unblock(t)
    BY <1>0, <1>8 DEF Unblock, QueueTypeOK, ContextTypeOK, HistoryTypeOK,
       FillsItem, StoresRaised, Goto, Labels, hvars
  <1>9. QED
    BY <1>1, <1>2, <1>3, <1>4, <1>5, <1>6, <1>7, <1>8 DEF Perform

LEMMA TypeStep == TypeInv /\ [Next]_vars => TypeInv'
  <1> SUFFICES ASSUME TypeInv, [Next]_vars PROVE TypeInv'
    OBVIOUS
  <1> USE DEF TypeInv, TypeOK
  <1>0. Contexts = {"worker", "pcm"} /\ "worker" \in Contexts /\ "pcm" \in Contexts
    BY DEF Contexts
  <1>1. CASE RaiseStep
    <2>1. arrived + 1 \in Responses /\ arrived + 1 \in 0 .. MaxResponses
      BY <1>1, PoolAssumption DEF RaiseStep, Raise, HistoryTypeOK, Responses
    <2>2. QED
      BY <1>0, <1>1, <2>1 DEF RaiseStep, Raise, QueueTypeOK, ContextTypeOK, HistoryTypeOK,
         FillsItem, StoresRaised, Goto, Labels, qvars
  <1>2. CASE CallStep
    <2>1. PICK k \in Kinds : Call(k)
      BY <1>2 DEF CallStep
    <2>2. QED
      BY <1>0, <2>1 DEF Call, Blocks, QueueTypeOK, ContextTypeOK, HistoryTypeOK,
         FillsItem, StoresRaised, Goto, Labels, hvars
  <1>3. CASE WorkerStep
    <2>1. CASE Claim
      <3>1. PICK s \in Free : used' = [used EXCEPT ![s] = 1] /\ pos' = [pos EXCEPT !["worker"] = s]
        BY <2>1 DEF Claim
      <3>2. s \in Slots /\ s \in Cursors
        BY DEF Free, Cursors
      <3>3. QED
        BY <1>0, <2>1, <3>1, <3>2 DEF Claim, QueueTypeOK, ContextTypeOK, HistoryTypeOK,
           FillsItem, StoresRaised, Goto, Labels, hvars
    <2>2. CASE Ignore
      <3>1. lost' \subseteq Responses
        BY <2>2 DEF Ignore, HistoryTypeOK, StoresRaised
      <3>2. QED
        BY <1>0, <2>2, <3>1 DEF Ignore, QueueTypeOK, ContextTypeOK, HistoryTypeOK,
           FillsItem, StoresRaised, Goto, Labels, qvars
    <2>3. CASE Append_item
      <3> DEFINE s == pos["worker"]
      <3>1. s \in Slots
        BY <2>3 DEF Append_item, FillsItem
      <3>2. QueueTypeOK' /\ broken' \in BOOLEAN
        <4>1. CASE Listed(s)
          BY <2>3, <4>1 DEF Append_item, Filled, QueueTypeOK, HistoryTypeOK
        <4>2. CASE ~Listed(s)
          <5>1. [res |-> resp["worker"], idx |-> s, link |-> "listed"] \in Items
            BY <1>0, <3>1 DEF ContextTypeOK, Items, Links
          <5>2. item' = [item EXCEPT ![s] = [res |-> resp["worker"], idx |-> s, link |-> "listed"]]
                /\ list' = Append(list, s) /\ UNCHANGED <<block, used, broken>>
            BY <2>3, <4>2 DEF Append_item, Filled
          <5>3. list' \in Seq(Slots)
            BY <3>1, <5>2 DEF QueueTypeOK
          <5>4. item' \in [Slots -> Items]
            BY <5>1, <5>2 DEF QueueTypeOK
          <5>5. QED
            BY <5>2, <5>3, <5>4 DEF QueueTypeOK, HistoryTypeOK
        <4>3. QED
          BY <4>1, <4>2
      <3>3. QED
        BY <1>0, <2>3, <3>2 DEF Append_item, ContextTypeOK, HistoryTypeOK,
           FillsItem, StoresRaised, Goto, Labels, hvars
    <2>4. CASE Take
      BY <1>0, <2>4 DEF Take, QueueTypeOK, ContextTypeOK, HistoryTypeOK,
         FillsItem, StoresRaised, Goto, Labels, hvars
    <2>5. CASE Finish_taken
      <3>1. handled' \in [Responses -> Nat]
        BY <2>5 DEF Finish_taken, HistoryTypeOK, StoresRaised
      <3>2. QED
        BY <1>0, <2>5, <3>1 DEF Finish_taken, QueueTypeOK, ContextTypeOK, HistoryTypeOK,
           FillsItem, StoresRaised, Goto, Labels, qvars
    <2>6. CASE Perform("worker")
      BY <1>0, <2>6, TypePerform
    <2>7. QED
      BY <1>3, <2>1, <2>2, <2>3, <2>4, <2>5, <2>6 DEF WorkerStep
  <1>4. CASE PcmStep
    <2>1. CASE Finish_verbs
      BY <1>0, <2>1 DEF Finish_verbs, QueueTypeOK, ContextTypeOK, HistoryTypeOK,
         FillsItem, StoresRaised, Goto, Labels, qvars, hvars
    <2>2. CASE Hook
      BY <1>0, <2>2 DEF Hook, QueueTypeOK, ContextTypeOK, HistoryTypeOK,
         FillsItem, StoresRaised, Goto, Labels, hvars
    <2>3. CASE Perform("pcm")
      BY <1>0, <2>3, TypePerform
    <2>4. QED
      BY <1>4, <2>1, <2>2, <2>3 DEF PcmStep
  <1>5. CASE UNCHANGED vars
    BY <1>5 DEF vars, QueueTypeOK, ContextTypeOK, HistoryTypeOK, FillsItem, StoresRaised
  <1>6. QED
    BY <1>1, <1>2, <1>3, <1>4, <1>5 DEF Next

(* Every variable keeps its type, the links and the cursors included.      *)
THEOREM TypeCorrect == Spec => []TypeOK
  <1>1. TypeInv => TypeOK
    BY DEF TypeInv
  <1>2. QED
    BY TypeInit, TypeStep, <1>1, PTL DEF Spec

-----------------------------------------------------------------------------
LEMMA OwnerInit == Init => BlockHasOwner
  BY DEF Init, BlockHasOwner

LEMMA OwnerPerform ==
    ASSUME TypeInv, BlockHasOwner, NEW t \in Contexts, Perform(t)
    PROVE  BlockHasOwner'
  <1> USE DEF TypeInv, TypeOK, ContextTypeOK, BlockHasOwner, WillUnblock, Goto
  <1>0. Contexts = {"worker", "pcm"}
    BY DEF Contexts
  <1>1. CASE Unblock(t)
    BY <1>1 DEF Unblock
  <1>2. CASE Perform_empty(t) \/ Advance(t)
    BY <1>0, <1>2 DEF Perform_empty, Advance, AfterPerform, qvars
  <1>3. CASE Perform_first(t) \/ Unlink(t) \/ Finish_stored(t) \/ Release(t) \/ Zero(t)
    BY <1>0, <1>3 DEF Perform_first, Unlink, Finish_stored, Release, Zero, qvars
  <1>4. QED
    BY <1>1, <1>2, <1>3 DEF Perform

LEMMA OwnerStep == TypeInv /\ BlockHasOwner /\ [Next]_vars => BlockHasOwner'
  <1> SUFFICES ASSUME TypeInv, BlockHasOwner, [Next]_vars PROVE BlockHasOwner'
    OBVIOUS
  <1> USE DEF TypeInv, TypeOK, ContextTypeOK, BlockHasOwner, WillUnblock, Goto
  <1>0. Contexts = {"worker", "pcm"} /\ "worker" \in Contexts /\ "pcm" \in Contexts
    BY DEF Contexts
  <1>1. CASE RaiseStep
    BY <1>0, <1>1 DEF RaiseStep, Raise, qvars
  <1>2. CASE CallStep
    <2>1. PICK k \in Kinds : Call(k)
      BY <1>2 DEF CallStep
    <2>2. QED
      BY <1>0, <2>1 DEF Call, Blocks
  <1>3. CASE WorkerStep
    <2>1. CASE Perform("worker")
      BY <1>0, <2>1, OwnerPerform
    <2>2. CASE Claim \/ Ignore \/ Append_item
      BY <1>0, <2>2 DEF Claim, Ignore, Append_item, qvars
    <2>3. CASE Take \/ Finish_taken
      BY <1>0, <2>3 DEF Take, Finish_taken, qvars
    <2>4. QED
      BY <1>3, <2>1, <2>2, <2>3 DEF WorkerStep
  <1>4. CASE PcmStep
    <2>1. CASE Perform("pcm")
      BY <1>0, <2>1, OwnerPerform
    <2>2. CASE Finish_verbs
      BY <1>0, <2>2 DEF Finish_verbs, qvars
    <2>3. CASE Hook
      BY <2>3 DEF Hook
    <2>4. QED
      BY <1>4, <2>1, <2>2, <2>3 DEF PcmStep
  <1>5. CASE UNCHANGED vars
    BY <1>5 DEF vars
  <1>6. QED
    BY <1>1, <1>2, <1>3, <1>4, <1>5 DEF Next

(* However the worker and the PCM calls interleave, block_unsol is never   *)
(* left set with no context that is going to clear it.                     *)
THEOREM BlockAlwaysHasOwner == Spec => []BlockHasOwner
  <1>1. Init => TypeInv /\ BlockHasOwner
    BY TypeInit, OwnerInit
  <1>2. (TypeInv /\ BlockHasOwner) /\ [Next]_vars => (TypeInv /\ BlockHasOwner)'
    BY TypeStep, OwnerStep
  <1>3. QED
    BY <1>1, <1>2, PTL DEF Spec

-----------------------------------------------------------------------------
(* Who runs when.  A worker that runs a response finds the pcm context     *)
(* between two calls, or between the two halves of one; a worker that      *)
(* stores one finds it in a call; the hook performs responses alone.       *)

PcmIn == pc["pcm"] \notin {"idle", "hook"}

Storing == pc["worker"] \in {"store", "append"}

PacingInv ==
    /\ pc["worker"] \notin {"idle", "store", "append"} => ~PcmIn
    /\ Storing => pc["pcm"] # "idle"
    /\ PcmIn /\ stage = "body" => block = 1
    /\ PcmIn /\ stage = "hook" => pc["worker"] = "idle"
    /\ pc["pcm"] = "zero" => pc["worker"] = "idle"
    /\ pc["pcm"] \in {"verbs", "unblock"} => stage = "body"
    /\ pc["pcm"] = "hook" => stage = "hook"
    /\ pc["pcm"] \notin {"store", "append", "take"}
    /\ pc["worker"] # "hook"

-----------------------------------------------------------------------------
(* The list.                                                               *)

Distinct(l) == \A i, j \in 1 .. Len(l) : l[i] = l[j] => i = j

LinkedInv ==
    /\ Distinct(list)
    /\ \A i \in 1 .. Len(list) : item[list[i]].link = "listed" /\ item[list[i]].idx = list[i]

(* The iteration is always at the head of the list: nobody else unlinks.   *)
(* Its next item may be the list's head although there are more items, for *)
(* they were appended since; that happens to no iteration that runs alone. *)
Alone(t) == t = "worker" \/ stage = "hook"

CursorInv(t) ==
    /\ pc[t] = "unlink" =>
          /\ list # <<>> /\ pos[t] = list[1]
          /\ \/ nxt[t] = ListHead /\ (Alone(t) => Len(list) = 1)
             \/ Len(list) > 1 /\ nxt[t] = list[2]
    /\ pc[t] \in {"running", "release", "zero", "advance"} =>
          \/ nxt[t] = ListHead /\ (Alone(t) => list = <<>>)
          \/ list # <<>> /\ nxt[t] = list[1]
    /\ pc[t] \in {"running", "release", "zero"} => pos[t] \in Slots /\ ~Listed(pos[t])
    /\ pc[t] \in {"running", "release"} => item[pos[t]].idx = pos[t]

(* An item that is being filled is not linked, nor one that is being run.  *)
FillInv ==
    pc["worker"] = "append" =>
        /\ pos["worker"] \in Slots /\ ~Listed(pos["worker"])
        /\ pc["pcm"] \in {"running", "release"} => pos["pcm"] # pos["worker"]

EmptyInv ==
    pc["pcm"] = "idle" /\ ~Draining("worker") => list = <<>>

ListInv ==
    /\ broken = FALSE
    /\ LinkedInv /\ FillInv /\ EmptyInv /\ SlotsAccounted
    /\ CursorInv("worker") /\ CursorInv("pcm")

PacedInv == PacingInv /\ ListInv

-----------------------------------------------------------------------------
(* The list operations.                                                    *)

In(s, l) == \E i \in 1 .. Len(l) : l[i] = s

LEMMA OneOrMore == \A n \in Nat : n > 0 => n = 1 \/ n > 1
  OBVIOUS

LEMMA NoIndex == 1 \notin 1 .. Len(<<>>)
  BY EmptySeq

LEMMA HeadNext ==
    ASSUME list \in Seq(Slots), LinkedInv, list # <<>>
    PROVE  /\ list[1] \in Slots /\ Listed(list[1]) /\ Place(list[1]) = 1
           /\ Next_entry(list[1]) = IF Len(list) = 1 THEN ListHead ELSE list[2]
<1>1. 1 \in 1 .. Len(list) /\ list[1] \in Slots
    OBVIOUS
<1>2. Listed(list[1])
    BY <1>1 DEF Listed
<1>3. Place(list[1]) = 1
    BY <1>1, <1>2, PlaceType DEF LinkedInv, Distinct
<1>4. item[list[1]].link = "listed"
    BY <1>1 DEF LinkedInv
<1> QED
    BY <1>1, <1>2, <1>3, <1>4 DEF Next_entry

LEMMA TailList ==
    ASSUME NEW l \in Seq(Slots), l # <<>>, Distinct(l)
    PROVE  /\ Tail(l) \in Seq(Slots) /\ Len(Tail(l)) = Len(l) - 1
           /\ \A i \in 1 .. Len(Tail(l)) : Tail(l)[i] = l[i + 1]
           /\ Distinct(Tail(l))
           /\ \A s : In(s, Tail(l)) <=> In(s, l) /\ s # l[1]
<1>1. Tail(l) \in Seq(Slots) /\ Len(Tail(l)) = Len(l) - 1
      /\ \A i \in 1 .. Len(Tail(l)) : Tail(l)[i] = l[i + 1]
    BY HeadTailProperties
<1>2. Len(l) \in Nat /\ Len(l) > 0
    OBVIOUS
<1>3. Distinct(Tail(l))
  <2> SUFFICES ASSUME NEW i \in 1 .. Len(Tail(l)), NEW j \in 1 .. Len(Tail(l)),
                      Tail(l)[i] = Tail(l)[j]
               PROVE  i = j
    BY DEF Distinct
  <2>1. i + 1 \in 1 .. Len(l) /\ j + 1 \in 1 .. Len(l) /\ l[i + 1] = l[j + 1]
    BY <1>1, <1>2
  <2>2. i + 1 = j + 1
    BY <2>1 DEF Distinct
  <2> QED
    BY <1>1, <1>2, <2>2
<1>4. ASSUME NEW s, In(s, Tail(l))
      PROVE  In(s, l) /\ s # l[1]
  <2>1. PICK i \in 1 .. Len(Tail(l)) : Tail(l)[i] = s
    BY <1>4 DEF In
  <2>2. i + 1 \in 1 .. Len(l) /\ l[i + 1] = s /\ i + 1 # 1 /\ 1 \in 1 .. Len(l)
    BY <1>1, <1>2, <2>1
  <2> QED
    BY <2>2 DEF In, Distinct
<1>5. ASSUME NEW s, In(s, l), s # l[1]
      PROVE  In(s, Tail(l))
  <2>1. PICK i \in 1 .. Len(l) : l[i] = s
    BY <1>5 DEF In
  <2>2. i - 1 \in 1 .. Len(Tail(l)) /\ Tail(l)[i - 1] = l[(i - 1) + 1]
    BY <1>1, <1>2, <1>5, <2>1
  <2>3. (i - 1) + 1 = i
    BY <2>1
  <2> QED
    BY <2>1, <2>2, <2>3 DEF In
<1> QED
    BY <1>1, <1>3, <1>4, <1>5

LEMMA HeadOut ==
    ASSUME list \in Seq(Slots), LinkedInv, list # <<>>
    PROVE  Without(list[1]) = Tail(list)
<1>1. Without(list[1]) = SubSeq(list, 1, 0) \o SubSeq(list, 2, Len(list))
    BY HeadNext DEF Without
<1>2. SubSeq(list, 1, 0) = <<>>
    BY SubSeqEmpty
<1>3. Tail(list) = SubSeq(list, 2, Len(list)) /\ Tail(list) \in Seq(Slots)
    BY TailIsSubSeq, HeadTailProperties
<1> QED
    BY <1>1, <1>2, <1>3, ConcatEmptySeq

LEMMA AppendList ==
    ASSUME NEW l \in Seq(Slots), Distinct(l), NEW s \in Slots, ~In(s, l)
    PROVE  /\ Append(l, s) \in Seq(Slots) /\ Len(Append(l, s)) = Len(l) + 1
           /\ \A i \in 1 .. Len(l) : Append(l, s)[i] = l[i]
           /\ Append(l, s)[Len(l) + 1] = s
           /\ Distinct(Append(l, s))
           /\ \A x : In(x, Append(l, s)) <=> In(x, l) \/ x = s
<1>1. /\ Append(l, s) \in Seq(Slots) /\ Len(Append(l, s)) = Len(l) + 1
      /\ \A i \in 1 .. Len(l) : Append(l, s)[i] = l[i]
      /\ Append(l, s)[Len(l) + 1] = s
    BY AppendProperties
<1>2. Len(l) \in Nat
    OBVIOUS
<1>3. \A i \in 1 .. Len(Append(l, s)) : i \in 1 .. Len(l) \/ i = Len(l) + 1
    BY <1>1, <1>2
<1>4. Distinct(Append(l, s))
    BY <1>1, <1>3 DEF Distinct, In
<1>5. ASSUME NEW x
      PROVE  In(x, Append(l, s)) <=> In(x, l) \/ x = s
  <2>1. 1 .. Len(l) \subseteq 1 .. Len(Append(l, s)) /\ Len(l) + 1 \in 1 .. Len(Append(l, s))
    BY <1>1, <1>2
  <2> QED
    BY <1>1, <1>3, <2>1 DEF In
<1> QED
    BY <1>1, <1>4, <1>5

-----------------------------------------------------------------------------
(* The pacing is kept.                                                     *)

LEMMA PacingInit == Init => PacingInv
  BY DEF Init, PacingInv, PcmIn, Storing, Contexts

LEMMA PacingPerform ==
    ASSUME Paced, TypeInv, PacingInv, NEW t \in Contexts, Perform(t)
    PROVE  PacingInv'
  <1> USE DEF TypeInv, TypeOK, ContextTypeOK, QueueTypeOK, PacingInv, PcmIn, Storing, Goto, May, PcmMay, Labels
  <1>0. Contexts = {"worker", "pcm"}
    BY DEF Contexts
  <1>1. CASE Perform_empty(t)
    BY <1>0, <1>1 DEF Perform_empty, AfterPerform, qvars
  <1>2. CASE Perform_first(t)
    BY <1>0, <1>2 DEF Perform_first, qvars
  <1>3. CASE Unlink(t)
    BY <1>0, <1>3 DEF Unlink, qvars
  <1>4. CASE Finish_stored(t)
    BY <1>0, <1>4 DEF Finish_stored, qvars
  <1>5. CASE Release(t)
    BY <1>0, <1>5 DEF Release, qvars
  <1>6. CASE Zero(t)
    BY <1>0, <1>6 DEF Zero, qvars
  <1>7. CASE Advance(t)
    BY <1>0, <1>7 DEF Advance, AfterPerform, qvars
  <1>8. CASE Unblock(t)
    BY <1>0, <1>8 DEF Unblock, qvars
  <1> QED
    BY <1>1, <1>2, <1>3, <1>4, <1>5, <1>6, <1>7, <1>8 DEF Perform

LEMMA PacingStep ==
    ASSUME Paced, TypeInv, BlockHasOwner, PacingInv, [Next]_vars
    PROVE  PacingInv'
  <1> USE DEF TypeInv, TypeOK, ContextTypeOK, QueueTypeOK, PacingInv, PcmIn, Storing, Goto, PcmMay, Labels
  <1>0. Contexts = {"worker", "pcm"} /\ "worker" \in Contexts /\ "pcm" \in Contexts
    BY DEF Contexts
  <1>1. CASE RaiseStep
    BY <1>0, <1>1 DEF RaiseStep, Raise, BlockHasOwner, WillUnblock, WorkerMay, Draining, qvars
  <1>2. CASE CallStep
    <2>1. PICK k \in Kinds : Call(k)
      BY <1>2 DEF CallStep
    <2> QED
      BY <1>0, <2>1 DEF Call, Blocks
  <1>3. CASE Claim \/ Ignore \/ Append_item
    BY <1>0, <1>3 DEF Claim, Ignore, Append_item, qvars
  <1>4. CASE Take \/ Finish_taken
    BY <1>0, <1>4 DEF Take, Finish_taken, qvars
  <1>5. CASE Finish_verbs
    BY <1>0, <1>5 DEF Finish_verbs, qvars
  <1>6. CASE Hook
    BY <1>0, <1>6 DEF Hook
  <1>7. CASE Perform("worker") \/ Perform("pcm")
    BY <1>0, <1>7, PacingPerform
  <1>8. CASE UNCHANGED vars
    BY <1>8 DEF vars
  <1> QED
    BY <1>1, <1>2, <1>3, <1>4, <1>5, <1>6, <1>7, <1>8 DEF Next, WorkerStep, PcmStep

LEMMA PacedTypes == ASSUME Paced PROVE Spec => [](TypeInv /\ BlockHasOwner /\ PacingInv)
<1>1. Init => TypeInv /\ BlockHasOwner /\ PacingInv
  BY TypeInit, OwnerInit, PacingInit
<1>2. (TypeInv /\ BlockHasOwner /\ PacingInv) /\ [Next]_vars => (TypeInv /\ BlockHasOwner /\ PacingInv)'
  BY TypeStep, OwnerStep, PacingStep
<1> QED
  BY <1>1, <1>2, PTL DEF Spec

(* Two contexts that meet only between whole responses never run verbs on  *)
(* the codec at the same time.                                             *)
THEOREM BlocksSerial == ASSUME Paced PROVE Spec => []SerialBlocks
<1>1. PacingInv => SerialBlocks
  BY DEF PacingInv, PcmIn, SerialBlocks, InVerbs
<1> QED
  BY <1>1, PacedTypes, PTL

(* A context that performs responses finds the other one at home or        *)
(* between the halves of a call.                                           *)
LEMMA OtherAtHome ==
    ASSUME Paced, PacingInv
    PROVE  /\ Perform("worker") => pc["pcm"] \in {"idle", "hook"}
           /\ Perform("pcm") => pc["worker"] = "idle"
<1>1. Perform("worker") => pc["worker"] \notin {"idle", "store", "append"}
  BY DEF Perform, Perform_empty, Perform_first, Unlink, Finish_stored, Release, Zero, Advance,
     Unblock
<1>2. Perform("pcm") => PcmMay
  BY DEF Perform, Perform_empty, Perform_first, Unlink, Finish_stored, Release, Zero, Advance,
     Unblock, May
<1> QED
  BY <1>1, <1>2 DEF PacingInv, PcmIn, PcmMay

(* The list is kept whole.                                                 *)

LEMMA ListInit == Init => ListInv
<1> SUFFICES ASSUME Init PROVE ListInv
  OBVIOUS
<1>1. LinkedInv /\ FillInv /\ EmptyInv /\ broken = FALSE
  BY DEF Init, LinkedInv, Distinct, FillInv, EmptyInv, Contexts
<1>2. CursorInv("worker") /\ CursorInv("pcm")
  BY DEF Init, CursorInv, Contexts
<1>3. SlotsAccounted
  BY DEF Init, SlotsAccounted, Owned, Listed, Contexts
<1> QED
  BY <1>1, <1>2, <1>3 DEF ListInv

(* Unlinking takes the head out of the list.                               *)
LEMMA UnlinkEffect ==
    ASSUME TypeInv, ListInv, NEW t \in Contexts, Unlink(t)
    PROVE  /\ pc[t] = "unlink" /\ list # <<>> /\ pos[t] = list[1]
           /\ list[1] \in Slots /\ Listed(list[1]) /\ item[list[1]].idx = list[1]
           /\ list' = Tail(list) /\ item' = [item EXCEPT ![list[1]].link = "self"]
           /\ resp' = [resp EXCEPT ![t] = item[list[1]].res]
           /\ UNCHANGED <<used, pos, nxt, broken, stage, hvars>>
           /\ pc' = [pc EXCEPT ![t] = "running"]
           /\ Len(list') = Len(list) - 1 /\ Len(list) \in Nat /\ list' \in Seq(Slots)
           /\ \A i \in 1 .. Len(list') : list'[i] = list[i + 1]
           /\ Distinct(list')
           /\ \A x : Listed(x)' <=> Listed(x) /\ x # list[1]
<1> DEFINE s == list[1]
<1>0. list \in Seq(Slots) /\ item \in [Slots -> Items] /\ ListHead \notin Slots
      /\ Contexts = {"worker", "pcm"}
  BY PoolAssumption DEF TypeInv, TypeOK, QueueTypeOK, ListHead, Slots, Contexts
<1>1. LinkedInv /\ broken = FALSE /\ CursorInv(t)
  BY <1>0 DEF ListInv
<1>2. /\ pc[t] = "unlink" /\ list # <<>> /\ pos[t] = s /\ s \in Slots /\ Listed(s)
      /\ item[s].link = "listed" /\ item[s].idx = s
  BY <1>0, <1>1, HeadNext DEF Unlink, CursorInv, LinkedInv
<1>3. /\ list' = Tail(list) /\ item' = [item EXCEPT ![s].link = "self"]
      /\ resp' = [resp EXCEPT ![t] = item[s].res]
      /\ UNCHANGED <<used, pos, nxt, broken, stage, hvars>>
      /\ pc' = [pc EXCEPT ![t] = "running"]
  BY <1>0, <1>1, <1>2, HeadOut DEF Unlink, Goto
<1>4. /\ Len(list') = Len(list) - 1 /\ Len(list) \in Nat /\ list' \in Seq(Slots)
      /\ \A i \in 1 .. Len(list') : list'[i] = list[i + 1]
      /\ Distinct(list')
      /\ \A x : Listed(x)' <=> Listed(x) /\ x # s
  <2>1. Distinct(list) /\ list' = Tail(list) /\ list \in Seq(Slots)
    BY <1>0, <1>1, <1>3 DEF LinkedInv
  <2>2. \A x : Listed(x) <=> In(x, list)
    BY DEF In, Listed
  <2>3. \A x : Listed(x)' <=> In(x, Tail(list))
    BY <2>1 DEF In, Listed
  <2> QED
    BY <1>2, <2>1, <2>2, <2>3, TailList
<1> QED
  BY <1>2, <1>3, <1>4

(* Appending adds an item that was not in the list.                        *)
LEMMA AppendEffect ==
    ASSUME TypeInv, ListInv, Append_item
    PROVE  /\ pc["worker"] = "append" /\ pos["worker"] \in Slots /\ ~Listed(pos["worker"])
           /\ pc["pcm"] \in {"running", "release"} => pos["pcm"] # pos["worker"]
           /\ item' = [item EXCEPT ![pos["worker"]] = Filled(resp["worker"], pos["worker"])]
           /\ list' = Append(list, pos["worker"])
           /\ UNCHANGED <<used, pos, nxt, resp, stage, broken, hvars>>
           /\ pc' = [pc EXCEPT !["worker"] = "idle"]
           /\ list' \in Seq(Slots) /\ Len(list') = Len(list) + 1 /\ Len(list) \in Nat
           /\ \A i \in 1 .. Len(list) : list'[i] = list[i]
           /\ list'[Len(list) + 1] = pos["worker"]
           /\ Distinct(list')
           /\ \A x : Listed(x)' <=> Listed(x) \/ x = pos["worker"]
<1> DEFINE s == pos["worker"]
<1>1. /\ pc["worker"] = "append" /\ s \in Slots /\ ~Listed(s)
      /\ pc["pcm"] \in {"running", "release"} => pos["pcm"] # s
  BY DEF Append_item, FillInv, ListInv
<1>2. /\ item' = [item EXCEPT ![s] = Filled(resp["worker"], s)] /\ list' = Append(list, s)
      /\ UNCHANGED <<used, pos, nxt, resp, stage, broken, hvars>>
      /\ pc' = [pc EXCEPT !["worker"] = "idle"]
  BY <1>1 DEF Append_item, Goto
<1>3. /\ list' \in Seq(Slots) /\ Len(list') = Len(list) + 1 /\ Len(list) \in Nat
      /\ \A i \in 1 .. Len(list) : list'[i] = list[i]
      /\ list'[Len(list) + 1] = s
      /\ Distinct(list')
      /\ \A x : Listed(x)' <=> Listed(x) \/ x = s
  <2>1. Distinct(list) /\ list' = Append(list, s) /\ list \in Seq(Slots)
    BY <1>2 DEF ListInv, LinkedInv, TypeInv, TypeOK, QueueTypeOK
  <2>2. \A x : Listed(x) <=> In(x, list)
    BY DEF In, Listed
  <2>3. \A x : Listed(x)' <=> In(x, Append(list, s))
    BY <2>1 DEF In, Listed
  <2> QED
    BY <1>1, <2>1, <2>2, <2>3, AppendList
<1> QED
  BY <1>1, <1>2, <1>3

LEMMA ListPerform ==
    ASSUME Paced, TypeInv, PacingInv, ListInv, NEW t \in Contexts, NEW o \in Contexts, t # o,
           pc[o] \in {"idle", "hook"}, Perform(t)
    PROVE  ListInv'
<1>0. /\ Contexts = {"worker", "pcm"} /\ pc \in [Contexts -> Labels]
      /\ pos \in [Contexts -> Cursors] /\ nxt \in [Contexts -> Cursors]
      /\ list \in Seq(Slots) /\ item \in [Slots -> Items] /\ used \in [Slots -> {0, 1}]
      /\ ListHead \notin Slots
  BY PoolAssumption DEF TypeInv, TypeOK, QueueTypeOK, ContextTypeOK, Contexts, ListHead, Slots
<1>s. (t = "worker" /\ o = "pcm") \/ (t = "pcm" /\ o = "worker")
  BY <1>0
<1> USE DEF Goto
<1>1. CASE Perform_empty(t) \/ Unblock(t)
  <2>1. /\ UNCHANGED <<item, list, used, pos, nxt, broken>>
        /\ pc[t] \in {"perform", "unblock"} /\ pc'[t] \in {"idle", "hook", "unblock"}
        /\ pc'[o] = pc[o]
    BY <1>0, <1>1 DEF Perform_empty, Unblock, AfterPerform, qvars
  <2>2. CursorInv(t)' /\ CursorInv(o)' /\ FillInv'
    BY <1>0, <1>s, <2>1 DEF CursorInv, FillInv
  <2>3. EmptyInv'
    BY <1>0, <1>1, <1>s, <2>1 DEF EmptyInv, Draining, Perform_empty, Unblock, AfterPerform, ListInv
  <2>4. SlotsAccounted'
    BY <1>0, <1>s, <2>1 DEF SlotsAccounted, Owned, Listed, ListInv
  <2>5. LinkedInv' /\ broken' = FALSE
    BY <2>1 DEF LinkedInv, ListInv
  <2> QED
    BY <1>s, <2>2, <2>3, <2>4, <2>5 DEF ListInv
<1>2. CASE Perform_first(t)
  <2>1. /\ UNCHANGED <<item, list, used, broken, stage>> /\ list # <<>>
        /\ pos' = [pos EXCEPT ![t] = list[1]]
        /\ nxt' = [nxt EXCEPT ![t] = Next_entry(list[1])]
        /\ pc[t] = "perform" /\ pc' = [pc EXCEPT ![t] = "unlink"]
    BY <1>2 DEF Perform_first, qvars
  <2>2. LinkedInv /\ SlotsAccounted /\ broken = FALSE
    BY DEF ListInv
  <2>3. Next_entry(list[1]) = IF Len(list) = 1 THEN ListHead ELSE list[2]
    BY <1>0, <2>1, <2>2, HeadNext
  <2>4. Len(list) \in Nat /\ Len(list) > 0
    BY <1>0, <2>1
  <2>5. CursorInv(t)' /\ CursorInv(o)'
    <3>1. pc'[t] = "unlink" /\ pos'[t] = list'[1] /\ nxt'[t] = Next_entry(list[1]) /\ pc'[o] = pc[o]
      BY <1>0, <2>1
    <3>2. Len(list) = 1 \/ Len(list) > 1
      BY <2>4, OneOrMore
    <3>3. CursorInv(t)'
      BY <2>1, <2>3, <3>1, <3>2 DEF CursorInv
    <3>4. CursorInv(o)'
      BY <3>1 DEF CursorInv
    <3> QED
      BY <3>3, <3>4
  <2>6. FillInv' /\ EmptyInv'
    BY <1>0, <1>s, <2>1 DEF FillInv, EmptyInv, Draining
  <2>7. SlotsAccounted'
    BY <1>0, <1>s, <2>1, <2>2 DEF SlotsAccounted, Owned, Listed
  <2>8. LinkedInv' /\ broken' = FALSE
    BY <2>1, <2>2 DEF LinkedInv
  <2> QED
    BY <1>s, <2>5, <2>6, <2>7, <2>8 DEF ListInv
<1>3. CASE Unlink(t)
  <2> DEFINE s == list[1]
  <2>1. /\ LinkedInv /\ SlotsAccounted /\ broken = FALSE /\ CursorInv(t)
    BY <1>s DEF ListInv
  <2>2. /\ pc[t] = "unlink" /\ list # <<>> /\ pos[t] = s /\ s \in Slots /\ Listed(s)
        /\ item[s].idx = s
    BY <1>3, UnlinkEffect
  <2>3. /\ list' = Tail(list) /\ item' = [item EXCEPT ![s].link = "self"]
        /\ UNCHANGED <<used, pos, nxt, broken, stage>>
        /\ pc' = [pc EXCEPT ![t] = "running"]
    BY <1>3, UnlinkEffect
  <2>4. /\ Len(list') = Len(list) - 1 /\ Len(list) \in Nat /\ list' \in Seq(Slots)
        /\ \A i \in 1 .. Len(list') : list'[i] = list[i + 1]
        /\ Distinct(list')
        /\ \A x : Listed(x)' <=> Listed(x) /\ x # s
    BY <1>3, UnlinkEffect
  <2>5. LinkedInv'
    <3>1. ASSUME NEW i \in 1 .. Len(list')
          PROVE  item'[list'[i]].link = "listed" /\ item'[list'[i]].idx = list'[i]
      <4>1. list'[i] = list[i + 1] /\ i + 1 \in 1 .. Len(list) /\ list'[i] \in Slots
        BY <1>0, <2>4
      <4>2. list'[i] # s
        BY <2>4 DEF Listed
      <4> QED
        BY <1>0, <2>1, <2>3, <4>1, <4>2 DEF LinkedInv
    <3> QED
      BY <2>4, <3>1 DEF LinkedInv
  <2>6. CursorInv(t)'
    <3>1. pos'[t] \in Slots /\ ~Listed(pos[t])' /\ item'[pos'[t]].idx = pos'[t]
      BY <1>0, <2>2, <2>3, <2>4 DEF Items
    <3>2. \/ nxt'[t] = ListHead /\ (Alone(t)' => list' = <<>>)
          \/ list' # <<>> /\ nxt'[t] = list'[1]
      <4>1. CASE nxt[t] = ListHead /\ (Alone(t) => Len(list) = 1)
        BY <2>3, <2>4, <4>1 DEF Alone
      <4>2. CASE Len(list) > 1 /\ nxt[t] = list[2]
        <5>1. 1 \in 1 .. Len(list') /\ list'[1] = list[1 + 1]
          BY <2>4, <4>2
        <5>2. list' # <<>> /\ nxt'[t] = nxt[t]
          BY <2>3, <5>1, NoIndex
        <5> QED
          BY <4>2, <5>1, <5>2
      <4> QED
        BY <2>1, <2>2, <4>1, <4>2 DEF CursorInv
    <3> QED
      BY <1>0, <2>3, <3>1, <3>2 DEF CursorInv
  <2>7. CursorInv(o)' /\ FillInv' /\ EmptyInv'
    BY <1>0, <1>s, <2>3 DEF CursorInv, FillInv, EmptyInv, Draining
  <2>8. SlotsAccounted'
    <3>1. \A x \in Slots : Owned(x)' <=> Listed(x)' \/ x = s
      BY <1>0, <1>s, <2>2, <2>3 DEF Owned
    <3>2. \A x \in Slots : Owned(x) <=> Listed(x)
      BY <1>0, <1>s, <2>2 DEF Owned
    <3> QED
      BY <2>1, <2>2, <2>3, <2>4, <3>1, <3>2 DEF SlotsAccounted
  <2> QED
    BY <1>s, <2>1, <2>3, <2>5, <2>6, <2>7, <2>8 DEF ListInv
<1>4. CASE Finish_stored(t)
  <2>1. /\ UNCHANGED <<item, list, used, pos, nxt, broken, stage>>
        /\ pc[t] = "running" /\ pc' = [pc EXCEPT ![t] = "release"]
    BY <1>4 DEF Finish_stored, qvars
  <2>2. CursorInv(t)' /\ CursorInv(o)'
    BY <1>0, <1>s, <2>1 DEF CursorInv, Alone, Listed, ListInv
  <2>3. FillInv' /\ EmptyInv'
    BY <1>0, <1>s, <2>1 DEF FillInv, EmptyInv, Draining
  <2>4. SlotsAccounted'
    BY <1>0, <1>s, <2>1 DEF SlotsAccounted, Owned, Listed, ListInv
  <2>5. LinkedInv' /\ broken' = FALSE
    BY <2>1 DEF LinkedInv, ListInv
  <2> QED
    BY <1>s, <2>2, <2>3, <2>4, <2>5 DEF ListInv
<1>5. CASE Release(t)
  <2> DEFINE s == pos[t]
  <2>1. /\ UNCHANGED <<item, list, pos, nxt, broken, stage>>
        /\ used' = [used EXCEPT ![item[s].idx] = 0]
        /\ pc[t] = "release" /\ pc' = [pc EXCEPT ![t] = "zero"]
    BY <1>5 DEF Release
  <2>2. SlotsAccounted /\ s \in Slots /\ ~Listed(s) /\ item[s].idx = s
    BY <1>s, <2>1 DEF ListInv, CursorInv
  <2>3. CursorInv(t)' /\ CursorInv(o)'
    BY <1>0, <1>s, <2>1 DEF CursorInv, Alone, Listed, ListInv
  <2>4. FillInv' /\ EmptyInv'
    BY <1>0, <1>s, <2>1 DEF FillInv, EmptyInv, Draining
  <2>5. SlotsAccounted'
    <3>1. \A x \in Slots : Owned(x)' <=> Listed(x)
      BY <1>0, <1>s, <2>1 DEF Owned, Listed
    <3>2. \A x \in Slots : Owned(x) <=> Listed(x) \/ x = s
      BY <1>0, <1>s, <2>1 DEF Owned
    <3> QED
      BY <1>0, <2>1, <2>2, <3>1, <3>2 DEF SlotsAccounted
  <2>6. LinkedInv' /\ broken' = FALSE
    BY <2>1 DEF LinkedInv, ListInv
  <2> QED
    BY <1>s, <2>3, <2>4, <2>5, <2>6 DEF ListInv
<1>6. CASE Zero(t)
  <2> DEFINE s == pos[t]
  <2>1. /\ UNCHANGED <<list, used, pos, nxt, stage>> /\ broken' = Listed(s)
        /\ item' = [item EXCEPT ![s] = Zeroed]
        /\ pc[t] = "zero" /\ pc' = [pc EXCEPT ![t] = "advance"]
    BY <1>6 DEF Zero
  <2>2. SlotsAccounted /\ LinkedInv /\ s \in Slots /\ ~Listed(s)
    BY <1>s, <2>1 DEF ListInv, CursorInv
  <2>3. CursorInv(t)' /\ CursorInv(o)'
    BY <1>0, <1>s, <2>1 DEF CursorInv, Alone, ListInv
  <2>4. FillInv' /\ EmptyInv'
    BY <1>0, <1>s, <2>1 DEF FillInv, EmptyInv, Draining
  <2>5. SlotsAccounted'
    BY <1>0, <1>s, <2>1, <2>2 DEF SlotsAccounted, Owned, Listed
  <2>6. LinkedInv'
    <3>1. \A i \in 1 .. Len(list) : list[i] \in Slots /\ list[i] # s
      BY <1>0, <2>2 DEF Listed
    <3> QED
      BY <1>0, <2>1, <2>2, <3>1 DEF LinkedInv
  <2> QED
    BY <1>s, <2>1, <2>2, <2>3, <2>4, <2>5, <2>6 DEF ListInv
<1>7. CASE Advance(t)
  <2>1. UNCHANGED <<item, list, used, broken, stage>> /\ pc[t] = "advance" /\ pc'[o] = pc[o]
    BY <1>0, <1>7 DEF Advance, qvars
  <2>2. LinkedInv /\ SlotsAccounted /\ broken = FALSE /\ CursorInv(t)
    BY <1>s DEF ListInv
  <2>3. CASE nxt[t] = ListHead
    <3>1. UNCHANGED <<pos, nxt>> /\ pc' = [pc EXCEPT ![t] = AfterPerform(t)]
      BY <1>7, <2>3 DEF Advance
    <3>2. Alone(t) => list = <<>>
      <4>1. \A i \in 1 .. Len(list) : list[i] \in Slots
        BY <1>0
      <4>2. list # <<>> => nxt[t] # list[1]
        BY <1>0, <2>3, <4>1
      <4> QED
        BY <2>1, <2>2, <4>2 DEF CursorInv
    <3>3. CursorInv(t)' /\ CursorInv(o)' /\ FillInv'
      BY <1>0, <1>s, <2>1, <3>1 DEF CursorInv, FillInv, AfterPerform
    <3>4. EmptyInv'
      BY <1>0, <1>s, <2>1, <3>1, <3>2 DEF EmptyInv, Draining, AfterPerform, Alone
    <3>5. SlotsAccounted'
      BY <1>0, <1>s, <2>1, <2>2, <3>1 DEF SlotsAccounted, Owned, Listed, AfterPerform
    <3>6. LinkedInv' /\ broken' = FALSE
      BY <2>1, <2>2 DEF LinkedInv
    <3> QED
      BY <1>s, <3>3, <3>4, <3>5, <3>6 DEF ListInv
  <2>4. CASE nxt[t] # ListHead
    <3>1. /\ pos' = [pos EXCEPT ![t] = nxt[t]]
          /\ nxt' = [nxt EXCEPT ![t] = Next_entry(nxt[t])]
          /\ pc' = [pc EXCEPT ![t] = "unlink"]
      BY <1>7, <2>4 DEF Advance
    <3>2. list # <<>> /\ nxt[t] = list[1]
      BY <2>1, <2>2, <2>4 DEF CursorInv
    <3>3. Next_entry(list[1]) = IF Len(list) = 1 THEN ListHead ELSE list[2]
      BY <1>0, <2>2, <3>2, HeadNext
    <3>4. Len(list) \in Nat /\ Len(list) > 0
      BY <1>0, <3>2
    <3>5. CursorInv(t)' /\ CursorInv(o)'
      <4>1. pc'[t] = "unlink" /\ pos'[t] = list'[1] /\ nxt'[t] = Next_entry(list[1]) /\ pc'[o] = pc[o]
        BY <1>0, <2>1, <3>1, <3>2
      <4>2. Len(list) = 1 \/ Len(list) > 1
        BY <3>4, OneOrMore
      <4>3. CursorInv(t)'
        BY <2>1, <3>2, <3>3, <4>1, <4>2 DEF CursorInv
      <4>4. CursorInv(o)'
        BY <4>1 DEF CursorInv
      <4> QED
        BY <4>3, <4>4
    <3>6. FillInv' /\ EmptyInv'
      BY <1>0, <1>s, <2>1, <3>1 DEF FillInv, EmptyInv, Draining
    <3>7. SlotsAccounted'
      BY <1>0, <1>s, <2>1, <2>2, <3>1 DEF SlotsAccounted, Owned, Listed
    <3>8. LinkedInv' /\ broken' = FALSE
      BY <2>1, <2>2 DEF LinkedInv
    <3> QED
      BY <1>s, <3>5, <3>6, <3>7, <3>8 DEF ListInv
  <2> QED
    BY <2>3, <2>4
<1> QED
  BY <1>1, <1>2, <1>3, <1>4, <1>5, <1>6, <1>7 DEF Perform

LEMMA ListStep ==
    ASSUME Paced, TypeInv, PacingInv, ListInv, [Next]_vars
    PROVE  ListInv'
<1>0. /\ Contexts = {"worker", "pcm"} /\ pc \in [Contexts -> Labels]
      /\ pos \in [Contexts -> Cursors] /\ nxt \in [Contexts -> Cursors]
      /\ list \in Seq(Slots) /\ item \in [Slots -> Items] /\ used \in [Slots -> {0, 1}]
      /\ stage \in {"body", "hook"} /\ ListHead \notin Slots
  BY PoolAssumption DEF TypeInv, TypeOK, QueueTypeOK, ContextTypeOK, Contexts, ListHead, Slots
<1>i. LinkedInv /\ FillInv /\ EmptyInv /\ SlotsAccounted /\ broken = FALSE
      /\ CursorInv("worker") /\ CursorInv("pcm")
  BY DEF ListInv
<1> USE DEF Goto
<1>1. CASE RaiseStep \/ Take \/ Finish_taken \/ Ignore
  <2>1. /\ UNCHANGED <<item, list, used, pos, nxt, broken, stage>>
        /\ \E l \in {"store", "take", "verbs", "perform", "idle"} : pc' = [pc EXCEPT !["worker"] = l]
        /\ pc["worker"] \in {"idle", "store", "take", "verbs"}
        /\ pc["worker"] # "store" => pc'["worker"] # "idle"
    BY <1>0, <1>1 DEF RaiseStep, Raise, Take, Finish_taken, Ignore, qvars
  <2>2. CursorInv("worker")' /\ CursorInv("pcm")'
    BY <1>0, <1>i, <2>1 DEF CursorInv, Alone, Listed
  <2>3. FillInv' /\ LinkedInv' /\ broken' = FALSE
    BY <1>0, <1>i, <2>1 DEF FillInv, LinkedInv
  <2>4. EmptyInv'
    BY <1>0, <1>i, <2>1 DEF EmptyInv, Draining, PacingInv, Storing
  <2>5. SlotsAccounted'
    BY <1>0, <1>i, <2>1 DEF SlotsAccounted, Owned, Listed
  <2> QED
    BY <2>2, <2>3, <2>4, <2>5 DEF ListInv
<1>2. CASE CallStep \/ Finish_verbs \/ Hook
  <2>1. /\ UNCHANGED <<item, list, used, pos, nxt, broken>>
        /\ \E l \in {"hook", "verbs", "perform"} : pc' = [pc EXCEPT !["pcm"] = l]
        /\ pc["pcm"] \in {"idle", "verbs", "hook"}
    BY <1>0, <1>2 DEF CallStep, Call, Finish_verbs, Hook, qvars
  <2>2. CursorInv("worker")' /\ CursorInv("pcm")'
    BY <1>0, <1>i, <2>1 DEF CursorInv, Alone, Listed
  <2>3. FillInv'
    BY <1>0, <1>i, <2>1 DEF FillInv, Listed
  <2>4. EmptyInv'
    BY <1>0, <2>1 DEF EmptyInv
  <2>5. SlotsAccounted'
    BY <1>0, <1>i, <2>1 DEF SlotsAccounted, Owned, Listed
  <2>6. LinkedInv' /\ broken' = FALSE
    BY <1>i, <2>1 DEF LinkedInv
  <2> QED
    BY <2>2, <2>3, <2>4, <2>5, <2>6 DEF ListInv
<1>3. CASE Claim
  <2>1. PICK s \in Free : used' = [used EXCEPT ![s] = 1] /\ pos' = [pos EXCEPT !["worker"] = s]
    BY <1>3 DEF Claim
  <2>2. /\ UNCHANGED <<item, list, nxt, stage, broken>>
        /\ pc["worker"] = "store" /\ pc' = [pc EXCEPT !["worker"] = "append"]
    BY <1>3 DEF Claim
  <2>3. s \in Slots /\ ~Owned(s)
    BY <1>i DEF Free, SlotsAccounted
  <2>4. pc["pcm"] # "idle"
    BY <2>2 DEF PacingInv, Storing
  <2>5. CursorInv("worker")' /\ CursorInv("pcm")'
    BY <1>0, <1>i, <2>1, <2>2 DEF CursorInv, Alone, Listed
  <2>6. FillInv' /\ EmptyInv'
    BY <1>0, <2>1, <2>2, <2>3, <2>4 DEF FillInv, EmptyInv, Owned, Listed
  <2>7. SlotsAccounted'
    <3>1. \A x \in Slots : Owned(x)' <=> Owned(x) \/ x = s
      BY <1>0, <2>1, <2>2 DEF Owned, Listed
    <3> QED
      BY <1>0, <1>i, <2>1, <3>1 DEF SlotsAccounted
  <2>8. LinkedInv' /\ broken' = FALSE
    BY <1>i, <2>2 DEF LinkedInv
  <2> QED
    BY <2>5, <2>6, <2>7, <2>8 DEF ListInv
<1>4. CASE Append_item
  <2> DEFINE s == pos["worker"]
  <2>1. /\ pc["worker"] = "append" /\ s \in Slots /\ ~Listed(s)
        /\ pc["pcm"] \in {"running", "release"} => pos["pcm"] # s
    BY <1>4, AppendEffect
  <2>2. /\ item' = [item EXCEPT ![s] = Filled(resp["worker"], s)] /\ list' = Append(list, s)
        /\ UNCHANGED <<used, pos, nxt, stage, broken>>
        /\ pc' = [pc EXCEPT !["worker"] = "idle"]
    BY <1>4, AppendEffect
  <2>3. /\ list' \in Seq(Slots) /\ Len(list') = Len(list) + 1 /\ Len(list) \in Nat
        /\ \A i \in 1 .. Len(list) : list'[i] = list[i]
        /\ list'[Len(list) + 1] = s
        /\ Distinct(list')
        /\ \A x : Listed(x)' <=> Listed(x) \/ x = s
    BY <1>4, AppendEffect
  <2>4. LinkedInv'
    <3>1. ASSUME NEW i \in 1 .. Len(list')
          PROVE  item'[list'[i]].link = "listed" /\ item'[list'[i]].idx = list'[i]
      <4>1. CASE i \in 1 .. Len(list)
        <5>1. list'[i] = list[i] /\ list[i] \in Slots /\ list[i] # s
          BY <1>0, <2>1, <2>3, <4>1 DEF Listed
        <5> QED
          BY <1>0, <1>i, <2>2, <4>1, <5>1 DEF LinkedInv
      <4>2. CASE i = Len(list) + 1
        BY <1>0, <2>1, <2>2, <2>3, <4>2 DEF Filled
      <4> QED
        BY <2>3, <4>1, <4>2
    <3> QED
      BY <2>3, <3>1 DEF LinkedInv
  <2>5. pc["pcm"] # "idle" /\ pc["pcm"] # "zero" /\ (pc["pcm"] # "hook" => stage # "hook")
    BY <2>1 DEF PacingInv, Storing, PcmIn
  <2>6. FillInv' /\ EmptyInv' /\ CursorInv("worker")'
    BY <1>0, <2>2, <2>5 DEF FillInv, EmptyInv, CursorInv
  <2>7. CursorInv("pcm")'
    <3>1. pc'["pcm"] = pc["pcm"] /\ UNCHANGED <<pos, nxt, stage>>
      BY <1>0, <2>2
    <3>2. list # <<>> => Len(list) > 0 /\ list' # <<>> /\ list'[1] = list[1]
      <4>1. list # <<>> => Len(list) > 0
        BY <1>0
      <4>2. list' # <<>>
        BY <1>0, <2>3
      <4>3. Len(list) > 0 => 1 \in 1 .. Len(list)
        BY <2>3
      <4> QED
        BY <2>3, <4>1, <4>2, <4>3
    <3>3. Len(list) > 1 => Len(list') > 1 /\ list'[2] = list[2]
      <4>1. Len(list) > 1 => 2 \in 1 .. Len(list) /\ Len(list) + 1 > 1
        BY <2>3
      <4> QED
        BY <2>3, <4>1
    <3>4. pc["pcm"] # "hook" => ~Alone("pcm")
      BY <2>5 DEF Alone
    <3>5. pc["pcm"] \in {"running", "release"} =>
             ~Listed(pos["pcm"])' /\ item'[pos["pcm"]] = item[pos["pcm"]]
      BY <1>0, <1>i, <2>1, <2>2, <2>3 DEF CursorInv
    <3>6. ~Alone("pcm") => ~Alone("pcm")'
      BY <3>1 DEF Alone
    <3> QED
      BY <1>i, <2>5, <3>1, <3>2, <3>3, <3>4, <3>5, <3>6 DEF CursorInv
  <2>8. SlotsAccounted'
    <3>1. \A x \in Slots : Owned(x)' <=> Owned(x)
      BY <1>0, <2>1, <2>2, <2>3 DEF Owned
    <3> QED
      BY <1>i, <2>2, <3>1 DEF SlotsAccounted
  <2> QED
    BY <1>i, <2>2, <2>4, <2>6, <2>7, <2>8 DEF ListInv
<1>5. CASE Perform("worker")
  BY <1>0, <1>5, OtherAtHome, ListPerform
<1>6. CASE Perform("pcm")
  BY <1>0, <1>6, OtherAtHome, ListPerform
<1>7. CASE UNCHANGED vars
  <2>1. UNCHANGED <<item, list, used, pos, nxt, broken, stage, pc>>
    BY <1>7 DEF vars
  <2>2. CursorInv("worker")' /\ CursorInv("pcm")' /\ FillInv' /\ EmptyInv'
    BY <1>i, <2>1 DEF CursorInv, FillInv, EmptyInv, Listed, Alone, Draining
  <2>3. SlotsAccounted'
    BY <1>i, <2>1 DEF SlotsAccounted, Owned, Listed
  <2>4. LinkedInv' /\ broken' = FALSE
    BY <1>i, <2>1 DEF LinkedInv
  <2> QED
    BY <2>2, <2>3, <2>4 DEF ListInv
<1> QED
  BY <1>1, <1>2, <1>3, <1>4, <1>5, <1>6, <1>7 DEF Next, WorkerStep, PcmStep

LEMMA ListKept == ASSUME Paced PROVE Spec => []ListInv
<1>1. ListInv /\ TypeInv /\ PacingInv /\ [Next]_vars => ListInv'
  BY ListStep
<1> QED
  BY <1>1, ListInit, PacedTypes, PTL DEF Spec

(* The iterations of paced contexts never follow or overwrite a link that  *)
(* was zeroed, however many responses are appended under a walk.           *)
THEOREM ListStaysIntact == ASSUME Paced PROVE Spec => []ListIntact
<1>1. ListInv => ListIntact
  BY DEF ListInv, ListIntact
<1> QED
  BY <1>1, ListKept, PTL

(* The items of a pool of any size neither leak nor are given out twice.   *)
THEOREM SlotsStayAccounted == ASSUME Paced PROVE Spec => []SlotsAccounted
<1>1. ListInv => SlotsAccounted
  BY DEF ListInv
<1> QED
  BY <1>1, ListKept, PTL

(* Both contexts go home only with an empty list: every stored response    *)
(* is performed by somebody.                                               *)
THEOREM NothingIsStranded == ASSUME Paced PROVE Spec => []NothingStranded
<1>1. ListInv => NothingStranded
  BY DEF ListInv, EmptyInv, NothingStranded, Draining, Contexts
<1> QED
  BY <1>1, ListKept, PTL

==============================================================================
