----------------------- MODULE UnsolQueueRefines_proofs -----------------------
(***************************************************************************)
(* The paced queue does what SerialResponses says, for every pool size and *)
(* every number of responses: each of its steps is one of the abstract     *)
(* specification or changes nothing there.                                 *)
(***************************************************************************)
EXTENDS UnsolQueue_proofs, FiniteSetTheorems

-----------------------------------------------------------------------------
(* Whose response is where.  A response is in one place only, and is not   *)
(* run before it leaves the list or the worker's hands.                    *)

WorkerHas == pc["worker"] \in {"store", "append", "take"}

IdInv ==
    /\ \A s \in Slots : Listed(s) => item[s].res \in 1 .. arrived /\ handled[item[s].res] = 0
    /\ \A s, u \in Slots : Listed(s) /\ Listed(u) /\ item[s].res = item[u].res => s = u
    /\ WorkerHas => /\ resp["worker"] = arrived /\ arrived \in Responses /\ handled[arrived] = 0
                    /\ \A s \in Slots : Listed(s) => item[s].res # arrived
    /\ \A t \in Contexts : Current(t) =>
          /\ resp[t] \in 1 .. arrived
          /\ \A s \in Slots : Listed(s) => item[s].res # resp[t]
          /\ pc[t] = "release" => handled[resp[t]] > 0
    /\ pc["pcm"] \in {"running", "release"} =>
          /\ resp["pcm"] = item[pos["pcm"]].res
          /\ WorkerHas => resp["pcm"] # arrived
    /\ \A r \in Responses : r > arrived => handled[r] = 0

-----------------------------------------------------------------------------
(* Identities are kept.                                                    *)

LEMMA IdTypes ==
    ASSUME TypeInv
    PROVE  /\ Contexts = {"worker", "pcm"} /\ "worker" \in Contexts /\ "pcm" \in Contexts
           /\ pc \in [Contexts -> Labels] /\ pos \in [Contexts -> Cursors]
           /\ resp \in [Contexts -> 0 .. MaxResponses]
           /\ list \in Seq(Slots) /\ item \in [Slots -> Items] /\ used \in [Slots -> {0, 1}]
           /\ handled \in [Responses -> Nat] /\ arrived \in 0 .. MaxResponses
           /\ MaxResponses \in Nat /\ Responses = 1 .. MaxResponses
BY PoolAssumption DEF TypeInv, TypeOK, QueueTypeOK, ContextTypeOK, HistoryTypeOK, Contexts, Responses

LEMMA IdInit == Init => IdInv
<1> SUFFICES ASSUME Init PROVE IdInv
  OBVIOUS
<1>1. ~WorkerHas /\ \A t \in Contexts : pc[t] = "idle"
  BY DEF Init, WorkerHas, Contexts
<1>2. \A s \in Slots : ~Listed(s)
  BY DEF Init, Listed
<1>3. \A r \in Responses : handled[r] = 0
  BY DEF Init
<1> QED
  BY <1>1, <1>2, <1>3 DEF IdInv, Current, Contexts

LEMMA IdPerform ==
    ASSUME TypeInv, ListInv, IdInv, NEW t \in Contexts, NEW o \in Contexts, t # o,
           pc[o] \in {"idle", "hook"}, Perform(t)
    PROVE  IdInv'
<1>0. Contexts = {"worker", "pcm"} /\ ((t = "worker" /\ o = "pcm") \/ (t = "pcm" /\ o = "worker"))
  BY DEF Contexts
<1>t. pc \in [Contexts -> Labels] /\ resp \in [Contexts -> 0 .. MaxResponses]
      /\ pos \in [Contexts -> Cursors] /\ item \in [Slots -> Items]
      /\ handled \in [Responses -> Nat]
  BY IdTypes
<1>h. ~WorkerHas'
  <2>1. pc'[o] = pc[o] /\ pc'[t] \notin {"store", "append", "take"}
    BY <1>0, <1>t DEF Perform, Perform_empty, Perform_first, Unlink, Finish_stored, Release, Zero,
       Advance, Unblock, Goto, AfterPerform
  <2> QED
    BY <1>0, <2>1 DEF WorkerHas
<1> USE DEF Goto
<1>1. CASE Perform_empty(t) \/ Perform_first(t) \/ Advance(t) \/ Unblock(t)
  <2>1. UNCHANGED <<item, list, handled, arrived>>
        /\ pc'[t] \in {"idle", "hook", "unblock", "unlink"} /\ pc'[o] = pc[o]
    BY <1>0, <1>t, <1>1 DEF Perform_empty, Perform_first, Advance, Unblock, AfterPerform, qvars, hvars
  <2>2. \A c \in Contexts : ~Current(c)'
    BY <1>0, <2>1 DEF Current
  <2>3. pc'["pcm"] \notin {"running", "release"}
    BY <1>0, <2>1
  <2> QED
    BY <1>h, <2>1, <2>2, <2>3 DEF IdInv, Listed
<1>2. CASE Unlink(t)
  <2> DEFINE s == list[1]
  <2>1. /\ s \in Slots /\ Listed(s) /\ pos[t] = s
        /\ item' = [item EXCEPT ![s].link = "self"]
        /\ resp' = [resp EXCEPT ![t] = item[s].res]
        /\ UNCHANGED <<pos, handled, arrived>>
        /\ pc' = [pc EXCEPT ![t] = "running"]
        /\ \A x : Listed(x)' <=> Listed(x) /\ x # s
    BY <1>2, UnlinkEffect DEF hvars
  <2>2. \A x \in Slots : item'[x].res = item[x].res
    BY <1>t, <2>1 DEF Items
  <2>3. \A c \in Contexts : Current(c)' => c = t
    BY <1>0, <1>t, <2>1 DEF Current
  <2>4. resp'[t] = item[s].res /\ resp'[t] = item'[pos'[t]].res
    BY <1>t, <2>1, <2>2
  <2>5. item[s].res \in 1 .. arrived /\ \A x \in Slots : Listed(x)' => item'[x].res # item[s].res
    BY <2>1, <2>2 DEF IdInv
  <2>6. (pc'["pcm"] \in {"running", "release"} => t = "pcm") /\ pc'[t] # "release"
    BY <1>0, <1>t, <2>1
  <2> QED
    BY <1>h, <2>1, <2>2, <2>3, <2>4, <2>5, <2>6 DEF IdInv
<1>3. CASE Finish_stored(t)
  <2>1. /\ UNCHANGED <<item, list, pos, resp, arrived>>
        /\ handled' = [r \in Responses |-> IF r = resp[t] THEN handled[r] + 1 ELSE handled[r]]
        /\ pc[t] = "running" /\ pc' = [pc EXCEPT ![t] = "release"]
    BY <1>3 DEF Finish_stored, qvars
  <2>2. Current(t) /\ \A c \in Contexts : Current(c)' => c = t
    BY <1>0, <1>t, <2>1 DEF Current
  <2>3. resp[t] \in 1 .. arrived /\ \A s \in Slots : Listed(s) => item[s].res # resp[t]
    BY <2>2 DEF IdInv
  <2>4. \A r \in Responses : r # resp[t] => handled'[r] = handled[r]
    BY <2>1
  <2>5. \A s \in Slots : Listed(s) => item[s].res \in Responses
    BY IdTypes DEF IdInv
  <2>6. \A s \in Slots : Listed(s) => handled'[item[s].res] = 0
    BY <2>3, <2>4, <2>5 DEF IdInv
  <2>7. \A r \in Responses : r > arrived => handled'[r] = 0
    BY <2>3, <2>4, IdTypes DEF IdInv
  <2>8. pc'["pcm"] \in {"running", "release"} => pc["pcm"] \in {"running", "release"}
    BY <1>0, <1>t, <2>1
  <2>9. handled'[resp[t]] > 0
    BY <1>t, <2>1, <2>3, IdTypes
  <2> QED
    BY <1>h, <2>1, <2>2, <2>3, <2>6, <2>7, <2>8, <2>9 DEF IdInv, Listed
<1>4. CASE Release(t) \/ Zero(t)
  <2>1. /\ UNCHANGED <<list, handled, arrived>>
        /\ pc'[t] \in {"zero", "advance"} /\ pc'[o] = pc[o]
        /\ \A x \in Slots : Listed(x) => item'[x] = item[x]
    <3>1. CASE Release(t)
      BY <1>0, <1>t, <3>1 DEF Release, hvars
    <3>2. CASE Zero(t)
      <4>1. ~Listed(pos[t])
        BY <1>0, <3>2 DEF Zero, ListInv, CursorInv
      <4> QED
        BY <1>0, <1>t, <3>2, <4>1 DEF Zero, hvars
    <3> QED
      BY <1>4, <3>1, <3>2
  <2>2. \A c \in Contexts : ~Current(c)'
    BY <1>0, <2>1 DEF Current
  <2>3. pc'["pcm"] \notin {"running", "release"}
    BY <1>0, <2>1
  <2>4. \A x \in Slots : Listed(x)' <=> Listed(x)
    BY <2>1 DEF Listed
  <2> QED
    BY <1>h, <2>1, <2>2, <2>3, <2>4 DEF IdInv
<1> QED
  BY <1>1, <1>2, <1>3, <1>4 DEF Perform

LEMMA IdStep ==
    ASSUME Paced, TypeInv, PacingInv, ListInv, IdInv, [Next]_vars
    PROVE  IdInv'
<1>0. Contexts = {"worker", "pcm"} /\ "worker" \in Contexts /\ "pcm" \in Contexts
      /\ pc \in [Contexts -> Labels] /\ resp \in [Contexts -> 0 .. MaxResponses]
      /\ pos \in [Contexts -> Cursors] /\ item \in [Slots -> Items]
      /\ handled \in [Responses -> Nat] /\ arrived \in 0 .. MaxResponses
      /\ Responses = 1 .. MaxResponses /\ MaxResponses \in Nat
  BY IdTypes
<1> USE DEF Goto
<1>1. CASE RaiseStep
  <2>1. /\ UNCHANGED <<item, list, pos, handled>> /\ arrived < MaxResponses
        /\ arrived' = arrived + 1 /\ resp' = [resp EXCEPT !["worker"] = arrived + 1]
        /\ pc["worker"] = "idle"
        /\ \E l \in {"store", "take"} : pc' = [pc EXCEPT !["worker"] = l]
    BY <1>1 DEF RaiseStep, Raise, qvars
  <2>2. arrived' \in Responses /\ handled'[arrived'] = 0 /\ arrived' > arrived
    BY <1>0, <2>1 DEF IdInv
  <2>3. \A s \in Slots : Listed(s) => item[s].res \in 1 .. arrived' /\ item[s].res # arrived'
    BY <1>0, <2>1 DEF IdInv
  <2>4. \A c \in Contexts : Current(c)' => c = "pcm" /\ Current(c)
    BY <1>0, <2>1 DEF Current
  <2>5. pc'["pcm"] = pc["pcm"] /\ resp'["pcm"] = resp["pcm"] /\ resp'["worker"] = arrived'
    BY <1>0, <2>1
  <2>6. pc["pcm"] \in {"running", "release"} => Current("pcm")
    BY DEF Current
  <2>7. Current("pcm") => resp["pcm"] \in 1 .. arrived' /\ resp["pcm"] # arrived'
    BY <1>0, <2>1 DEF IdInv
  <2>8. \A r \in Responses : r > arrived' => r > arrived
    BY <1>0, <2>1
  <2> QED
    BY <2>1, <2>2, <2>3, <2>4, <2>5, <2>6, <2>7, <2>8 DEF IdInv, Listed
<1>2. CASE CallStep \/ Finish_verbs \/ Hook
  <2>1. UNCHANGED <<item, list, pos, resp, handled, arrived>>
        /\ \E l \in {"hook", "verbs", "perform"} : pc' = [pc EXCEPT !["pcm"] = l]
    BY <1>2 DEF CallStep, Call, Finish_verbs, Hook, qvars, hvars
  <2>2. \A c \in Contexts : Current(c)' => Current(c)
    BY <1>0, <2>1 DEF Current
  <2>3. pc'["pcm"] \notin {"running", "release"} /\ pc'["worker"] = pc["worker"]
    BY <1>0, <2>1
  <2> QED
    BY <2>1, <2>2, <2>3 DEF IdInv, Listed, WorkerHas
<1>3. CASE Claim \/ Ignore
  <2>1. UNCHANGED <<item, list, resp, handled, arrived>> /\ pos'["pcm"] = pos["pcm"]
        /\ pc["worker"] = "store"
        /\ \E l \in {"append", "idle"} : pc' = [pc EXCEPT !["worker"] = l]
    BY <1>0, <1>3 DEF Claim, Ignore, qvars, hvars
  <2>2. \A c \in Contexts : Current(c)' => Current(c)
    BY <1>0, <2>1 DEF Current
  <2>3. pc'["pcm"] = pc["pcm"] /\ WorkerHas
    BY <1>0, <2>1 DEF WorkerHas
  <2> QED
    BY <2>1, <2>2, <2>3 DEF IdInv, Listed
<1>4. CASE Append_item
  <2> DEFINE s == pos["worker"]
  <2>1. /\ pc["worker"] = "append" /\ s \in Slots
        /\ item' = [item EXCEPT ![s] = Filled(resp["worker"], s)]
        /\ UNCHANGED <<pos, resp, handled, arrived>> /\ pc' = [pc EXCEPT !["worker"] = "idle"]
        /\ pc["pcm"] \in {"running", "release"} => pos["pcm"] # s
        /\ ~Listed(s) /\ \A x : Listed(x)' <=> Listed(x) \/ x = s
    BY <1>4, AppendEffect DEF hvars
  <2>2. /\ resp["worker"] = arrived /\ arrived \in Responses /\ handled[arrived] = 0
        /\ \A x \in Slots : Listed(x) => item[x].res # arrived
    BY <2>1 DEF IdInv, WorkerHas
  <2>3. item'[s].res = arrived /\ \A x \in Slots : x # s => item'[x] = item[x]
    BY <1>0, <2>1, <2>2 DEF Filled
  <2>4. \A c \in Contexts : Current(c)' => c = "pcm" /\ Current(c)
    BY <1>0, <2>1 DEF Current
  <2>5. pc'["pcm"] = pc["pcm"] /\ ~WorkerHas'
    BY <1>0, <2>1 DEF WorkerHas
  <2>6. pc["pcm"] \in {"running", "release"} => item'[pos["pcm"]] = item[pos["pcm"]]
    BY <1>0, <2>1, <2>3 DEF ListInv, CursorInv
  <2>7. Current("pcm") => resp["pcm"] # arrived
    BY <2>1 DEF IdInv, WorkerHas, Current
  <2>8. \A x \in Slots : Listed(x)' => item'[x].res \in 1 .. arrived /\ handled[item'[x].res] = 0
    BY <1>0, <2>1, <2>2, <2>3 DEF IdInv
  <2>9. \A x, u \in Slots : Listed(x)' /\ Listed(u)' /\ item'[x].res = item'[u].res => x = u
    BY <2>1, <2>2, <2>3 DEF IdInv
  <2>10. ASSUME NEW c \in Contexts, Current(c)'
         PROVE  /\ resp'[c] \in 1 .. arrived'
                /\ \A x \in Slots : Listed(x)' => item'[x].res # resp'[c]
                /\ pc'[c] = "release" => handled'[resp'[c]] > 0
    BY <2>1, <2>2, <2>3, <2>4, <2>5, <2>7, <2>10 DEF IdInv
  <2> QED
    BY <2>1, <2>5, <2>6, <2>8, <2>9, <2>10 DEF IdInv
<1>5. CASE Take
  <2>1. UNCHANGED <<item, list, pos, resp, handled, arrived>>
        /\ pc["worker"] = "take" /\ pc' = [pc EXCEPT !["worker"] = "verbs"]
    BY <1>5 DEF Take, hvars
  <2>2. ~WorkerHas' /\ pc'["pcm"] = pc["pcm"] /\ WorkerHas
    BY <1>0, <2>1 DEF WorkerHas
  <2>3. \A c \in Contexts : Current(c)' => c = "worker" \/ Current(c)
    BY <1>0, <2>1 DEF Current
  <2>4. resp["worker"] \in 1 .. arrived /\ \A s \in Slots : Listed(s) => item[s].res # resp["worker"]
    BY <1>0, <2>2 DEF IdInv
  <2> QED
    BY <2>1, <2>2, <2>3, <2>4 DEF IdInv, Listed
<1>6. CASE Finish_taken
  <2>1. UNCHANGED <<item, list, pos, resp, arrived>>
        /\ handled' = [handled EXCEPT ![resp["worker"]] = @ + 1]
        /\ pc["worker"] = "verbs" /\ pc' = [pc EXCEPT !["worker"] = "perform"]
    BY <1>6 DEF Finish_taken, qvars
  <2>2. resp["worker"] \in 1 .. arrived /\ \A s \in Slots : Listed(s) => item[s].res # resp["worker"]
    BY <1>0, <2>1 DEF IdInv, Current
  <2>3. \A r \in Responses : r # resp["worker"] => handled'[r] = handled[r]
    BY <1>0, <2>1
  <2>4. \A s \in Slots : Listed(s) => item[s].res \in Responses
    BY <1>0 DEF IdInv
  <2>5. \A s \in Slots : Listed(s) => handled'[item[s].res] = 0
    BY <2>2, <2>3, <2>4 DEF IdInv
  <2>6. \A r \in Responses : r > arrived => handled'[r] = 0
    BY <1>0, <2>2, <2>3 DEF IdInv
  <2>7. ~WorkerHas' /\ pc'["pcm"] = pc["pcm"] /\ \A c \in Contexts : ~Current(c)'
    BY <1>0, <2>1 DEF WorkerHas, Current, PacingInv, PcmIn
  <2> QED
    BY <2>1, <2>5, <2>6, <2>7 DEF IdInv, Listed
<1>7. CASE Perform("worker")
  BY <1>0, <1>7, OtherAtHome, IdPerform
<1>8. CASE Perform("pcm")
  BY <1>0, <1>8, OtherAtHome, IdPerform
<1>9. CASE UNCHANGED vars
  BY <1>9 DEF vars, IdInv, WorkerHas, Current, Listed
<1> QED
  BY <1>1, <1>2, <1>3, <1>4, <1>5, <1>6, <1>7, <1>8, <1>9 DEF Next, WorkerStep, PcmStep

LEMMA IdKept == ASSUME Paced PROVE Spec => []IdInv
<1>1. IdInv /\ ListInv /\ TypeInv /\ PacingInv /\ [Next]_vars => IdInv'
  BY IdStep
<1> QED
  BY <1>1, IdInit, ListKept, PacedTypes, PTL DEF Spec

-----------------------------------------------------------------------------
(* The mapping.                                                            *)

(* Those that wait are in the list or in the worker's hands.               *)
LEMMA WaitingIs ==
    ASSUME list \in Seq(Slots)
    PROVE  \A r : r \in WaitingNow <=>
              (\E s \in Slots : Listed(s) /\ item[s].res = r) \/ (WorkerHas /\ r = resp["worker"])
<1>1. \A i \in 1 .. Len(list) : list[i] \in Slots
  OBVIOUS
<1>2. \A r : (\E i \in 1 .. Len(list) : item[list[i]].res = r)
              <=> \E s \in Slots : Listed(s) /\ item[s].res = r
  BY <1>1 DEF Listed
<1> DEFINE X == {item[list[i]].res : i \in 1 .. Len(list)}
           Y == {resp[t] : t \in {c \in {"worker"} : pc[c] \in {"store", "append", "take"}}}
<1>3. \A r : r \in Y <=> WorkerHas /\ r = resp["worker"]
  BY DEF WorkerHas
<1>4. \A r : r \in X <=> \E i \in 1 .. Len(list) : item[list[i]].res = r
  OBVIOUS
<1>5. WaitingNow = X \cup Y
  BY DEF WaitingNow
<1> HIDE DEF X, Y
<1> QED
  BY <1>2, <1>3, <1>4, <1>5

(* The same of the next state.                                             *)
LEMMA WaitingBecomes ==
    ASSUME list' \in Seq(Slots)
    PROVE  \A r : r \in WaitingNow' <=>
              (\E s \in Slots : Listed(s)' /\ item'[s].res = r) \/ (WorkerHas' /\ r = resp'["worker"])
<1>1. \A i \in 1 .. Len(list') : list'[i] \in Slots
  OBVIOUS
<1>2. \A r : (\E i \in 1 .. Len(list') : item'[list'[i]].res = r)
              <=> \E s \in Slots : Listed(s)' /\ item'[s].res = r
  BY <1>1 DEF Listed
<1> DEFINE X == {item'[list'[i]].res : i \in 1 .. Len(list')}
           Y == {resp'[t] : t \in {c \in {"worker"} : pc'[c] \in {"store", "append", "take"}}}
<1>3. \A r : r \in Y <=> WorkerHas' /\ r = resp'["worker"]
  BY DEF WorkerHas
<1>4. \A r : r \in X <=> \E i \in 1 .. Len(list') : item'[list'[i]].res = r
  OBVIOUS
<1>5. WaitingNow' = X \cup Y
  BY DEF WaitingNow
<1> HIDE DEF X, Y
<1> QED
  BY <1>2, <1>3, <1>4, <1>5

LEMMA RunningIs ==
    /\ \A r : r \in RunningNow <=> \E t \in Contexts : Current(t) /\ resp[t] = r
    /\ \A r : r \in RunningNow' <=> \E t \in Contexts : Current(t)' /\ resp'[t] = r
BY DEF RunningNow

(* What Abstract puts for done.                                            *)
DoneNow == {r \in Responses : handled[r] > 0} \ RunningNow

(* A response that is ignored has as many before it as there are items:    *)
(* each item of the pool holds a different one.                            *)
LEMMA AllTaken ==
    ASSUME TypeInv, ListInv, IdInv, Ignore
    PROVE  Cardinality(WaitingNow \ {arrived}) + Cardinality(RunningNow) >= PoolSize
<1> DEFINE W == WaitingNow \ {arrived}
           R == RunningNow
           f == [s \in Slots |-> item[s].res]
<1>0. Contexts = {"worker", "pcm"} /\ list \in Seq(Slots) /\ Responses = 1 .. MaxResponses
      /\ arrived \in 0 .. MaxResponses /\ MaxResponses \in Nat /\ used \in [Slots -> {0, 1}]
      /\ pc["worker"] = "store"
  BY IdTypes DEF Ignore
<1>1. \A s \in Slots : Listed(s) \/ (pc["pcm"] \in {"running", "release"} /\ pos["pcm"] = s)
  <2>1. \A s \in Slots : used[s] = 1
    BY <1>0 DEF Ignore, Free
  <2>2. \A s \in Slots : Owned(s)
    BY <2>1 DEF ListInv, SlotsAccounted
  <2> QED
    BY <1>0, <2>2 DEF Owned
<1>2. \A s \in Slots : Listed(s) => f[s] \in W
  <2>1. ASSUME NEW s \in Slots, Listed(s)
        PROVE  item[s].res \in WaitingNow
    BY <1>0, <2>1, WaitingIs
  <2>2. \A s \in Slots : Listed(s) => item[s].res # arrived
    BY <1>0 DEF IdInv, WorkerHas
  <2> QED
    BY <2>1, <2>2
<1>3. pc["pcm"] \in {"running", "release"} =>
          /\ Current("pcm") /\ resp["pcm"] = item[pos["pcm"]].res /\ resp["pcm"] \in R
          /\ \A s \in Slots : Listed(s) => item[s].res # resp["pcm"]
  BY <1>0, RunningIs DEF IdInv, Current
<1>4. \A x, y \in Slots : f[x] = f[y] => x = y
  BY <1>1, <1>3 DEF IdInv
<1>5. f \in [Slots -> W \cup R]
  BY <1>1, <1>2, <1>3
<1>6. W \cap R = {}
  <2>1. \A r \in W : \E s \in Slots : Listed(s) /\ item[s].res = r
    BY <1>0, WaitingIs DEF IdInv, WorkerHas
  <2>2. \A t \in Contexts : Current(t) => \A s \in Slots : Listed(s) => item[s].res # resp[t]
    BY DEF IdInv
  <2> QED
    BY <2>1, <2>2, RunningIs
<1>7. IsFiniteSet(W) /\ IsFiniteSet(R)
  <2>1. W \in SUBSET (0 .. MaxResponses)
    BY <1>0, WaitingIs DEF IdInv, WorkerHas
  <2>2. R \in SUBSET (0 .. MaxResponses)
    BY <1>0, RunningIs DEF IdInv
  <2>3. IsFiniteSet(0 .. MaxResponses)
    BY <1>0, FS_Interval
  <2> QED
    BY <2>1, <2>2, <2>3, FS_Subset
<1>8. IsFiniteSet(Slots) /\ Cardinality(Slots) = PoolSize
  BY PoolAssumption, FS_Interval DEF Slots
<1>9. IsFiniteSet(W \cup R) /\ Cardinality(W \cup R) = Cardinality(W) + Cardinality(R)
  <2>1. Cardinality(W) \in Nat /\ Cardinality(R) \in Nat
    BY <1>7, FS_CardinalityType
  <2>2. /\ IsFiniteSet(W \cup R)
        /\ Cardinality(W \cup R) = Cardinality(W) + Cardinality(R) - Cardinality(W \cap R)
    BY <1>7, FS_Union
  <2> QED
    BY <1>6, <2>1, <2>2, FS_EmptySet
<1>10. ~(Cardinality(W \cup R) < Cardinality(Slots))
  <2> SUFFICES ASSUME Cardinality(W \cup R) < Cardinality(Slots) PROVE FALSE
    OBVIOUS
  <2> HIDE DEF f, W, R
  <2>1. \E x, y \in Slots : x # y /\ f[x] = f[y]
    BY <1>5, <1>8, <1>9, FS_PigeonHole
  <2> QED
    BY <1>4, <2>1
<1>11. Cardinality(W) \in Nat /\ Cardinality(R) \in Nat /\ PoolSize \in Nat
  BY <1>7, PoolAssumption, FS_CardinalityType
<1> QED
  BY <1>8, <1>9, <1>10, <1>11

-----------------------------------------------------------------------------
(* The steps.                                                              *)

(* What a step must do to be a stuttering step, a Start or a Finish.       *)
LEMMA Stutters ==
    ASSUME WaitingNow' = WaitingNow, RunningNow' = RunningNow, DoneNow' = DoneNow,
           UNCHANGED <<arrived, lost>>
    PROVE  UNCHANGED Abstract!vars
BY DEF Abstract!vars, DoneNow

LEMMA Starts ==
    ASSUME NEW r, r \in WaitingNow, handled[r] = 0, RunningNow = {},
           WaitingNow' = WaitingNow \ {r}, RunningNow' = {r}, UNCHANGED hvars
    PROVE  Abstract!Start
<1>1. DoneNow' = DoneNow
  BY DEF DoneNow, hvars
<1> QED
  BY <1>1 DEF Abstract!Start, DoneNow, hvars

LEMMA Finishes ==
    ASSUME NEW r \in Responses, RunningNow = {r}, RunningNow' = {}, WaitingNow' = WaitingNow,
           UNCHANGED <<arrived, lost>>, handled \in [Responses -> Nat],
           handled'[r] > 0, \A q \in Responses : q # r => handled'[q] = handled[q]
    PROVE  Abstract!Finish
<1>1. DoneNow' = DoneNow \cup {r}
  BY DEF DoneNow
<1> QED
  BY <1>1 DEF Abstract!Finish, DoneNow

(* A context that performs responses with the other one at home: it starts *)
(* a response when it unlinks it and finishes it when it frees its item.   *)
LEMMA PerformMaps ==
    ASSUME TypeInv, ListInv, IdInv, NEW t \in Contexts, NEW o \in Contexts, t # o,
           pc[o] \in {"idle", "hook"}, Perform(t), list' \in Seq(Slots)
    PROVE  [Abstract!Next]_(Abstract!vars)
<1>0. Contexts = {"worker", "pcm"} /\ ((t = "worker" /\ o = "pcm") \/ (t = "pcm" /\ o = "worker"))
  BY DEF Contexts
<1>t. pc \in [Contexts -> Labels] /\ resp \in [Contexts -> 0 .. MaxResponses]
      /\ pos \in [Contexts -> Cursors] /\ item \in [Slots -> Items] /\ list \in Seq(Slots)
      /\ handled \in [Responses -> Nat] /\ arrived \in 0 .. MaxResponses
      /\ Responses = 1 .. MaxResponses
  BY IdTypes
<1>h. ~WorkerHas /\ ~WorkerHas' /\ pc'[o] = pc[o] /\ ~Current(o) /\ ~Current(o)'
  <2>1. pc'[o] = pc[o] /\ pc'[t] \notin {"store", "append", "take", "verbs"}
        /\ pc[t] \notin {"store", "append", "take", "verbs"}
    BY <1>0, <1>t DEF Perform, Perform_empty, Perform_first, Unlink, Finish_stored, Release, Zero,
       Advance, Unblock, Goto, AfterPerform
  <2> QED
    BY <1>0, <2>1 DEF WorkerHas, Current
<1>w. /\ \A r : r \in WaitingNow <=> \E s \in Slots : Listed(s) /\ item[s].res = r
      /\ \A r : r \in WaitingNow' <=> \E s \in Slots : Listed(s)' /\ item'[s].res = r
  BY <1>h, <1>t, WaitingIs, WaitingBecomes
<1>r. /\ \A r : r \in RunningNow <=> Current(t) /\ resp[t] = r
      /\ \A r : r \in RunningNow' <=> Current(t)' /\ resp'[t] = r
  BY <1>0, <1>h, RunningIs
<1> USE DEF Goto
<1>1. CASE \/ Perform_empty(t) \/ Perform_first(t) \/ Advance(t) \/ Unblock(t) \/ Zero(t)
  <2>1. UNCHANGED <<list, handled, arrived, lost>>
        /\ pc[t] \notin {"running", "release", "verbs"} /\ pc'[t] \notin {"running", "release", "verbs"}
        /\ \A x \in Slots : Listed(x) => item'[x] = item[x]
    <3>1. CASE Perform_empty(t) \/ Perform_first(t) \/ Advance(t) \/ Unblock(t)
      BY <1>0, <1>t, <3>1 DEF Perform_empty, Perform_first, Advance, Unblock, AfterPerform, qvars, hvars
    <3>2. CASE Zero(t)
      <4>1. ~Listed(pos[t])
        BY <1>0, <3>2 DEF Zero, ListInv, CursorInv
      <4> QED
        BY <1>0, <1>t, <3>2, <4>1 DEF Zero, hvars
    <3> QED
      BY <1>1, <3>1, <3>2
  <2>2. RunningNow = {} /\ RunningNow' = {}
    BY <1>r, <2>1 DEF Current
  <2>3. \A x : Listed(x)' <=> Listed(x)
    BY <2>1 DEF Listed
  <2>4. WaitingNow' = WaitingNow
    <3>1. \A r : r \in WaitingNow' <=> r \in WaitingNow
      BY <1>w, <2>1, <2>3
    <3> QED
      BY <3>1
  <2>5. DoneNow' = DoneNow
    BY <2>1, <2>2 DEF DoneNow
  <2> QED
    BY <2>1, <2>2, <2>4, <2>5, Stutters
<1>2. CASE Unlink(t)
  <2> DEFINE s == list[1]
             q == item[s].res
  <2>1. /\ s \in Slots /\ Listed(s) /\ pc[t] = "unlink"
        /\ item' = [item EXCEPT ![s].link = "self"]
        /\ resp' = [resp EXCEPT ![t] = q]
        /\ UNCHANGED hvars
        /\ pc' = [pc EXCEPT ![t] = "running"]
        /\ \A x : Listed(x)' <=> Listed(x) /\ x # s
    BY <1>2, UnlinkEffect
  <2>2. \A x \in Slots : item'[x].res = item[x].res
    BY <1>t, <2>1 DEF Items
  <2>3. q \in WaitingNow /\ handled[q] = 0
    BY <1>w, <2>1 DEF IdInv
  <2>4. \A x \in Slots : Listed(x) /\ x # s => item[x].res # q
    BY <2>1 DEF IdInv
  <2>5. RunningNow = {} /\ RunningNow' = {q}
    <3>1. ~Current(t) /\ Current(t)' /\ resp'[t] = q
      BY <1>t, <2>1 DEF Current
    <3> QED
      BY <1>r, <3>1
  <2>6. WaitingNow' = WaitingNow \ {q}
    <3>1. \A r : r \in WaitingNow' <=> r \in WaitingNow /\ r # q
      BY <1>w, <2>1, <2>2, <2>4
    <3> QED
      BY <3>1
  <2>7. Abstract!Start
    BY <2>1, <2>3, <2>5, <2>6, Starts
  <2> QED
    BY <2>7 DEF Abstract!Next
<1>3. CASE Finish_stored(t)
  <2>1. /\ UNCHANGED <<item, list, resp, arrived, lost>>
        /\ handled' = [r \in Responses |-> IF r = resp[t] THEN handled[r] + 1 ELSE handled[r]]
        /\ pc[t] = "running" /\ pc' = [pc EXCEPT ![t] = "release"]
    BY <1>3 DEF Finish_stored, qvars
  <2>2. Current(t) /\ Current(t)' /\ resp'[t] = resp[t]
    BY <1>t, <2>1 DEF Current
  <2>3. RunningNow = {resp[t]} /\ RunningNow' = {resp[t]}
    BY <1>r, <2>2
  <2>4. WaitingNow' = WaitingNow
    BY <1>h, <2>1 DEF WaitingNow, WorkerHas
  <2>5. DoneNow' = DoneNow
    BY <2>1, <2>3 DEF DoneNow
  <2> QED
    BY <2>1, <2>3, <2>4, <2>5, Stutters
<1>4. CASE Release(t)
  <2>1. /\ UNCHANGED <<item, list, resp, arrived, handled, lost>>
        /\ pc[t] = "release" /\ pc' = [pc EXCEPT ![t] = "zero"]
    BY <1>4 DEF Release, hvars
  <2>2. Current(t) /\ ~Current(t)' /\ resp[t] \in Responses /\ handled[resp[t]] > 0
    BY <1>t, <2>1 DEF Current, IdInv
  <2>3. RunningNow = {resp[t]} /\ RunningNow' = {}
    BY <1>r, <2>2
  <2>4. WaitingNow' = WaitingNow
    BY <1>h, <2>1 DEF WaitingNow, WorkerHas
  <2>5. Abstract!Finish
    BY <1>t, <2>1, <2>2, <2>3, <2>4, Finishes
  <2> QED
    BY <2>5 DEF Abstract!Next
<1> QED
  BY <1>1, <1>2, <1>3, <1>4 DEF Perform

(* The cardinality of the instance is that of the module.                  *)
LEMMA SameCardinality == \A S : Abstract!Cardinality(S) = Cardinality(S)
BY DEF Abstract!Cardinality, Abstract!IsFiniteSet, Cardinality, IsFiniteSet

(* Every step maps to a step of the abstract specification or a stutter.   *)
LEMMA StepMaps ==
    ASSUME Paced, TypeInv, TypeInv', PacingInv, ListInv, IdInv, [Next]_vars
    PROVE  [Abstract!Next]_(Abstract!vars)
<1>0. Contexts = {"worker", "pcm"} /\ "worker" \in Contexts /\ "pcm" \in Contexts
      /\ pc \in [Contexts -> Labels] /\ resp \in [Contexts -> 0 .. MaxResponses]
      /\ pos \in [Contexts -> Cursors] /\ item \in [Slots -> Items] /\ list \in Seq(Slots)
      /\ handled \in [Responses -> Nat] /\ arrived \in 0 .. MaxResponses
      /\ Responses = 1 .. MaxResponses /\ MaxResponses \in Nat
  BY IdTypes
<1>l. list' \in Seq(Slots)
  BY DEF TypeInv, TypeOK, QueueTypeOK
<1>w. /\ \A r : r \in WaitingNow <=>
                  (\E s \in Slots : Listed(s) /\ item[s].res = r) \/ (WorkerHas /\ r = resp["worker"])
      /\ \A r : r \in WaitingNow' <=>
                  (\E s \in Slots : Listed(s)' /\ item'[s].res = r) \/ (WorkerHas' /\ r = resp'["worker"])
  BY <1>0, <1>l, WaitingIs, WaitingBecomes
<1>r. /\ \A r : r \in RunningNow <=> \E t \in Contexts : Current(t) /\ resp[t] = r
      /\ \A r : r \in RunningNow' <=> \E t \in Contexts : Current(t)' /\ resp'[t] = r
  BY RunningIs
<1> USE DEF Goto
<1>1. CASE RaiseStep
  <2>1. /\ UNCHANGED <<item, list, handled, lost>> /\ arrived < MaxResponses
        /\ arrived' = arrived + 1 /\ resp' = [resp EXCEPT !["worker"] = arrived + 1]
        /\ pc["worker"] = "idle"
        /\ \E l \in {"store", "take"} : pc' = [pc EXCEPT !["worker"] = l]
    BY <1>1 DEF RaiseStep, Raise, qvars
  <2>2. ~WorkerHas /\ WorkerHas' /\ resp'["worker"] = arrived + 1 /\ ~Current("worker")
        /\ ~Current("worker")' /\ Current("pcm")' = Current("pcm") /\ resp'["pcm"] = resp["pcm"]
    BY <1>0, <2>1 DEF WorkerHas, Current
  <2>3. WaitingNow' = WaitingNow \cup {arrived + 1}
    <3>1. \A x : Listed(x)' <=> Listed(x)
      BY <2>1 DEF Listed
    <3>2. \A r : r \in WaitingNow' <=> r \in WaitingNow \/ r = arrived + 1
      BY <1>w, <2>1, <2>2, <3>1
    <3> QED
      BY <3>2
  <2>4. RunningNow' = RunningNow
    <3>1. \A r : r \in RunningNow' <=> r \in RunningNow
      BY <1>0, <1>r, <2>2
    <3> QED
      BY <3>1
  <2>5. DoneNow' = DoneNow
    BY <2>1, <2>4 DEF DoneNow
  <2>6. Abstract!Arrive
    BY <2>1, <2>3, <2>4, <2>5 DEF Abstract!Arrive, DoneNow
  <2> QED
    BY <2>6 DEF Abstract!Next
<1>2. CASE CallStep \/ Finish_verbs \/ Hook \/ Claim
  <2>1. UNCHANGED <<item, list, resp, handled, arrived, lost>>
        /\ \/ /\ \E l \in {"hook", "verbs", "perform"} : pc' = [pc EXCEPT !["pcm"] = l]
              /\ pc["pcm"] \in {"idle", "verbs", "hook"}
           \/ pc["worker"] = "store" /\ pc' = [pc EXCEPT !["worker"] = "append"]
    BY <1>2 DEF CallStep, Call, Finish_verbs, Hook, Claim, qvars, hvars
  <2>2. (WorkerHas' <=> WorkerHas) /\ \A t \in Contexts : Current(t)' <=> Current(t)
    BY <1>0, <2>1 DEF WorkerHas, Current
  <2>3. WaitingNow' = WaitingNow
    <3>1. \A x : Listed(x)' <=> Listed(x)
      BY <2>1 DEF Listed
    <3>2. \A r : r \in WaitingNow' <=> r \in WaitingNow
      BY <1>w, <2>1, <2>2, <3>1
    <3> QED
      BY <3>2
  <2>4. RunningNow' = RunningNow
    <3>1. \A r : r \in RunningNow' <=> r \in RunningNow
      BY <1>r, <2>1, <2>2
    <3> QED
      BY <3>1
  <2>5. DoneNow' = DoneNow
    BY <2>1, <2>4 DEF DoneNow
  <2> QED
    BY <2>1, <2>3, <2>4, <2>5, Stutters
<1>3. CASE Ignore
  <2>1. /\ UNCHANGED <<item, list, resp, handled, arrived>>
        /\ lost' = lost \cup {resp["worker"]}
        /\ pc["worker"] = "store" /\ pc' = [pc EXCEPT !["worker"] = "idle"]
    BY <1>3 DEF Ignore, qvars
  <2>2. WorkerHas /\ ~WorkerHas' /\ \A t \in Contexts : Current(t)' <=> Current(t)
    BY <1>0, <2>1 DEF WorkerHas, Current
  <2>3. resp["worker"] = arrived /\ \A s \in Slots : Listed(s) => item[s].res # arrived
    BY <2>2 DEF IdInv
  <2>4. arrived \in WaitingNow
    BY <1>w, <2>2, <2>3
  <2>5. WaitingNow' = WaitingNow \ {arrived}
    <3>1. \A x : Listed(x)' <=> Listed(x)
      BY <2>1 DEF Listed
    <3>2. \A r : r \in WaitingNow' <=> r \in WaitingNow /\ r # arrived
      BY <1>w, <2>1, <2>2, <2>3, <3>1
    <3> QED
      BY <3>2
  <2>6. RunningNow' = RunningNow
    <3>1. \A r : r \in RunningNow' <=> r \in RunningNow
      BY <1>r, <2>1, <2>2
    <3> QED
      BY <3>1
  <2>7. DoneNow' = DoneNow
    BY <2>1, <2>6 DEF DoneNow
  <2>8. Cardinality(WaitingNow \ {arrived}) + Cardinality(RunningNow) >= PoolSize
    BY <1>3, AllTaken
  <2>9. lost' = lost \cup {arrived} /\ UNCHANGED arrived
    BY <2>1, <2>3
  <2>10. Abstract!Ignore
    BY <2>4, <2>5, <2>6, <2>7, <2>8, <2>9, SameCardinality DEF Abstract!Ignore, DoneNow
  <2> QED
    BY <2>10 DEF Abstract!Next
<1>4. CASE Append_item
  <2> DEFINE s == pos["worker"]
  <2>1. /\ pc["worker"] = "append" /\ s \in Slots
        /\ item' = [item EXCEPT ![s] = Filled(resp["worker"], s)]
        /\ UNCHANGED <<resp, handled, arrived, lost>>
        /\ pc' = [pc EXCEPT !["worker"] = "idle"]
        /\ ~Listed(s) /\ \A x : Listed(x)' <=> Listed(x) \/ x = s
    BY <1>4, AppendEffect DEF hvars
  <2>2. WorkerHas /\ ~WorkerHas' /\ \A t \in Contexts : Current(t)' <=> Current(t)
    BY <1>0, <2>1 DEF WorkerHas, Current
  <2>3. item'[s].res = resp["worker"] /\ \A x \in Slots : x # s => item'[x] = item[x]
    BY <1>0, <2>1 DEF Filled
  <2>4. WaitingNow' = WaitingNow
    <3>1. \A r : (\E x \in Slots : Listed(x)' /\ item'[x].res = r)
                 <=> (\E x \in Slots : Listed(x) /\ item[x].res = r) \/ r = resp["worker"]
      BY <2>1, <2>3
    <3>2. \A r : r \in WaitingNow' <=> r \in WaitingNow
      BY <1>w, <2>2, <3>1
    <3> QED
      BY <3>2
  <2>5. RunningNow' = RunningNow
    <3>1. \A r : r \in RunningNow' <=> r \in RunningNow
      BY <1>r, <2>1, <2>2
    <3> QED
      BY <3>1
  <2>6. DoneNow' = DoneNow
    BY <2>1, <2>5 DEF DoneNow
  <2> QED
    BY <2>1, <2>4, <2>5, <2>6, Stutters
<1>5. CASE Take \/ Finish_taken
  <2>1. /\ UNCHANGED <<item, list, resp, arrived, lost>>
        /\ pc'["pcm"] = pc["pcm"] /\ pc["worker"] \in {"take", "verbs"}
    BY <1>0, <1>5 DEF Take, Finish_taken, qvars, hvars
  <2>2. ~Current("pcm") /\ ~Current("pcm")'
    BY <2>1 DEF PacingInv, PcmIn, Current
  <2>3. \A x : Listed(x)' <=> Listed(x)
    BY <2>1 DEF Listed
  <2>4. CASE Take
    <3>1. pc["worker"] = "take" /\ pc'["worker"] = "verbs" /\ UNCHANGED hvars
      BY <1>0, <2>4 DEF Take
    <3>2. WorkerHas /\ ~WorkerHas' /\ ~Current("worker") /\ Current("worker")'
      BY <3>1 DEF WorkerHas, Current
    <3>3. resp["worker"] = arrived /\ handled[arrived] = 0
          /\ \A s \in Slots : Listed(s) => item[s].res # arrived
      BY <3>2 DEF IdInv
    <3>4. RunningNow = {} /\ RunningNow' = {arrived}
      BY <1>0, <1>r, <2>1, <2>2, <3>2, <3>3
    <3>5. arrived \in WaitingNow
      BY <1>w, <3>2, <3>3
    <3>6. WaitingNow' = WaitingNow \ {arrived}
      <4>1. \A r : r \in WaitingNow' <=> r \in WaitingNow /\ r # arrived
        BY <1>w, <2>1, <2>3, <3>2, <3>3
      <4> QED
        BY <4>1
    <3>7. Abstract!Start
      BY <3>1, <3>3, <3>4, <3>5, <3>6, Starts
    <3> QED
      BY <3>7 DEF Abstract!Next
  <2>5. CASE Finish_taken
    <3>1. pc["worker"] = "verbs" /\ pc'["worker"] = "perform"
          /\ handled' = [handled EXCEPT ![resp["worker"]] = @ + 1]
      BY <1>0, <2>5 DEF Finish_taken
    <3>2. ~WorkerHas /\ ~WorkerHas' /\ Current("worker") /\ ~Current("worker")'
      BY <3>1 DEF WorkerHas, Current
    <3>3. resp["worker"] \in Responses
      BY <1>0, <3>2 DEF IdInv
    <3>4. RunningNow = {resp["worker"]} /\ RunningNow' = {}
      BY <1>0, <1>r, <2>1, <2>2, <3>2
    <3>5. WaitingNow' = WaitingNow
      <4>1. \A r : r \in WaitingNow' <=> r \in WaitingNow
        BY <1>w, <2>1, <2>3, <3>2
      <4> QED
        BY <4>1
    <3>6. handled'[resp["worker"]] > 0
          /\ \A q \in Responses : q # resp["worker"] => handled'[q] = handled[q]
      BY <1>0, <3>1, <3>3
    <3>7. Abstract!Finish
      BY <1>0, <2>1, <3>3, <3>4, <3>5, <3>6, Finishes
    <3> QED
      BY <3>7 DEF Abstract!Next
  <2> QED
    BY <1>5, <2>4, <2>5
<1>6. CASE Perform("worker")
  BY <1>0, <1>l, <1>6, OtherAtHome, PerformMaps
<1>7. CASE Perform("pcm")
  BY <1>0, <1>l, <1>7, OtherAtHome, PerformMaps
<1>8. CASE UNCHANGED vars
  <2>1. UNCHANGED <<item, list, pc, resp, handled, arrived, lost>>
    BY <1>8 DEF vars
  <2>2. WaitingNow' = WaitingNow /\ RunningNow' = RunningNow
    BY <2>1 DEF WaitingNow, RunningNow, Current
  <2>3. DoneNow' = DoneNow
    BY <2>1, <2>2 DEF DoneNow
  <2> QED
    BY <2>1, <2>2, <2>3, Stutters
<1> QED
  BY <1>1, <1>2, <1>3, <1>4, <1>5, <1>6, <1>7, <1>8 DEF Next, WorkerStep, PcmStep

LEMMA InitMaps == Init => Abstract!Init
<1> SUFFICES ASSUME Init PROVE Abstract!Init
  OBVIOUS
<1>1. WaitingNow = {}
  <2>1. \A s \in Slots : ~Listed(s)
    BY DEF Init, Listed
  <2>2. ~WorkerHas /\ list \in Seq(Slots)
    BY DEF Init, WorkerHas, Contexts
  <2>3. \A r : r \notin WaitingNow
    BY <2>1, <2>2, WaitingIs
  <2> QED
    BY <2>3
<1>2. RunningNow = {}
  <2>1. \A t \in Contexts : ~Current(t)
    BY DEF Init, Current, Contexts
  <2> QED
    BY <2>1, RunningIs
<1>3. DoneNow = {}
  BY DEF Init, DoneNow
<1> QED
  BY <1>1, <1>2, <1>3 DEF Init, Abstract!Init, DoneNow

(* Paced, the queue of any size implements the abstract one: a response    *)
(* waits until nothing else runs, is run once, and is ignored only when as *)
(* many others as the pool holds are before it.                            *)
THEOREM QueueImplements == ASSUME Paced PROVE Spec => Abstract!Spec
<1>1. TypeInv /\ TypeInv' /\ PacingInv /\ ListInv /\ IdInv /\ [Next]_vars
        => [Abstract!Next]_(Abstract!vars)
  BY StepMaps
<1> QED
  BY <1>1, InitMaps, PacedTypes, ListKept, IdKept, PTL DEF Spec, Abstract!Spec

=============================================================================
