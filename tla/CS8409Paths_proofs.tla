------------------------- MODULE CS8409Paths_proofs -------------------------
(***************************************************************************)
(* What the functions of CS8409Paths do to a bridge, for every board and   *)
(* any stream formats: which of its parts they may change, and what those  *)
(* are afterwards.                                                         *)
(***************************************************************************)
EXTENDS CS8409Paths, TLAPS

-----------------------------------------------------------------------------
(* The parts that stay, and the converters that stay.                      *)

Parts == {"slots", "buses", "run", "clocks", "tdm", "sync", "d0", "pins", "amps", "unmuted",
          "reg", "cache", "store"}

(* From b to d nothing changes but the given parts.                        *)
Keeps(d, b, changed) == \A p \in Parts \ changed : d[p] = b[p]

(* From r to q nothing changes but converter n, which is s.                *)
Sets(q, r, n, s) ==
    /\ q[n] = s
    /\ \A m \in Converters \ {n} : q[m] = r[m]

LEMMA KeepsStep ==
    ASSUME NEW b, NEW d, NEW e, NEW S, NEW T, NEW U,
           Keeps(d, b, S), Keeps(e, d, T), S \subseteq U, T \subseteq U
    PROVE  Keeps(e, b, U)
BY DEF Keeps

LEMMA SetsExcept ==
    ASSUME NEW r \in [Converters -> Setup], NEW n \in Converters, NEW s \in Setup
    PROVE  /\ [r EXCEPT ![n] = s] \in [Converters -> Setup]
           /\ Sets([r EXCEPT ![n] = s], r, n, s)
BY DEF Sets

-----------------------------------------------------------------------------
(* Tags and formats of one converter.                                      *)

LEMMA SetupParts ==
    \A s \in Setup : /\ s = [tag |-> s.tag, chan |-> s.chan, fmt |-> s.fmt]
                     /\ s.tag \in Tags /\ s.chan \in {0, 2}
                     /\ s.fmt \in Formats \cup {NoFormat, NullOut, IntMike}
BY DEF Setup

LEMMA TagSet ==
    ASSUME NEW s \in Setup, NEW t, NEW ch
    PROVE  [[s EXCEPT !.tag = t] EXCEPT !.chan = ch] = [tag |-> t, chan |-> ch, fmt |-> s.fmt]
<1> DEFINE u == [s EXCEPT !.tag = t]
<1>1. u = [tag |-> t, chan |-> s.chan, fmt |-> s.fmt]
    BY DEF Setup
<1> HIDE DEF u
<1>2. [u EXCEPT !.chan = ch] = [tag |-> t, chan |-> ch, fmt |-> s.fmt]
    BY <1>1
<1> QED
    BY <1>2 DEF u

LEMMA FormatSet ==
    ASSUME NEW s \in Setup, NEW f
    PROVE  [s EXCEPT !.fmt = f] = [tag |-> s.tag, chan |-> s.chan, fmt |-> f]
BY DEF Setup

LEMMA ConvertersTyped ==
    \A b \in Bridge : /\ b.reg \in [Converters -> Setup] /\ b.cache \in [Converters -> Setup]
                      /\ b.store \in [Converters -> Setup]
BY DEF Bridge

LEMMA RegTyped ==
    ASSUME NEW b \in Bridge, NEW r \in [Converters -> Setup]
    PROVE  /\ [b EXCEPT !.reg = r] \in Bridge
           /\ Keeps([b EXCEPT !.reg = r], b, {"reg"})
           /\ [b EXCEPT !.reg = r].reg = r
BY DEF Bridge, Keeps, Parts

LEMMA CacheTyped ==
    ASSUME NEW b \in Bridge, NEW r \in [Converters -> Setup]
    PROVE  /\ [b EXCEPT !.cache = r] \in Bridge
           /\ Keeps([b EXCEPT !.cache = r], b, {"cache"})
           /\ [b EXCEPT !.cache = r].cache = r
BY DEF Bridge, Keeps, Parts

LEMMA WithTagEffect ==
    ASSUME NEW b \in Bridge, NEW n \in Converters, NEW t \in Tags, NEW ch \in {0, 2}
    PROVE  /\ WithTag(b, n, t, ch) \in Bridge
           /\ Keeps(WithTag(b, n, t, ch), b, {"reg"})
           /\ Sets(WithTag(b, n, t, ch).reg, b.reg, n,
                   [tag |-> t, chan |-> ch, fmt |-> b.reg[n].fmt])
<1> DEFINE s == [tag |-> t, chan |-> ch, fmt |-> b.reg[n].fmt]
           r == [b.reg EXCEPT ![n] = s]
<1>1. b.reg[n] \in Setup /\ b.reg \in [Converters -> Setup]
    BY DEF Bridge
<1>2. [[b.reg[n] EXCEPT !.tag = t] EXCEPT !.chan = ch] = s
    BY <1>1, TagSet
<1>3. WithTag(b, n, t, ch).reg = r
    BY <1>1, <1>2 DEF WithTag, Bridge
<1>4. Keeps(WithTag(b, n, t, ch), b, {"reg"})
    BY DEF WithTag, Keeps, Parts, Bridge
<1>5. s \in Setup
    BY <1>1 DEF Setup
<1>6. r \in [Converters -> Setup] /\ Sets(r, b.reg, n, s)
    BY <1>1, <1>5, SetsExcept
<1>7. WithTag(b, n, t, ch) \in Bridge
    BY <1>3, <1>6 DEF WithTag, Bridge
<1> QED
    BY <1>3, <1>4, <1>6, <1>7

LEMMA WithFormatEffect ==
    ASSUME NEW b \in Bridge, NEW n \in Converters,
           NEW f \in Formats \cup {NoFormat, NullOut, IntMike}
    PROVE  /\ WithFormat(b, n, f) \in Bridge
           /\ Keeps(WithFormat(b, n, f), b, {"reg"})
           /\ Sets(WithFormat(b, n, f).reg, b.reg, n,
                   [tag |-> b.reg[n].tag, chan |-> b.reg[n].chan, fmt |-> f])
<1> DEFINE s == [tag |-> b.reg[n].tag, chan |-> b.reg[n].chan, fmt |-> f]
           r == [b.reg EXCEPT ![n] = s]
<1>1. b.reg[n] \in Setup /\ b.reg \in [Converters -> Setup]
    BY DEF Bridge
<1>2. [b.reg[n] EXCEPT !.fmt = f] = s
    BY <1>1, FormatSet
<1>3. WithFormat(b, n, f).reg = r
    BY <1>1, <1>2 DEF WithFormat, Bridge
<1>4. Keeps(WithFormat(b, n, f), b, {"reg"})
    BY DEF WithFormat, Keeps, Parts, Bridge
<1>5. s \in Setup
    BY <1>1 DEF Setup
<1>6. r \in [Converters -> Setup] /\ Sets(r, b.reg, n, s)
    BY <1>1, <1>5, SetsExcept
<1>7. WithFormat(b, n, f) \in Bridge
    BY <1>3, <1>6 DEF WithFormat, Bridge
<1> QED
    BY <1>3, <1>4, <1>6, <1>7

(* What a converter has when the kernel, believing it to have was, has     *)
(* sent it what s adds to that.                                            *)
Moved(was, s) == was.tag # s.tag \/ was.chan # s.chan

Sent(was, old, s) ==
    [tag  |-> IF Moved(was, s) THEN s.tag ELSE old.tag,
     chan |-> IF Moved(was, s) THEN s.chan ELSE old.chan,
     fmt  |-> IF was.fmt # s.fmt THEN s.fmt ELSE old.fmt]

LEMMA SentTyped ==
    ASSUME NEW was \in Setup, NEW old \in Setup, NEW s \in Setup
    PROVE  /\ Sent(was, old, s) \in Setup
           /\ was = old => Sent(was, old, s) = s
BY SetupParts DEF Setup, Sent, Moved

LEMMA SetupStreamEffect ==
    ASSUME NEW b \in Bridge, NEW n \in Converters, NEW s \in Setup
    PROVE  LET d == snd_hda_codec_setup_stream(b, n, s)
           IN  /\ d \in Bridge
               /\ Keeps(d, b, {"reg", "cache"})
               /\ Sets(d.reg, b.reg, n, Sent(b.cache[n], b.reg[n], s))
               /\ Sets(d.cache, b.cache, n, s)
<1> DEFINE was == b.cache[n]
           old == b.reg[n]
           c1 == IF Moved(was, s) THEN WithTag(b, n, s.tag, s.chan) ELSE b
           c2 == IF was.fmt # s.fmt THEN WithFormat(c1, n, s.fmt) ELSE c1
           r == [b.cache EXCEPT ![n] = s]
<1>1. /\ b.reg \in [Converters -> Setup] /\ b.cache \in [Converters -> Setup]
      /\ old \in Setup /\ was \in Setup
    BY DEF Bridge
<1>2. s.tag \in Tags /\ s.chan \in {0, 2} /\ s.fmt \in Formats \cup {NoFormat, NullOut, IntMike}
    BY SetupParts
<1>3. /\ c1 \in Bridge /\ Keeps(c1, b, {"reg"})
      /\ Sets(c1.reg, b.reg, n, [tag |-> IF Moved(was, s) THEN s.tag ELSE old.tag,
                                 chan |-> IF Moved(was, s) THEN s.chan ELSE old.chan,
                                 fmt |-> old.fmt])
  <2>1. CASE Moved(was, s)
      BY <1>2, <2>1, WithTagEffect
  <2>2. CASE ~Moved(was, s)
      BY <1>1, <2>2, SetupParts DEF Keeps, Sets
  <2> QED
      BY <2>1, <2>2
<1> HIDE DEF c1
<1>4. /\ c2 \in Bridge /\ Keeps(c2, b, {"reg"})
      /\ Sets(c2.reg, b.reg, n, Sent(was, old, s))
  <2>1. CASE was.fmt # s.fmt
    <3>1. /\ c2 \in Bridge /\ Keeps(c2, c1, {"reg"})
          /\ Sets(c2.reg, c1.reg, n, [tag |-> c1.reg[n].tag, chan |-> c1.reg[n].chan,
                                      fmt |-> s.fmt])
        BY <1>2, <1>3, <2>1, WithFormatEffect
    <3>2. Keeps(c2, b, {"reg"})
        BY <1>3, <3>1, KeepsStep
    <3> QED
        BY <1>1, <1>3, <2>1, <3>1, <3>2 DEF Sent, Sets
  <2>2. CASE ~(was.fmt # s.fmt)
      BY <1>1, <1>3, <2>2 DEF Sent, Sets
  <2> QED
      BY <2>1, <2>2
<1> HIDE DEF c2
<1>5. c2.cache = b.cache
    BY <1>4 DEF Keeps, Parts
<1>6. r \in [Converters -> Setup] /\ Sets(r, b.cache, n, s)
    BY <1>1, SetsExcept
<1>7. [c2 EXCEPT !.cache = r] = snd_hda_codec_setup_stream(b, n, s)
    BY <1>5 DEF snd_hda_codec_setup_stream, c1, c2, Moved
<1>8. /\ [c2 EXCEPT !.cache = r] \in Bridge
      /\ Keeps([c2 EXCEPT !.cache = r], c2, {"cache"})
      /\ [c2 EXCEPT !.cache = r].cache = r
    BY <1>4, <1>6, CacheTyped
<1> QED
    BY <1>4, <1>6, <1>7, <1>8 DEF Keeps, Parts

LEMMA StoreStreamEffect ==
    ASSUME NEW b \in Bridge, NEW n \in Converters, NEW t \in Tags, NEW f \in Formats \cup {IntMike}
    PROVE  LET d == store_stream_format(b, n, t, f)
           IN  /\ d \in Bridge
               /\ Keeps(d, b, {"store"})
               /\ Sets(d.store, b.store, n, [tag |-> t, chan |-> 0, fmt |-> f])
<1> DEFINE s == [tag |-> t, chan |-> 0, fmt |-> f]
           r == [b.store EXCEPT ![n] = s]
           d == [b EXCEPT !.store = r]
<1>1. s \in Setup
    BY DEF Setup
<1>2. r \in [Converters -> Setup] /\ Sets(r, b.store, n, s)
    BY <1>1, ConvertersTyped, SetsExcept
<1>3. d = store_stream_format(b, n, t, f)
    BY DEF store_stream_format, Bridge
<1> HIDE DEF r
<1>4. d \in Bridge /\ Keeps(d, b, {"store"}) /\ d.store = r
    BY <1>2 DEF Bridge, Keeps, Parts
<1> QED
    BY <1>2, <1>3, <1>4

(* What the kernel's cache is told to forget.                              *)
Forgotten(was, id, format) ==
    [tag |-> IF id THEN 0 ELSE was.tag, chan |-> IF id THEN 0 ELSE was.chan,
     fmt |-> IF format THEN NoFormat ELSE was.fmt]

LEMMA ForgetEffect ==
    ASSUME NEW b \in Bridge, NEW n \in Converters, NEW id \in BOOLEAN, NEW format \in BOOLEAN
    PROVE  LET d == Forget(b, n, id, format)
           IN  /\ d \in Bridge
               /\ Keeps(d, b, {"cache"})
               /\ Sets(d.cache, b.cache, n, Forgotten(b.cache[n], id, format))
<1> DEFINE s == Forgotten(b.cache[n], id, format)
           r == [b.cache EXCEPT ![n] = s]
           d == [b EXCEPT !.cache = r]
<1>1. s \in Setup
  <2>1. b.cache[n] \in Setup
      BY DEF Bridge
  <2> QED
      BY <2>1, SetupParts DEF Setup, Forgotten, Tags
<1>2. r \in [Converters -> Setup] /\ Sets(r, b.cache, n, s)
    BY <1>1, ConvertersTyped, SetsExcept
<1>3. d = Forget(b, n, id, format)
    BY DEF Forget, Forgotten, Bridge
<1> HIDE DEF r
<1>4. d \in Bridge /\ Keeps(d, b, {"cache"}) /\ d.cache = r
    BY <1>2, CacheTyped
<1> QED
    BY <1>2, <1>3, <1>4

(* The parameters that are stored go out, over what the cache has not      *)
(* forgotten.                                                              *)
LEMMA UpdateFormatEffect ==
    ASSUME NEW b \in Bridge, NEW n \in Converters, NEW id \in 0 .. 2, NEW ch \in {0, 2}
    PROVE  LET d == really_update_stream_format(b, n, id, ch)
               s == [tag |-> b.store[n].tag, chan |-> IF id = 2 THEN ch ELSE b.store[n].chan,
                     fmt |-> b.store[n].fmt]
           IN  /\ d \in Bridge
               /\ Keeps(d, b, {"reg", "cache"})
               /\ Sets(d.reg, b.reg, n,
                       Sent(Forgotten(b.cache[n], id > 0, TRUE), b.reg[n], s))
               /\ Sets(d.cache, b.cache, n, s)
<1> DEFINE s == [tag |-> b.store[n].tag, chan |-> IF id = 2 THEN ch ELSE b.store[n].chan,
                 fmt |-> b.store[n].fmt]
           was == Forgotten(b.cache[n], id > 0, TRUE)
           e == Forget(b, n, id > 0, TRUE)
           d == snd_hda_codec_setup_stream(e, n, s)
<1>1. b.store[n] \in Setup
    BY DEF Bridge
<1>2. s \in Setup
    BY <1>1, SetupParts DEF Setup
<1>3. [b.store[n] EXCEPT !.chan = IF id = 2 THEN ch ELSE @] = s
    BY <1>1 DEF Setup
<1>4. /\ e \in Bridge /\ Keeps(e, b, {"cache"})
      /\ Sets(e.cache, b.cache, n, was)
  <2>1. (id > 0) \in BOOLEAN /\ TRUE \in BOOLEAN
      OBVIOUS
  <2> QED
      BY <2>1, ForgetEffect
<1>5. d = really_update_stream_format(b, n, id, ch)
    BY <1>3 DEF really_update_stream_format
<1> HIDE DEF e, s, was
<1>6. /\ d \in Bridge /\ Keeps(d, e, {"reg", "cache"})
      /\ Sets(d.reg, e.reg, n, Sent(e.cache[n], e.reg[n], s))
      /\ Sets(d.cache, e.cache, n, s)
    BY <1>2, <1>4, SetupStreamEffect
<1> HIDE DEF d
<1>7. Keeps(d, b, {"reg", "cache"})
    BY <1>4, <1>6, KeepsStep
<1>8. e.reg = b.reg /\ e.cache[n] = was
    BY <1>4 DEF Keeps, Parts, Sets
<1>9. Sets(d.cache, b.cache, n, s)
    BY <1>4, <1>6 DEF Sets
<1> QED
    BY <1>5, <1>6, <1>7, <1>8, <1>9 DEF d, s, was

(* A stream's parameters, sent with the tag forgotten, are what the        *)
(* converter has.                                                          *)
LEMMA StreamSentEffect ==
    ASSUME NEW b \in Bridge, NEW n \in Converters, NEW id \in {1, 2}, NEW ch \in {0, 2},
           b.store[n].tag # 0, b.store[n].fmt # NoFormat
    PROVE  LET d == really_update_stream_format(b, n, id, ch)
               s == [tag |-> b.store[n].tag, chan |-> IF id = 2 THEN ch ELSE b.store[n].chan,
                     fmt |-> b.store[n].fmt]
           IN  /\ d \in Bridge
               /\ Keeps(d, b, {"reg", "cache"})
               /\ Sets(d.reg, b.reg, n, s)
               /\ Sets(d.cache, b.cache, n, s)
<1> DEFINE s == [tag |-> b.store[n].tag, chan |-> IF id = 2 THEN ch ELSE b.store[n].chan,
                 fmt |-> b.store[n].fmt]
           was == Forgotten(b.cache[n], id > 0, TRUE)
<1>1. was.tag = 0 /\ was.fmt = NoFormat
    BY DEF Forgotten
<1>2. Sent(was, b.reg[n], s) = s
  <2>1. s.tag # 0 /\ s.fmt # NoFormat /\ s = [tag |-> s.tag, chan |-> s.chan, fmt |-> s.fmt]
      OBVIOUS
  <2> HIDE DEF was, s
  <2> QED
      BY <1>1, <2>1 DEF Sent, Moved
<1> HIDE DEF was, s
<1>3. id \in 0 .. 2
    OBVIOUS
<1> QED
    BY <1>2, <1>3, UpdateFormatEffect DEF was, s

-----------------------------------------------------------------------------
(* Starting converters together.                                           *)

(* From r to q no converter changes but the given ones.                    *)
SetsOnly(q, r, ns) == \A m \in Converters \ ns : q[m] = r[m]

LEMMA RestoreEffect ==
    ASSUME NEW b \in Bridge, NEW n \in Converters, NEW saved, saved = b.cache[n],
           b.reg[n].tag = 0, b.reg[n].chan = 0
    PROVE  LET d == update_from_save_stream_format(b, n, saved)
           IN  /\ d \in Bridge
               /\ Keeps(d, b, {"reg"})
               /\ Sets(d.reg, b.reg, n,
                       [tag |-> saved.tag, chan |-> saved.chan, fmt |-> b.reg[n].fmt])
<1> DEFINE e == Forget(b, n, TRUE, FALSE)
           was == Forgotten(saved, TRUE, FALSE)
           d == snd_hda_codec_setup_stream(e, n, saved)
<1>1. saved \in Setup
    BY DEF Bridge
<1>2. /\ e \in Bridge /\ Keeps(e, b, {"cache"}) /\ Sets(e.cache, b.cache, n, was)
  <2>1. TRUE \in BOOLEAN /\ FALSE \in BOOLEAN
      OBVIOUS
  <2> QED
      BY <2>1, ForgetEffect
<1>3. d = update_from_save_stream_format(b, n, saved)
    BY DEF update_from_save_stream_format
<1>4. Sent(was, b.reg[n], saved) = [tag |-> saved.tag, chan |-> saved.chan, fmt |-> b.reg[n].fmt]
    BY DEF Sent, Moved, Forgotten
<1> HIDE DEF e, was
<1>5. /\ d \in Bridge /\ Keeps(d, e, {"reg", "cache"})
      /\ Sets(d.reg, e.reg, n, Sent(e.cache[n], e.reg[n], saved))
      /\ Sets(d.cache, e.cache, n, saved)
    BY <1>1, <1>2, SetupStreamEffect
<1> HIDE DEF d
<1>6. e.reg = b.reg /\ e.cache[n] = was
    BY <1>2 DEF Keeps, Parts, Sets
<1>7. d.cache = b.cache
  <2>1. \A m \in Converters : d.cache[m] = b.cache[m]
      BY <1>2, <1>5 DEF Sets
  <2>2. d.cache \in [Converters -> Setup] /\ b.cache \in [Converters -> Setup]
      BY <1>5, ConvertersTyped
  <2> QED
      BY <2>1, <2>2
<1>8. Keeps(d, b, {"reg"})
    BY <1>2, <1>5, <1>7 DEF Keeps, Parts
<1> QED
    BY <1>3, <1>4, <1>5, <1>6, <1>8 DEF d

(* With a stream both converters get the tag and channel that the cache    *)
(* says they have, and keep their formats.                                 *)
LEMMA ResyncEffect ==
    ASSUME NEW b \in Bridge, NEW set \in SUBSET {"02", "03"}, NEW chan3 \in {0, 2}
    PROVE  LET d == Resync(b, set, FALSE, chan3)
           IN  /\ d \in Bridge
               /\ Keeps(d, b, {"reg", "sync"})
               /\ d.sync = set
               /\ d.reg["02"] = [tag |-> b.cache["02"].tag, chan |-> b.cache["02"].chan,
                                 fmt |-> b.reg["02"].fmt]
               /\ d.reg["03"] = [tag |-> b.cache["03"].tag, chan |-> b.cache["03"].chan,
                                 fmt |-> b.reg["03"].fmt]
               /\ SetsOnly(d.reg, b.reg, {"02", "03"})
<1> DEFINE c0 == WithTag(b, "02", 0, 0)
           c1 == WithTag(c0, "03", 0, 0)
           c2 == [c1 EXCEPT !.sync = set]
           c3 == update_from_save_stream_format(c2, "02", b.cache["02"])
           c4 == update_from_save_stream_format(c3, "03", b.cache["03"])
<1>0. c4 = Resync(b, set, FALSE, chan3)
    BY DEF Resync, save_and_clear_stream_format
<1>1. "02" \in Converters /\ "03" \in Converters /\ 0 \in Tags
    BY DEF Converters, Tags
<1>2. /\ c0 \in Bridge /\ Keeps(c0, b, {"reg"})
      /\ Sets(c0.reg, b.reg, "02", [tag |-> 0, chan |-> 0, fmt |-> b.reg["02"].fmt])
    BY <1>1, WithTagEffect
<1> HIDE DEF c0
<1>3. /\ c1 \in Bridge /\ Keeps(c1, c0, {"reg"})
      /\ Sets(c1.reg, c0.reg, "03", [tag |-> 0, chan |-> 0, fmt |-> c0.reg["03"].fmt])
    BY <1>1, <1>2, WithTagEffect
<1> HIDE DEF c1
<1>4. /\ c2 \in Bridge /\ Keeps(c2, c1, {"sync"}) /\ c2.sync = set /\ c2.reg = c1.reg
    BY <1>3 DEF Bridge, Keeps, Parts
<1> HIDE DEF c2
<1>5. Keeps(c2, b, {"reg", "sync"})
    BY <1>2, <1>3, <1>4 DEF Keeps
<1>6. /\ c2.reg["02"] = [tag |-> 0, chan |-> 0, fmt |-> b.reg["02"].fmt]
      /\ c2.reg["03"] = [tag |-> 0, chan |-> 0, fmt |-> b.reg["03"].fmt]
      /\ SetsOnly(c2.reg, b.reg, {"02", "03"})
      /\ c2.cache = b.cache
    BY <1>1, <1>2, <1>3, <1>4, <1>5 DEF Sets, SetsOnly, Keeps, Parts
<1>7. /\ c3 \in Bridge /\ Keeps(c3, c2, {"reg"})
      /\ Sets(c3.reg, c2.reg, "02", [tag |-> b.cache["02"].tag, chan |-> b.cache["02"].chan,
                                     fmt |-> c2.reg["02"].fmt])
    BY <1>1, <1>4, <1>6, RestoreEffect
<1> HIDE DEF c3
<1>8. /\ c3.cache = b.cache /\ c3.reg["03"] = c2.reg["03"]
    BY <1>1, <1>6, <1>7 DEF Sets, Keeps, Parts
<1>9. /\ c4 \in Bridge /\ Keeps(c4, c3, {"reg"})
      /\ Sets(c4.reg, c3.reg, "03", [tag |-> b.cache["03"].tag, chan |-> b.cache["03"].chan,
                                     fmt |-> c3.reg["03"].fmt])
    BY <1>1, <1>6, <1>7, <1>8, RestoreEffect
<1> HIDE DEF c4
<1>10. Keeps(c4, b, {"reg", "sync"}) /\ c4.sync = set
    BY <1>4, <1>5, <1>7, <1>9 DEF Keeps, Parts
<1>11. /\ c4.reg["02"] = [tag |-> b.cache["02"].tag, chan |-> b.cache["02"].chan,
                          fmt |-> b.reg["02"].fmt]
       /\ c4.reg["03"] = [tag |-> b.cache["03"].tag, chan |-> b.cache["03"].chan,
                          fmt |-> b.reg["03"].fmt]
       /\ SetsOnly(c4.reg, b.reg, {"02", "03"})
    BY <1>1, <1>6, <1>7, <1>8, <1>9 DEF Sets, SetsOnly
<1> QED
    BY <1>0, <1>9, <1>10, <1>11

(* Without one both are silent.                                            *)
LEMMA ResyncNoneEffect ==
    ASSUME NEW b \in Bridge, NEW set \in SUBSET {"02", "03"}, NEW chan3 \in {0, 2}
    PROVE  LET d == Resync(b, set, TRUE, chan3)
           IN  /\ d \in Bridge
               /\ Keeps(d, b, {"reg", "sync"})
               /\ d.reg["02"].tag = 0 /\ d.reg["03"].tag = 0
               /\ SetsOnly(d.reg, b.reg, {"02", "03"})
<1> DEFINE c0 == WithTag(b, "02", 0, 0)
           c1 == WithTag(c0, "03", 0, 0)
           c2 == [c1 EXCEPT !.sync = set]
           c3 == WithTag(c2, "02", 0, 0)
           c4 == WithTag(c3, "03", 0, chan3)
<1>0. c4 = Resync(b, set, TRUE, chan3)
    BY DEF Resync, save_and_clear_stream_format
<1>1. "02" \in Converters /\ "03" \in Converters /\ 0 \in Tags
    BY DEF Converters, Tags
<1>2. /\ c0 \in Bridge /\ Keeps(c0, b, {"reg"})
      /\ Sets(c0.reg, b.reg, "02", [tag |-> 0, chan |-> 0, fmt |-> b.reg["02"].fmt])
    BY <1>1, WithTagEffect
<1> HIDE DEF c0
<1>3. /\ c1 \in Bridge /\ Keeps(c1, c0, {"reg"})
      /\ Sets(c1.reg, c0.reg, "03", [tag |-> 0, chan |-> 0, fmt |-> c0.reg["03"].fmt])
    BY <1>1, <1>2, WithTagEffect
<1> HIDE DEF c1
<1>4. /\ c2 \in Bridge /\ Keeps(c2, c1, {"sync"}) /\ c2.reg = c1.reg
    BY <1>3 DEF Bridge, Keeps, Parts
<1> HIDE DEF c2
<1>5. /\ c3 \in Bridge /\ Keeps(c3, c2, {"reg"})
      /\ Sets(c3.reg, c2.reg, "02", [tag |-> 0, chan |-> 0, fmt |-> c2.reg["02"].fmt])
    BY <1>1, <1>4, WithTagEffect
<1> HIDE DEF c3
<1>6. /\ c4 \in Bridge /\ Keeps(c4, c3, {"reg"})
      /\ Sets(c4.reg, c3.reg, "03", [tag |-> 0, chan |-> chan3, fmt |-> c3.reg["03"].fmt])
    BY <1>1, <1>5, WithTagEffect
<1> HIDE DEF c4
<1>7. Keeps(c4, b, {"reg", "sync"})
    BY <1>2, <1>3, <1>4, <1>5, <1>6 DEF Keeps
<1>8. /\ c4.reg["02"].tag = 0 /\ c4.reg["03"].tag = 0
      /\ SetsOnly(c4.reg, b.reg, {"02", "03"})
    BY <1>1, <1>2, <1>3, <1>4, <1>5, <1>6 DEF Sets, SetsOnly
<1> QED
    BY <1>0, <1>6, <1>7, <1>8

-----------------------------------------------------------------------------
(* The speakers.                                                           *)

LEMMA Amps12Effect ==
    ASSUME NEW b \in Bridge
    PROVE  LET d == setup_TDM_amps12(b, FALSE)
               e == [tag |-> b.store["02"].tag, chan |-> 0, fmt |-> b.store["02"].fmt]
           IN  /\ d \in Bridge
               /\ Keeps(d, b, {"slots", "clocks", "tdm", "buses", "run", "pins", "reg", "cache"})
               /\ d.slots = b.slots \cup {"amps12"} /\ d.clocks = b.clocks \cup {"amps"}
               /\ d.tdm = b.tdm \cup {"amps"} /\ d.buses = b.buses \cup {"amps"}
               /\ d.run = TRUE /\ d.pins = b.pins \cup {"24"}
               /\ b.store["02"].tag # 0 /\ b.store["02"].fmt # NoFormat =>
                     Sets(d.reg, b.reg, "02", e) /\ Sets(d.cache, b.cache, "02", e)
<1> DEFINE s == [tag |-> b.store["02"].tag, chan |-> 0, fmt |-> b.store["02"].fmt]
           c1 == really_update_stream_format(b, "02", 2, 0)
           c2 == setup_TDM_proper_amps12(c1)
           c3 == [c2 EXCEPT !.pins = @ \cup {"24"}]
<1>1. c3 = setup_TDM_amps12(b, FALSE)
    BY DEF setup_TDM_amps12
<1>2. "02" \in Converters /\ 2 \in {1, 2} /\ 2 \in 0 .. 2 /\ 0 \in {0, 2}
    BY DEF Converters
<1>3. /\ c1 \in Bridge /\ Keeps(c1, b, {"reg", "cache"})
      /\ b.store["02"].tag # 0 /\ b.store["02"].fmt # NoFormat =>
            Sets(c1.reg, b.reg, "02", s) /\ Sets(c1.cache, b.cache, "02", s)
  <2>1. c1 \in Bridge /\ Keeps(c1, b, {"reg", "cache"})
      BY <1>2, UpdateFormatEffect
  <2>2. ASSUME b.store["02"].tag # 0, b.store["02"].fmt # NoFormat
        PROVE  Sets(c1.reg, b.reg, "02", s) /\ Sets(c1.cache, b.cache, "02", s)
      BY <1>2, <2>2, StreamSentEffect
  <2> QED
      BY <2>1, <2>2
<1> HIDE DEF c1, s
<1>4. /\ c2 \in Bridge /\ Keeps(c2, c1, {"slots", "clocks", "tdm", "buses", "run"})
      /\ c2.slots = c1.slots \cup {"amps12"} /\ c2.clocks = c1.clocks \cup {"amps"}
      /\ c2.tdm = c1.tdm \cup {"amps"} /\ c2.buses = c1.buses \cup {"amps"}
      /\ c2.run = TRUE
    BY <1>3 DEF setup_TDM_proper_amps12, Bridge, Keeps, Parts
<1> HIDE DEF c2
<1>5. /\ c3 \in Bridge /\ Keeps(c3, c2, {"pins"}) /\ c3.pins = c2.pins \cup {"24"}
    BY <1>4 DEF Bridge, Keeps, Parts
<1> HIDE DEF c3
<1> QED
    BY <1>1, <1>3, <1>4, <1>5 DEF Keeps, Parts, s

LEMMA Amps34Effect ==
    ASSUME NEW b \in Bridge, NEW sc
    PROVE  LET d == setup_TDM_amps34(b, FALSE, sc)
               e == [tag |-> b.store["03"].tag, chan |-> IF sc = 2 THEN 0 ELSE 2,
                     fmt |-> b.store["03"].fmt]
           IN  /\ d \in Bridge
               /\ Keeps(d, b, {"slots", "buses", "run", "pins", "reg", "cache"})
               /\ d.slots = b.slots \cup {"amps34"} /\ d.buses = b.buses \cup {"amps"}
               /\ d.run = TRUE /\ d.pins = b.pins \cup {"25"}
               /\ b.store["03"].tag # 0 /\ b.store["03"].fmt # NoFormat =>
                     Sets(d.reg, b.reg, "03", e) /\ Sets(d.cache, b.cache, "03", e)
<1> DEFINE ch == IF sc = 2 THEN 0 ELSE 2
           s == [tag |-> b.store["03"].tag, chan |-> ch, fmt |-> b.store["03"].fmt]
           c1 == really_update_stream_format(b, "03", 2, ch)
           c2 == setup_TDM_proper_amps34(c1)
           c3 == [c2 EXCEPT !.pins = @ \cup {"25"}]
<1>1. c3 = setup_TDM_amps34(b, FALSE, sc)
    BY DEF setup_TDM_amps34
<1>2. "03" \in Converters /\ 2 \in {1, 2} /\ 2 \in 0 .. 2 /\ ch \in {0, 2}
    BY DEF Converters
<1>6. s = [tag |-> b.store["03"].tag, chan |-> IF sc = 2 THEN 0 ELSE 2,
           fmt |-> b.store["03"].fmt]
    OBVIOUS
<1>3. /\ c1 \in Bridge /\ Keeps(c1, b, {"reg", "cache"})
      /\ b.store["03"].tag # 0 /\ b.store["03"].fmt # NoFormat =>
            Sets(c1.reg, b.reg, "03", s) /\ Sets(c1.cache, b.cache, "03", s)
  <2> HIDE DEF ch
  <2>1. c1 \in Bridge /\ Keeps(c1, b, {"reg", "cache"})
      BY <1>2, UpdateFormatEffect
  <2>2. ASSUME b.store["03"].tag # 0, b.store["03"].fmt # NoFormat
        PROVE  Sets(c1.reg, b.reg, "03", s) /\ Sets(c1.cache, b.cache, "03", s)
      BY <1>2, <2>2, StreamSentEffect
  <2> QED
      BY <2>1, <2>2
<1> HIDE DEF c1, s, ch
<1>4. /\ c2 \in Bridge /\ Keeps(c2, c1, {"slots", "buses", "run"})
      /\ c2.slots = c1.slots \cup {"amps34"} /\ c2.buses = c1.buses \cup {"amps"}
      /\ c2.run = TRUE
    BY <1>3 DEF setup_TDM_proper_amps34, Bridge, Keeps, Parts
<1> HIDE DEF c2
<1>5. /\ c3 \in Bridge /\ Keeps(c3, c2, {"pins"}) /\ c3.pins = c2.pins \cup {"25"}
    BY <1>4 DEF Bridge, Keeps, Parts
<1> HIDE DEF c3
<1> QED
    BY <1>1, <1>3, <1>4, <1>5, <1>6 DEF Keeps, Parts

LEMMA AmpEffect ==
    ASSUME NEW b \in Bridge
    PROVE  /\ setup_amps12(b, TRUE) \in Bridge /\ Keeps(setup_amps12(b, TRUE), b, {"amps"})
           /\ setup_amps12(b, TRUE).amps = b.amps \cup {"12"}
           /\ setup_amps34(b, TRUE) \in Bridge /\ Keeps(setup_amps34(b, TRUE), b, {"amps"})
           /\ setup_amps34(b, TRUE).amps = b.amps \cup {"34"}
BY DEF setup_amps12, setup_amps34, Bridge, Keeps, Parts

(* Turned on, the speakers play the stream that both converters are meant  *)
(* to have.                                                                *)
LEMMA PlaySpeakersEffect ==
    ASSUME NEW b \in Bridge, NEW sc, NEW t, NEW f,
           b.store["02"] = [tag |-> t, chan |-> 0, fmt |-> f],
           b.store["03"] = [tag |-> t, chan |-> 0, fmt |-> f],
           t # 0, f # NoFormat
    PROVE  LET d == PlaySpeakers(b, sc)
           IN  /\ d \in Bridge
               /\ Keeps(d, b, {"slots", "clocks", "tdm", "buses", "run", "pins", "reg", "cache",
                               "amps", "sync"})
               /\ d.slots = b.slots \cup {"amps12", "amps34"}
               /\ d.clocks = b.clocks \cup {"amps"}
               /\ d.tdm = b.tdm \cup {"amps"} /\ d.buses = b.buses \cup {"amps"}
               /\ d.run = TRUE /\ d.pins = b.pins \cup {"24", "25"}
               /\ d.amps = {"12", "34"} /\ d.sync = {"02", "03"}
               /\ d.reg["02"] = [tag |-> t, chan |-> 0, fmt |-> f]
               /\ d.reg["03"] = [tag |-> t, chan |-> IF sc = 2 THEN 0 ELSE 2, fmt |-> f]
               /\ SetsOnly(d.reg, b.reg, {"02", "03"})
               /\ SetsOnly(d.cache, b.cache, {"02", "03"})
<1> DEFINE s == [tag |-> t, chan |-> 0, fmt |-> f]
           ch == IF sc = 2 THEN 0 ELSE 2
           s3 == [tag |-> t, chan |-> ch, fmt |-> f]
           c1 == setup_TDM_amps12(b, FALSE)
           c2 == setup_amps12(c1, TRUE)
           c3 == setup_TDM_amps34(c2, FALSE, sc)
           c4 == setup_amps34(c3, TRUE)
           c5 == Resync(c4, {"02", "03"}, FALSE, 2)
<1>1. c5 = PlaySpeakers(b, sc)
    BY DEF PlaySpeakers, sync_converters_on
<1>2. b.store["02"].tag # 0 /\ b.store["02"].fmt # NoFormat
    OBVIOUS
<1>3. /\ c1 \in Bridge
      /\ Keeps(c1, b, {"slots", "clocks", "tdm", "buses", "run", "pins", "reg", "cache"})
      /\ c1.slots = b.slots \cup {"amps12"} /\ c1.clocks = b.clocks \cup {"amps"}
      /\ c1.tdm = b.tdm \cup {"amps"} /\ c1.buses = b.buses \cup {"amps"}
      /\ c1.run = TRUE /\ c1.pins = b.pins \cup {"24"}
      /\ Sets(c1.reg, b.reg, "02", s) /\ Sets(c1.cache, b.cache, "02", s)
  <2> DEFINE e == [tag |-> b.store["02"].tag, chan |-> 0, fmt |-> b.store["02"].fmt]
  <2>1. e = s
      OBVIOUS
  <2> HIDE DEF s
  <2> QED
      BY <1>2, <2>1, Amps12Effect
<1> HIDE DEF c1
<1>4. c2 \in Bridge /\ Keeps(c2, c1, {"amps"}) /\ c2.amps = c1.amps \cup {"12"}
    BY <1>3, AmpEffect
<1> HIDE DEF c2
<1>5. c2.store["03"] = s
    BY <1>3, <1>4 DEF Keeps, Parts
<1>6. /\ c3 \in Bridge
      /\ Keeps(c3, c2, {"slots", "buses", "run", "pins", "reg", "cache"})
      /\ c3.slots = c2.slots \cup {"amps34"} /\ c3.buses = c2.buses \cup {"amps"}
      /\ c3.run = TRUE /\ c3.pins = c2.pins \cup {"25"}
      /\ Sets(c3.reg, c2.reg, "03", s3) /\ Sets(c3.cache, c2.cache, "03", s3)
  <2>1. c2.store["03"].tag = t /\ c2.store["03"].fmt = f
      BY <1>5
  <2> QED
      BY <1>4, <2>1, Amps34Effect
<1> HIDE DEF c3
<1>7. c4 \in Bridge /\ Keeps(c4, c3, {"amps"}) /\ c4.amps = c3.amps \cup {"34"}
    BY <1>6, AmpEffect
<1> HIDE DEF c4
<1>8. /\ c5 \in Bridge /\ Keeps(c5, c4, {"reg", "sync"}) /\ c5.sync = {"02", "03"}
      /\ c5.reg["02"] = [tag |-> c4.cache["02"].tag, chan |-> c4.cache["02"].chan,
                         fmt |-> c4.reg["02"].fmt]
      /\ c5.reg["03"] = [tag |-> c4.cache["03"].tag, chan |-> c4.cache["03"].chan,
                         fmt |-> c4.reg["03"].fmt]
      /\ SetsOnly(c5.reg, c4.reg, {"02", "03"})
  <2>1. {"02", "03"} \in SUBSET {"02", "03"} /\ 2 \in {0, 2}
      OBVIOUS
  <2> QED
      BY <1>7, <2>1, ResyncEffect
<1> HIDE DEF c5
<1>9. "02" \in Converters /\ "03" \in Converters
    BY DEF Converters
<1>10. /\ c4.reg["02"] = s /\ c4.cache["02"] = s /\ c4.reg["03"] = s3 /\ c4.cache["03"] = s3
       /\ SetsOnly(c4.reg, b.reg, {"02", "03"}) /\ SetsOnly(c4.cache, b.cache, {"02", "03"})
    BY <1>3, <1>4, <1>6, <1>7, <1>9 DEF Keeps, Parts, Sets, SetsOnly
<1>11. /\ c5.reg["02"] = s /\ c5.reg["03"] = s3
       /\ SetsOnly(c5.reg, b.reg, {"02", "03"}) /\ SetsOnly(c5.cache, b.cache, {"02", "03"})
    BY <1>8, <1>10 DEF Keeps, Parts, SetsOnly
<1>12. /\ Keeps(c5, b, {"slots", "clocks", "tdm", "buses", "run", "pins", "reg", "cache",
                        "amps", "sync"})
       /\ c5.slots = b.slots \cup {"amps12", "amps34"}
       /\ c5.clocks = b.clocks \cup {"amps"}
       /\ c5.tdm = b.tdm \cup {"amps"} /\ c5.buses = b.buses \cup {"amps"}
       /\ c5.run = TRUE /\ c5.pins = b.pins \cup {"24", "25"}
       /\ c5.amps = b.amps \cup {"12", "34"}
    BY <1>3, <1>4, <1>6, <1>7, <1>8 DEF Keeps, Parts
<1>13. c5.amps = {"12", "34"}
    BY <1>12 DEF Bridge
<1> QED
    BY <1>1, <1>8, <1>11, <1>12, <1>13

LEMMA SilenceEffect ==
    ASSUME NEW b \in Bridge, NEW n \in Converters
    PROVE  LET d == WithFormat(WithTag(b, n, 0, 0), n, NoFormat)
           IN  /\ d \in Bridge /\ Keeps(d, b, {"reg"}) /\ Sets(d.reg, b.reg, n, Silent)
<1> DEFINE c1 == WithTag(b, n, 0, 0)
           d == WithFormat(c1, n, NoFormat)
<1>1. /\ c1 \in Bridge /\ Keeps(c1, b, {"reg"})
      /\ Sets(c1.reg, b.reg, n, [tag |-> 0, chan |-> 0, fmt |-> b.reg[n].fmt])
  <2>1. 0 \in Tags /\ 0 \in {0, 2}
      BY DEF Tags
  <2> QED
      BY <2>1, WithTagEffect
<1> HIDE DEF c1
<1>2. /\ d \in Bridge /\ Keeps(d, c1, {"reg"})
      /\ Sets(d.reg, c1.reg, n, [tag |-> c1.reg[n].tag, chan |-> c1.reg[n].chan, fmt |-> NoFormat])
    BY <1>1, WithFormatEffect
<1> HIDE DEF d
<1>3. Sets(d.reg, b.reg, n, Silent)
    BY <1>1, <1>2 DEF Sets, Silent
<1>4. Keeps(d, b, {"reg"})
    BY <1>1, <1>2 DEF Keeps
<1> QED
    BY <1>2, <1>3, <1>4 DEF d, c1

LEMMA AmpOffEffect ==
    ASSUME NEW b \in Bridge
    PROVE  /\ disable_amps12(b) \in Bridge /\ Keeps(disable_amps12(b), b, {"amps"})
           /\ disable_amps12(b).amps = b.amps \ {"12"}
           /\ disable_amps34(b) \in Bridge /\ Keeps(disable_amps34(b), b, {"amps"})
           /\ disable_amps34(b).amps = b.amps \ {"34"}
BY DEF disable_amps12, disable_amps34, Bridge, Keeps, Parts

LEMMA Amps12OffEffect ==
    ASSUME NEW b \in Bridge
    PROVE  LET d == disable_TDM_amps12(b)
           IN  /\ d \in Bridge /\ Keeps(d, b, {"slots", "run", "pins", "reg"})
               /\ d.slots = b.slots \ {"amps12"} /\ d.run = TRUE /\ d.pins = b.pins \ {"24"}
               /\ Sets(d.reg, b.reg, "02", Silent)
<1> DEFINE c1 == disable_TDM_proper_amps12(b)
           c2 == WithFormat(WithTag(c1, "02", 0, 0), "02", NoFormat)
           d == [c2 EXCEPT !.pins = @ \ {"24"}]
<1>1. d = disable_TDM_amps12(b)
    BY DEF disable_TDM_amps12
<1>2. /\ c1 \in Bridge /\ Keeps(c1, b, {"slots", "run"})
      /\ c1.slots = b.slots \ {"amps12"} /\ c1.run = TRUE
    BY DEF disable_TDM_proper_amps12, Bridge, Keeps, Parts
<1> HIDE DEF c1
<1>3. c2 \in Bridge /\ Keeps(c2, c1, {"reg"}) /\ Sets(c2.reg, c1.reg, "02", Silent)
  <2>1. "02" \in Converters
      BY DEF Converters
  <2> QED
      BY <1>2, <2>1, SilenceEffect
<1> HIDE DEF c2
<1>4. d \in Bridge /\ Keeps(d, c2, {"pins"}) /\ d.pins = c2.pins \ {"24"}
    BY <1>3 DEF Bridge, Keeps, Parts
<1> HIDE DEF d
<1> QED
    BY <1>1, <1>2, <1>3, <1>4 DEF Keeps, Parts

LEMMA Amps34OffEffect ==
    ASSUME NEW b \in Bridge
    PROVE  LET d == disable_TDM_amps34(b)
           IN  /\ d \in Bridge
               /\ Keeps(d, b, {"slots", "clocks", "tdm", "buses", "run", "pins", "reg"})
               /\ d.slots = b.slots \ {"amps34"} /\ d.clocks = b.clocks \ {"amps"}
               /\ d.pins = b.pins \ {"25"}
               /\ Sets(d.reg, b.reg, "03", Silent)
<1> DEFINE c1 == disable_TDM_proper_amps34(b)
           c2 == WithFormat(WithTag(c1, "03", 0, 0), "03", NoFormat)
           d == [c2 EXCEPT !.pins = @ \ {"25"}]
<1>1. d = disable_TDM_amps34(b)
    BY DEF disable_TDM_amps34
<1>2. /\ c1 \in Bridge /\ Keeps(c1, b, {"slots", "clocks", "tdm", "buses", "run"})
      /\ c1.slots = b.slots \ {"amps34"} /\ c1.clocks = b.clocks \ {"amps"}
    BY DEF disable_TDM_proper_amps34, Bridge, Keeps, Parts
<1> HIDE DEF c1
<1>3. c2 \in Bridge /\ Keeps(c2, c1, {"reg"}) /\ Sets(c2.reg, c1.reg, "03", Silent)
  <2>1. "03" \in Converters
      BY DEF Converters
  <2> QED
      BY <1>2, <2>1, SilenceEffect
<1> HIDE DEF c2
<1>4. d \in Bridge /\ Keeps(d, c2, {"pins"}) /\ d.pins = c2.pins \ {"25"}
    BY <1>3 DEF Bridge, Keeps, Parts
<1> HIDE DEF d
<1> QED
    BY <1>1, <1>2, <1>3, <1>4 DEF Keeps, Parts

(* One pair of amplifiers after the other: off, and their converters       *)
(* silent.                                                                 *)
SpeakersOff(b) ==
    /\ b.amps = {} /\ "amps12" \notin b.slots /\ "amps34" \notin b.slots
    /\ b.reg["02"].tag = 0 /\ b.reg["03"].tag = 0

SpeakerParts == {"slots", "buses", "run", "clocks", "tdm", "sync", "pins", "amps", "reg"}

(* What the speakers do not share stays as it is in d.                     *)
NotSpeakers(d, b) ==
    /\ Keeps(d, b, SpeakerParts \cup {"cache"})
    /\ \A p \in {"hsout", "hsin"} : p \in d.slots <=> p \in b.slots
    /\ \A p \in {"2c", "3c", "intmike", "linein"} : p \in d.pins <=> p \in b.pins
    /\ \A p \in {"headset", "intmike", "linein"} : p \in d.clocks <=> p \in b.clocks
    /\ SetsOnly(d.reg, b.reg, {"02", "03"})
    /\ SetsOnly(d.cache, b.cache, {"02", "03"})

LEMMA BothOffEffect ==
    ASSUME NEW b \in Bridge
    PROVE  LET d1 == disable_TDM_amps12(disable_amps12(b))
               d == disable_TDM_amps34(disable_amps34(d1))
           IN  /\ d \in Bridge
               /\ Keeps(d, b, SpeakerParts)
               /\ SpeakersOff(d)
               /\ NotSpeakers(d, b)
<1> DEFINE c1 == disable_amps12(b)
           c2 == disable_TDM_amps12(c1)
           c3 == disable_amps34(c2)
           d == disable_TDM_amps34(c3)
<1>1. c1 \in Bridge /\ Keeps(c1, b, {"amps"}) /\ c1.amps = b.amps \ {"12"}
    BY AmpOffEffect
<1> HIDE DEF c1
<1>2. /\ c2 \in Bridge /\ Keeps(c2, c1, {"slots", "run", "pins", "reg"})
      /\ c2.slots = c1.slots \ {"amps12"} /\ c2.pins = c1.pins \ {"24"}
      /\ Sets(c2.reg, c1.reg, "02", Silent)
    BY <1>1, Amps12OffEffect
<1> HIDE DEF c2
<1>3. c3 \in Bridge /\ Keeps(c3, c2, {"amps"}) /\ c3.amps = c2.amps \ {"34"}
    BY <1>2, AmpOffEffect
<1> HIDE DEF c3
<1>4. /\ d \in Bridge
      /\ Keeps(d, c3, {"slots", "clocks", "tdm", "buses", "run", "pins", "reg"})
      /\ d.slots = c3.slots \ {"amps34"} /\ d.clocks = c3.clocks \ {"amps"}
      /\ d.pins = c3.pins \ {"25"}
      /\ Sets(d.reg, c3.reg, "03", Silent)
    BY <1>3, Amps34OffEffect
<1> HIDE DEF d
<1>5. Keeps(d, b, SpeakerParts)
    BY <1>1, <1>2, <1>3, <1>4 DEF Keeps, Parts, SpeakerParts
<1>6. /\ d.slots = b.slots \ {"amps12", "amps34"} /\ d.clocks = b.clocks \ {"amps"}
      /\ d.pins = b.pins \ {"24", "25"} /\ d.cache = b.cache
    BY <1>1, <1>2, <1>3, <1>4 DEF Keeps, Parts
<1>7. d.amps = {}
  <2>1. d.amps = (b.amps \ {"12"}) \ {"34"}
      BY <1>1, <1>2, <1>3, <1>4 DEF Keeps, Parts
  <2> QED
      BY <2>1 DEF Bridge
<1>8. d.reg["02"] = Silent /\ d.reg["03"] = Silent /\ SetsOnly(d.reg, b.reg, {"02", "03"})
  <2>1. "02" \in Converters /\ "03" \in Converters
      BY DEF Converters
  <2>2. c1.reg = b.reg /\ c3.reg = c2.reg
      BY <1>1, <1>3 DEF Keeps, Parts
  <2> QED
      BY <1>2, <1>4, <2>1, <2>2 DEF Sets, SetsOnly
<1>9. SpeakersOff(d)
    BY <1>6, <1>7, <1>8 DEF SpeakersOff, Silent
<1>10. NotSpeakers(d, b)
  <2>1. Keeps(d, b, SpeakerParts \cup {"cache"})
      BY <1>5 DEF Keeps
  <2> QED
      BY <1>6, <1>8, <2>1 DEF NotSpeakers, SetsOnly
<1> QED
    BY <1>4, <1>5, <1>9, <1>10 DEF d, c1, c2, c3

LEMMA SpeakersStopEffect ==
    ASSUME NEW b \in Bridge
    PROVE  LET d == amps_disable_streaming(b)
           IN  d \in Bridge /\ Keeps(d, b, SpeakerParts) /\ SpeakersOff(d) /\ NotSpeakers(d, b)
<1> DEFINE r == Resync(b, {}, FALSE, 0)
           c1 == [r EXCEPT !.tdm = {"amps"}]
           c3 == disable_TDM_amps34(disable_amps34(disable_TDM_amps12(disable_amps12(c1))))
           c4 == disable_amps12(c3)
           d == disable_amps34(c4)
<1>1. d = amps_disable_streaming(b)
    BY DEF amps_disable_streaming, sync_converters_off
<1>2. r \in Bridge /\ Keeps(r, b, {"reg", "sync"}) /\ SetsOnly(r.reg, b.reg, {"02", "03"})
  <2>1. {} \in SUBSET {"02", "03"} /\ 0 \in {0, 2}
      OBVIOUS
  <2> QED
      BY <2>1, ResyncEffect
<1> HIDE DEF r
<1>3. c1 \in Bridge /\ Keeps(c1, r, {"tdm"})
    BY <1>2 DEF Bridge, Keeps, Parts
<1> HIDE DEF c1
<1>4. c3 \in Bridge /\ Keeps(c3, c1, SpeakerParts) /\ SpeakersOff(c3) /\ NotSpeakers(c3, c1)
    BY <1>3, BothOffEffect
<1> HIDE DEF c3
<1>5. c4 \in Bridge /\ Keeps(c4, c3, {"amps"}) /\ c4.amps = {}
    BY <1>4, AmpOffEffect DEF SpeakersOff
<1> HIDE DEF c4
<1>6. d \in Bridge /\ Keeps(d, c4, {"amps"}) /\ d.amps = {}
    BY <1>5, AmpOffEffect
<1> HIDE DEF d
<1>7. Keeps(d, b, SpeakerParts)
    BY <1>2, <1>3, <1>4, <1>5, <1>6 DEF Keeps, Parts, SpeakerParts
<1>8. SpeakersOff(d)
    BY <1>4, <1>5, <1>6 DEF SpeakersOff, Keeps, Parts
<1>9. /\ c1.slots = b.slots /\ c1.pins = b.pins /\ c1.clocks = b.clocks /\ c1.cache = b.cache
      /\ SetsOnly(c1.reg, b.reg, {"02", "03"})
      /\ d.slots = c3.slots /\ d.pins = c3.pins /\ d.clocks = c3.clocks /\ d.cache = c3.cache
      /\ d.reg = c3.reg
    BY <1>2, <1>3, <1>5, <1>6 DEF Keeps, Parts
<1>10. Keeps(d, b, SpeakerParts \cup {"cache"})
    BY <1>7 DEF Keeps
<1>11. NotSpeakers(d, b)
    BY <1>4, <1>9, <1>10 DEF NotSpeakers, SetsOnly
<1> QED
    BY <1>1, <1>6, <1>7, <1>8, <1>11

-----------------------------------------------------------------------------
(* The headset.                                                            *)

LEMMA HeadsetAmpEffect ==
    ASSUME NEW b \in Bridge
    PROVE  LET d == headset_amp_format_setup(b)
               s == [tag |-> b.store["0a"].tag, chan |-> 0, fmt |-> b.store["0a"].fmt]
           IN  /\ d \in Bridge
               /\ Keeps(d, b, {"slots", "clocks", "tdm", "buses", "run", "pins", "reg", "cache"})
               /\ d.slots = b.slots \cup {"hsout"} /\ d.clocks = b.clocks \cup {"headset"}
               /\ d.tdm = b.tdm \cup {"headset"} /\ d.buses = b.buses \cup {"headset"}
               /\ d.run = TRUE /\ d.pins = b.pins \cup {"2c"}
               /\ SetsOnly(d.reg, b.reg, {"0a"}) /\ SetsOnly(d.cache, b.cache, {"0a"})
               /\ b.store["0a"].tag # 0 /\ b.store["0a"].fmt # NoFormat => d.reg["0a"] = s
<1> DEFINE s == [tag |-> b.store["0a"].tag, chan |-> 0, fmt |-> b.store["0a"].fmt]
           c1 == really_update_stream_format(b, "0a", 2, 0)
           c2 == headset_amp_setup_TDM_proper(c1)
           d == [c2 EXCEPT !.pins = @ \cup {"2c"}]
<1>1. d = headset_amp_format_setup(b)
    BY DEF headset_amp_format_setup
<1>2. /\ c1 \in Bridge /\ Keeps(c1, b, {"reg", "cache"})
      /\ SetsOnly(c1.reg, b.reg, {"0a"}) /\ SetsOnly(c1.cache, b.cache, {"0a"})
      /\ b.store["0a"].tag # 0 /\ b.store["0a"].fmt # NoFormat => c1.reg["0a"] = s
  <2>1. "0a" \in Converters /\ 2 \in {1, 2} /\ 2 \in 0 .. 2 /\ 0 \in {0, 2}
      BY DEF Converters
  <2>2. /\ c1 \in Bridge /\ Keeps(c1, b, {"reg", "cache"})
        /\ SetsOnly(c1.reg, b.reg, {"0a"}) /\ SetsOnly(c1.cache, b.cache, {"0a"})
      BY <2>1, UpdateFormatEffect DEF Sets, SetsOnly
  <2>3. ASSUME b.store["0a"].tag # 0, b.store["0a"].fmt # NoFormat
        PROVE  Sets(c1.reg, b.reg, "0a", s)
      BY <2>1, <2>3, StreamSentEffect
  <2> QED
      BY <2>2, <2>3 DEF Sets
<1> HIDE DEF c1, s
<1>3. /\ c2 \in Bridge /\ Keeps(c2, c1, {"slots", "clocks", "tdm", "buses", "run"})
      /\ c2.slots = c1.slots \cup {"hsout"} /\ c2.clocks = c1.clocks \cup {"headset"}
      /\ c2.tdm = c1.tdm \cup {"headset"} /\ c2.buses = c1.buses \cup {"headset"}
      /\ c2.run = TRUE
    BY <1>2 DEF headset_amp_setup_TDM_proper, Bridge, Keeps, Parts
<1> HIDE DEF c2
<1>4. d \in Bridge /\ Keeps(d, c2, {"pins"}) /\ d.pins = c2.pins \cup {"2c"}
    BY <1>3 DEF Bridge, Keeps, Parts
<1> HIDE DEF d
<1> QED
    BY <1>1, <1>2, <1>3, <1>4 DEF Keeps, Parts, s

LEMMA HeadsetAmpOffEffect ==
    ASSUME NEW b \in Bridge, NEW full \in BOOLEAN
    PROVE  LET d == headset_amp_format_setup_disable(b, full)
           IN  /\ d \in Bridge
               /\ Keeps(d, b, {"slots", "clocks", "tdm", "buses", "run", "pins", "reg"})
               /\ d.slots = b.slots \ {"hsout"} /\ d.pins = b.pins \ {"2c"}
               /\ \A p \in {"amps", "intmike", "linein"} : p \in d.clocks <=> p \in b.clocks
               /\ Sets(d.reg, b.reg, "0a", Silent)
<1> DEFINE c1 == headset_amp_disable_TDM_proper(b, full)
           c2 == WithFormat(WithTag(c1, "0a", 0, 0), "0a", NoFormat)
           d == [c2 EXCEPT !.pins = @ \ {"2c"}]
<1>1. d = headset_amp_format_setup_disable(b, full)
    BY DEF headset_amp_format_setup_disable
<1>2. /\ c1 \in Bridge /\ Keeps(c1, b, {"slots", "clocks", "tdm", "buses", "run"})
      /\ c1.slots = b.slots \ {"hsout"}
      /\ \A p \in {"amps", "intmike", "linein"} : p \in c1.clocks <=> p \in b.clocks
  <2> DEFINE e == [b EXCEPT !.slots = @ \ {"hsout"}]
  <2>1. /\ e \in Bridge /\ Keeps(e, b, {"slots"}) /\ e.slots = b.slots \ {"hsout"}
        /\ c1 = IF full
                  THEN [e EXCEPT !.clocks = @ \ {"headset"}, !.tdm = @ \ {"headset"},
                                 !.buses = {}, !.run = FALSE]
                  ELSE [e EXCEPT !.buses = {"headset"}, !.run = TRUE]
      BY DEF headset_amp_disable_TDM_proper, Bridge, Keeps, Parts
  <2> HIDE DEF c1, e
  <2>2. CASE full
    <3> DEFINE w == [e EXCEPT !.clocks = @ \ {"headset"}, !.tdm = @ \ {"headset"},
                              !.buses = {}, !.run = FALSE]
    <3>1. c1 = w
        BY <2>1, <2>2
    <3>2. /\ w \in Bridge /\ Keeps(w, e, {"clocks", "tdm", "buses", "run"})
          /\ w.clocks = e.clocks \ {"headset"}
        BY <2>1 DEF Bridge, Keeps, Parts
    <3> HIDE DEF w
    <3> QED
        BY <2>1, <3>1, <3>2 DEF Keeps, Parts
  <2>3. CASE ~full
    <3> DEFINE w == [e EXCEPT !.buses = {"headset"}, !.run = TRUE]
    <3>1. c1 = w
        BY <2>1, <2>3
    <3>2. w \in Bridge /\ Keeps(w, e, {"buses", "run"})
        BY <2>1 DEF Bridge, Keeps, Parts
    <3> HIDE DEF w
    <3> QED
        BY <2>1, <3>1, <3>2 DEF Keeps, Parts
  <2> QED
      BY <2>2, <2>3
<1> HIDE DEF c1
<1>3. c2 \in Bridge /\ Keeps(c2, c1, {"reg"}) /\ Sets(c2.reg, c1.reg, "0a", Silent)
  <2>1. "0a" \in Converters
      BY DEF Converters
  <2> QED
      BY <1>2, <2>1, SilenceEffect
<1> HIDE DEF c2
<1>4. d \in Bridge /\ Keeps(d, c2, {"pins"}) /\ d.pins = c2.pins \ {"2c"}
    BY <1>3 DEF Bridge, Keeps, Parts
<1> HIDE DEF d
<1> QED
    BY <1>1, <1>2, <1>3, <1>4 DEF Keeps, Parts

LEMMA HeadsetMikeEffect ==
    ASSUME NEW b \in Bridge
    PROVE  LET d == headset_mike_format_setup_enable(b)
               s == [tag |-> b.store["1a"].tag, chan |-> 0, fmt |-> b.store["1a"].fmt]
           IN  /\ d \in Bridge
               /\ Keeps(d, b, {"slots", "buses", "run", "pins", "reg", "cache"})
               /\ d.slots = b.slots \cup {"hsin"} /\ d.buses = {"headset"}
               /\ d.run = TRUE /\ d.pins = b.pins \cup {"3c"}
               /\ SetsOnly(d.reg, b.reg, {"1a"}) /\ SetsOnly(d.cache, b.cache, {"1a"})
               /\ d.cache["1a"] = s
               /\ b.store["1a"].tag # 0 /\ b.store["1a"].fmt # NoFormat => d.reg["1a"] = s
               /\ b.store["1a"] = Silent => d.reg["1a"] = b.reg["1a"]
<1> DEFINE s == [tag |-> b.store["1a"].tag, chan |-> 0, fmt |-> b.store["1a"].fmt]
           c1 == really_update_stream_format(b, "1a", 2, 0)
           d == [c1 EXCEPT !.slots = @ \cup {"hsin"}, !.buses = {"headset"}, !.run = TRUE,
                           !.pins = @ \cup {"3c"}]
<1>1. d = headset_mike_format_setup_enable(b)
    BY DEF headset_mike_format_setup_enable
<1>2. /\ c1 \in Bridge /\ Keeps(c1, b, {"reg", "cache"})
      /\ SetsOnly(c1.reg, b.reg, {"1a"}) /\ SetsOnly(c1.cache, b.cache, {"1a"})
      /\ c1.cache["1a"] = s
      /\ b.store["1a"].tag # 0 /\ b.store["1a"].fmt # NoFormat => c1.reg["1a"] = s
      /\ b.store["1a"] = Silent => c1.reg["1a"] = b.reg["1a"]
  <2>1. "1a" \in Converters /\ 2 \in {1, 2} /\ 2 \in 0 .. 2 /\ 0 \in {0, 2}
      BY DEF Converters
  <2> DEFINE was == Forgotten(b.cache["1a"], TRUE, TRUE)
  <2>2. /\ c1 \in Bridge /\ Keeps(c1, b, {"reg", "cache"})
        /\ Sets(c1.reg, b.reg, "1a", Sent(was, b.reg["1a"], s)) /\ Sets(c1.cache, b.cache, "1a", s)
    <3>1. was = Forgotten(b.cache["1a"], 2 > 0, TRUE)
        BY DEF Forgotten
    <3> HIDE DEF was
    <3> QED
        BY <2>1, <3>1, UpdateFormatEffect
  <2>3. ASSUME b.store["1a"].tag # 0, b.store["1a"].fmt # NoFormat
        PROVE  Sets(c1.reg, b.reg, "1a", s)
      BY <2>1, <2>3, StreamSentEffect
  <2>4. ASSUME b.store["1a"] = Silent
        PROVE  Sent(was, b.reg["1a"], s) = b.reg["1a"]
    <3>1. b.reg["1a"] \in Setup
        BY <2>1, ConvertersTyped
    <3> QED
        BY <2>4, <3>1, SetupParts DEF Sent, Moved, Forgotten, Silent
  <2> HIDE DEF c1, s, was
  <2> QED
      BY <2>2, <2>3, <2>4 DEF Sets, SetsOnly
<1> HIDE DEF c1, s
<1>3. /\ d \in Bridge /\ Keeps(d, c1, {"slots", "buses", "run", "pins"})
      /\ d.slots = c1.slots \cup {"hsin"} /\ d.buses = {"headset"} /\ d.run = TRUE
      /\ d.pins = c1.pins \cup {"3c"}
    BY <1>2 DEF Bridge, Keeps, Parts
<1> HIDE DEF d
<1> QED
    BY <1>1, <1>2, <1>3 DEF Keeps, Parts, s

LEMMA HeadsetMikeOffEffect ==
    ASSUME NEW b \in Bridge
    PROVE  LET d == headset_mike_format_setup_disable(b)
           IN  /\ d \in Bridge /\ Keeps(d, b, {"slots", "run", "pins", "reg"})
               /\ d.slots = b.slots \ {"hsin"} /\ d.run = TRUE /\ d.pins = b.pins \ {"3c"}
               /\ Sets(d.reg, b.reg, "1a", Silent)
<1> DEFINE c1 == WithFormat(WithTag(b, "1a", 0, 0), "1a", NoFormat)
           d == [c1 EXCEPT !.slots = @ \ {"hsin"}, !.run = TRUE, !.pins = @ \ {"3c"}]
<1>1. d = headset_mike_format_setup_disable(b)
    BY DEF headset_mike_format_setup_disable
<1>2. c1 \in Bridge /\ Keeps(c1, b, {"reg"}) /\ Sets(c1.reg, b.reg, "1a", Silent)
  <2>1. "1a" \in Converters
      BY DEF Converters
  <2> QED
      BY <2>1, SilenceEffect
<1> HIDE DEF c1
<1>3. /\ d \in Bridge /\ Keeps(d, c1, {"slots", "run", "pins"})
      /\ d.slots = c1.slots \ {"hsin"} /\ d.run = TRUE /\ d.pins = c1.pins \ {"3c"}
    BY <1>2 DEF Bridge, Keeps, Parts
<1> HIDE DEF d
<1> QED
    BY <1>1, <1>2, <1>3 DEF Keeps, Parts

LEMMA HeadsetOffEffect ==
    ASSUME NEW b \in Bridge
    PROVE  LET d == headset_amp_disable_and_mike_format_setup_disable(b)
           IN  /\ d \in Bridge
               /\ Keeps(d, b, {"slots", "clocks", "tdm", "run", "pins", "reg"})
               /\ d.slots = b.slots \ {"hsin"} /\ d.clocks = b.clocks \ {"headset"}
               /\ d.tdm = b.tdm \ {"headset"} /\ d.run = TRUE /\ d.pins = b.pins \ {"3c"}
               /\ Sets(d.reg, b.reg, "1a", Silent)
<1> DEFINE c1 == amp_disable_and_mike_disable_TDM_proper(b)
           c2 == WithFormat(WithTag(c1, "1a", 0, 0), "1a", NoFormat)
           d == [c2 EXCEPT !.pins = @ \ {"3c"}]
<1>1. d = headset_amp_disable_and_mike_format_setup_disable(b)
    BY DEF headset_amp_disable_and_mike_format_setup_disable
<1>2. /\ c1 \in Bridge /\ Keeps(c1, b, {"slots", "clocks", "tdm", "run"})
      /\ c1.slots = b.slots \ {"hsin"} /\ c1.clocks = b.clocks \ {"headset"}
      /\ c1.tdm = b.tdm \ {"headset"} /\ c1.run = TRUE
    BY DEF amp_disable_and_mike_disable_TDM_proper, Bridge, Keeps, Parts
<1> HIDE DEF c1
<1>3. c2 \in Bridge /\ Keeps(c2, c1, {"reg"}) /\ Sets(c2.reg, c1.reg, "1a", Silent)
  <2>1. "1a" \in Converters
      BY DEF Converters
  <2> QED
      BY <1>2, <2>1, SilenceEffect
<1> HIDE DEF c2
<1>4. d \in Bridge /\ Keeps(d, c2, {"pins"}) /\ d.pins = c2.pins \ {"3c"}
    BY <1>3 DEF Bridge, Keeps, Parts
<1> HIDE DEF d
<1> QED
    BY <1>1, <1>2, <1>3, <1>4 DEF Keeps, Parts

-----------------------------------------------------------------------------
(* The microphone and the line input: what they do stays with them.        *)

InputNodes == {"adc", "linein"}

InputOnly(d, b, ns) ==
    /\ Keeps(d, b, {"d0", "unmuted", "clocks", "pins", "reg", "cache"})
    /\ \A p \in {"amps", "headset"} : p \in d.clocks <=> p \in b.clocks
    /\ \A p \in {"24", "25", "2c", "3c"} : p \in d.pins <=> p \in b.pins
    /\ "afg" \in d.d0 <=> "afg" \in b.d0
    /\ SetsOnly(d.reg, b.reg, ns)
    /\ SetsOnly(d.cache, b.cache, ns)

LEMMA InputStep ==
    ASSUME NEW b, NEW d, NEW e, NEW S, NEW T, NEW U,
           InputOnly(d, b, S), InputOnly(e, d, T), S \subseteq U, T \subseteq U
    PROVE  InputOnly(e, b, U)
BY DEF InputOnly, Keeps, SetsOnly

LEMMA PowerEffect ==
    ASSUME NEW b \in Bridge, NEW N \in SUBSET {"afg", "adc", "linein"}
    PROVE  /\ Power(b, N) \in Bridge /\ Keeps(Power(b, N), b, {"d0"})
           /\ Power(b, N).d0 = b.d0 \cup N
           /\ PowerOff(b, N) \in Bridge /\ Keeps(PowerOff(b, N), b, {"d0"})
           /\ PowerOff(b, N).d0 = b.d0 \ N
BY DEF Power, PowerOff, Bridge, Keeps, Parts

LEMMA InputPowerEffect ==
    ASSUME NEW b \in Bridge, NEW N \in SUBSET InputNodes
    PROVE  /\ Power(b, N) \in Bridge /\ InputOnly(Power(b, N), b, {})
           /\ PowerOff(b, N) \in Bridge /\ InputOnly(PowerOff(b, N), b, {})
<1>1. N \in SUBSET {"afg", "adc", "linein"} /\ "afg" \notin N
    BY DEF InputNodes
<1> QED
    BY <1>1, PowerEffect DEF InputOnly, Keeps, Parts, SetsOnly

LEMMA VolumeEffect ==
    ASSUME NEW b \in Bridge, NEW n \in InputNodes
    PROVE  /\ volume_mute(b, n) \in Bridge /\ Keeps(volume_mute(b, n), b, {"unmuted"})
           /\ volume_unmute(b, n) \in Bridge /\ Keeps(volume_unmute(b, n), b, {"unmuted"})
           /\ volume_unmute(b, n).unmuted = b.unmuted \cup {n}
           /\ InputOnly(volume_mute(b, n), b, {}) /\ InputOnly(volume_unmute(b, n), b, {})
<1>1. /\ volume_mute(b, n) \in Bridge /\ Keeps(volume_mute(b, n), b, {"unmuted"})
      /\ volume_unmute(b, n) \in Bridge /\ Keeps(volume_unmute(b, n), b, {"unmuted"})
      /\ volume_unmute(b, n).unmuted = b.unmuted \cup {n}
    BY DEF volume_mute, volume_unmute, Bridge, Keeps, Parts, InputNodes
<1> QED
    BY <1>1 DEF InputOnly, Keeps, Parts, SetsOnly

LEMMA VolumeSetupEffect ==
    ASSUME NEW b \in Bridge
    PROVE  /\ intmike_volume_setup(b) \in Bridge
           /\ InputOnly(intmike_volume_setup(b), b, {})
           /\ Keeps(intmike_volume_setup(b), b, {"unmuted"})
           /\ linein_volume_setup(b) \in Bridge
           /\ InputOnly(linein_volume_setup(b), b, {})
BY VolumeEffect DEF intmike_volume_setup, linein_volume_setup, InputNodes

LEMMA StreamOnEffect ==
    ASSUME NEW b \in Bridge
    PROVE  /\ intmike_stream_on_nid(b) \in Bridge
           /\ InputOnly(intmike_stream_on_nid(b), b, {})
           /\ Keeps(intmike_stream_on_nid(b), b, {"clocks", "pins"})
           /\ "intmike" \in intmike_stream_on_nid(b).clocks
           /\ "intmike" \in intmike_stream_on_nid(b).pins
           /\ linein_stream_on_nid(b) \in Bridge
           /\ InputOnly(linein_stream_on_nid(b), b, {})
<1>1. /\ intmike_stream_on_nid(b) \in Bridge
      /\ Keeps(intmike_stream_on_nid(b), b, {"clocks", "pins"})
      /\ intmike_stream_on_nid(b).clocks = b.clocks \cup {"intmike"}
      /\ intmike_stream_on_nid(b).pins = b.pins \cup {"intmike"}
    BY DEF intmike_stream_on_nid, Bridge, Keeps, Parts
<1>2. /\ linein_stream_on_nid(b) \in Bridge
      /\ Keeps(linein_stream_on_nid(b), b, {"clocks", "pins"})
      /\ linein_stream_on_nid(b).clocks = b.clocks \cup {"linein"}
      /\ linein_stream_on_nid(b).pins = b.pins \cup {"linein"}
    BY DEF linein_stream_on_nid, Bridge, Keeps, Parts
<1> QED
    BY <1>1, <1>2 DEF InputOnly, Keeps, Parts, SetsOnly

LEMMA InputTagEffect ==
    ASSUME NEW b \in Bridge, NEW n \in InputNodes, NEW t \in Tags
    PROVE  /\ WithTag(b, n, t, 0) \in Bridge
           /\ InputOnly(WithTag(b, n, t, 0), b, {n})
           /\ WithTag(b, n, t, 0).reg[n].tag = t /\ WithTag(b, n, t, 0).reg[n].chan = 0
<1>1. n \in Converters /\ 0 \in {0, 2}
    BY DEF Converters, InputNodes
<1>2. /\ WithTag(b, n, t, 0) \in Bridge
      /\ Keeps(WithTag(b, n, t, 0), b, {"reg"})
      /\ Sets(WithTag(b, n, t, 0).reg, b.reg, n, [tag |-> t, chan |-> 0, fmt |-> b.reg[n].fmt])
    BY <1>1, WithTagEffect
<1> QED
    BY <1>2 DEF InputOnly, Keeps, Parts, SetsOnly, Sets

(* An input that is silenced has tag and channel 0, whatever its format.   *)
Untagged(b, n) == b.reg[n].tag = 0 /\ b.reg[n].chan = 0

LEMMA ConnOffEffect ==
    ASSUME NEW b \in Bridge
    PROVE  /\ intmike_stream_conn_off(b) \in Bridge
           /\ InputOnly(intmike_stream_conn_off(b), b, {"adc"})
           /\ Untagged(intmike_stream_conn_off(b), "adc")
           /\ linein_stream_conn_off(b) \in Bridge
           /\ InputOnly(linein_stream_conn_off(b), b, {"linein"})
<1>1. "adc" \in InputNodes /\ "linein" \in InputNodes /\ 0 \in Tags
    BY DEF InputNodes, Tags
<1> DEFINE a == WithTag(b, "adc", 0, 0)
           l == WithTag(b, "linein", 0, 0)
<1>2. /\ a \in Bridge /\ InputOnly(a, b, {"adc"}) /\ Untagged(a, "adc")
      /\ l \in Bridge /\ InputOnly(l, b, {"linein"})
    BY <1>1, InputTagEffect DEF Untagged
<1>3. /\ PowerOff(a, {"adc"}) = intmike_stream_conn_off(b)
      /\ PowerOff(l, {"linein"}) = linein_stream_conn_off(b)
    BY DEF intmike_stream_conn_off, linein_stream_conn_off
<1> HIDE DEF a, l
<1>4. {"adc"} \in SUBSET InputNodes /\ {"linein"} \in SUBSET InputNodes
    BY <1>1
<1>5. /\ PowerOff(a, {"adc"}) \in Bridge /\ InputOnly(PowerOff(a, {"adc"}), a, {})
      /\ PowerOff(l, {"linein"}) \in Bridge /\ InputOnly(PowerOff(l, {"linein"}), l, {})
    BY <1>2, <1>4, InputPowerEffect
<1>6. /\ InputOnly(PowerOff(a, {"adc"}), b, {"adc"})
      /\ InputOnly(PowerOff(l, {"linein"}), b, {"linein"})
  <2>1. {} \subseteq {"adc"} /\ {} \subseteq {"linein"}
      OBVIOUS
  <2> QED
      BY <1>2, <1>5, <2>1, InputStep
<1>7. Untagged(PowerOff(a, {"adc"}), "adc")
  <2>1. "adc" \in Converters
      BY DEF Converters
  <2> QED
      BY <1>2, <1>5, <2>1 DEF InputOnly, SetsOnly, Untagged
<1> QED
    BY <1>3, <1>5, <1>6, <1>7

LEMMA InputUpdateEffect ==
    ASSUME NEW b \in Bridge, NEW n \in InputNodes, NEW id \in {0, 1}
    PROVE  LET d == really_update_stream_format(b, n, id, 0)
           IN  /\ d \in Bridge /\ InputOnly(d, b, {n}) /\ Keeps(d, b, {"reg", "cache"})
               /\ id = 1 /\ b.store[n].tag # 0 /\ b.store[n].fmt # NoFormat =>
                      d.reg[n] = b.store[n] /\ d.cache[n] = b.store[n]
               /\ id = 1 /\ b.store[n].tag = 0 /\ b.store[n].chan = 0 /\ Untagged(b, n) =>
                      Untagged(d, n)
               /\ id = 1 /\ b.store[n].tag = 0 /\ b.store[n].chan = 0 /\ Untagged(b, n)
                  /\ b.store[n].fmt # NoFormat => d.reg[n] = d.cache[n]
<1> DEFINE s == [tag |-> b.store[n].tag, chan |-> IF id = 2 THEN 0 ELSE b.store[n].chan,
                 fmt |-> b.store[n].fmt]
           was == Forgotten(b.cache[n], id > 0, TRUE)
           d == really_update_stream_format(b, n, id, 0)
<1>1. n \in Converters /\ id \in 0 .. 2 /\ 0 \in {0, 2}
    BY DEF Converters, InputNodes
<1>2. /\ d \in Bridge /\ Keeps(d, b, {"reg", "cache"})
      /\ Sets(d.reg, b.reg, n, Sent(was, b.reg[n], s))
      /\ Sets(d.cache, b.cache, n, s)
    BY <1>1, UpdateFormatEffect
<1>3. /\ s = b.store[n]
      /\ id = 1 => was.tag = 0 /\ was.chan = 0 /\ was.fmt = NoFormat
  <2>1. b.store[n] \in Setup
      BY <1>1, ConvertersTyped
  <2> QED
      BY <2>1, SetupParts DEF Forgotten
<1>5. b.store[n] = [tag |-> b.store[n].tag, chan |-> b.store[n].chan, fmt |-> b.store[n].fmt]
  <2>1. b.store[n] \in Setup
      BY <1>1, ConvertersTyped
  <2> QED
      BY <2>1, SetupParts
<1> HIDE DEF d, s, was
<1>4. InputOnly(d, b, {n})
    BY <1>2 DEF InputOnly, Keeps, Parts, Sets, SetsOnly
<1>6. d.reg[n] = Sent(was, b.reg[n], b.store[n]) /\ d.cache[n] = b.store[n]
    BY <1>2, <1>3 DEF Sets
<1>7. id = 1 /\ b.store[n].tag # 0 /\ b.store[n].fmt # NoFormat => d.reg[n] = b.store[n]
    BY <1>3, <1>5, <1>6 DEF Sent, Moved
<1>8. id = 1 /\ b.store[n].tag = 0 /\ b.store[n].chan = 0 /\ Untagged(b, n) => Untagged(d, n)
    BY <1>3, <1>6 DEF Sent, Moved, Untagged
<1>9. id = 1 /\ b.store[n].tag = 0 /\ b.store[n].chan = 0 /\ Untagged(b, n)
      /\ b.store[n].fmt # NoFormat => d.reg[n] = d.cache[n]
    BY <1>3, <1>5, <1>6 DEF Sent, Moved, Untagged
<1> QED
    BY <1>2, <1>4, <1>6, <1>7, <1>8, <1>9 DEF d

LEMMA LineinFormatEffect ==
    ASSUME NEW b \in Bridge
    PROVE  /\ linein_format_setup_enable(b) \in Bridge
           /\ InputOnly(linein_format_setup_enable(b), b, {"linein"})
<1> DEFINE c1 == really_update_stream_format(b, "linein", 1, 0)
<1>1. c1 \in Bridge /\ InputOnly(c1, b, {"linein"})
  <2>1. "linein" \in InputNodes /\ 1 \in {0, 1}
      BY DEF InputNodes
  <2> QED
      BY <2>1, InputUpdateEffect
<1>2. PowerOff(c1, {"linein"}) = linein_format_setup_enable(b)
    BY DEF linein_format_setup_enable
<1> HIDE DEF c1
<1>3. {"linein"} \in SUBSET InputNodes /\ {} \subseteq {"linein"}
    BY DEF InputNodes
<1>4. PowerOff(c1, {"linein"}) \in Bridge /\ InputOnly(PowerOff(c1, {"linein"}), c1, {})
    BY <1>1, <1>3, InputPowerEffect
<1>5. InputOnly(PowerOff(c1, {"linein"}), b, {"linein"})
    BY <1>1, <1>3, <1>4, InputStep
<1> QED
    BY <1>2, <1>4, <1>5

LEMMA IntmikeFormatEffect ==
    ASSUME NEW b \in Bridge
    PROVE  /\ intmike_format_setup_enable(b, TRUE) \in Bridge
           /\ InputOnly(intmike_format_setup_enable(b, TRUE), b, {"adc"})
<1> DEFINE c1 == really_update_stream_format(b, "adc", 1, 0)
<1>1. c1 \in Bridge /\ InputOnly(c1, b, {"adc"})
  <2>1. "adc" \in InputNodes /\ 1 \in {0, 1}
      BY DEF InputNodes
  <2> QED
      BY <2>1, InputUpdateEffect
<1>2. PowerOff(c1, {"adc"}) = intmike_format_setup_enable(b, TRUE)
    BY DEF intmike_format_setup_enable
<1> HIDE DEF c1
<1>3. {"adc"} \in SUBSET InputNodes /\ {} \subseteq {"adc"}
    BY DEF InputNodes
<1>4. PowerOff(c1, {"adc"}) \in Bridge /\ InputOnly(PowerOff(c1, {"adc"}), c1, {})
    BY <1>1, <1>3, InputPowerEffect
<1>5. InputOnly(PowerOff(c1, {"adc"}), b, {"adc"})
    BY <1>1, <1>3, <1>4, InputStep
<1> QED
    BY <1>2, <1>4, <1>5

LEMMA InputResetEffect ==
    ASSUME NEW b \in Bridge
    PROVE  /\ intmike_stream_reset_nid_on(b) \in Bridge
           /\ InputOnly(intmike_stream_reset_nid_on(b), b, {"adc"})
           /\ linein_stream_reset_nid_off(b) \in Bridge
           /\ InputOnly(linein_stream_reset_nid_off(b), b, {"linein"})
<1> DEFINE a == Power(b, {"adc"})
           l == Power(b, {"linein"})
<1>1. /\ WithTag(a, "adc", 1, 0) = intmike_stream_reset_nid_on(b)
      /\ WithTag(l, "linein", 0, 0) = linein_stream_reset_nid_off(b)
    BY DEF intmike_stream_reset_nid_on, linein_stream_reset_nid_off
<1>2. /\ {"adc"} \in SUBSET InputNodes /\ {"linein"} \in SUBSET InputNodes
      /\ "adc" \in InputNodes /\ "linein" \in InputNodes
      /\ {} \subseteq {"adc"} /\ {} \subseteq {"linein"} /\ 0 \in Tags /\ 1 \in Tags
    BY DEF InputNodes, Tags
<1>3. a \in Bridge /\ InputOnly(a, b, {}) /\ l \in Bridge /\ InputOnly(l, b, {})
    BY <1>2, InputPowerEffect
<1> HIDE DEF a, l
<1>4. /\ WithTag(a, "adc", 1, 0) \in Bridge /\ InputOnly(WithTag(a, "adc", 1, 0), a, {"adc"})
      /\ WithTag(l, "linein", 0, 0) \in Bridge
      /\ InputOnly(WithTag(l, "linein", 0, 0), l, {"linein"})
    BY <1>2, <1>3, InputTagEffect
<1> QED
    BY <1>1, <1>2, <1>3, <1>4, InputStep

LEMMA InputDisableEffect ==
    ASSUME NEW b \in Bridge
    PROVE  /\ intmike_format_setup_disable(b) \in Bridge
           /\ InputOnly(intmike_format_setup_disable(b), b, {"adc"})
           /\ Untagged(intmike_format_setup_disable(b), "adc")
           /\ linein_format_setup_disable(b) \in Bridge
           /\ InputOnly(linein_format_setup_disable(b), b, {"linein"})
<1> DEFINE a == intmike_stream_conn_off(b)
           a1 == WithFormat(a, "adc", NoFormat)
           a2 == [a1 EXCEPT !.clocks = @ \ {"intmike"}, !.pins = @ \ {"intmike"}]
           l == linein_stream_conn_off(b)
           l1 == WithFormat(l, "linein", NoFormat)
           l2 == [l1 EXCEPT !.clocks = @ \ {"linein"}, !.pins = @ \ {"linein"}]
<1>1. a2 = intmike_format_setup_disable(b) /\ l2 = linein_format_setup_disable(b)
    BY DEF intmike_format_setup_disable, linein_format_setup_disable
<1>2. /\ a \in Bridge /\ InputOnly(a, b, {"adc"}) /\ Untagged(a, "adc")
      /\ l \in Bridge /\ InputOnly(l, b, {"linein"})
    BY ConnOffEffect
<1> HIDE DEF a, l
<1>3. /\ a1 \in Bridge /\ Keeps(a1, a, {"reg"})
      /\ Sets(a1.reg, a.reg, "adc", [tag |-> a.reg["adc"].tag, chan |-> a.reg["adc"].chan,
                                     fmt |-> NoFormat])
      /\ l1 \in Bridge /\ Keeps(l1, l, {"reg"})
      /\ Sets(l1.reg, l.reg, "linein", [tag |-> l.reg["linein"].tag,
                                        chan |-> l.reg["linein"].chan, fmt |-> NoFormat])
  <2>1. "adc" \in Converters /\ "linein" \in Converters
      BY DEF Converters
  <2> QED
      BY <1>2, <2>1, WithFormatEffect
<1> HIDE DEF a1, l1
<1>4. /\ a2 \in Bridge /\ Keeps(a2, a1, {"clocks", "pins"})
      /\ a2.clocks = a1.clocks \ {"intmike"} /\ a2.pins = a1.pins \ {"intmike"}
      /\ l2 \in Bridge /\ Keeps(l2, l1, {"clocks", "pins"})
      /\ l2.clocks = l1.clocks \ {"linein"} /\ l2.pins = l1.pins \ {"linein"}
    BY <1>3 DEF Bridge, Keeps, Parts
<1> HIDE DEF a2, l2
<1>5. InputOnly(a2, a, {"adc"}) /\ InputOnly(l2, l, {"linein"})
    BY <1>3, <1>4 DEF InputOnly, Keeps, Parts, Sets, SetsOnly
<1>6. Untagged(a2, "adc")
    BY <1>2, <1>3, <1>4 DEF Untagged, Keeps, Parts, Sets
<1>7. InputOnly(a2, b, {"adc"}) /\ InputOnly(l2, b, {"linein"})
    BY <1>2, <1>5, InputStep
<1> QED
    BY <1>1, <1>4, <1>6, <1>7

LEMMA AdcKept ==
    ASSUME NEW b, NEW d, InputOnly(d, b, {"linein"}) \/ InputOnly(d, b, {})
    PROVE  /\ InputOnly(d, b, InputNodes)
           /\ d.reg["adc"] = b.reg["adc"] /\ d.cache["adc"] = b.cache["adc"]
           /\ Untagged(b, "adc") => Untagged(d, "adc")
<1>1. "adc" \in Converters
    BY DEF Converters
<1> QED
    BY <1>1 DEF InputOnly, SetsOnly, Untagged, InputNodes

(* One step, and several.                                                  *)
Inputs(d, b) == d \in Bridge /\ InputOnly(d, b, InputNodes)

LEMMA InputsStep ==
    ASSUME NEW b, NEW d, NEW e, Inputs(d, b), Inputs(e, d)
    PROVE  Inputs(e, b)
BY InputStep DEF Inputs

LEMMA InputsWider ==
    ASSUME NEW b, NEW d, d \in Bridge, NEW ns \in SUBSET InputNodes, InputOnly(d, b, ns)
    PROVE  Inputs(d, b)
BY DEF Inputs, InputOnly, SetsOnly

LEMMA AdcSteps ==
    ASSUME NEW b \in Bridge
    PROVE  /\ Inputs(intmike_stream_conn_off(b), b)
           /\ Inputs(intmike_stream_off_nid(b), b)
           /\ Inputs(intmike_stream_conn_off_disable(b), b)
           /\ Inputs(intmike_stream_conn_off_enable(b), b)
           /\ Inputs(intmike_format_setup_enable(b, TRUE), b)
           /\ Inputs(intmike_stream_reset_nid_on(b), b)
           /\ Inputs(intmike_format_setup_disable(b), b)
           /\ \A id \in {0, 1} : Inputs(really_update_stream_format(b, "adc", id, 0), b)
           /\ Untagged(intmike_stream_off_nid(b), "adc")
           /\ Untagged(intmike_format_setup_disable(b), "adc")
<1>1. {"adc"} \in SUBSET InputNodes /\ "adc" \in InputNodes
    BY DEF InputNodes
<1>2. /\ Inputs(intmike_stream_conn_off(b), b)
      /\ Inputs(intmike_format_setup_enable(b, TRUE), b)
      /\ Inputs(intmike_stream_reset_nid_on(b), b)
      /\ Inputs(intmike_format_setup_disable(b), b)
    BY <1>1, ConnOffEffect, IntmikeFormatEffect, InputResetEffect, InputDisableEffect, InputsWider
<1>3. ASSUME NEW id \in {0, 1}
      PROVE  Inputs(really_update_stream_format(b, "adc", id, 0), b)
  <2>1. /\ really_update_stream_format(b, "adc", id, 0) \in Bridge
        /\ InputOnly(really_update_stream_format(b, "adc", id, 0), b, {"adc"})
      BY <1>1, InputUpdateEffect
  <2> QED
      BY <1>1, <2>1, InputsWider
<1> QED
    BY <1>2, <1>3, ConnOffEffect, InputDisableEffect
       DEF intmike_stream_off_nid, intmike_stream_conn_off_disable, intmike_stream_conn_off_enable

(* The rest leaves the internal microphone's converter alone.              *)
LineinStep(d, b) ==
    /\ Inputs(d, b)
    /\ d.reg["adc"] = b.reg["adc"] /\ d.cache["adc"] = b.cache["adc"]
    /\ Untagged(b, "adc") => Untagged(d, "adc")

LEMMA LineinSteps ==
    ASSUME NEW b \in Bridge
    PROVE  /\ LineinStep(linein_stream_conn_off(b), b)
           /\ LineinStep(linein_stream_off_nid(b), b)
           /\ LineinStep(linein_format_setup_enable(b), b)
           /\ LineinStep(linein_stream_reset_nid_off(b), b)
           /\ LineinStep(linein_format_setup_disable(b), b)
           /\ LineinStep(intmike_volume_setup(b), b) /\ LineinStep(linein_volume_setup(b), b)
           /\ LineinStep(intmike_stream_on_nid(b), b) /\ LineinStep(linein_stream_on_nid(b), b)
           /\ LineinStep(inputs_power_nids_on(b), b) /\ LineinStep(inputs_power_nids_off(b), b)
           /\ \A n \in InputNodes : /\ LineinStep(volume_mute(b, n), b)
                                    /\ LineinStep(volume_unmute(b, n), b)
<1>1. ASSUME NEW d \in Bridge, InputOnly(d, b, {"linein"}) \/ InputOnly(d, b, {})
      PROVE  LineinStep(d, b)
    BY <1>1, AdcKept DEF LineinStep, Inputs
<1>2. InputNodes \in SUBSET InputNodes /\ {"adc", "linein"} = InputNodes
    BY DEF InputNodes
<1>3. /\ LineinStep(linein_stream_conn_off(b), b) /\ LineinStep(linein_stream_off_nid(b), b)
    BY <1>1, ConnOffEffect DEF linein_stream_off_nid
<1>4. /\ LineinStep(linein_format_setup_enable(b), b)
      /\ LineinStep(linein_stream_reset_nid_off(b), b)
      /\ LineinStep(linein_format_setup_disable(b), b)
    BY <1>1, LineinFormatEffect, InputResetEffect, InputDisableEffect
<1>5. /\ LineinStep(intmike_volume_setup(b), b) /\ LineinStep(linein_volume_setup(b), b)
      /\ LineinStep(intmike_stream_on_nid(b), b) /\ LineinStep(linein_stream_on_nid(b), b)
    BY <1>1, VolumeSetupEffect, StreamOnEffect
<1>6. /\ LineinStep(inputs_power_nids_on(b), b) /\ LineinStep(inputs_power_nids_off(b), b)
    BY <1>1, <1>2, InputPowerEffect DEF inputs_power_nids_on, inputs_power_nids_off
<1>7. ASSUME NEW n \in InputNodes
      PROVE  LineinStep(volume_mute(b, n), b) /\ LineinStep(volume_unmute(b, n), b)
    BY <1>1, VolumeEffect
<1> QED
    BY <1>3, <1>4, <1>5, <1>6, <1>7

(* The internal microphone and the line input off, and set up but off.     *)
LEMMA LineinDisableEffect ==
    ASSUME NEW b \in Bridge
    PROVE  /\ Inputs(intmike_linein_disable(b), b)
           /\ Untagged(intmike_linein_disable(b), "adc")
<1> DEFINE c0 == intmike_stream_conn_off(b)
           c1 == linein_stream_conn_off(c0)
           c2 == intmike_stream_off_nid(c1)
           c3 == linein_stream_off_nid(c2)
           c4 == intmike_volume_setup(c3)
           c5 == intmike_format_setup_disable(c4)
           c6 == linein_volume_setup(c5)
           c7 == linein_format_setup_disable(c6)
<1>1. c7 = intmike_linein_disable(b)
    BY DEF intmike_linein_disable
<1> HIDE DEF c0, c1, c2, c3, c4, c5, c6, c7
<1>2. Inputs(c0, b)
    BY AdcSteps DEF c0
<1>3. Inputs(c1, b)
    BY <1>2, LineinSteps, InputsStep DEF c1, Inputs, LineinStep
<1>4. Inputs(c2, b)
    BY <1>3, AdcSteps, InputsStep DEF c2, Inputs
<1>5. Inputs(c3, b)
    BY <1>4, LineinSteps, InputsStep DEF c3, Inputs, LineinStep
<1>6. Inputs(c4, b)
    BY <1>5, LineinSteps, InputsStep DEF c4, Inputs, LineinStep
<1>7. Inputs(c5, b) /\ Untagged(c5, "adc")
    BY <1>6, AdcSteps, InputsStep DEF c5, Inputs
<1>8. Inputs(c6, b) /\ Untagged(c6, "adc")
    BY <1>7, LineinSteps, InputsStep DEF c6, Inputs, LineinStep
<1>9. Inputs(c7, b) /\ Untagged(c7, "adc")
    BY <1>8, LineinSteps, InputsStep DEF c7, Inputs, LineinStep
<1> QED
    BY <1>1, <1>9

LEMMA LineinResetupEffect ==
    ASSUME NEW b \in Bridge
    PROVE  /\ Inputs(intmike_linein_resetup(b), b)
           /\ Untagged(intmike_linein_resetup(b), "adc")
<1> DEFINE a1 == intmike_format_setup_enable(b, TRUE)
           a2 == intmike_volume_setup(a1)
           a3 == intmike_stream_on_nid(a2)
           a4 == linein_format_setup_enable(a3)
           a5 == linein_volume_setup(a4)
           a6 == linein_stream_on_nid(a5)
           a7 == intmike_stream_conn_off_disable(a6)
           a8 == linein_stream_conn_off(a7)
           a9 == intmike_stream_off_nid(a8)
           b1 == linein_stream_off_nid(a9)
           b2 == really_update_stream_format(b1, "adc", 0, 0)
           b3 == linein_volume_setup(b2)
           b4 == linein_format_setup_disable(b3)
           b5 == intmike_stream_conn_off_enable(b4)
           b6 == linein_stream_conn_off(b5)
           b7 == intmike_stream_off_nid(b6)
           b8 == linein_stream_off_nid(b7)
           b9 == volume_mute(b8, "adc")
           d1 == volume_mute(b9, "linein")
           d2 == volume_unmute(d1, "adc")
           d3 == volume_unmute(d2, "linein")
           d4 == inputs_power_nids_off(d3)
<1>1. d4 = intmike_linein_resetup(b)
    BY DEF intmike_linein_resetup
<1> HIDE DEF a1, a2, a3, a4, a5, a6, a7, a8, a9, b1, b2, b3, b4, b5, b6, b7, b8, b9,
             d1, d2, d3, d4
<1>2. "adc" \in InputNodes /\ "linein" \in InputNodes /\ 0 \in {0, 1}
    BY DEF InputNodes
<1>3. Inputs(a3, b)
  <2>1. Inputs(a1, b)
      BY AdcSteps DEF a1
  <2>2. Inputs(a2, b)
      BY <2>1, LineinSteps, InputsStep DEF a2, Inputs, LineinStep
  <2> QED
      BY <2>2, LineinSteps, InputsStep DEF a3, Inputs, LineinStep
<1>4. Inputs(a6, b)
  <2>1. Inputs(a4, b)
      BY <1>3, LineinSteps, InputsStep DEF a4, Inputs, LineinStep
  <2>2. Inputs(a5, b)
      BY <2>1, LineinSteps, InputsStep DEF a5, Inputs, LineinStep
  <2> QED
      BY <2>2, LineinSteps, InputsStep DEF a6, Inputs, LineinStep
<1>5. Inputs(a8, b)
  <2>1. Inputs(a7, b)
      BY <1>4, AdcSteps, InputsStep DEF a7, Inputs
  <2> QED
      BY <2>1, LineinSteps, InputsStep DEF a8, Inputs, LineinStep
<1>6. Inputs(b1, b)
  <2>1. Inputs(a9, b)
      BY <1>5, AdcSteps, InputsStep DEF a9, Inputs
  <2> QED
      BY <2>1, LineinSteps, InputsStep DEF b1, Inputs, LineinStep
<1>7. Inputs(b3, b)
  <2>1. Inputs(b2, b1)
      BY <1>2, <1>6, AdcSteps DEF b2, Inputs
  <2>2. Inputs(b2, b)
      BY <1>6, <2>1, InputsStep
  <2> QED
      BY <2>2, LineinSteps, InputsStep DEF b3, Inputs, LineinStep
<1>8. Inputs(b5, b)
  <2>1. Inputs(b4, b)
      BY <1>7, LineinSteps, InputsStep DEF b4, Inputs, LineinStep
  <2> QED
      BY <2>1, AdcSteps, InputsStep DEF b5, Inputs
<1>9. Inputs(b8, b) /\ Untagged(b8, "adc")
  <2>1. Inputs(b6, b)
      BY <1>8, LineinSteps, InputsStep DEF b6, Inputs, LineinStep
  <2>2. Inputs(b7, b) /\ Untagged(b7, "adc")
      BY <2>1, AdcSteps, InputsStep DEF b7, Inputs
  <2> QED
      BY <2>2, LineinSteps, InputsStep DEF b8, Inputs, LineinStep
<1>10. Inputs(d3, b) /\ Untagged(d3, "adc")
  <2>1. Inputs(b9, b) /\ Untagged(b9, "adc")
      BY <1>2, <1>9, LineinSteps, InputsStep DEF b9, Inputs, LineinStep
  <2>2. Inputs(d1, b) /\ Untagged(d1, "adc")
      BY <1>2, <2>1, LineinSteps, InputsStep DEF d1, Inputs, LineinStep
  <2>3. Inputs(d2, b) /\ Untagged(d2, "adc")
      BY <1>2, <2>2, LineinSteps, InputsStep DEF d2, Inputs, LineinStep
  <2> QED
      BY <1>2, <2>3, LineinSteps, InputsStep DEF d3, Inputs, LineinStep
<1>11. Inputs(d4, b) /\ Untagged(d4, "adc")
    BY <1>10, LineinSteps, InputsStep DEF d4, Inputs, LineinStep
<1> QED
    BY <1>1, <1>11

(* Powered off, neither converter is left on.                              *)
LEMMA InputsPoweredOff ==
    ASSUME NEW b \in Bridge
    PROVE  inputs_power_nids_off(b).d0 \cap {"adc", "linein"} = {}
BY PowerEffect DEF inputs_power_nids_off

LEMMA ConverterOff ==
    ASSUME NEW b \in Bridge
    PROVE  /\ intmike_stream_conn_off(b).d0 = b.d0 \ {"adc"}
           /\ linein_stream_conn_off(b).d0 = b.d0 \ {"linein"}
           /\ intmike_format_setup_disable(b).d0 = b.d0 \ {"adc"}
           /\ linein_format_setup_disable(b).d0 = b.d0 \ {"linein"}
           /\ intmike_volume_setup(b).d0 = b.d0 /\ linein_volume_setup(b).d0 = b.d0
<1>1. \A e \in Bridge, n \in {"adc", "linein"} :
          /\ WithTag(e, n, 0, 0) \in Bridge /\ WithTag(e, n, 0, 0).d0 = e.d0
          /\ WithFormat(e, n, NoFormat).d0 = e.d0 /\ WithFormat(e, n, NoFormat) \in Bridge
          /\ PowerOff(e, {n}).d0 = e.d0 \ {n} /\ PowerOff(e, {n}) \in Bridge
  <2> TAKE e \in Bridge, n \in {"adc", "linein"}
  <2>1. n \in Converters /\ 0 \in Tags /\ 0 \in {0, 2} /\ {n} \in SUBSET {"afg", "adc", "linein"}
      BY DEF Converters, Tags
  <2>2. WithTag(e, n, 0, 0) \in Bridge /\ Keeps(WithTag(e, n, 0, 0), e, {"reg"})
      BY <2>1, WithTagEffect
  <2>3. WithFormat(e, n, NoFormat) \in Bridge /\ Keeps(WithFormat(e, n, NoFormat), e, {"reg"})
      BY <2>1, WithFormatEffect
  <2>4. PowerOff(e, {n}) \in Bridge /\ PowerOff(e, {n}).d0 = e.d0 \ {n}
      BY <2>1, PowerEffect
  <2> QED
      BY <2>2, <2>3, <2>4 DEF Keeps, Parts
<1>2. /\ intmike_stream_conn_off(b).d0 = b.d0 \ {"adc"}
      /\ linein_stream_conn_off(b).d0 = b.d0 \ {"linein"}
      /\ intmike_stream_conn_off(b) \in Bridge /\ linein_stream_conn_off(b) \in Bridge
    BY <1>1 DEF intmike_stream_conn_off, linein_stream_conn_off
<1>3. /\ intmike_format_setup_disable(b).d0 = b.d0 \ {"adc"}
      /\ linein_format_setup_disable(b).d0 = b.d0 \ {"linein"}
  <2> DEFINE a == WithFormat(intmike_stream_conn_off(b), "adc", NoFormat)
             l == WithFormat(linein_stream_conn_off(b), "linein", NoFormat)
  <2>1. a \in Bridge /\ a.d0 = b.d0 \ {"adc"} /\ l \in Bridge /\ l.d0 = b.d0 \ {"linein"}
      BY <1>1, <1>2
  <2>2. /\ intmike_format_setup_disable(b) =
               [a EXCEPT !.clocks = @ \ {"intmike"}, !.pins = @ \ {"intmike"}]
        /\ linein_format_setup_disable(b) =
               [l EXCEPT !.clocks = @ \ {"linein"}, !.pins = @ \ {"linein"}]
      BY DEF intmike_format_setup_disable, linein_format_setup_disable
  <2> HIDE DEF a, l
  <2>3. /\ [a EXCEPT !.clocks = @ \ {"intmike"}, !.pins = @ \ {"intmike"}].d0 = a.d0
        /\ [l EXCEPT !.clocks = @ \ {"linein"}, !.pins = @ \ {"linein"}].d0 = l.d0
      BY <2>1 DEF Bridge
  <2> QED
      BY <2>1, <2>2, <2>3
<1>4. intmike_volume_setup(b).d0 = b.d0 /\ linein_volume_setup(b).d0 = b.d0
    BY DEF intmike_volume_setup, linein_volume_setup, volume_mute, Bridge
<1> QED
    BY <1>2, <1>3, <1>4

LEMMA LineinDisableOff ==
    ASSUME NEW b \in Bridge
    PROVE  intmike_linein_disable(b).d0 = b.d0 \ {"adc", "linein"}
<1> DEFINE c0 == intmike_stream_conn_off(b)
           c1 == linein_stream_conn_off(c0)
           c2 == intmike_stream_conn_off(c1)
           c3 == linein_stream_conn_off(c2)
           c4 == intmike_volume_setup(c3)
           c5 == intmike_format_setup_disable(c4)
           c6 == linein_volume_setup(c5)
           c7 == linein_format_setup_disable(c6)
<1>1. c7 = intmike_linein_disable(b)
    BY DEF intmike_linein_disable, intmike_stream_off_nid, linein_stream_off_nid
<1> HIDE DEF c0, c1, c2, c3, c4, c5, c6, c7
<1>2. c0 \in Bridge /\ c0.d0 = b.d0 \ {"adc"}
    BY AdcSteps, ConverterOff DEF c0, Inputs
<1>3. c1 \in Bridge /\ c1.d0 = c0.d0 \ {"linein"}
    BY <1>2, LineinSteps, ConverterOff DEF c1, LineinStep, Inputs
<1>4. c2 \in Bridge /\ c2.d0 = c1.d0 \ {"adc"}
    BY <1>3, AdcSteps, ConverterOff DEF c2, Inputs
<1>5. c3 \in Bridge /\ c3.d0 = c2.d0 \ {"linein"}
    BY <1>4, LineinSteps, ConverterOff DEF c3, LineinStep, Inputs
<1>6. c4 \in Bridge /\ c4.d0 = c3.d0
    BY <1>5, LineinSteps, ConverterOff DEF c4, LineinStep, Inputs
<1>7. c5 \in Bridge /\ c5.d0 = c4.d0 \ {"adc"}
    BY <1>6, AdcSteps, ConverterOff DEF c5, Inputs
<1>8. c6 \in Bridge /\ c6.d0 = c5.d0
    BY <1>7, LineinSteps, ConverterOff DEF c6, LineinStep, Inputs
<1>9. c7.d0 = c6.d0 \ {"linein"}
    BY <1>8, ConverterOff DEF c7
<1> QED
    BY <1>1, <1>2, <1>3, <1>4, <1>5, <1>6, <1>7, <1>8, <1>9

-----------------------------------------------------------------------------
(* The speakers set up without a stream.                                   *)

LEMMA NotSpeakersStep ==
    ASSUME NEW b, NEW d, NEW e, NotSpeakers(d, b), NotSpeakers(e, d)
    PROVE  NotSpeakers(e, b)
BY DEF NotSpeakers, Keeps, SetsOnly

LEMMA NullAmpsEffect ==
    ASSUME NEW b \in Bridge
    PROVE  LET d == setup_amps12(setup_TDM_amps12(b, TRUE), FALSE)
               e == setup_amps34(setup_TDM_amps34(b, TRUE, 0), FALSE)
           IN  /\ d \in Bridge /\ NotSpeakers(d, b)
               /\ e \in Bridge /\ NotSpeakers(e, b)
<1>1. /\ "02" \in Converters /\ "03" \in Converters /\ 0 \in Tags /\ 0 \in {0, 2}
      /\ 2 \in {0, 2} /\ NullOut \in Formats \cup {NoFormat, NullOut, IntMike}
    BY DEF Converters, Tags
<1> DEFINE a1 == WithFormat(b, "02", NullOut)
           a2 == WithTag(a1, "02", 0, 0)
           a3 == setup_TDM_proper_amps12(a2)
           a4 == [a3 EXCEPT !.pins = @ \cup {"24"}]
           d == setup_amps12(a4, FALSE)
           f1 == WithFormat(b, "03", NullOut)
           f2 == WithTag(f1, "03", 0, 2)
           f3 == setup_TDM_proper_amps34(f2)
           f4 == [f3 EXCEPT !.pins = @ \cup {"25"}]
           e == setup_amps34(f4, FALSE)
<1>2. /\ d = setup_amps12(setup_TDM_amps12(b, TRUE), FALSE)
      /\ e = setup_amps34(setup_TDM_amps34(b, TRUE, 0), FALSE)
    BY DEF setup_TDM_amps12, setup_TDM_amps34
<1>3. a2 \in Bridge /\ Keeps(a2, b, {"reg"}) /\ SetsOnly(a2.reg, b.reg, {"02", "03"})
  <2>1. /\ a1 \in Bridge /\ Keeps(a1, b, {"reg"})
        /\ Sets(a1.reg, b.reg, "02", [tag |-> b.reg["02"].tag, chan |-> b.reg["02"].chan,
                                     fmt |-> NullOut])
      BY <1>1, WithFormatEffect
  <2> HIDE DEF a1
  <2>2. /\ a2 \in Bridge /\ Keeps(a2, a1, {"reg"})
        /\ Sets(a2.reg, a1.reg, "02", [tag |-> 0, chan |-> 0, fmt |-> a1.reg["02"].fmt])
      BY <1>1, <2>1, WithTagEffect
  <2> HIDE DEF a2
  <2> QED
      BY <2>1, <2>2 DEF Keeps, Sets, SetsOnly
<1>4. f2 \in Bridge /\ Keeps(f2, b, {"reg"}) /\ SetsOnly(f2.reg, b.reg, {"02", "03"})
  <2>1. /\ f1 \in Bridge /\ Keeps(f1, b, {"reg"})
        /\ Sets(f1.reg, b.reg, "03", [tag |-> b.reg["03"].tag, chan |-> b.reg["03"].chan,
                                     fmt |-> NullOut])
      BY <1>1, WithFormatEffect
  <2> HIDE DEF f1
  <2>2. /\ f2 \in Bridge /\ Keeps(f2, f1, {"reg"})
        /\ Sets(f2.reg, f1.reg, "03", [tag |-> 0, chan |-> 2, fmt |-> f1.reg["03"].fmt])
      BY <1>1, <2>1, WithTagEffect
  <2> HIDE DEF f2
  <2> QED
      BY <2>1, <2>2 DEF Keeps, Sets, SetsOnly
<1> HIDE DEF a1, a2, f1, f2
<1>5. /\ a3 \in Bridge /\ Keeps(a3, a2, {"slots", "clocks", "tdm", "buses", "run"})
      /\ a3.slots = a2.slots \cup {"amps12"} /\ a3.clocks = a2.clocks \cup {"amps"}
    BY <1>3 DEF setup_TDM_proper_amps12, Bridge, Keeps, Parts
<1>6. /\ f3 \in Bridge /\ Keeps(f3, f2, {"slots", "buses", "run"})
      /\ f3.slots = f2.slots \cup {"amps34"}
    BY <1>4 DEF setup_TDM_proper_amps34, Bridge, Keeps, Parts
<1> HIDE DEF a3, f3
<1>7. /\ a4 \in Bridge /\ Keeps(a4, a3, {"pins"}) /\ a4.pins = a3.pins \cup {"24"}
      /\ f4 \in Bridge /\ Keeps(f4, f3, {"pins"}) /\ f4.pins = f3.pins \cup {"25"}
    BY <1>5, <1>6 DEF Bridge, Keeps, Parts
<1> HIDE DEF a4, f4
<1>8. /\ d \in Bridge /\ Keeps(d, a4, {"amps"}) /\ e \in Bridge /\ Keeps(e, f4, {"amps"})
    BY <1>7 DEF setup_amps12, setup_amps34, Bridge, Keeps, Parts
<1> HIDE DEF d, e
<1>9. NotSpeakers(d, b)
    BY <1>3, <1>5, <1>7, <1>8 DEF NotSpeakers, SpeakerParts, Keeps, Parts, SetsOnly
<1>10. NotSpeakers(e, b)
    BY <1>4, <1>6, <1>7, <1>8 DEF NotSpeakers, SpeakerParts, Keeps, Parts, SetsOnly
<1> QED
    BY <1>2, <1>8, <1>9, <1>10

LEMMA NullSyncEffect ==
    ASSUME NEW b \in Bridge
    PROVE  /\ sync_converters_on(b, TRUE) \in Bridge /\ NotSpeakers(sync_converters_on(b, TRUE), b)
           /\ sync_converters_off(b, TRUE) \in Bridge
           /\ NotSpeakers(sync_converters_off(b, TRUE), b)
<1>1. {"02", "03"} \in SUBSET {"02", "03"} /\ {} \in SUBSET {"02", "03"} /\ 0 \in {0, 2} /\ 2 \in {0, 2}
    OBVIOUS
<1> DEFINE d == Resync(b, {"02", "03"}, TRUE, 2)
           e == Resync(b, {}, TRUE, 0)
           e1 == [e EXCEPT !.tdm = {"amps"}]
<1>2. /\ d \in Bridge /\ Keeps(d, b, {"reg", "sync"}) /\ SetsOnly(d.reg, b.reg, {"02", "03"})
    BY <1>1, ResyncNoneEffect
<1>3. /\ e \in Bridge /\ Keeps(e, b, {"reg", "sync"}) /\ SetsOnly(e.reg, b.reg, {"02", "03"})
    BY <1>1, ResyncNoneEffect
<1>4. d = sync_converters_on(b, TRUE) /\ e1 = sync_converters_off(b, TRUE)
    BY DEF sync_converters_on, sync_converters_off
<1> HIDE DEF d, e
<1>5. e1 \in Bridge /\ Keeps(e1, e, {"tdm"})
    BY <1>3 DEF Bridge, Keeps, Parts
<1> HIDE DEF e1
<1>6. NotSpeakers(d, b) /\ NotSpeakers(e1, b)
    BY <1>2, <1>3, <1>5 DEF NotSpeakers, SpeakerParts, Keeps, Parts, SetsOnly
<1> QED
    BY <1>2, <1>4, <1>5, <1>6
=============================================================================
