--------------------------- MODULE EventBusProofs ---------------------------
(***************************************************************************)
(* Proofs about EventBus: no client skips an event without a reset, and a  *)
(* reset is never sent needlessly, for any number of clients and events,   *)
(* any ring and buffer size, and any number of restarts.                   *)
(*                                                                         *)
(* The argument: the ring always holds the newest events in a rotated      *)
(* order that Snapshot undoes (RingOK); what a stream has yet to write is  *)
(* an unbroken run of events that starts no later than the first one the   *)
(* client does not know (StreamOK); and the id a client presents is never  *)
(* ahead of what it knows (LastOK).                                        *)
(***************************************************************************)
EXTENDS EventBus, SequenceTheorems, TLAPS

\* Event n of all there ever were, in generation g, which off events precede.
Ev(g, off, n) == [gen |-> g, seq |-> n - off, nth |-> n]

\* A run of events that follows event b.
Follows(s, g, off, b) ==
    s \in Seq(Event) /\ \A k \in 1 .. Len(s) : s[k] = Ev(g, off, b + k)

\* The event in slot i of a ring of len events up to n, the oldest at next.
Slot(i, next, len, n) == IF i > next THEN n - len + (i - next) ELSE n - next + i

\* The ring holds the newest events up to n, rotated by next.
RingOK(r, g, off, n) ==
    /\ r \in [events : Seq(Event), next : Nat] /\ r.next < RingSize
    /\ Len(r.events) <= RingSize /\ Len(r.events) <= n - off
    /\ Len(r.events) < RingSize => r.next = 0 /\ Len(r.events) = n - off
    /\ \A i \in 1 .. Len(r.events) :
          r.events[i] = Ev(g, off, Slot(i, r.next, Len(r.events), n))

-----------------------------------------------------------------------------
(* ring.go.                                                                *)

LEMMA EvFacts ==
    ASSUME NEW g \in Nat, NEW off \in Nat, NEW n \in Nat, off <= n
    PROVE  /\ Ev(g, off, n) \in Event
           /\ Ev(g, off, n).gen = g /\ Ev(g, off, n).seq = n - off /\ Ev(g, off, n).nth = n
BY DEF Ev, Event

\* The write position wraps around.
LEMMA NextSlot ==
    ASSUME NEW size \in Nat \ {0}, NEW n \in Nat, n < size
    PROVE  (n + 1) % size = IF n + 1 = size THEN 0 ELSE n + 1
OBVIOUS

\* add drops the oldest event once the ring is full, and nothing else.
LEMMA RingAddKeeps ==
    ASSUME NEW r, NEW g \in Nat, NEW off \in Nat, NEW n \in Nat, off <= n,
           RingOK(r, g, off, n)
    PROVE  RingOK(RingAdd(r, Ev(g, off, n + 1)), g, off, n + 1)
<1>1. PICK ev : ev = Ev(g, off, n + 1) /\ ev \in Event
  BY EvFacts
<1>2. /\ RingSize \in Nat \ {0} /\ r.events \in Seq(Event) /\ r.next \in Nat
      /\ Len(r.events) \in Nat /\ Len(r.events) <= RingSize /\ r.next < RingSize
      /\ Len(r.events) <= n - off
  BY BusAssumption DEF RingOK
<1>6. \A i \in 1 .. Len(r.events) :
         r.events[i] = Ev(g, off, Slot(i, r.next, Len(r.events), n))
  BY DEF RingOK
<1>3. CASE Len(r.events) < RingSize
  <2> DEFINE events == Append(r.events, ev)
  <2>1. r.next = 0 /\ Len(r.events) = n - off
    BY <1>3 DEF RingOK
  <2>2. /\ events \in Seq(Event) /\ Len(events) = Len(r.events) + 1
        /\ \A i \in 1 .. Len(r.events) : events[i] = r.events[i]
        /\ events[Len(r.events) + 1] = ev
    BY <1>1, <1>2, AppendProperties
  <2>3. /\ RingAdd(r, ev) \in [events : Seq(Event), next : Nat]
        /\ RingAdd(r, ev).events = events /\ RingAdd(r, ev).next = 0
    BY <1>3, <2>1, <2>2 DEF RingAdd, RingOK
  <2> HIDE DEF events
  <2>4. \A i \in 1 .. Len(events) : events[i] = Ev(g, off, Slot(i, 0, Len(events), n + 1))
    <3> SUFFICES ASSUME NEW i \in 1 .. Len(events)
                 PROVE  events[i] = Ev(g, off, Slot(i, 0, Len(events), n + 1))
      OBVIOUS
    <3>1. CASE i = Len(r.events) + 1
      <4>1. Slot(i, 0, Len(events), n + 1) = n + 1
        <5>1. Len(events) = i /\ i \in Nat /\ i > 0
          BY <1>2, <2>2, <3>1
        <5> QED
          BY <5>1 DEF Slot
      <4> QED
        BY <1>1, <2>2, <3>1, <4>1
    <3>2. CASE i # Len(r.events) + 1
      <4>1. /\ i \in 1 .. Len(r.events)
            /\ Slot(i, 0, Len(events), n + 1) = Slot(i, r.next, Len(r.events), n)
        BY <1>2, <2>1, <2>2, <3>2 DEF Slot
      <4> QED
        BY <1>6, <2>2, <4>1
    <3> QED
      BY <3>1, <3>2
  <2>6. Len(events) <= RingSize /\ Len(events) = n + 1 - off
    BY <1>2, <1>3, <2>1, <2>2
  <2> QED
    BY <1>1, <1>2, <2>2, <2>3, <2>4, <2>6 DEF RingOK
<1>4. CASE Len(r.events) = RingSize
  <2> DEFINE events == [r.events EXCEPT ![r.next + 1] = ev]
             next == IF r.next + 1 = RingSize THEN 0 ELSE r.next + 1
  <2>1. r.next + 1 \in 1 .. Len(r.events)
    BY <1>2, <1>4
  <2>2. /\ events \in Seq(Event) /\ Len(events) = RingSize
        /\ \A j \in 1 .. RingSize : events[j] = IF j = r.next + 1 THEN ev ELSE r.events[j]
    BY <1>1, <1>2, <1>4, <2>1, ExceptSeq
  <2>3. next \in Nat /\ next < RingSize /\ (r.next + 1) % Len(r.events) = next
    <3>1. (r.next + 1) % RingSize = next
      BY <1>2, NextSlot
    <3> QED
      BY <1>2, <1>4, <3>1
  <2>4. RingAdd(r, ev) = [events |-> events, next |-> next]
    <3>1. ~(Len(r.events) < RingSize)
      BY <1>2, <1>4
    <3> HIDE DEF next
    <3> QED
      BY <2>3, <3>1 DEF RingAdd
  <2>5. /\ RingAdd(r, ev) \in [events : Seq(Event), next : Nat]
        /\ RingAdd(r, ev).events = events /\ RingAdd(r, ev).next = next
    BY <2>2, <2>3, <2>4
  <2> HIDE DEF events
  <2>6. ASSUME NEW i \in 1 .. RingSize
        PROVE  events[i] = Ev(g, off, Slot(i, next, RingSize, n + 1))
    <3>1. CASE i = r.next + 1
      <4>1. Slot(i, next, RingSize, n + 1) = n + 1
        BY <1>2, <3>1 DEF Slot
      <4> QED
        BY <1>1, <2>2, <3>1, <4>1
    <3>2. CASE i # r.next + 1
      <4>1. Slot(i, next, RingSize, n + 1) = Slot(i, r.next, RingSize, n)
        <5>1. CASE r.next + 1 = RingSize
          BY <1>2, <3>2, <5>1, SMTT(30) DEF Slot
        <5>2. CASE r.next + 1 # RingSize
          <6>1. PICK x \in Nat : x = r.next /\ next = x + 1
            BY <1>2, <5>2
          <6>2. Slot(i, x + 1, RingSize, n + 1) = Slot(i, x, RingSize, n)
            <7>1. i \in Nat /\ RingSize \in Nat /\ i # x + 1
              BY <1>2, <3>2, <6>1
            <7> QED
              BY <7>1 DEF Slot
          <6> HIDE DEF next
          <6> QED
            BY <6>1, <6>2
        <5> QED
          BY <5>1, <5>2
      <4>2. events[i] = r.events[i]
        BY <2>2, <3>2
      <4> HIDE DEF next
      <4> QED
        BY <1>4, <1>6, <4>1, <4>2
    <3> QED
      BY <3>1, <3>2
  <2> HIDE DEF next
  <2>7. RingSize <= n + 1 - off
    BY <1>2, <1>4
  <2> QED
    BY <1>1, <1>2, <2>2, <2>3, <2>5, <2>6, <2>7 DEF RingOK
<1>5. Len(r.events) < RingSize \/ Len(r.events) = RingSize
  BY <1>2
<1> QED
  BY <1>3, <1>4, <1>5

\* snapshot undoes the rotation.
LEMMA SnapshotIs ==
    ASSUME NEW r, NEW g \in Nat, NEW off \in Nat, NEW n \in Nat, off <= n,
           RingOK(r, g, off, n)
    PROVE  /\ Len(Snapshot(r)) = Len(r.events)
           /\ Follows(Snapshot(r), g, off, n - Len(r.events))
<1> DEFINE len == Len(r.events)
           old == SubSeq(r.events, r.next + 1, len)
           new == SubSeq(r.events, 1, r.next)
<1>1. /\ r.events \in Seq(Event) /\ r.next \in Nat /\ len \in Nat /\ r.next <= len
      /\ \A i \in 1 .. len : r.events[i] \in Event
      /\ \A i \in 1 .. len :
            r.events[i] = Ev(g, off, Slot(i, r.next, len, n))
  <2>1. r.events \in Seq(Event) /\ r.next \in Nat /\ RingSize \in Nat
    BY BusAssumption DEF RingOK
  <2>2. len \in Nat /\ \A i \in 1 .. len : r.events[i] \in Event
    BY <2>1, LenProperties, ElementOfSeq
  <2> QED
    BY <2>1, <2>2 DEF RingOK
<1> HIDE DEF len
<1>2. /\ old \in Seq(Event) /\ Len(old) = len - r.next
      /\ \A i \in 1 .. len - r.next : old[i] = r.events[r.next + i]
  <2>1. \A i \in r.next + 1 .. len : r.events[i] \in Event
    BY <1>1
  <2>2. /\ old \in Seq(Event) /\ Len(old) = IF r.next + 1 <= len THEN len - (r.next + 1) + 1 ELSE 0
        /\ \A i \in 1 .. len - (r.next + 1) + 1 : old[i] = r.events[r.next + 1 + i - 1]
    <3>1. r.next + 1 \in Int /\ len \in Int
      BY <1>1
    <3> QED
      BY <2>1, <3>1, SubSeqProperties
  <2>3. len - (r.next + 1) + 1 = len - r.next /\ \A i \in Nat : r.next + 1 + i - 1 = r.next + i
    BY <1>1
  <2> HIDE DEF old
  <2>4. Len(old) = len - r.next
    BY <1>1, <2>2
  <2>5. \A i \in 1 .. len - r.next : old[i] = r.events[r.next + i]
    <3> SUFFICES ASSUME NEW i \in 1 .. len - r.next
                 PROVE  old[i] = r.events[r.next + i]
      OBVIOUS
    <3>1. i \in 1 .. len - (r.next + 1) + 1 /\ r.next + 1 + i - 1 = r.next + i
      BY <1>1, <2>3
    <3>2. old[i] = r.events[r.next + 1 + i - 1]
      BY <2>2, <3>1
    <3> QED
      BY <3>1, <3>2
  <2> QED
    BY <2>2, <2>4, <2>5
<1>3. /\ new \in Seq(Event) /\ Len(new) = r.next
      /\ \A i \in 1 .. r.next : new[i] = r.events[i]
  <2>1. \A i \in 1 .. r.next : r.events[i] \in Event
    BY <1>1
  <2>2. /\ new \in Seq(Event) /\ Len(new) = IF 1 <= r.next THEN r.next - 1 + 1 ELSE 0
        /\ \A i \in 1 .. r.next - 1 + 1 : new[i] = r.events[1 + i - 1]
    <3>1. 1 \in Int /\ r.next \in Int
      BY <1>1
    <3> QED
      BY <2>1, <3>1, SubSeqProperties
  <2>3. r.next - 1 + 1 = r.next /\ \A i \in Nat : 1 + i - 1 = i
    BY <1>1
  <2> HIDE DEF new
  <2> QED
    BY <1>1, <2>2, <2>3
<1>4. Snapshot(r) = old \o new
  BY DEF Snapshot, len
<1> HIDE DEF old, new
<1>5. /\ old \o new \in Seq(Event) /\ Len(old \o new) = len
      /\ \A i \in 1 .. len : (old \o new)[i] = IF i <= len - r.next THEN old[i]
                                              ELSE new[i - (len - r.next)]
  <2>1. /\ old \o new \in Seq(Event) /\ Len(old \o new) = Len(old) + Len(new)
        /\ \A i \in 1 .. Len(old) + Len(new) :
              (old \o new)[i] = IF i <= Len(old) THEN old[i] ELSE new[i - Len(old)]
    BY <1>2, <1>3, ConcatProperties
  <2>2. Len(old) + Len(new) = len
    BY <1>1, <1>2, <1>3
  <2> QED
    BY <1>2, <2>1, <2>2
<1>6. ASSUME NEW i \in 1 .. len
      PROVE  (old \o new)[i] = Ev(g, off, n - len + i)
  <2>1. CASE i <= len - r.next
    <3>1. /\ r.next + i \in 1 .. len /\ i \in 1 .. len - r.next
          /\ Slot(r.next + i, r.next, len, n) = n - len + i
      BY <1>1, <2>1 DEF Slot
    <3>2. (old \o new)[i] = r.events[r.next + i]
      BY <1>2, <1>5, <2>1, <3>1
    <3> QED
      BY <1>1, <3>1, <3>2
  <2>2. CASE ~(i <= len - r.next)
    <3> DEFINE j == i - (len - r.next)
    <3>1. /\ j \in 1 .. r.next /\ j \in 1 .. len
          /\ Slot(j, r.next, len, n) = n - len + i
      BY <1>1, <2>2, SMTT(30) DEF Slot
    <3>2. (old \o new)[i] = new[j]
      BY <1>5, <2>2
    <3> HIDE DEF j
    <3> QED
      BY <1>1, <1>3, <3>1, <3>2
  <2> QED
    BY <2>1, <2>2
<1> QED
  BY <1>4, <1>5, <1>6 DEF Follows, len

\* after returns everything that followed event s of this generation, or
\* refuses because the ring no longer reaches that far back.
LEMMA AfterIs ==
    ASSUME NEW r, NEW g \in Nat, NEW off \in Nat, NEW n \in Nat, off <= n,
           RingOK(r, g, off, n), NEW s \in Nat, s <= n - off
    PROVE  /\ Resumable(Snapshot(r), s) =>
                 /\ Follows(After(Snapshot(r), s), g, off, off + s)
                 /\ Len(After(Snapshot(r), s)) = n - off - s
           /\ ~Resumable(Snapshot(r), s) => n - off - s > RingSize
<1>1. PICK all : all = Snapshot(r)
  OBVIOUS
<1>2. PICK len : len = Len(r.events)
  OBVIOUS
<1>3. /\ len \in Nat /\ RingSize \in Nat \ {0} /\ len <= RingSize /\ len <= n - off
      /\ len < RingSize => len = n - off
  BY <1>2, BusAssumption DEF RingOK
<1>4. /\ all \in Seq(Event) /\ Len(all) = len
      /\ \A k \in 1 .. len : all[k] = Ev(g, off, n - len + k)
  <2>1. Len(all) = len /\ Follows(all, g, off, n - len)
    BY <1>1, <1>2, SnapshotIs
  <2> QED
    BY <2>1 DEF Follows
<1>5. CASE len = 0
  <2>1. all = <<>> /\ n = off /\ s = 0
    BY <1>3, <1>4, <1>5, EmptySeq
  <2>2. After(all, s) = <<>> /\ Resumable(all, s)
    BY <2>1 DEF After, Resumable
  <2>3. Follows(<<>>, g, off, off + s) /\ Len(<<>>) = n - off - s
    BY <2>1 DEF Follows
  <2> QED
    BY <1>1, <2>2, <2>3
<1>6. CASE len # 0
  <2>1. all # <<>> /\ 1 \in 1 .. len /\ len \in 1 .. len
    BY <1>3, <1>4, <1>6
  <2>2. all[1] = Ev(g, off, n - len + 1) /\ all[len] = Ev(g, off, n)
    BY <1>3, <1>4, <2>1
  <2>3. all[1].seq = n - len + 1 - off /\ all[len].seq = n - off
    BY <1>3, <2>2 DEF Ev
  <2>4. Resumable(all, s) <=> s >= n - len - off
    BY <1>3, <1>4, <2>1, <2>3 DEF Resumable
  <2>5. CASE ~Resumable(all, s)
    BY <1>1, <1>3, <2>4, <2>5
  <2>6. CASE Resumable(all, s)
    <3> DEFINE m == len - (n - off - s) + 1
    <3>1. m \in 1 .. len + 1 /\ m \in Int
      BY <1>3, <2>4, <2>6
    <3>2. After(all, s) = SubSeq(all, m, len)
      BY <1>4, <2>1, <2>3 DEF After
    <3>3. \A i \in m .. len : all[i] \in Event
      <4>1. \A i \in 1 .. len : all[i] \in Event
        BY <1>4, ElementOfSeq
      <4> QED
        BY <1>3, <3>1, <4>1
    <3>4. len - m + 1 = n - off - s /\ n - off - s \in Nat
      BY <1>3
    <3>5. \A i \in 1 .. n - off - s : /\ m + i - 1 \in 1 .. len
                                     /\ n - len + (m + i - 1) = off + s + i
      BY <1>3, <3>1
    <3> HIDE DEF m
    <3>6. /\ SubSeq(all, m, len) \in Seq(Event)
          /\ Len(SubSeq(all, m, len)) = IF m <= len THEN len - m + 1 ELSE 0
          /\ \A i \in 1 .. len - m + 1 : SubSeq(all, m, len)[i] = all[m + i - 1]
      BY <1>3, <3>1, <3>3, SubSeqProperties
    <3>7. Len(SubSeq(all, m, len)) = n - off - s
      BY <1>3, <3>1, <3>4, <3>6
    <3>8. \A i \in 1 .. n - off - s : SubSeq(all, m, len)[i] = Ev(g, off, off + s + i)
      BY <1>4, <3>4, <3>5, <3>6
    <3> QED
      BY <1>1, <2>6, <3>2, <3>6, <3>7, <3>8 DEF Follows
  <2> QED
    BY <2>5, <2>6
<1> QED
  BY <1>5, <1>6

-----------------------------------------------------------------------------
(* One client, in generation g, which off of n events precede.             *)

ClientType ==
    [pc : {"new", "away", "open"}, last : EventID \cup {Malformed}, knows : Nat,
     skips : SUBSET Standing, stands : Standing, reset : BOOLEAN, replay : Seq(Event), chan : Seq(Event), subscribed : BOOLEAN,
     anchor : EventID]

\* An id of this process that a client presents names an event it knows.
LastOK(cl, g, off, n) ==
    /\ cl.last.gen <= g
    /\ cl.last.gen = g => cl.last.seq <= n - off /\ off + cl.last.seq <= cl.knows

\* What is yet to be written follows an event b that the client knows, unless
\* it is about to be reset or stands nowhere, and reaches the newest event while
\* it is subscribed.
StreamOK(cl, g, off, n) ==
    \E b \in Nat :
        /\ off <= b
        /\ Follows(cl.replay, g, off, b) /\ Follows(cl.chan, g, off, b + Len(cl.replay))
        /\ b + Len(cl.replay) + Len(cl.chan) <= n
        /\ cl.subscribed => b + Len(cl.replay) + Len(cl.chan) = n
        /\ ~cl.reset /\ cl.stands # "nowhere" => b <= cl.knows

ClientOK(cl, g, off, n) ==
    /\ cl \in ClientType
    /\ cl.skips \subseteq {"nowhere"} /\ cl.knows <= n /\ Len(cl.chan) <= Buffer
    /\ LastOK(cl, g, off, n)
    /\ cl.pc # "open" => ~cl.reset /\ ~cl.subscribed
    /\ cl.pc = "open" => /\ StreamOK(cl, g, off, n)
                        /\ cl.anchor.gen = g /\ cl.anchor.seq <= n - off

BInv ==
    /\ generation \in 1 .. MaxBoots /\ seq \in Nat /\ total \in 0 .. MaxEvents /\ seq <= total
    /\ RingOK(ring, generation, total - seq, total)
    /\ DOMAIN clients = Client
    /\ clients = [c \in Client |-> clients[c]]
    /\ \A c \in Client : ClientOK(clients[c], generation, total - seq, total)

\* What is left of a stream, when an event is added.
LEMMA OneMore ==
    ASSUME NEW b \in Nat, NEW x \in Nat, NEW y \in Nat, NEW n \in Nat
    PROVE  b + x + y <= n => b + x + y <= n + 1
OBVIOUS

LEMMA NothingFollows ==
    ASSUME NEW g, NEW off, NEW b
    PROVE  Follows(<<>>, g, off, b) /\ Len(<<>>) = 0
BY DEF Follows

\* Where a client may have stood when it skipped an event.
Harmless(skips) == skips \in SUBSET Standing /\ skips \subseteq {"nowhere"}

LEMMA AwayFields ==
    ASSUME NEW last \in EventID \cup {Malformed}, NEW knows \in Nat, NEW skips,
           Harmless(skips), NEW pc \in {"new", "away"},
           NEW a, a = Unconnected(pc, last, knows, skips)
    PROVE  /\ a \in ClientType /\ a.pc = pc /\ ~a.reset /\ ~a.subscribed
           /\ a.last = last /\ a.knows = knows /\ a.skips = skips /\ a.chan = <<>>
<1>1. ZeroID \in EventID
  BY DEF ZeroID, EventID
<1>2. skips \in SUBSET Standing /\ "nowhere" \in Standing /\ <<>> \in Seq(Event)
  BY DEF Harmless, Standing
<1>3. a \in ClientType
  BY <1>1, <1>2 DEF ClientType, Unconnected
<1> QED
  BY <1>3 DEF Unconnected

LEMMA NewFields ==
    /\ New \in ClientType /\ New.pc = "new" /\ ~New.reset /\ New.skips = {}
    /\ ~New.subscribed /\ New.last = ZeroID /\ New.knows = 0 /\ New.chan = <<>>
<1>1. ZeroID \in EventID \cup {Malformed} /\ 0 \in Nat /\ Harmless({})
  BY DEF ZeroID, EventID, Harmless
<1>2. "new" \in {"new", "away"} /\ New = Unconnected("new", ZeroID, 0, {})
  BY DEF New
<1> QED
  BY <1>1, <1>2, AwayFields

\* A client that is away, in this generation or the next.
LEMMA AwayOK ==
    ASSUME NEW cl, NEW g \in Nat, NEW off \in Nat, NEW n \in Nat, off <= n,
           ClientOK(cl, g, off, n)
    PROVE  /\ ClientOK(Away(cl.last, cl.knows, cl.skips), g + 1, n, n)
           /\ ClientOK(Away(cl.last, cl.knows, cl.skips), g, off, n)
           /\ ClientOK(Away(Malformed, cl.knows, cl.skips), g, off, n)
<1>1. /\ cl.last \in EventID \cup {Malformed} /\ cl.knows \in Nat /\ Harmless(cl.skips)
      /\ cl.knows <= n /\ LastOK(cl, g, off, n)
  BY DEF ClientOK, ClientType, Harmless
<1>2. /\ cl.last.gen \in Int /\ Malformed.gen = -1 /\ Malformed \in EventID \cup {Malformed}
  BY <1>1 DEF EventID, Malformed
<1>3. ASSUME NEW last \in {cl.last, Malformed},
             NEW a, a = Away(last, cl.knows, cl.skips)
      PROVE  /\ a \in ClientType /\ a.pc = "away" /\ ~a.reset /\ Harmless(a.skips) /\ ~a.subscribed
             /\ a.last = last /\ a.knows = cl.knows /\ Len(a.chan) <= Buffer
  <2>1. last \in EventID \cup {Malformed}
    BY <1>1, <1>2
  <2>2. Len(<<>>) <= Buffer
    BY BusAssumption
  <2>3. a = Unconnected("away", last, cl.knows, cl.skips) /\ "away" \in {"new", "away"}
    BY <1>3 DEF Away
  <2>4. /\ a \in ClientType /\ a.pc = "away" /\ ~a.reset /\ ~a.subscribed
        /\ a.last = last /\ a.knows = cl.knows /\ a.skips = cl.skips /\ a.chan = <<>>
    <3>1. cl.knows \in Nat /\ Harmless(cl.skips)
      BY <1>1
    <3> QED
      BY <2>1, <2>3, <3>1, AwayFields, SMTT(30)
  <2> QED
    BY <1>1, <2>2, <2>4
<1>4. ASSUME NEW a, a.last = cl.last, a.knows = cl.knows
      PROVE  LastOK(a, g, off, n) /\ LastOK(a, g + 1, n, n)
  BY <1>1, <1>2, <1>4 DEF LastOK
<1>5. ASSUME NEW a, a.last = Malformed
      PROVE  LastOK(a, g, off, n)
  BY <1>2, <1>5 DEF LastOK
<1>6. PICK a : a = Away(cl.last, cl.knows, cl.skips)
  OBVIOUS
<1>7. PICK m : m = Away(Malformed, cl.knows, cl.skips)
  OBVIOUS
<1>8. ClientOK(a, g + 1, n, n) /\ ClientOK(a, g, off, n)
  BY <1>1, <1>3, <1>4, <1>6 DEF ClientOK, Harmless
<1>9. ClientOK(m, g, off, n)
  BY <1>1, <1>3, <1>5, <1>7 DEF ClientOK, Harmless
<1> QED
  BY <1>6, <1>7, <1>8, <1>9

\* A client that has not connected yet, in any generation.
LEMMA NewOK ==
    ASSUME NEW g \in Nat \ {0}, NEW off \in Nat, NEW n \in Nat, off <= n
    PROVE  ClientOK(New, g, off, n)
<1>1. PICK a : a = New
  OBVIOUS
<1>2. /\ a \in ClientType /\ a.pc = "new" /\ ~a.reset /\ a.skips = {} /\ ~a.subscribed
      /\ a.last = ZeroID /\ a.knows = 0 /\ a.chan = <<>>
  BY <1>1, NewFields
<1>3. LastOK(a, g, off, n)
  <2>1. a.last.gen = 0
    BY <1>2 DEF ZeroID
  <2> QED
    BY <2>1 DEF LastOK
<1>4. Len(a.chan) <= Buffer /\ a.knows <= n
  BY <1>2, BusAssumption
<1> QED
  BY <1>1, <1>2, <1>3, <1>4 DEF ClientOK

\* deliver appends the next event for a client that has room, and lets go of
\* any other before it could miss one.
LEMMA DeliverKeeps ==
    ASSUME NEW cl, NEW g \in Nat, NEW off \in Nat, NEW n \in Nat, off <= n,
           ClientOK(cl, g, off, n)
    PROVE  ClientOK(Deliver(cl, Ev(g, off, n + 1)), g, off, n + 1)
<1>1. PICK ev : ev = Ev(g, off, n + 1) /\ ev \in Event
  BY EvFacts
<1>2. /\ cl \in ClientType /\ cl.last \in EventID \cup {Malformed} /\ cl.knows \in Nat
      /\ cl.replay \in Seq(Event) /\ cl.chan \in Seq(Event) /\ cl.anchor \in EventID
      /\ Len(cl.replay) \in Nat /\ Len(cl.chan) \in Nat /\ Buffer \in Nat
  BY BusAssumption DEF ClientOK, ClientType
<1>3. cl.anchor.seq \in Nat /\ cl.last.seq \in Int
  BY <1>2 DEF EventID, Malformed
<1>4. LastOK(cl, g, off, n + 1)
  BY <1>2, <1>3 DEF ClientOK, LastOK
<1>5. CASE cl.subscribed /\ Len(cl.chan) < Buffer
  <2>1. PICK new : new = [cl EXCEPT !.chan = Append(cl.chan, ev)]
    OBVIOUS
  <2>2. /\ Append(cl.chan, ev) \in Seq(Event) /\ Len(Append(cl.chan, ev)) = Len(cl.chan) + 1
        /\ \A i \in 1 .. Len(cl.chan) : Append(cl.chan, ev)[i] = cl.chan[i]
        /\ Append(cl.chan, ev)[Len(cl.chan) + 1] = ev
    BY <1>1, <1>2, AppendProperties
  <2>3. new \in ClientType
    BY <1>2, <2>1, <2>2 DEF ClientType
  <2>4. /\ new.pc = cl.pc /\ new.last = cl.last /\ new.knows = cl.knows
        /\ new.skips = cl.skips /\ new.stands = cl.stands /\ new.reset = cl.reset /\ new.replay = cl.replay /\ new.chan = Append(cl.chan, ev)
        /\ new.subscribed = cl.subscribed /\ new.anchor = cl.anchor
    BY <1>2, <2>1 DEF ClientType
  <2>5. cl.pc = "open"
    BY <1>2, <1>5 DEF ClientOK, ClientType
  <2>6. PICK b \in Nat :
           /\ off <= b /\ b + Len(cl.replay) + Len(cl.chan) = n
           /\ Follows(cl.replay, g, off, b) /\ Follows(cl.chan, g, off, b + Len(cl.replay))
           /\ ~cl.reset /\ cl.stands # "nowhere" => b <= cl.knows
    BY <1>5, <2>5 DEF ClientOK, StreamOK
  <2>sum. b + Len(cl.replay) + (Len(cl.chan) + 1) = n + 1 /\ n + 1 <= n + 1
    <3>1. Len(cl.replay) \in Nat /\ Len(cl.chan) \in Nat
      BY <1>2
    <3>2. b + Len(cl.replay) + Len(cl.chan) = n
      BY <2>6
    <3>3. PICK x \in Nat, y \in Nat : x = Len(cl.replay) /\ y = Len(cl.chan)
      BY <3>1
    <3>4. b + x + y = n
      BY <3>2, <3>3, Zenon
    <3>5. b + x + (y + 1) = n + 1 /\ n + 1 <= n + 1
      BY <3>4
    <3> QED
      BY <3>3, <3>5, Zenon
  <2>7. Follows(new.chan, g, off, b + Len(cl.replay))
    <3>1. \A i \in 1 .. Len(cl.chan) : cl.chan[i] = Ev(g, off, b + Len(cl.replay) + i)
      BY <2>6 DEF Follows
    <3> SUFFICES ASSUME NEW i \in 1 .. Len(cl.chan) + 1
                 PROVE  Append(cl.chan, ev)[i] = Ev(g, off, b + Len(cl.replay) + i)
      BY <2>2, <2>4 DEF Follows
    <3>3. CASE i = Len(cl.chan) + 1
      BY <1>1, <2>2, <2>sum, <3>3
    <3>4. CASE i # Len(cl.chan) + 1
      <4>1. i \in 1 .. Len(cl.chan)
        BY <1>2, <3>4
      <4> QED
        BY <2>2, <3>1, <4>1
    <3> QED
      BY <3>3, <3>4
  <2>8. StreamOK(new, g, off, n + 1)
    <3>1. b + Len(new.replay) + Len(new.chan) = n + 1 /\ n + 1 <= n + 1
      BY <2>2, <2>4, <2>sum, Zenon
    <3> QED
      BY <2>4, <2>6, <2>7, <3>1 DEF StreamOK
  <2>9. LastOK(new, g, off, n + 1)
    BY <1>4, <2>4 DEF LastOK
  <2>10. new.knows <= n + 1 /\ Len(new.chan) <= Buffer /\ new.anchor.seq <= n + 1 - off
    <3>1. cl.knows <= n /\ cl.anchor.seq <= n - off
      BY <2>5 DEF ClientOK
    <3>2. cl.knows \in Nat /\ cl.anchor.seq \in Nat /\ Len(cl.chan) + 1 <= Buffer
      BY <1>2, <1>3, <1>5
    <3>3. cl.knows <= n + 1 /\ cl.anchor.seq <= n + 1 - off
      BY <3>1, <3>2
    <3> QED
      BY <2>2, <2>4, <3>2, <3>3, Zenon
  <2>11. ClientOK(new, g, off, n + 1)
    BY <2>3, <2>4, <2>5, <2>8, <2>9, <2>10 DEF ClientOK
  <2> QED
    BY <1>1, <1>5, <2>1, <2>11 DEF Deliver
<1>6. CASE ~(cl.subscribed /\ Len(cl.chan) < Buffer)
  <2>1. PICK new : new = [cl EXCEPT !.subscribed = FALSE]
    OBVIOUS
  <2>2. new \in ClientType
    BY <1>2, <2>1 DEF ClientType
  <2>3. /\ new.pc = cl.pc /\ new.last = cl.last /\ new.knows = cl.knows
        /\ new.skips = cl.skips /\ new.stands = cl.stands /\ new.reset = cl.reset /\ new.replay = cl.replay /\ new.chan = cl.chan
        /\ new.subscribed = FALSE /\ new.anchor = cl.anchor
    BY <1>2, <2>1 DEF ClientType
  <2>4. cl.pc = "open" => StreamOK(new, g, off, n + 1)
    <3> SUFFICES ASSUME cl.pc = "open"
                 PROVE  StreamOK(new, g, off, n + 1)
      OBVIOUS
    <3>1. PICK b \in Nat :
             /\ off <= b /\ b + Len(cl.replay) + Len(cl.chan) <= n
             /\ Follows(cl.replay, g, off, b) /\ Follows(cl.chan, g, off, b + Len(cl.replay))
             /\ ~cl.reset /\ cl.stands # "nowhere" => b <= cl.knows
      BY DEF ClientOK, StreamOK
    <3>2. b + Len(new.replay) + Len(new.chan) <= n + 1
      <4>1. Len(cl.replay) \in Nat /\ Len(cl.chan) \in Nat
        BY <1>2
      <4>2. b + Len(cl.replay) + Len(cl.chan) <= n + 1
        BY <3>1, <4>1, OneMore, Zenon
      <4> QED
        BY <2>3, <4>2
    <3> QED
      BY <2>3, <3>1, <3>2 DEF StreamOK
  <2>5. LastOK(new, g, off, n + 1)
    BY <1>4, <2>3 DEF LastOK
  <2>6. /\ new.knows <= n + 1 /\ Len(new.chan) <= Buffer
        /\ cl.pc = "open" => new.anchor.seq <= n + 1 - off
    BY <1>2, <1>3, <2>3 DEF ClientOK
  <2>7. ClientOK(new, g, off, n + 1)
    BY <2>2, <2>3, <2>4, <2>5, <2>6 DEF ClientOK
  <2> QED
    BY <1>1, <1>6, <2>1, <2>7 DEF Deliver
<1> QED
  BY <1>5, <1>6

\* The first event of a run, and the rest of it.
LEMMA HeadTail ==
    ASSUME NEW s, NEW g \in Nat, NEW off \in Nat, NEW b \in Nat, off <= b,
           Follows(s, g, off, b), s # <<>>
    PROVE  /\ Head(s) = Ev(g, off, b + 1) /\ Follows(Tail(s), g, off, b + 1)
           /\ Tail(s) \in Seq(Event) /\ Len(Tail(s)) \in Nat /\ Len(s) = Len(Tail(s)) + 1
<1>1. /\ s \in Seq(Event) /\ Len(s) \in Nat /\ Len(s) # 0
      /\ \A k \in 1 .. Len(s) : s[k] = Ev(g, off, b + k)
  BY EmptySeq DEF Follows
<1>2. /\ Head(s) = s[1] /\ Tail(s) \in Seq(Event) /\ Len(Tail(s)) = Len(s) - 1
      /\ \A i \in 1 .. Len(Tail(s)) : Tail(s)[i] = s[i + 1]
  BY <1>1, HeadTailProperties
<1>3. Head(s) = Ev(g, off, b + 1)
  BY <1>1, <1>2
<1>4. ASSUME NEW i \in 1 .. Len(Tail(s))
      PROVE  Tail(s)[i] = Ev(g, off, b + 1 + i)
  <2>1. i + 1 \in 1 .. Len(s) /\ b + (i + 1) = b + 1 + i
    BY <1>1, <1>2
  <2> QED
    BY <1>1, <1>2, <2>1
<1> QED
  BY <1>1, <1>2, <1>3, <1>4 DEF Follows

\* Reading the next event of a run skips nothing, but for a client that stood
\* nowhere; from there on it stands at the id it read.
LEMMA ReadsKeeps ==
    ASSUME NEW cl, NEW g \in Nat, NEW off \in Nat, NEW n \in Nat, off <= n,
           ClientOK(cl, g, off, n), NEW b \in Nat, off <= b,
           cl.stands # "nowhere" => b <= cl.knows, b + 1 <= n,
           NEW new, new = Reads(cl, Ev(g, off, b + 1))
    PROVE  /\ new \in ClientType /\ Harmless(new.skips) /\ new.knows <= n
           /\ b + 1 <= new.knows /\ LastOK(new, g, off, n)
           /\ new.pc = cl.pc /\ new.reset = cl.reset /\ new.replay = cl.replay
           /\ new.chan = cl.chan /\ new.subscribed = cl.subscribed /\ new.anchor = cl.anchor
<1>1. /\ cl \in ClientType /\ cl.knows \in Nat /\ cl.knows <= n
      /\ Harmless(cl.skips) /\ cl.stands \in Standing
  BY DEF ClientOK, ClientType, Harmless
<1>2. PICK ev : ev = Ev(g, off, b + 1)
  OBVIOUS
<1>3. ev.gen = g /\ ev.seq = b + 1 - off /\ ev.nth = b + 1 /\ ev.seq \in Nat
  <2>1. b + 1 \in Nat /\ off <= b + 1 /\ b + 1 - off \in Nat
    OBVIOUS
  <2> QED
    BY <1>2, <2>1 DEF Ev
<1>4. PICK last \in EventID : last = IdOf(ev) /\ last.gen = g /\ last.seq = b + 1 - off
  <2>1. IdOf(ev) = [gen |-> ev.gen, seq |-> ev.seq]
    BY DEF IdOf
  <2> QED
    BY <1>3, <2>1 DEF EventID
<1>5. PICK knows \in Nat : /\ knows = IF ev.nth > cl.knows THEN ev.nth ELSE cl.knows
                          /\ b + 1 <= knows /\ knows <= n
  BY <1>1, <1>3
<1>6. PICK skips : skips = IF ev.nth > cl.knows + 1 THEN cl.skips \cup {cl.stands}
                            ELSE cl.skips
  OBVIOUS
<1>skips. Harmless(skips)
  <2>1. ev.nth > cl.knows + 1 => cl.stands = "nowhere"
    BY <1>1, <1>3
  <2> QED
    BY <1>1, <1>6, <2>1 DEF Harmless
<1>7. new = [cl EXCEPT !.last = last, !.stands = "id", !.skips = skips, !.knows = knows]
  BY <1>1, <1>2, <1>4, <1>5, <1>6 DEF Reads
<1>8. new \in ClientType
  <2>1. last \in EventID \cup {Malformed} /\ skips \in SUBSET Standing /\ "id" \in Standing
    BY <1>skips DEF Harmless, Standing
  <2> QED
    BY <1>1, <1>7, <2>1 DEF ClientType
<1>9. /\ new.last = last /\ new.skips = skips /\ new.knows = knows
      /\ new.pc = cl.pc /\ new.reset = cl.reset /\ new.replay = cl.replay
      /\ new.chan = cl.chan /\ new.subscribed = cl.subscribed /\ new.anchor = cl.anchor
  BY <1>1, <1>7 DEF ClientType
<1>10. LastOK(new, g, off, n)
  BY <1>4, <1>5, <1>9 DEF LastOK
<1> QED
  BY <1>5, <1>8, <1>9, <1>10, <1>skips

\* The next event of the replay, or of the live channel, is written.
LEMMA WriteKeeps ==
    ASSUME NEW cl, NEW g \in Nat, NEW off \in Nat, NEW n \in Nat, off <= n,
           ClientOK(cl, g, off, n), cl.pc = "open", ~cl.reset
    PROVE  /\ cl.replay # <<>> =>
                 ClientOK([Reads(cl, Head(cl.replay)) EXCEPT !.replay = Tail(@)], g, off, n)
           /\ cl.replay = <<>> /\ cl.chan # <<>> =>
                 ClientOK([Reads(cl, Head(cl.chan)) EXCEPT !.chan = Tail(@)], g, off, n)
<1>1. PICK b \in Nat :
         /\ off <= b /\ (cl.stands # "nowhere" => b <= cl.knows)
         /\ Follows(cl.replay, g, off, b) /\ Follows(cl.chan, g, off, b + Len(cl.replay))
         /\ b + Len(cl.replay) + Len(cl.chan) <= n
         /\ cl.subscribed => b + Len(cl.replay) + Len(cl.chan) = n
  BY DEF ClientOK, StreamOK
<1>2. PICK x \in Nat, y \in Nat : x = Len(cl.replay) /\ y = Len(cl.chan)
  BY DEF ClientOK, ClientType
<1>3. b + x + y <= n /\ (cl.subscribed => b + x + y = n) /\ Follows(cl.chan, g, off, b + x)
  BY <1>1, <1>2, Zenon
<1>4. Buffer \in Nat /\ y <= Buffer /\ cl.anchor.gen = g /\ cl.anchor.seq <= n - off
  BY <1>2, BusAssumption DEF ClientOK
<1>5. CASE cl.replay # <<>>
  <2>1. PICK tail \in Seq(Event), z \in Nat :
           /\ tail = Tail(cl.replay) /\ z = Len(tail) /\ x = z + 1
           /\ Head(cl.replay) = Ev(g, off, b + 1) /\ Follows(tail, g, off, b + 1)
    <3>1. /\ Head(cl.replay) = Ev(g, off, b + 1) /\ Follows(Tail(cl.replay), g, off, b + 1)
          /\ Tail(cl.replay) \in Seq(Event) /\ Len(Tail(cl.replay)) \in Nat
          /\ Len(cl.replay) = Len(Tail(cl.replay)) + 1
      BY <1>1, <1>5, HeadTail
    <3> QED
      BY <1>2, <3>1, Zenon
  <2>2. PICK mid : mid = Reads(cl, Ev(g, off, b + 1))
    OBVIOUS
  <2>3. b + 1 <= n /\ b + x = b + 1 + z
    <3>1. x = z + 1 /\ b + x + y <= n
      BY <1>3, <2>1
    <3> QED
      BY ONLY <3>1, b \in Nat, x \in Nat, y \in Nat, z \in Nat, n \in Nat
  <2>4. /\ mid \in ClientType /\ Harmless(mid.skips) /\ mid.knows <= n /\ b + 1 <= mid.knows
        /\ LastOK(mid, g, off, n)
        /\ mid.pc = "open" /\ ~mid.reset /\ mid.replay = cl.replay
        /\ mid.chan = cl.chan /\ mid.subscribed = cl.subscribed /\ mid.anchor = cl.anchor
    BY <1>1, <2>2, <2>3, ReadsKeeps
  <2>5. PICK new : new = [mid EXCEPT !.replay = Tail(@)]
    OBVIOUS
  <2>6. /\ new \in ClientType /\ new.replay = tail
        /\ new.skips = mid.skips /\ new.knows = mid.knows /\ new.last = mid.last
        /\ new.pc = mid.pc /\ new.reset = mid.reset /\ new.chan = mid.chan
        /\ new.subscribed = mid.subscribed /\ new.anchor = mid.anchor
    <3>1. new = [mid EXCEPT !.replay = tail]
      BY <2>1, <2>4, <2>5
    <3> QED
      BY <2>4, <3>1 DEF ClientType
  <2>7. StreamOK(new, g, off, n)
    <3>1. /\ b + 1 \in Nat /\ off <= b + 1
          /\ (b + 1) + z + y <= n /\ (cl.subscribed => (b + 1) + z + y = n)
      <4>1. off <= b
        BY <1>1, Zenon
      <4>2. x = z + 1 /\ b + x + y <= n /\ (cl.subscribed => b + x + y = n)
        BY <1>3, <2>1, Zenon
      <4> QED
        BY <4>1, <4>2
    <3>2. Len(new.replay) = z /\ Len(new.chan) = y
      BY <1>2, <2>1, <2>4, <2>6, Zenon
    <3>3. Follows(new.replay, g, off, b + 1) /\ Follows(new.chan, g, off, b + 1 + z)
      BY <1>3, <2>1, <2>3, <2>4, <2>6, Zenon
    <3>4. \E d \in Nat :
             /\ off <= d
             /\ Follows(new.replay, g, off, d) /\ Follows(new.chan, g, off, d + z)
             /\ d + z + y <= n
             /\ new.subscribed => d + z + y = n
             /\ ~new.reset /\ new.stands # "nowhere" => d <= new.knows
      <4> WITNESS b + 1 \in Nat
      <4> QED
        BY <2>4, <2>6, <3>1, <3>3, Zenon
    <3> QED
      BY <3>2, <3>4, Zenon DEF StreamOK
  <2>8. LastOK(new, g, off, n)
    BY <2>4, <2>6 DEF LastOK
  <2>9. ClientOK(new, g, off, n)
    <3>1. Len(new.chan) <= Buffer /\ new.anchor.gen = g /\ new.anchor.seq <= n - off
      BY <1>2, <1>4, <2>4, <2>6, Zenon
    <3> QED
      BY <2>4, <2>6, <2>7, <2>8, <3>1 DEF ClientOK, Harmless
  <2> QED
    BY <1>5, <2>1, <2>2, <2>5, <2>9
<1>6. CASE cl.replay = <<>> /\ cl.chan # <<>>
  <2>1. x = 0 /\ b + x = b
    BY <1>2, <1>6
  <2>2. PICK tail \in Seq(Event), z \in Nat :
           /\ tail = Tail(cl.chan) /\ z = Len(tail) /\ y = z + 1
           /\ Head(cl.chan) = Ev(g, off, b + 1) /\ Follows(tail, g, off, b + 1)
    <3>1. Follows(cl.chan, g, off, b)
      BY <1>3, <2>1, Zenon
    <3> QED
      <4>1. /\ Head(cl.chan) = Ev(g, off, b + 1) /\ Follows(Tail(cl.chan), g, off, b + 1)
            /\ Tail(cl.chan) \in Seq(Event) /\ Len(Tail(cl.chan)) \in Nat
            /\ Len(cl.chan) = Len(Tail(cl.chan)) + 1
        BY <1>1, <1>6, <3>1, HeadTail
      <4> QED
        BY <1>2, <4>1, Zenon
  <2>3. PICK mid : mid = Reads(cl, Ev(g, off, b + 1))
    OBVIOUS
  <2>4. b + 1 <= n
    BY <1>3, <2>1, <2>2
  <2>5. /\ mid \in ClientType /\ Harmless(mid.skips) /\ mid.knows <= n /\ b + 1 <= mid.knows
        /\ LastOK(mid, g, off, n)
        /\ mid.pc = "open" /\ ~mid.reset /\ mid.replay = <<>>
        /\ mid.chan = cl.chan /\ mid.subscribed = cl.subscribed /\ mid.anchor = cl.anchor
    BY <1>1, <1>6, <2>3, <2>4, ReadsKeeps
  <2>6. PICK new : new = [mid EXCEPT !.chan = Tail(@)]
    OBVIOUS
  <2>7. /\ new \in ClientType /\ new.chan = tail
        /\ new.skips = mid.skips /\ new.knows = mid.knows /\ new.last = mid.last
        /\ new.pc = mid.pc /\ new.reset = mid.reset /\ new.replay = mid.replay
        /\ new.subscribed = mid.subscribed /\ new.anchor = mid.anchor
    <3>1. new = [mid EXCEPT !.chan = tail]
      BY <2>2, <2>5, <2>6
    <3> QED
      BY <2>5, <3>1 DEF ClientType
  <2>8. StreamOK(new, g, off, n)
    <3>1. /\ b + 1 \in Nat /\ off <= b + 1 /\ (b + 1) + 0 = b + 1
          /\ (b + 1) + 0 + z <= n /\ (cl.subscribed => (b + 1) + 0 + z = n)
      <4>1. x = 0 /\ y = z + 1 /\ b + x + y <= n /\ (cl.subscribed => b + x + y = n)
        BY <1>3, <2>1, <2>2
      <4> QED
        BY <1>1, <4>1
    <3>2. Len(new.replay) = 0 /\ Len(new.chan) = z
      BY <2>2, <2>5, <2>7
    <3>3. Follows(new.replay, g, off, b + 1) /\ Follows(new.chan, g, off, b + 1 + 0)
      BY <2>2, <2>5, <2>7, <3>1, NothingFollows, Zenon
    <3>4. \E d \in Nat :
             /\ off <= d
             /\ Follows(new.replay, g, off, d) /\ Follows(new.chan, g, off, d + 0)
             /\ d + 0 + z <= n
             /\ new.subscribed => d + 0 + z = n
             /\ ~new.reset /\ new.stands # "nowhere" => d <= new.knows
      <4> WITNESS b + 1 \in Nat
      <4> QED
        BY <2>5, <2>7, <3>1, <3>3, Zenon
    <3> QED
      BY <3>2, <3>4, Zenon DEF StreamOK
  <2>9. LastOK(new, g, off, n)
    BY <2>5, <2>7 DEF LastOK
  <2>10. ClientOK(new, g, off, n)
    <3>1. z <= Buffer
      BY <1>4, <2>2
    <3>2. Len(new.chan) <= Buffer /\ new.anchor.gen = g /\ new.anchor.seq <= n - off
      BY <1>4, <2>2, <2>5, <2>7, <3>1, Zenon
    <3> QED
      BY <2>5, <2>7, <2>8, <2>9, <3>2 DEF ClientOK, Harmless
  <2> QED
    BY <1>6, <2>2, <2>3, <2>6, <2>10
<1> QED
  BY <1>5, <1>6

\* The reset frame: the client knows everything there is.
LEMMA ResetKeeps ==
    ASSUME NEW cl, NEW g \in Nat, NEW off \in Nat, NEW n \in Nat, off <= n,
           ClientOK(cl, g, off, n), cl.pc = "open",
           NEW new, new = [cl EXCEPT !.reset = FALSE, !.last = cl.anchor, !.knows = n,
                                     !.stands = "id"]
    PROVE  ClientOK(new, g, off, n)
<1>1. /\ cl \in ClientType /\ cl.anchor \in EventID /\ cl.anchor.gen = g
      /\ cl.skips \subseteq {"nowhere"}
      /\ cl.anchor.seq \in Nat /\ cl.anchor.seq <= n - off /\ StreamOK(cl, g, off, n)
      /\ Len(cl.chan) <= Buffer
  BY DEF ClientOK, ClientType, EventID
<1>2. /\ new \in ClientType /\ new.last = cl.anchor /\ new.knows = n /\ new.reset = FALSE
      /\ new.skips = cl.skips /\ new.pc = cl.pc /\ new.chan = cl.chan /\ new.replay = cl.replay
      /\ new.subscribed = cl.subscribed /\ new.anchor = cl.anchor
  BY <1>1 DEF ClientType, Standing
<1>3. LastOK(new, g, off, n)
  BY <1>1, <1>2 DEF LastOK
<1>4. StreamOK(new, g, off, n)
  <2>1. PICK b \in Nat :
           /\ off <= b
           /\ Follows(cl.replay, g, off, b) /\ Follows(cl.chan, g, off, b + Len(cl.replay))
           /\ b + Len(cl.replay) + Len(cl.chan) <= n
           /\ cl.subscribed => b + Len(cl.replay) + Len(cl.chan) = n
    BY <1>1 DEF StreamOK
  <2>2. b <= n
    <3>1. PICK x \in Nat, y \in Nat : x = Len(cl.replay) /\ y = Len(cl.chan)
      <4>1. cl.replay \in Seq(Event) /\ cl.chan \in Seq(Event)
        BY <1>1 DEF ClientType
      <4> QED
        BY ONLY <4>1
    <3>2. b + x + y <= n
      BY <2>1, <3>1, Zenon
    <3> QED
      BY <3>2
  <2> QED
    BY <1>2, <2>1, <2>2, Zenon DEF StreamOK
<1> QED
  BY <1>1, <1>2, <1>3, <1>4 DEF ClientOK

\* What SubscribeFrom hands a client that presents cl.last.
Opened(cl, r, g, off, n) ==
    LET from == IF cl.last = Malformed THEN ZeroID ELSE cl.last
        resumes == from # ZeroID /\ from.gen = g /\ Resumable(Snapshot(r), from.seq)
    IN  [pc |-> "open", last |-> cl.last, skips |-> cl.skips,
         knows |-> IF cl.pc = "new" THEN n ELSE cl.knows,
         stands |-> IF cl.pc = "new" THEN "first"
                    ELSE IF cl.last = ZeroID THEN "nowhere" ELSE "id",
         reset |-> cl.last = Malformed \/ (from # ZeroID /\ ~resumes),
         replay |-> IF resumes THEN After(Snapshot(r), from.seq) ELSE <<>>,
         chan |-> <<>>, subscribed |-> TRUE,
         anchor |-> [gen |-> g, seq |-> n - off]]

\* A new stream: fresh, resumed behind the id the client presents, reset, or of
\* a client that stands nowhere.
LEMMA ConnectKeeps ==
    ASSUME NEW cl, NEW g \in Nat \ {0}, NEW off \in Nat, NEW n \in Nat, off <= n,
           ClientOK(cl, g, off, n), NEW r, RingOK(r, g, off, n),
           NEW new, new = Opened(cl, r, g, off, n)
    PROVE  /\ ClientOK(new, g, off, n)
           /\ new.reset /\ cl.last.gen = g => n - off - cl.last.seq > RingSize
<1>from. PICK from : from = IF cl.last = Malformed THEN ZeroID ELSE cl.last
  OBVIOUS
<1>resumes. PICK resumes \in BOOLEAN :
          resumes = (from # ZeroID /\ from.gen = g /\ Resumable(Snapshot(r), from.seq))
  OBVIOUS
<1>1. /\ cl \in ClientType /\ cl.last \in EventID \cup {Malformed} /\ cl.knows \in Nat
      /\ Harmless(cl.skips) /\ cl.knows <= n /\ LastOK(cl, g, off, n)
  BY DEF ClientOK, ClientType, Harmless
<1>2. /\ ZeroID.gen = 0 /\ ZeroID.seq = 0 /\ ZeroID \in EventID
      /\ Malformed.gen = -1 /\ Malformed # ZeroID
  BY DEF ZeroID, Malformed, EventID
<1>3. PICK knows \in Nat : /\ knows = IF cl.pc = "new" THEN n ELSE cl.knows
                          /\ knows <= n /\ cl.knows <= knows
  BY <1>1
<1>4. PICK reset \in BOOLEAN : reset = (cl.last = Malformed \/ (from # ZeroID /\ ~resumes))
  OBVIOUS
<1>5. PICK replay : replay = IF resumes THEN After(Snapshot(r), from.seq) ELSE <<>>
  OBVIOUS
<1>6. PICK anchor \in EventID : /\ anchor = [gen |-> g, seq |-> n - off]
                               /\ anchor.gen = g /\ anchor.seq = n - off
  <2>1. g \in Nat /\ n - off \in Nat
    OBVIOUS
  <2>2. PICK m \in Nat : m = n - off
    BY <2>1
  <2>3. [gen |-> g, seq |-> m] \in EventID
    BY <2>1 DEF EventID
  <2> QED
    BY <2>2, <2>3
<1>stands. PICK stands \in Standing :
          stands = IF cl.pc = "new" THEN "first"
                   ELSE IF cl.last = ZeroID THEN "nowhere" ELSE "id"
  BY DEF Standing
<1>7. ~reset /\ ~resumes /\ stands # "nowhere" => knows = n
  BY <1>2, <1>3, <1>4, <1>from, <1>stands
<1>8. resumes => /\ cl.last \in EventID /\ from = cl.last /\ cl.last.gen = g
                 /\ cl.last.seq \in Nat /\ cl.last.seq <= n - off
                 /\ off + cl.last.seq <= cl.knows /\ Resumable(Snapshot(r), cl.last.seq)
  <2> SUFFICES ASSUME resumes
               PROVE  /\ cl.last \in EventID /\ from = cl.last /\ cl.last.gen = g
                      /\ cl.last.seq \in Nat /\ cl.last.seq <= n - off
                      /\ off + cl.last.seq <= cl.knows /\ Resumable(Snapshot(r), cl.last.seq)
    OBVIOUS
  <2>1. from = cl.last /\ cl.last # Malformed /\ cl.last.gen = g
    BY <1>2, <1>from, <1>resumes
  <2>2. cl.last \in EventID
    BY <1>1, <2>1
  <2> QED
    BY <1>1, <1>resumes, <2>1, <2>2 DEF LastOK, EventID
<1>9. \E b \in Nat : /\ off <= b /\ Follows(replay, g, off, b) /\ b + Len(replay) = n
                     /\ Len(replay) \in Nat /\ replay \in Seq(Event)
                     /\ (~reset /\ stands # "nowhere" => b <= knows)
  <2>1. CASE resumes
    <3>1. PICK s \in Nat : s = cl.last.seq /\ s <= n - off /\ off + s <= cl.knows
      BY <1>8, <2>1
    <3>2. /\ Follows(replay, g, off, off + s) /\ Len(replay) = n - off - s
      <4>1. replay = After(Snapshot(r), s) /\ Resumable(Snapshot(r), s)
        BY <1>5, <1>8, <2>1, <3>1
      <4>2. g \in Nat
        OBVIOUS
      <4>3. /\ Resumable(Snapshot(r), s) =>
                  /\ Follows(After(Snapshot(r), s), g, off, off + s)
                  /\ Len(After(Snapshot(r), s)) = n - off - s
            /\ ~Resumable(Snapshot(r), s) => n - off - s > RingSize
        <5>1. s \in Nat /\ s <= n - off
          BY <3>1
        <5> QED
          BY <4>2, <5>1, AfterIs
      <4> QED
        BY <4>1, <4>3, Zenon
    <3>3. /\ off + s \in Nat /\ off <= off + s /\ off + s + (n - off - s) = n
          /\ n - off - s \in Nat /\ off + s <= knows
      BY <1>1, <1>3, <3>1
    <3>4. replay \in Seq(Event)
      BY <3>2 DEF Follows
    <3> QED
      BY <3>2, <3>3, <3>4, Zenon
  <2>2. CASE ~resumes
    <3>1. replay = <<>> /\ Len(replay) = 0 /\ replay \in Seq(Event)
      BY <1>5, <2>2
    <3>2. Follows(replay, g, off, n)
      BY <3>1, NothingFollows
    <3>3. ~reset /\ stands # "nowhere" => n <= knows
      BY <1>3, <1>7, <2>2
    <3>4. n + 0 = n /\ 0 \in Nat
      OBVIOUS
    <3> QED
      BY <3>1, <3>2, <3>3, <3>4, Zenon
  <2> QED
    BY <2>1, <2>2
<1>10. new = [pc |-> "open", last |-> cl.last, skips |-> cl.skips, knows |-> knows,
              stands |-> stands, reset |-> reset, replay |-> replay, chan |-> <<>>, subscribed |-> TRUE,
              anchor |-> anchor]
  BY <1>1, <1>3, <1>4, <1>5, <1>6, <1>from, <1>resumes, <1>stands, Zenon DEF Opened
<1>11. new \in ClientType
  <2>1. replay \in Seq(Event) /\ <<>> \in Seq(Event)
    BY <1>9
  <2> QED
    BY <1>1, <1>10, <2>1 DEF ClientType, Harmless
<1>12. /\ new.pc = "open" /\ new.last = cl.last /\ new.skips = cl.skips /\ new.knows = knows
       /\ new.stands = stands
       /\ new.reset = reset /\ new.replay = replay /\ new.chan = <<>>
       /\ new.subscribed = TRUE /\ new.anchor = anchor
  BY <1>10
<1>13. StreamOK(new, g, off, n)
  <2>1. PICK b \in Nat, x \in Nat :
           /\ off <= b /\ Follows(replay, g, off, b) /\ x = Len(replay) /\ b + x = n
           /\ ~reset /\ stands # "nowhere" => b <= knows
    BY <1>9
  <2>2. b + x + 0 = n /\ n <= n
    BY <2>1
  <2>3. Len(new.replay) = x /\ Len(new.chan) = 0 /\ Follows(new.chan, g, off, b + x)
    BY <1>12, <2>1, NothingFollows
  <2> QED
    BY <1>12, <2>1, <2>2, <2>3, Zenon DEF StreamOK
<1>14. LastOK(new, g, off, n)
  <2>1. cl.last.gen \in Int /\ cl.last.seq \in Int
    BY <1>1 DEF EventID, Malformed
  <2> QED
    BY <1>1, <1>3, <1>12, <2>1 DEF LastOK
<1>15. ClientOK(new, g, off, n)
  <2>1. Len(new.chan) <= Buffer /\ new.anchor.seq <= n - off
    BY <1>6, <1>12, BusAssumption
  <2> QED
    BY <1>1, <1>3, <1>6, <1>11, <1>12, <1>13, <1>14, <2>1 DEF ClientOK, Harmless
<1>16. ASSUME new.reset, cl.last.gen = g
       PROVE  n - off - cl.last.seq > RingSize
  <2>1. cl.last # Malformed /\ cl.last # ZeroID
    BY <1>2, <1>16
  <2>2. cl.last \in EventID /\ from = cl.last
    BY <1>1, <1>from, <2>1
  <2>3. ~resumes
    BY <1>4, <1>12, <1>16, <2>1
  <2>4. ~Resumable(Snapshot(r), cl.last.seq)
    BY <1>16, <1>resumes, <2>1, <2>2, <2>3
  <2>5. cl.last.seq \in Nat /\ cl.last.seq <= n - off
    BY <1>1, <1>16, <2>2 DEF LastOK, EventID
  <2>6. g \in Nat
    OBVIOUS
  <2> QED
    BY <2>4, <2>5, <2>6, AfterIs
<1> QED
  BY <1>15, <1>16

-----------------------------------------------------------------------------
(* The bus.                                                                *)

LEMMA BusInit == Init => BInv
<1> SUFFICES ASSUME Init
             PROVE  BInv
  OBVIOUS
<1>1. /\ generation = 1 /\ seq = 0 /\ total = 0 /\ ring = EmptyRing
      /\ clients = [c \in Client |-> New]
  BY DEF Init
<1>2. RingOK(EmptyRing, 1, 0, 0)
  BY BusAssumption DEF RingOK, EmptyRing
<1>3. total - seq = 0
  BY <1>1
<1>4. ClientOK(New, 1, 0, 0)
  BY NewOK
<1>5. \A c \in Client : ClientOK(clients[c], generation, total - seq, total)
  BY <1>1, <1>3, <1>4
<1>6. RingOK(ring, generation, total - seq, total)
  BY <1>1, <1>2, <1>3
<1>7. DOMAIN clients = Client /\ clients = [c \in Client |-> clients[c]]
  BY <1>1
<1>8. /\ generation \in 1 .. MaxBoots /\ seq \in Nat /\ total \in 0 .. MaxEvents
      /\ seq <= total
  BY <1>1, BusAssumption
<1> QED
  BY <1>5, <1>6, <1>7, <1>8 DEF BInv

\* Only client c moves.
Only(c, new) ==
    /\ clients' = [clients EXCEPT ![c] = new]
    /\ UNCHANGED <<generation, seq, ring, total>>

LEMMA OneClient ==
    ASSUME BInv, NEW c \in Client, NEW new, Only(c, new),
           ClientOK(new, generation, total - seq, total)
    PROVE  BInv'
<1>1. /\ clients' = [clients EXCEPT ![c] = new]
      /\ generation' = generation /\ seq' = seq /\ ring' = ring /\ total' = total
  BY DEF Only
<1>2. DOMAIN clients = Client
  BY DEF BInv
<1>3. \A d \in Client : clients'[d] = IF d = c THEN new ELSE clients[d]
  BY <1>1, <1>2
<1>4. \A d \in Client : ClientOK(clients'[d], generation, total - seq, total)
  BY <1>3, Zenon DEF BInv
<1>5. DOMAIN clients' = Client /\ clients' = [d \in Client |-> clients'[d]]
  BY <1>1, <1>2
<1>6. /\ generation \in 1 .. MaxBoots /\ seq \in Nat /\ total \in 0 .. MaxEvents /\ seq <= total
      /\ RingOK(ring, generation, total - seq, total)
  BY DEF BInv
<1> QED
  BY <1>1, <1>4, <1>5, <1>6, Zenon DEF BInv

LEMMA BusArithmetic ==
    ASSUME BInv
    PROVE  /\ generation \in Nat \ {0} /\ generation \in Nat
           /\ seq \in Nat /\ total \in Nat /\ total - seq \in Nat
           /\ total - seq <= total /\ total - (total - seq) = seq
           /\ (total + 1) - (seq + 1) = total - seq /\ total + 1 - (total - seq) = seq + 1
           /\ MaxEvents \in Nat /\ MaxBoots \in Nat
BY BusAssumption DEF BInv

\* Connect, with the reset it may decide on.
LEMMA ConnectStep ==
    ASSUME BInv, NEW c \in Client, Connect(c)
    PROVE  /\ BInv'
           /\ clients'[c].reset /\ clients[c].last.gen = generation
                 => seq - clients[c].last.seq > RingSize
<1>1. PICK cl : cl = clients[c]
  OBVIOUS
<1>4. PICK new : new = Opened(cl, ring, generation, total - seq, total)
  OBVIOUS
<1>5. Only(c, new)
  <2>1. total - (total - seq) = seq
    BY BusArithmetic
  <2> QED
    BY <1>1, <1>4, <2>1, Zenon DEF Connect, Only, Opened
<1>6. PICK off \in Nat : off = total - seq /\ off <= total /\ seq = total - off
  BY BusArithmetic
<1>7. /\ ClientOK(new, generation, off, total)
      /\ new.reset /\ cl.last.gen = generation => total - off - cl.last.seq > RingSize
  <2>1. ClientOK(cl, generation, off, total) /\ RingOK(ring, generation, off, total)
    BY <1>1, <1>6, Zenon DEF BInv
  <2>2. generation \in Nat \ {0} /\ total \in Nat
    BY BusArithmetic
  <2>3. new = Opened(cl, ring, generation, off, total)
    BY <1>4, <1>6, Zenon
  <2> QED
    BY <1>6, <2>1, <2>2, <2>3, ConnectKeeps, Zenon
<1>8. clients'[c] = new
  BY <1>5 DEF Only, BInv
<1> QED
  BY <1>1, <1>5, <1>6, <1>7, <1>8, OneClient, Zenon

\* The steps of one client's stream.
LEMMA StreamStep ==
    ASSUME BInv, NEW c \in Client, WriteReset(c) \/ WriteReplay(c) \/ WriteLive(c) \/ Hangup(c)
    PROVE  BInv'
<1>1. PICK cl : cl = clients[c]
  OBVIOUS
<1>2. /\ generation \in Nat /\ total \in Nat /\ total - seq \in Nat /\ total - seq <= total
      /\ ClientOK(cl, generation, total - seq, total)
  BY <1>1, BusArithmetic DEF BInv
<1>3. DOMAIN clients = Client
  BY DEF BInv
<1>4. CASE WriteReset(c)
  <2>1. PICK new : new = [cl EXCEPT !.reset = FALSE, !.last = cl.anchor, !.knows = total,
                                    !.stands = "id"]
    OBVIOUS
  <2>2. cl.pc = "open" /\ Only(c, new)
    BY <1>1, <1>3, <1>4, <2>1 DEF WriteReset, Only
  <2>3. ClientOK(new, generation, total - seq, total)
    BY <1>2, <2>1, <2>2, ResetKeeps, Zenon
  <2> QED
    BY <2>2, <2>3, OneClient
<1>5. CASE WriteReplay(c)
  <2>1. PICK new : new = [Reads(cl, Head(cl.replay)) EXCEPT !.replay = Tail(@)]
    OBVIOUS
  <2>2. cl.pc = "open" /\ ~cl.reset /\ cl.replay # <<>> /\ Only(c, new)
    BY <1>1, <1>5, <2>1, Zenon DEF WriteReplay, Only
  <2>3. ClientOK(new, generation, total - seq, total)
    BY <1>2, <2>1, <2>2, WriteKeeps, Zenon
  <2> QED
    BY <2>2, <2>3, OneClient
<1>6. CASE WriteLive(c)
  <2>1. PICK new : new = [Reads(cl, Head(cl.chan)) EXCEPT !.chan = Tail(@)]
    OBVIOUS
  <2>2. cl.pc = "open" /\ ~cl.reset /\ cl.replay = <<>> /\ cl.chan # <<>> /\ Only(c, new)
    BY <1>1, <1>6, <2>1, Zenon DEF WriteLive, Only
  <2>3. ClientOK(new, generation, total - seq, total)
    BY <1>2, <2>1, <2>2, WriteKeeps, Zenon
  <2> QED
    BY <2>2, <2>3, OneClient
<1>7. CASE Hangup(c)
  <2>1. PICK last \in {cl.last, Malformed} :
           clients' = [clients EXCEPT ![c] = Away(last, cl.knows, cl.skips)]
    BY <1>1, <1>7 DEF Hangup
  <2>2. Only(c, Away(last, cl.knows, cl.skips))
    BY <1>7, <2>1 DEF Hangup, Only
  <2>3. ClientOK(Away(last, cl.knows, cl.skips), generation, total - seq, total)
    <3>1. /\ ClientOK(Away(cl.last, cl.knows, cl.skips), generation, total - seq, total)
          /\ ClientOK(Away(Malformed, cl.knows, cl.skips), generation, total - seq, total)
      BY <1>2, AwayOK, Zenon
    <3> QED
      BY <3>1, Zenon
  <2> QED
    BY <2>2, <2>3, OneClient
<1> QED
  BY <1>4, <1>5, <1>6, <1>7

\* A publication reaches the ring and every subscriber at once.
LEMMA PublishStep ==
    ASSUME BInv, Publish
    PROVE  BInv'
<1>1. PICK off \in Nat : off = total - seq /\ off <= total
  BY BusArithmetic
<1>2. PICK ev : ev = [gen |-> generation, seq |-> seq + 1, nth |-> total + 1]
  OBVIOUS
<1>3. /\ total < MaxEvents /\ total' = total + 1 /\ seq' = seq + 1
      /\ generation' = generation /\ ring' = RingAdd(ring, ev)
      /\ clients' = [c \in Client |-> Deliver(clients[c], ev)]
  BY <1>2, Zenon DEF Publish
<1>4. ev = Ev(generation, off, total + 1)
  <2>1. seq + 1 = (total + 1) - off
    BY <1>1, BusArithmetic
  <2> QED
    BY <1>2, <2>1 DEF Ev
<1>5. total' - seq' = off
  BY <1>1, <1>3, BusArithmetic
<1>6. generation \in Nat /\ total \in Nat /\ RingOK(ring, generation, off, total)
      /\ \A c \in Client : ClientOK(clients[c], generation, off, total)
  BY <1>1, BusArithmetic, Zenon DEF BInv
<1>7. RingOK(ring', generation, off, total + 1)
  BY <1>1, <1>3, <1>4, <1>6, RingAddKeeps, Zenon
<1>8. ASSUME NEW c \in Client
      PROVE  ClientOK(clients'[c], generation, off, total + 1)
  <2>1. clients'[c] = Deliver(clients[c], ev)
    BY <1>3
  <2>2. ClientOK(clients[c], generation, off, total)
    BY <1>6
  <2>3. ClientOK(Deliver(clients[c], ev), generation, off, total + 1)
    BY <1>1, <1>4, <1>6, <2>2, DeliverKeeps, Zenon
  <2> QED
    BY <2>1, <2>3
<1>9. /\ generation' \in 1 .. MaxBoots /\ seq' \in Nat /\ total' \in 0 .. MaxEvents
      /\ seq' <= total'
  BY <1>3, BusArithmetic DEF BInv
<1>10. DOMAIN clients' = Client /\ clients' = [c \in Client |-> clients'[c]]
  BY <1>3
<1>11. /\ RingOK(ring', generation', total' - seq', total')
       /\ \A c \in Client : ClientOK(clients'[c], generation', total' - seq', total')
  BY <1>3, <1>5, <1>7, <1>8, Zenon
<1> QED
  BY <1>9, <1>10, <1>11, Zenon DEF BInv

\* A restart ends every stream; what clients kept is of an older generation.
LEMMA RestartStep ==
    ASSUME BInv, Restart
    PROVE  BInv'
<1>1. /\ generation < MaxBoots /\ generation' = generation + 1 /\ seq' = 0
      /\ ring' = EmptyRing /\ total' = total
      /\ clients' = [c \in Client |->
                       IF clients[c].pc = "new" THEN New
                       ELSE Away(clients[c].last, clients[c].knows, clients[c].skips)]
  BY DEF Restart
<1>2. total' - seq' = total
  BY <1>1, BusArithmetic
<1>3. RingOK(EmptyRing, generation + 1, total, total)
  <2>1. total - total = 0
    BY BusArithmetic
  <2> QED
    BY <2>1, BusAssumption DEF RingOK, EmptyRing
<1>4. ASSUME NEW c \in Client
      PROVE  ClientOK(clients'[c], generation + 1, total, total)
  <2>1. PICK cl : cl = clients[c]
    OBVIOUS
  <2>2. ClientOK(cl, generation, total - seq, total)
    BY <2>1 DEF BInv
  <2>3. ClientOK(Away(cl.last, cl.knows, cl.skips), generation + 1, total, total)
    BY <2>2, BusArithmetic, AwayOK, Zenon
  <2>4. ClientOK(New, generation + 1, total, total)
    <3>1. generation + 1 \in Nat \ {0} /\ total \in Nat /\ total <= total
      BY BusArithmetic
    <3> QED
      BY <3>1, NewOK
  <2>5. clients'[c] = IF cl.pc = "new" THEN New ELSE Away(cl.last, cl.knows, cl.skips)
    BY <1>1, <2>1
  <2> QED
    BY <2>3, <2>4, <2>5
<1>5. /\ generation' \in 1 .. MaxBoots /\ seq' \in Nat /\ total' \in 0 .. MaxEvents
      /\ seq' <= total'
  BY <1>1, BusArithmetic DEF BInv
<1>6. DOMAIN clients' = Client /\ clients' = [c \in Client |-> clients'[c]]
  BY <1>1
<1>7. /\ RingOK(ring', generation', total' - seq', total')
      /\ \A c \in Client : ClientOK(clients'[c], generation', total' - seq', total')
  BY <1>1, <1>2, <1>3, <1>4, Zenon
<1> QED
  BY <1>5, <1>6, <1>7, Zenon DEF BInv

LEMMA BusStep ==
    ASSUME BInv, [Next]_vars
    PROVE  BInv'
<1>1. CASE UNCHANGED vars
  BY <1>1 DEF vars, BInv
<1>2. CASE Publish
  BY <1>2, PublishStep
<1>3. CASE Restart
  BY <1>3, RestartStep
<1>4. ASSUME NEW c \in Client, Connect(c)
      PROVE  BInv'
  BY <1>4, ConnectStep
<1>5. ASSUME NEW c \in Client, WriteReset(c) \/ WriteReplay(c) \/ WriteLive(c) \/ Hangup(c)
      PROVE  BInv'
  BY <1>5, StreamStep
<1> QED
  BY <1>1, <1>2, <1>3, <1>4, <1>5 DEF Next

\* The ring, the streams and the ids that clients keep stay consistent, over
\* publications, evictions, reconnections and restarts.
THEOREM BusInvariance == Spec => []BInv
<1>1. Init => BInv
  BY BusInit
<1>2. BInv /\ [Next]_vars => BInv'
  BY BusStep
<1> QED
  BY <1>1, <1>2, PTL DEF Spec

\* The bus's types: the ring never outgrows its size, nor a channel its buffer.
THEOREM BusTypes == Spec => []BusTypeOK
<1>1. BInv => BusTypeOK
  <2> SUFFICES ASSUME BInv
               PROVE  BusTypeOK
    OBVIOUS
  <2>1. generation \in 1 .. MaxBoots /\ seq \in 0 .. MaxEvents /\ total \in 0 .. MaxEvents
    BY BusArithmetic DEF BInv
  <2>2. /\ ring.events \in Seq(Event) /\ Len(ring.events) <= RingSize
        /\ ring.next \in 0 .. RingSize - 1
    BY BusAssumption DEF BInv, RingOK
  <2>3. ASSUME NEW c \in Client
        PROVE  /\ clients[c].last \in EventID \cup {Malformed}
               /\ clients[c].anchor \in EventID
               /\ clients[c].knows \in 0 .. MaxEvents /\ Len(clients[c].chan) <= Buffer
               /\ clients[c].skips \subseteq Standing
    <3>1. ClientOK(clients[c], generation, total - seq, total)
      BY DEF BInv
    <3>2. /\ clients[c].last \in EventID \cup {Malformed} /\ clients[c].anchor \in EventID
          /\ clients[c].knows \in Nat /\ clients[c].knows <= total
          /\ Len(clients[c].chan) <= Buffer /\ clients[c].skips \subseteq Standing
      BY <3>1 DEF ClientOK, ClientType
    <3> QED
      BY <2>1, <3>2, BusAssumption
  <2> QED
    BY <2>1, <2>2, <2>3 DEF BusTypeOK
<1> QED
  BY <1>1, BusInvariance, PTL

\* A client skips no event without having been reset, whatever the sizes of
\* ring and buffer and however often it is evicted or the server restarts, but
\* for one that comes back without ever having read a frame.
THEOREM NothingSkipped == Spec => []NoGap
<1>1. BInv => NoGap
  BY DEF BInv, ClientOK, NoGap
<1> QED
  BY <1>1, BusInvariance, PTL

\* A client that presents an id of this process is reset only when the ring no
\* longer holds what followed it.
THEOREM ResetOnlyWhenNeeded == Spec => ResetIsNeeded
<1> DEFINE Needed ==
      \A c \in Client :
          /\ clients[c].pc = "away" /\ clients'[c].reset
          /\ clients[c].last.gen = generation
          => seq - clients[c].last.seq > RingSize
<1>1. BInv /\ [Next]_vars => [Needed]_vars
  <2> SUFFICES ASSUME BInv, Next, NEW c \in Client,
                      clients[c].pc = "away", clients'[c].reset,
                      clients[c].last.gen = generation
               PROVE  seq - clients[c].last.seq > RingSize
    OBVIOUS
  <2>1. DOMAIN clients = Client /\ ClientOK(clients[c], generation, total - seq, total)
    BY DEF BInv
  <2>2. ~clients[c].reset /\ clients[c] \in ClientType
    BY <2>1 DEF ClientOK
  <2>3. CASE Connect(c)
    BY <2>3, ConnectStep
  <2>4. CASE Publish
    <3>1. PICK ev : clients'[c] = Deliver(clients[c], ev)
      BY <2>4 DEF Publish
    <3>2. clients'[c].reset = clients[c].reset
      BY <2>2, <3>1 DEF Deliver, ClientType
    <3> QED
      BY <2>2, <3>2
  <2>5. CASE Restart
    BY <2>5 DEF Restart, Away, New, Unconnected
  <2>6. ASSUME NEW d \in Client, d # c,
               \/ Connect(d) \/ WriteReset(d) \/ WriteReplay(d) \/ WriteLive(d) \/ Hangup(d)
        PROVE  FALSE
    <3>1. PICK new : clients' = [clients EXCEPT ![d] = new]
      <4>1. CASE Connect(d)
        BY <4>1, Zenon DEF Connect
      <4>2. CASE WriteReset(d)
        BY <2>1, <4>2 DEF WriteReset
      <4>3. CASE WriteReplay(d)
        BY <4>3, Zenon DEF WriteReplay
      <4>4. CASE WriteLive(d)
        BY <4>4, Zenon DEF WriteLive
      <4>5. CASE Hangup(d)
        BY <4>5, Zenon DEF Hangup
      <4> QED
        BY <2>6, <4>1, <4>2, <4>3, <4>4, <4>5
    <3>2. clients'[c] = clients[c]
      BY <2>1, <2>6, <3>1
    <3> QED
      BY <2>2, <3>2
  <2>7. ~(WriteReset(c) \/ WriteReplay(c) \/ WriteLive(c) \/ Hangup(c))
    BY DEF WriteReset, WriteReplay, WriteLive, Hangup
  <2> QED
    BY <2>3, <2>4, <2>5, <2>6, <2>7 DEF Next
<1> QED
  BY <1>1, BusInvariance, PTL DEF Spec, ResetIsNeeded
=============================================================================
