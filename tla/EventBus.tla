------------------------------ MODULE EventBus ------------------------------
(***************************************************************************)
(* The event stream of the server: the bus goroutine that numbers events,  *)
(* keeps the last of them in a ring and fans them out to subscribers       *)
(* (internal/sse: bus.go, ring.go, id.go), the stream each client reads    *)
(* (hub.go), and the generation counter that survives a restart            *)
(* (internal/store/events.go).                                             *)
(*                                                                         *)
(* A client reads frames at its own pace, is dropped when its buffer is    *)
(* full, and comes back with the id of the last frame it read.             *)
(***************************************************************************)
EXTENDS Integers, Sequences

CONSTANTS
    Client,
    RingSize, Buffer,
    MaxEvents,      \* bound: events ever published
    MaxBoots        \* bound: starts of the server

ASSUME BusAssumption ==
    RingSize \in Nat \ {0} /\ Buffer \in Nat \ {0} /\ MaxEvents \in Nat
    /\ MaxBoots \in Nat \ {0}

VARIABLES
    generation,     \* EventID.Generation of this process
    seq,            \* the last EventID.Seq it assigned
    ring,           \* the replay ring: a slice and its write position
    total,          \* events ever published, over all generations
    clients         \* each client and its connection, if it has one

vars == <<generation, seq, ring, total, clients>>

\* An event: its id, and its place among all events ever published.
EventID == [gen : Nat, seq : Nat]
Event == [gen : Nat, seq : Nat, nth : Nat]
ZeroID == [gen |-> 0, seq |-> 0]            \* "no id at all"
Malformed == [gen |-> -1, seq |-> 0]        \* a header ParseEventID refuses
IdOf(ev) == [gen |-> ev.gen, seq |-> ev.seq]

EmptyRing == [events |-> <<>>, next |-> 0]

\* last: the id a client will present; knows: how many events, from the first,
\* it has been told of or has refetched; skips: where it stood whenever it read
\* past an event.  A client stands where it first connected, at the id it read
\* last, or, connected again without ever having read one, nowhere.
\* A connection is a replay snapshot, a live channel, and whether the bus
\* still holds the other end of it.
Standing == {"first", "id", "nowhere"}

Unconnected(pc, last, knows, skips) ==
    [pc |-> pc, last |-> last, knows |-> knows, skips |-> skips, stands |-> "nowhere",
     reset |-> FALSE, replay |-> <<>>, chan |-> <<>>, subscribed |-> FALSE,
     anchor |-> ZeroID]

Away(last, knows, skips) == Unconnected("away", last, knows, skips)

\* A client that has not connected yet, and is promised nothing before it does.
New == Unconnected("new", ZeroID, 0, {})

BusTypeOK ==
    /\ generation \in 1 .. MaxBoots /\ seq \in 0 .. MaxEvents /\ total \in 0 .. MaxEvents
    /\ ring.events \in Seq(Event) /\ Len(ring.events) <= RingSize
    /\ ring.next \in 0 .. RingSize - 1
    /\ \A c \in Client :
          /\ clients[c].last \in EventID \cup {Malformed} /\ clients[c].anchor \in EventID
          /\ clients[c].knows \in 0 .. MaxEvents /\ clients[c].skips \subseteq Standing
          /\ Len(clients[c].chan) <= Buffer

-----------------------------------------------------------------------------
(* ring.go.                                                                *)

\* add: append until the slice is full, then overwrite the oldest.
RingAdd(r, ev) ==
    IF Len(r.events) < RingSize
    THEN [r EXCEPT !.events = Append(@, ev)]
    ELSE [events |-> [r.events EXCEPT ![r.next + 1] = ev],
          next |-> (r.next + 1) % Len(r.events)]

\* snapshot: oldest first.
Snapshot(r) ==
    SubSeq(r.events, r.next + 1, Len(r.events)) \o SubSeq(r.events, 1, r.next)

\* Mutated form: a client that saw the event before the oldest one is refused.
ResumableStrict(all, s) ==
    IF all = <<>> THEN s = 0
    ELSE s >= all[1].seq /\ s <= all[Len(all)].seq

\* after's verdict: whether the gap between s and the ring can be closed.
Resumable(all, s) ==
    IF all = <<>> THEN s = 0
    ELSE s >= all[1].seq - 1 /\ s <= all[Len(all)].seq

\* after's events: the last newest - s of the snapshot.
After(all, s) ==
    IF all = <<>> THEN <<>>
    ELSE SubSeq(all, Len(all) - (all[Len(all)].seq - s) + 1, Len(all))

-----------------------------------------------------------------------------
(* The bus goroutine.                                                      *)

Init ==
    /\ generation = 1 /\ seq = 0 /\ total = 0
    /\ ring = EmptyRing
    /\ clients = [c \in Client |-> New]

\* Mutated form: an event that does not fit is dropped, and the client stays.
DeliverDropping(cl, ev) ==
    IF cl.subscribed /\ Len(cl.chan) < Buffer
    THEN [cl EXCEPT !.chan = Append(@, ev)]
    ELSE cl

\* Subscription.deliver: into the buffer, or the client is evicted and its
\* channel closed behind what it holds.
Deliver(cl, ev) ==
    IF cl.subscribed /\ Len(cl.chan) < Buffer
    THEN [cl EXCEPT !.chan = Append(@, ev)]
    ELSE [cl EXCEPT !.subscribed = FALSE]

\* A publication: numbered, kept, fanned out.
Publish ==
    LET ev == [gen |-> generation, seq |-> seq + 1, nth |-> total + 1] IN
    /\ total < MaxEvents
    /\ total' = total + 1 /\ seq' = seq + 1
    /\ ring' = RingAdd(ring, ev)
    /\ clients' = [c \in Client |-> Deliver(clients[c], ev)]
    /\ UNCHANGED generation

\* The process ends, streams with it, and the next takes a new generation.
Restart ==
    /\ generation < MaxBoots
    /\ generation' = generation + 1
    /\ seq' = 0 /\ ring' = EmptyRing
    /\ clients' = [c \in Client |->
                     IF clients[c].pc = "new" THEN New
                     ELSE Away(clients[c].last, clients[c].knows, clients[c].skips)]
    /\ UNCHANGED total

-----------------------------------------------------------------------------
(* Serve, for one client.                                                  *)

\* SubscribeFrom: the snapshot and the registration are one step.  A header
\* that cannot be parsed subscribes as no header does and is reset.  Without an
\* id there is neither replay nor reset, on a client's first connection, whose
\* REST fetch has told it everything there is, and on any later one.
Connect(c) ==
    LET cl == clients[c]
        all == Snapshot(ring)
        from == IF cl.last = Malformed THEN ZeroID ELSE cl.last
        resumes == from # ZeroID /\ from.gen = generation /\ Resumable(all, from.seq)
    IN  /\ cl.pc # "open"
        /\ clients' = [clients EXCEPT ![c] =
              [pc |-> "open", last |-> cl.last, skips |-> cl.skips,
               knows |-> IF cl.pc = "new" THEN total ELSE cl.knows,
               stands |-> IF cl.pc = "new" THEN "first"
                          ELSE IF cl.last = ZeroID THEN "nowhere" ELSE "id",
               reset |-> cl.last = Malformed \/ (from # ZeroID /\ ~resumes),
               replay |-> IF resumes THEN After(all, from.seq) ELSE <<>>,
               chan |-> <<>>, subscribed |-> TRUE,
               anchor |-> [gen |-> generation, seq |-> seq]]]
        /\ UNCHANGED <<generation, seq, ring, total>>

\* The reset frame: the client refetches everything there is by then.
WriteReset(c) ==
    /\ clients[c].pc = "open" /\ clients[c].reset
    /\ clients' = [clients EXCEPT ![c].reset = FALSE, ![c].last = clients[c].anchor,
                     ![c].knows = total, ![c].stands = "id"]
    /\ UNCHANGED <<generation, seq, ring, total>>

\* What a client makes of an event: an event past the next one it expects
\* means one was skipped.
Reads(cl, ev) ==
    [cl EXCEPT !.last = IdOf(ev), !.stands = "id",
               !.skips = IF ev.nth > cl.knows + 1 THEN @ \cup {cl.stands} ELSE @,
               !.knows = IF ev.nth > @ THEN ev.nth ELSE @]

WriteReplay(c) ==
    LET cl == clients[c] IN
    /\ cl.pc = "open" /\ ~cl.reset /\ cl.replay # <<>>
    /\ clients' = [clients EXCEPT ![c] =
                     [Reads(cl, Head(cl.replay)) EXCEPT !.replay = Tail(@)]]
    /\ UNCHANGED <<generation, seq, ring, total>>

WriteLive(c) ==
    LET cl == clients[c] IN
    /\ cl.pc = "open" /\ ~cl.reset /\ cl.replay = <<>> /\ cl.chan # <<>>
    /\ clients' = [clients EXCEPT ![c] = [Reads(cl, Head(cl.chan)) EXCEPT !.chan = Tail(@)]]
    /\ UNCHANGED <<generation, seq, ring, total>>

\* The stream ends: the client went away, or found that it was evicted; the id
\* it has, if it has one, is kept, or garbled on the way back.
Hangup(c) ==
    LET cl == clients[c] IN
    /\ cl.pc = "open"
    /\ \E last \in {cl.last} \cup (IF cl.last = ZeroID THEN {} ELSE {Malformed}) :
          clients' = [clients EXCEPT ![c] = Away(last, cl.knows, cl.skips)]
    /\ UNCHANGED <<generation, seq, ring, total>>

-----------------------------------------------------------------------------
Next ==
    \/ Publish \/ Restart
    \/ \E c \in Client :
          Connect(c) \/ WriteReset(c) \/ WriteReplay(c) \/ WriteLive(c) \/ Hangup(c)

Spec == Init /\ [][Next]_vars

-----------------------------------------------------------------------------
(* What the stream promises.                                               *)

\* Ring, replay and eviction together: a client that reads on from its first
\* connection, falls behind, is dropped, or comes back with an id, also after a
\* restart, never skips an event without being reset.  "There is no third state
\* and a gap is never silently skipped" holds with this one exception: a client
\* that lost its connection before it had read a frame comes back without an
\* id, is taken for a fresh one, and is neither replayed to nor reset.
NoGap == \A c \in Client : clients[c].skips \subseteq {"nowhere"}

\* A reset is the last resort: a client that presents an id of this process
\* is reset only when more events followed that id than the ring keeps.
ResetIsNeeded ==
    [][\A c \in Client :
          /\ clients[c].pc = "away" /\ clients'[c].reset
          /\ clients[c].last.gen = generation
          => seq - clients[c].last.seq > RingSize]_vars
=============================================================================
