-------------------------- MODULE LeaseStoreProofs --------------------------
(***************************************************************************)
(* What LeaseStore guarantees for every set of runs, callers and           *)
(* identities, every TTL, and every history of crashes and clock steps.    *)
(*                                                                         *)
(* The central argument is that an identity's leases, taken in insertion   *)
(* order, occupy consecutive intervals.  leaseStart looks at one row only, *)
(* the latest by acquired_at; Ordered is what makes that row the one with  *)
(* the largest released_at.                                                *)
(***************************************************************************)
EXTENDS LeaseStore, TLAPS

\* Rows 1 .. rows are filled, the others are untouched.
Filled ==
    /\ \A l \in 1 .. rows : /\ leases[l].state # "none"
                            /\ leases[l].run \in Run
                            /\ leases[l].identity \in Identity
    /\ \A l \in LeaseId : ~(l \in 1 .. rows) => leases[l] = NoLease

\* A lease is open exactly while it is held, and never ends before it began.
WellFormed ==
    \A l \in 1 .. rows :
        /\ leases[l].state = "held" <=> leases[l].released = NoTime
        /\ leases[l].released # NoTime => leases[l].acquired <= leases[l].released

\* The leases of one identity follow one another in insertion order.
Ordered ==
    \A l, m \in 1 .. rows :
        l < m /\ leases[l].identity = leases[m].identity
        => /\ leases[l].released # NoTime
           /\ leases[l].released <= leases[m].acquired

\* A call in flight names rows that exist, and the lease a call is seeding is
\* pending and seeded by no other call.
CallsOK ==
    \A c \in Caller :
        /\ calls[c].pc \in {"seed", "release"} => calls[c].lease \in 1 .. rows
        /\ calls[c].pc = "walk" => calls[c].run \in Run /\ calls[c].next >= 1
        /\ calls[c].pc = "seed" => leases[calls[c].lease].seed = "pending"
        /\ \A d \in Caller :
              c # d /\ calls[c].pc = "seed" /\ calls[d].pc = "seed"
              => calls[c].lease # calls[d].lease

RunsOK == \A l \in 1 .. rows : Held(l) => runs[leases[l].run].state = "active"

Timeline == Filled /\ WellFormed /\ Ordered
IInv == TypeOK /\ Timeline /\ CallsOK /\ RunsOK

-----------------------------------------------------------------------------
(* Facts about the helpers.                                                *)

\* Store.Now never goes back within a process and never before time 0.
LEMMA StampType ==
    ASSUME TypeOK, NEW s \in Nat \cup {NoTime}
    PROVE  StampAfter(s) \in Nat /\ StampAfter(s) > s
<1>1. wall % Milli \in Int
  BY TimeAssumption DEF TypeOK
<1> QED
  BY <1>1 DEF StampAfter, NoTime, TypeOK

LEMMA NowType ==
    ASSUME TypeOK
    PROVE  /\ Now \in Nat
           /\ StampAfter(Now) \in Nat
<1>1. Now \in Nat
  BY StampType DEF Now, TypeOK
<1> QED
  BY <1>1, StampType

\* Ending a row keeps what it says about its grant and closes its interval.
LEMMA EndAtRow ==
    ASSUME NEW row \in LeaseRow, NEW st \in LeaseStates, NEW at \in Nat
    PROVE  LET new == EndAt(row, st, at)
           IN  /\ new \in LeaseRow
               /\ new.state = st /\ new.seed = row.seed
               /\ new.run = row.run /\ new.identity = row.identity
               /\ new.acquired = row.acquired /\ new.cool = row.cool
               /\ new.released \in Nat /\ row.acquired <= new.released
<1>1. row.acquired \in Nat
  BY DEF LeaseRow
<1>2. Larger(at, row.acquired) \in Nat /\ row.acquired <= Larger(at, row.acquired)
  BY <1>1 DEF Larger
<1>3. EndAt(row, st, at) = [row EXCEPT !.state = st, !.released = Larger(at, row.acquired)]
  BY DEF EndAt
<1>4. EndAt(row, st, at) \in LeaseRow
  BY <1>2, <1>3 DEF LeaseRow
<1>5. /\ EndAt(row, st, at).state = st
      /\ EndAt(row, st, at).seed = row.seed
      /\ EndAt(row, st, at).run = row.run
      /\ EndAt(row, st, at).identity = row.identity
      /\ EndAt(row, st, at).acquired = row.acquired
      /\ EndAt(row, st, at).cool = row.cool
      /\ EndAt(row, st, at).released = Larger(at, row.acquired)
  BY <1>3 DEF LeaseRow
<1> QED
  BY <1>2, <1>4, <1>5

\* UPDATE ... WHERE state = 'held' keeps every identity's timeline.
LEMMA EndHeldTimeline ==
    ASSUME TypeOK, Timeline,
           NEW S, NEW st \in {"released", "expired"}, NEW at \in Nat,
           leases' = EndHeld(S, st, at), rows' = rows
    PROVE  /\ leases' \in [LeaseId -> LeaseRow]
           /\ Timeline'
           /\ \A l \in LeaseId :
                 /\ leases'[l].run = leases[l].run
                 /\ leases'[l].identity = leases[l].identity
                 /\ leases'[l].acquired = leases[l].acquired
                 /\ leases'[l].cool = leases[l].cool
                 /\ leases'[l].seed = leases[l].seed
                 /\ leases[l].state # "held" => leases'[l] = leases[l]
                 /\ leases'[l].state = "held" =>
                      leases[l].state = "held" /\ l \notin S
<1> USE DEF Held
<1>1. \A l \in LeaseId : leases[l] \in LeaseRow
  BY DEF TypeOK
<1>2. \A l \in LeaseId : leases'[l] = IF l \in S /\ leases[l].state = "held"
                                      THEN EndAt(leases[l], st, at) ELSE leases[l]
  BY DEF EndHeld
<1>3. st \in LeaseStates /\ st # "held" /\ st # "none"
  BY DEF LeaseStates
<1>4. \A l \in LeaseId :
         /\ leases'[l] \in LeaseRow
         /\ leases'[l].run = leases[l].run
         /\ leases'[l].identity = leases[l].identity
         /\ leases'[l].acquired = leases[l].acquired
         /\ leases'[l].cool = leases[l].cool
         /\ leases'[l].seed = leases[l].seed
         /\ \/ leases'[l] = leases[l] /\ ~(l \in S /\ leases[l].state = "held")
            \/ /\ leases[l].state = "held" /\ l \in S
               /\ leases'[l].state = st
               /\ leases'[l].released \in Nat
               /\ leases[l].acquired <= leases'[l].released
  <2> TAKE l \in LeaseId
  <2>1. CASE l \in S /\ leases[l].state = "held"
    <3>1. leases[l] \in LeaseRow /\ leases'[l] = EndAt(leases[l], st, at)
      BY <1>1, <1>2, <2>1
    <3> QED
      BY <1>3, <2>1, <3>1, EndAtRow
  <2>2. CASE ~(l \in S /\ leases[l].state = "held")
    <3>1. leases[l] \in LeaseRow /\ leases'[l] = leases[l]
      BY <1>1, <1>2, <2>2
    <3> QED
      BY <2>2, <3>1
  <2> QED
    BY <2>1, <2>2
<1>5. leases' \in [LeaseId -> LeaseRow]
  BY <1>4 DEF EndHeld
<1>6. 1 .. rows \subseteq LeaseId
  BY TimeAssumption DEF TypeOK, LeaseId
<1>7. Filled'
  <2>1. ASSUME NEW l \in 1 .. rows
        PROVE  /\ leases'[l].state # "none" /\ leases'[l].run \in Run
               /\ leases'[l].identity \in Identity
    BY <1>3, <1>4, <1>6 DEF Timeline, Filled
  <2>2. ASSUME NEW l \in LeaseId, l \notin 1 .. rows
        PROVE  leases'[l] = NoLease
    <3>1. leases[l] = NoLease
      BY <2>2 DEF Timeline, Filled
    <3>2. leases[l].state # "held"
      BY <3>1 DEF NoLease
    <3> QED
      BY <1>4, <3>1, <3>2
  <2> QED
    BY <2>1, <2>2 DEF Filled
<1>8. WellFormed'
  BY <1>3, <1>4, <1>6 DEF Timeline, WellFormed, NoTime
<1>9. Ordered'
  BY <1>3, <1>4, <1>6 DEF Timeline, Ordered, WellFormed, NoTime
<1> QED
  BY <1>3, <1>4, <1>5, <1>7, <1>8, <1>9 DEF Timeline

\* leaseStart, reading only the latest row, starts after every earlier lease
\* of the identity has ended.
LEMMA LeaseStartAfterAll ==
    ASSUME TypeOK, Timeline, NEW i \in Identity, NEW start \in Nat,
           \A l \in LeasesOf(i) : ~Held(l),
           LeaseStart(i, start)
    PROVE  \A l \in LeasesOf(i) :
              leases[l].released # NoTime /\ leases[l].released <= start
<1> SUFFICES ASSUME NEW l \in LeasesOf(i)
             PROVE  leases[l].released # NoTime /\ leases[l].released <= start
  OBVIOUS
<1>1. 1 .. rows \subseteq LeaseId
  BY TimeAssumption DEF TypeOK, LeaseId
<1>2. \A k \in LeasesOf(i) :
         /\ k \in 1 .. rows /\ leases[k].identity = i
         /\ leases[k].acquired \in Nat /\ leases[k].released \in Nat
         /\ leases[k].released # NoTime
         /\ leases[k].acquired <= leases[k].released
  BY <1>1 DEF LeasesOf, Held, Timeline, WellFormed, TypeOK, LeaseRow, NoTime
<1>3. PICK prev \in LeasesOf(i) :
         /\ IsLatest(prev, LeasesOf(i))
         /\ start = IF leases[prev].released = NoTime
                    THEN Now ELSE Larger(Now, leases[prev].released)
  BY DEF LeaseStart
<1>4. leases[prev].released <= start
  BY <1>2, <1>3, NowType DEF Larger
<1>5. CASE l = prev
  BY <1>2, <1>4, <1>5
<1>6. CASE l < prev
  <2>1. leases[l].released <= leases[prev].acquired
    BY <1>2, <1>6 DEF Timeline, Ordered
  <2> QED
    BY <1>2, <1>4, <2>1
<1>7. CASE prev < l
  <2>1. leases[prev].released <= leases[l].acquired
    BY <1>2, <1>7 DEF Timeline, Ordered
  <2>2. leases[l].acquired < leases[prev].acquired
    BY <1>2, <1>3, <1>7 DEF IsLatest
  <2> QED
    BY <1>2, <2>1, <2>2
<1> QED
  BY <1>2, <1>5, <1>6, <1>7

\* A lease inserted by AcquireLease extends its identity's timeline.
LEMMA AcquireTimeline ==
    ASSUME TypeOK, Timeline, NEW r \in Run, NEW i \in Identity,
           NEW start \in Nat, AcquireLease(r, i, start)
    PROVE  /\ leases' \in [LeaseId -> LeaseRow] /\ rows' \in 0 .. MaxLeases
           /\ rows' = rows + 1 /\ rows + 1 \in LeaseId
           /\ lastNow' \in Nat
           /\ Timeline'
           /\ \A l \in LeaseId : l # rows + 1 => leases'[l] = leases[l]
           /\ leases'[rows + 1].run = r /\ leases'[rows + 1].seed = "pending"
           /\ leases'[rows + 1].identity = i
           /\ ~leases'[rows + 1].cool /\ cooldown[i] # NoTime
                 => cooldown[i] <= leases'[rows + 1].acquired
<1> DEFINE new == [state |-> "held", seed |-> "pending", run |-> r,
                   identity |-> i, acquired |-> start,
                   expires |-> start + LeaseTTL, released |-> NoTime,
                   cool |-> cooldown[i] # NoTime /\ start < cooldown[i]]
<1>1. /\ \A l \in LeasesOf(i) : ~Held(l)
      /\ rows < MaxLeases /\ LeaseStart(i, start) /\ rows' = rows + 1
      /\ leases' = [leases EXCEPT ![rows + 1] = new]
      /\ lastNow' = Now
  BY DEF AcquireLease, InsertLease, Stamp
<1>2. rows + 1 \in LeaseId /\ rows' \in 0 .. MaxLeases /\ 1 .. rows \subseteq LeaseId
  BY <1>1, TimeAssumption DEF TypeOK, LeaseId
<1>3. new \in LeaseRow
  <2>1. (cooldown[i] # NoTime /\ start < cooldown[i]) \in BOOLEAN
    OBVIOUS
  <2>2. start + LeaseTTL \in Nat
    BY TimeAssumption
  <2> HIDE DEF new
  <2>3. new = [state |-> "held", seed |-> "pending", run |-> r,
                   identity |-> i, acquired |-> start,
                   expires |-> start + LeaseTTL, released |-> NoTime,
                   cool |-> cooldown[i] # NoTime /\ start < cooldown[i]]
    BY DEF new
  <2> QED
    BY <2>1, <2>2, <2>3 DEF LeaseRow, LeaseStates, SeedStates
<1>4. /\ new.state = "held" /\ new.seed = "pending" /\ new.run = r
      /\ new.identity = i /\ new.acquired = start /\ new.released = NoTime
  OBVIOUS
<1>4a. ~new.cool /\ cooldown[i] # NoTime => cooldown[i] <= start
  <2>1. new.cool = (cooldown[i] # NoTime /\ start < cooldown[i])
    OBVIOUS
  <2>2. cooldown[i] \in Nat \cup {NoTime}
    BY DEF TypeOK
  <2>3. ~(cooldown[i] # NoTime /\ start < cooldown[i]) /\ cooldown[i] # NoTime
          => cooldown[i] <= start
    BY <2>2
  <2> HIDE DEF new
  <2> QED
    BY <2>1, <2>3, Zenon
<1> HIDE DEF new
<1>5. leases' \in [LeaseId -> LeaseRow]
  BY <1>1, <1>2, <1>3 DEF TypeOK
<1>6. /\ leases'[rows + 1] = new
      /\ \A l \in LeaseId : l # rows + 1 => leases'[l] = leases[l]
  BY <1>1, <1>2 DEF TypeOK
<1>7. \A l \in 1 .. rows : leases'[l] = leases[l]
  BY <1>2, <1>6 DEF TypeOK
<1>8. Filled'
  <2>1. ASSUME NEW l \in 1 .. rows'
        PROVE  /\ leases'[l].state # "none" /\ leases'[l].run \in Run
               /\ leases'[l].identity \in Identity
    <3>1. l \in 1 .. rows \/ l = rows + 1
      BY <1>1 DEF TypeOK
    <3> QED
      BY <1>4, <1>6, <1>7, <3>1 DEF Timeline, Filled
  <2>2. ASSUME NEW l \in LeaseId, ~(l \in 1 .. rows')
        PROVE  leases'[l] = NoLease
    <3>1. ~(l \in 1 .. rows) /\ l # rows + 1
      BY <1>1, <2>2 DEF TypeOK, LeaseId
    <3> QED
      BY <1>6, <3>1 DEF Timeline, Filled
  <2> QED
    BY <2>1, <2>2 DEF Filled
<1>9. WellFormed'
  <2> SUFFICES ASSUME NEW l \in 1 .. rows'
               PROVE  /\ leases'[l].state = "held" <=> leases'[l].released = NoTime
                      /\ leases'[l].released # NoTime =>
                           leases'[l].acquired <= leases'[l].released
    BY DEF WellFormed
  <2>1. l \in 1 .. rows \/ l = rows + 1
    BY <1>1 DEF TypeOK
  <2> QED
    BY <1>4, <1>6, <1>7, <2>1 DEF Timeline, WellFormed
<1>10. Ordered'
  <2> SUFFICES ASSUME NEW l \in 1 .. rows', NEW m \in 1 .. rows', l < m,
                      leases'[l].identity = leases'[m].identity
               PROVE  /\ leases'[l].released # NoTime
                      /\ leases'[l].released <= leases'[m].acquired
    BY DEF Ordered
  <2>1. l \in 1 .. rows
    BY <1>1 DEF TypeOK
  <2>2. CASE m \in 1 .. rows
    BY <1>7, <2>1, <2>2 DEF Timeline, Ordered
  <2>3. CASE m = rows + 1
    <3>1. l \in LeasesOf(i)
      BY <1>4, <1>6, <1>7, <2>1, <2>3 DEF LeasesOf
    <3>2. leases[l].released # NoTime /\ leases[l].released <= start
      BY <1>1, <3>1, LeaseStartAfterAll
    <3> QED
      BY <1>4, <1>6, <1>7, <2>1, <2>3, <3>2
  <2> QED
    BY <1>1, <2>2, <2>3 DEF TypeOK
<1> QED
  BY <1>1, <1>2, <1>4, <1>5, <1>6, <1>8, <1>9, <1>10, <1>4a, NowType DEF Timeline

\* Settling a held lease keeps the timeline and touches no other row.
LEMMA SettleTimeline ==
    ASSUME TypeOK, Timeline, NEW k \in 1 .. rows, Held(k),
           NEW o \in {"seeded", "skipped", "failed"},
           leases' = SettleRow(k, o), rows' = rows
    PROVE  /\ leases' \in [LeaseId -> LeaseRow]
           /\ Timeline'
           /\ \A l \in LeaseId : l # k => leases'[l] = leases[l]
           /\ leases'[k].run = leases[k].run
           /\ leases'[k].identity = leases[k].identity
           /\ leases'[k].acquired = leases[k].acquired
           /\ leases'[k].cool = leases[k].cool
<1>1. 1 .. rows \subseteq LeaseId /\ k \in LeaseId
  BY TimeAssumption DEF TypeOK, LeaseId
<1>2. leases[k] \in LeaseRow /\ leases[k].released = NoTime
  BY <1>1 DEF TypeOK, Timeline, WellFormed, Held
<1>3. \A l \in LeaseId : l # k => leases'[l] = leases[l]
  BY <1>1 DEF SettleRow, TypeOK
<1>4. leases'[k] = IF o = "failed"
                   THEN [EndAt(leases[k], "failed", Now) EXCEPT !.seed = "failed"]
                   ELSE [leases[k] EXCEPT !.seed = o]
  BY <1>1 DEF SettleRow, TypeOK
<1>5. /\ leases'[k] \in LeaseRow
      /\ leases'[k].run = leases[k].run
      /\ leases'[k].identity = leases[k].identity
      /\ leases'[k].acquired = leases[k].acquired
      /\ leases'[k].cool = leases[k].cool
      /\ \/ leases'[k].state = "held" /\ leases'[k].released = NoTime
         \/ /\ leases'[k].state = "failed" /\ leases'[k].released \in Nat
            /\ leases'[k].acquired <= leases'[k].released
  <2>1. CASE o = "failed"
    <3> DEFINE ended == EndAt(leases[k], "failed", Now)
    <3>0. Now \in Nat /\ "failed" \in LeaseStates
      BY NowType DEF LeaseStates
    <3>1. /\ ended \in LeaseRow /\ ended.state = "failed"
          /\ ended.run = leases[k].run /\ ended.identity = leases[k].identity
          /\ ended.acquired = leases[k].acquired /\ ended.cool = leases[k].cool
          /\ ended.released \in Nat /\ leases[k].acquired <= ended.released
      BY <1>2, <3>0, EndAtRow
    <3>2. leases'[k] = [ended EXCEPT !.seed = "failed"]
      BY <1>4, <2>1
    <3> HIDE DEF ended
    <3> QED
      BY <3>1, <3>2 DEF LeaseRow, SeedStates
  <2>2. CASE o # "failed"
    <3>1. leases'[k] = [leases[k] EXCEPT !.seed = o]
      BY <1>4, <2>2
    <3>2. leases[k].state = "held"
      BY DEF Held
    <3> QED
      BY <1>2, <2>2, <3>1, <3>2 DEF LeaseRow, SeedStates
  <2> QED
    BY <2>1, <2>2
<1>6. leases' \in [LeaseId -> LeaseRow]
  BY <1>1, <1>3, <1>5 DEF SettleRow, TypeOK
<1>7. Filled'
  <2>1. \A l \in LeaseId : ~(l \in 1 .. rows) => l # k
    OBVIOUS
  <2> QED
    BY <1>1, <1>3, <1>5, <2>1 DEF Timeline, Filled
<1>8. WellFormed'
  BY <1>1, <1>3, <1>5 DEF Timeline, WellFormed, NoTime
<1>9. Ordered'
  <2> SUFFICES ASSUME NEW l \in 1 .. rows, NEW m \in 1 .. rows, l < m,
                      leases'[l].identity = leases'[m].identity
               PROVE  /\ leases'[l].released # NoTime
                      /\ leases'[l].released <= leases'[m].acquired
    BY DEF Ordered
  <2>1. leases[l].identity = leases[m].identity
    BY <1>1, <1>3, <1>5
  <2>2. leases[l].released # NoTime /\ leases[l].released <= leases[m].acquired
    BY <2>1 DEF Timeline, Ordered
  <2>3. l # k
    BY <1>2, <2>2
  <2> QED
    BY <1>1, <1>3, <1>5, <2>2, <2>3
<1> QED
  BY <1>3, <1>5, <1>6, <1>7, <1>8, <1>9 DEF Timeline

-----------------------------------------------------------------------------
(* The inductive invariant.                                                *)

LEMMA InitIInv == Init => IInv
<1> SUFFICES ASSUME Init PROVE IInv
  OBVIOUS
<1>1. TypeOK
  <2>1. NoLease \in LeaseRow
    BY DEF NoLease, LeaseRow, LeaseStates, SeedStates
  <2>2. NoRun \in RunRow
    BY DEF NoRun, RunRow, RunStates
  <2>3. Idle \in Call
    BY TimeAssumption DEF Idle, Call
  <2>4. serving \in BOOLEAN /\ minted \subseteq Ephemeral
    BY Zenon DEF Init
  <2>5. /\ runs \in [Run -> RunRow]
        /\ leases \in [LeaseId -> LeaseRow]
        /\ calls \in [Caller -> Call]
        /\ cooldown \in [Identity -> Nat \cup {NoTime}]
    BY <2>1, <2>2, <2>3 DEF Init
  <2>6. /\ wall \in Nat /\ lastNow \in Nat \cup {NoTime}
        /\ sweep \in {"idle", "leases"}
        /\ crashes \in Nat /\ stepBacks \in Nat /\ rows \in 0 .. MaxLeases
    BY TimeAssumption DEF Init
  <2> QED
    BY <2>4, <2>5, <2>6 DEF TypeOK
<1>2. Timeline
  BY DEF Init, Timeline, Filled, WellFormed, Ordered
<1>3. CallsOK
  <2>1. \A c \in Caller : calls[c].pc = "idle"
    BY DEF Init, Idle
  <2> QED
    BY <2>1 DEF CallsOK
<1>4. RunsOK
  BY DEF Init, RunsOK
<1> QED
  BY <1>1, <1>2, <1>3, <1>4 DEF IInv

\* Steps that leave the lease table alone need only look at the calls.
LEMMA SameLeases ==
    ASSUME IInv, UNCHANGED <<leases, rows, runs>>, TypeOK', CallsOK'
    PROVE  IInv'
  BY DEF IInv, Timeline, Filled, WellFormed, Ordered, RunsOK, Held

\* A call that returns leaves CallsOK to the calls that remain, provided the
\* rows they are seeding stay pending.
LEMMA ReturnCalls ==
    ASSUME IInv, NEW c \in Caller, Return(c), rows' = rows,
           \A d \in Caller : d # c /\ calls[d].pc = "seed" =>
               leases'[calls[d].lease].seed = leases[calls[d].lease].seed
    PROVE  CallsOK' /\ calls' \in [Caller -> Call]
<1>1. calls' = [calls EXCEPT ![c] = Idle] /\ calls \in [Caller -> Call]
  BY DEF Return, IInv, TypeOK
<1>2. Idle \in Call /\ Idle.pc = "idle"
  BY TimeAssumption DEF Idle, Call
<1>3. calls' \in [Caller -> Call]
  BY <1>1, <1>2
<1>4. calls'[c].pc = "idle" /\ \A d \in Caller : d # c => calls'[d] = calls[d]
  BY <1>1, <1>2
<1>5. CallsOK'
  BY <1>4 DEF IInv, CallsOK
<1> QED
  BY <1>3, <1>5

\* The same for a step that leaves every call where it is.
LEMMA SameCalls ==
    ASSUME IInv, UNCHANGED <<calls, rows>>,
           \A d \in Caller : calls[d].pc = "seed" =>
               leases'[calls[d].lease].seed = leases[calls[d].lease].seed
    PROVE  CallsOK'
  BY DEF IInv, CallsOK

\* A reserved lease is handed to the call that seeds it.
LEMMA SeedingCalls ==
    ASSUME IInv, NEW c \in Caller, NEW r \in Run, Seeding(c, r),
           rows' = rows + 1, rows + 1 \in LeaseId,
           \A l \in LeaseId : l # rows + 1 => leases'[l] = leases[l],
           leases'[rows + 1].seed = "pending"
    PROVE  CallsOK' /\ calls' \in [Caller -> Call]
<1> DEFINE call == [Idle EXCEPT !.pc = "seed", !.run = r, !.lease = rows + 1]
<1>1. calls' = [calls EXCEPT ![c] = call] /\ calls \in [Caller -> Call]
  BY DEF Seeding, IInv, TypeOK
<1>2. call \in Call /\ call.pc = "seed" /\ call.lease = rows + 1
  <2>1. Idle \in Call /\ Idle.pc = "idle"
    BY TimeAssumption DEF Idle, Call
  <2>2. rows + 1 \in 0 .. MaxLeases
    BY TimeAssumption DEF LeaseId
  <2>3. call = [Idle EXCEPT !.pc = "seed", !.run = r, !.lease = rows + 1]
    OBVIOUS
  <2> HIDE DEF call
  <2> QED
    BY <2>1, <2>2, <2>3 DEF Call
<1> HIDE DEF call
<1>3. calls' \in [Caller -> Call]
  BY <1>1, <1>2
<1>4. calls'[c] = call /\ \A d \in Caller : d # c => calls'[d] = calls[d]
  BY <1>1
<1>5. 1 .. rows \subseteq LeaseId /\ 1 .. rows \subseteq 1 .. rows'
      /\ rows + 1 \in 1 .. rows' /\ ~(rows + 1 \in 1 .. rows)
  BY TimeAssumption DEF IInv, TypeOK, LeaseId
<1>6. \A l \in 1 .. rows : leases'[l] = leases[l]
  BY <1>5
<1>7. CallsOK'
  BY <1>2, <1>4, <1>5, <1>6 DEF IInv, CallsOK
<1> QED
  BY <1>3, <1>7

-----------------------------------------------------------------------------
(* One lemma per group of actions.                                         *)

LEMMA RowsAreIds ==
    ASSUME TypeOK
    PROVE  /\ 1 .. rows \subseteq LeaseId
           /\ \A l \in 1 .. rows : leases[l] \in LeaseRow
  BY TimeAssumption DEF TypeOK, LeaseId

LEMMA EnvironmentStep ==
    ASSUME IInv, Advance \/ StepBack \/ OtherStamp \/ Crash
    PROVE  IInv'
<1>1. TypeOK /\ CallsOK
  BY DEF IInv
<1>2. CASE Advance \/ StepBack \/ OtherStamp
  <2>1. UNCHANGED <<procVars, tableVars, calls>>
    BY <1>2 DEF Advance, StepBack, OtherStamp
  <2>2. wall' \in Nat /\ stepBacks' \in Nat /\ lastNow' \in Nat \cup {NoTime}
    BY <1>1, <1>2, NowType, TimeAssumption
    DEF Advance, StepBack, OtherStamp, Stamp, TypeOK
  <2>3. TypeOK'
    BY <1>1, <2>1, <2>2 DEF TypeOK, procVars, tableVars
  <2>4. CallsOK'
    BY <1>1, <2>1 DEF CallsOK, tableVars
  <2> QED
    BY <2>1, <2>3, <2>4, SameLeases DEF tableVars
<1>3. CASE Crash
  <2>1. /\ serving' = FALSE /\ sweep' = "idle" /\ lastNow' = NoTime
        /\ crashes' = crashes + 1
        /\ calls' = [c \in Caller |-> Idle]
        /\ UNCHANGED <<wall, stepBacks, tableVars>>
    BY <1>3 DEF Crash
  <2>2. Idle \in Call /\ Idle.pc = "idle"
    BY TimeAssumption DEF Idle, Call
  <2>3. calls' \in [Caller -> Call] /\ \A c \in Caller : calls'[c].pc = "idle"
    BY <2>1, <2>2
  <2>4. serving' \in BOOLEAN
    BY <2>1, Zenon
  <2>5. TypeOK'
    BY <1>1, <2>1, <2>3, <2>4 DEF TypeOK, tableVars
  <2>6. CallsOK'
    BY <2>3 DEF CallsOK
  <2> QED
    BY <2>1, <2>5, <2>6, SameLeases DEF tableVars
<1> QED
  BY <1>2, <1>3

LEMMA CreateRunStep ==
    ASSUME IInv, NEW r \in Run, CreateRun(r)
    PROVE  IInv'
<1>1. TypeOK /\ Timeline /\ CallsOK /\ RunsOK
  BY DEF IInv
<1> DEFINE new == [state |-> "active", checkpoint |-> Now, expires |-> Now + RunTTL]
<1>2. /\ runs' = [runs EXCEPT ![r] = new]
      /\ lastNow' = Now
      /\ UNCHANGED <<wall, stepBacks, procVars, minted, cooldown, leases, rows, calls>>
  BY DEF CreateRun, Stamp
<1>3. Now \in Nat /\ Now + RunTTL \in Nat
  BY <1>1, NowType, TimeAssumption
<1>4. new \in RunRow /\ new.state = "active"
  BY <1>3 DEF RunRow, RunStates
<1> HIDE DEF new
<1>5. runs' \in [Run -> RunRow]
  BY <1>1, <1>2, <1>4 DEF TypeOK
<1>6. TypeOK'
  BY <1>1, <1>2, <1>3, <1>5 DEF TypeOK, procVars
<1>7. \A q \in Run : runs[q].state = "active" => runs'[q].state = "active"
  BY <1>1, <1>2, <1>4 DEF TypeOK
<1>8. Timeline' /\ CallsOK'
  BY <1>1, <1>2 DEF Timeline, Filled, WellFormed, Ordered, CallsOK
<1>9. RunsOK'
  BY <1>1, <1>2, <1>7 DEF RunsOK, Held, Timeline, Filled
<1> QED
  BY <1>6, <1>8, <1>9 DEF IInv

\* Rows a seeding call points to keep their seed when leases are only ended.
LEMMA EndHeldCalls ==
    ASSUME IInv, UNCHANGED <<calls, rows>>,
           \A l \in LeaseId : leases'[l].seed = leases[l].seed
    PROVE  CallsOK'
<1>1. \A d \in Caller : calls[d].pc = "seed" => calls[d].lease \in LeaseId
  BY RowsAreIds DEF IInv, CallsOK
<1> QED
  BY <1>1, SameCalls

LEMMA EndRunStep ==
    ASSUME IInv, NEW r \in Run, NEW st \in RunOutcomes, EndRun(r, st)
    PROVE  IInv'
<1>1. TypeOK /\ Timeline /\ CallsOK /\ RunsOK
  BY DEF IInv
<1>2. /\ runs' = [runs EXCEPT ![r].state = st]
      /\ leases' = EndHeld(LeasesOfRuns({r}), "released", Now)
      /\ lastNow' = Now
      /\ UNCHANGED <<wall, stepBacks, procVars, minted, cooldown, rows, calls>>
  BY DEF EndRun, Stamp
<1>3. Now \in Nat
  BY <1>1, NowType
<1>4. /\ leases' \in [LeaseId -> LeaseRow] /\ Timeline'
      /\ \A l \in LeaseId :
            /\ leases'[l].run = leases[l].run
            /\ leases'[l].seed = leases[l].seed
            /\ leases'[l].state = "held" =>
                 leases[l].state = "held" /\ l \notin LeasesOfRuns({r})
  BY <1>1, <1>2, <1>3, EndHeldTimeline
<1>5. runs' \in [Run -> RunRow] /\ \A q \in Run : q # r => runs'[q] = runs[q]
  <2>1. st \in RunStates
    BY SetAssumption DEF RunStates
  <2>2. runs[r] \in RunRow /\ runs \in [Run -> RunRow]
    BY <1>1 DEF TypeOK
  <2>3. [runs[r] EXCEPT !.state = st] \in RunRow
    BY <2>1, <2>2 DEF RunRow
  <2> QED
    BY <1>2, <2>2, <2>3
<1>6. TypeOK'
  BY <1>1, <1>2, <1>3, <1>4, <1>5 DEF TypeOK, procVars
<1>7. CallsOK'
  BY <1>2, <1>4, EndHeldCalls
<1>8. RunsOK'
  <2> SUFFICES ASSUME NEW l \in 1 .. rows, leases'[l].state = "held"
               PROVE  runs'[leases'[l].run].state = "active"
    BY <1>2 DEF RunsOK, Held
  <2>1. l \in LeaseId /\ leases[l].run \in Run
    BY <1>1, RowsAreIds DEF Timeline, Filled
  <2>2. leases[l].state = "held" /\ leases[l].run # r /\ leases'[l].run = leases[l].run
    BY <1>4, <2>1 DEF LeasesOfRuns
  <2> QED
    BY <1>1, <1>5, <2>1, <2>2 DEF RunsOK, Held
<1> QED
  BY <1>4, <1>6, <1>7, <1>8 DEF IInv

\* The two reserving actions share everything but where the identity comes from.
LEMMA AcquireStep ==
    ASSUME IInv, NEW c \in Caller, NEW r \in Run, NEW i \in Identity,
           NEW start \in Nat, AcquireLease(r, i, start), Seeding(c, r),
           UNCHANGED <<wall, stepBacks, procVars, runs, cooldown>>,
           minted' \subseteq Ephemeral
    PROVE  IInv'
<1>1. TypeOK /\ Timeline /\ CallsOK /\ RunsOK
  BY DEF IInv
<1>2. /\ leases' \in [LeaseId -> LeaseRow] /\ rows' \in 0 .. MaxLeases
      /\ rows' = rows + 1 /\ rows + 1 \in LeaseId
      /\ lastNow' \in Nat
      /\ Timeline'
      /\ \A l \in LeaseId : l # rows + 1 => leases'[l] = leases[l]
      /\ leases'[rows + 1].run = r /\ leases'[rows + 1].seed = "pending"
  BY <1>1, AcquireTimeline
<1>3. CallsOK' /\ calls' \in [Caller -> Call]
  BY <1>2, SeedingCalls
<1>4. TypeOK'
  BY <1>1, <1>2, <1>3 DEF TypeOK, procVars
<1>5. RunsOK'
  <2> SUFFICES ASSUME NEW l \in 1 .. rows', leases'[l].state = "held"
               PROVE  runs'[leases'[l].run].state = "active"
    BY DEF RunsOK, Held
  <2>1. CASE l = rows + 1
    BY <1>2, <2>1 DEF AcquireLease
  <2>2. CASE l # rows + 1
    <3>1. l \in 1 .. rows
      BY <1>1, <1>2, <2>2 DEF TypeOK
    <3>2. leases'[l] = leases[l]
      BY <1>1, <1>2, <2>2, <3>1, RowsAreIds
    <3> QED
      BY <1>1, <3>1, <3>2 DEF RunsOK, Held
  <2> QED
    BY <2>1, <2>2
<1> QED
  BY <1>2, <1>3, <1>4, <1>5 DEF IInv

LEMMA ReserveStep ==
    ASSUME IInv, NEW c \in Caller,
           \/ \E r \in Run, i \in Ephemeral : ReserveEphemeral(c, r, i)
           \/ ReservePooled(c)
    PROVE  IInv'
<1>1. CASE \E r \in Run, i \in Ephemeral : ReserveEphemeral(c, r, i)
  <2>1. PICK r \in Run, i \in Ephemeral : ReserveEphemeral(c, r, i)
    BY <1>1
  <2>2. PICK start \in 0 .. MaxStamp : AcquireLease(r, i, start)
    BY <2>1 DEF ReserveEphemeral
  <2>3. start \in Nat /\ i \in Identity
    BY TimeAssumption DEF Identity
  <2>4. /\ Seeding(c, r) /\ minted' = minted \cup {i}
        /\ UNCHANGED <<wall, stepBacks, procVars, runs, cooldown>>
    BY <2>1 DEF ReserveEphemeral
  <2>5. minted' \subseteq Ephemeral
    BY <2>4 DEF IInv, TypeOK
  <2> QED
    BY <2>2, <2>3, <2>4, <2>5, AcquireStep
<1>2. CASE ReservePooled(c)
  <2>1. calls[c].run \in Run /\ calls[c].next \in Nat /\ calls[c].next >= 1
        /\ calls[c].next <= Len(Pool)
    BY <1>2 DEF ReservePooled, Walking, IInv, CallsOK, TypeOK, Call
  <2>2. Candidate(c) \in Identity
    <3>1. calls[c].next \in DOMAIN Pool
      BY <2>1, SetAssumption
    <3> QED
      BY <3>1 DEF Candidate, Identity, Pooled
  <2>3. PICK start \in 0 .. MaxStamp :
           AcquireLease(calls[c].run, Candidate(c), start)
    BY <1>2 DEF ReservePooled
  <2>4. start \in Nat
    BY TimeAssumption
  <2>5. /\ Seeding(c, calls[c].run)
        /\ UNCHANGED <<wall, stepBacks, procVars, runs, minted, cooldown>>
    BY <1>2 DEF ReservePooled
  <2>6. minted' \subseteq Ephemeral
    BY <2>5 DEF IInv, TypeOK
  <2> QED
    BY <2>1, <2>2, <2>3, <2>4, <2>5, <2>6, AcquireStep
<1> QED
  BY <1>1, <1>2

\* Steps of a call that write no row.
LEMMA CallStep ==
    ASSUME IInv, NEW c \in Caller,
           \/ \E r \in Run : ListPool(c, r)
           \/ SkipCandidate(c) \/ RefuseAcquire(c) \/ Cancel(c)
           \/ \E l \in LeaseId : BeginRelease(c, l)
    PROVE  IInv'
<1>1. UNCHANGED <<clockVars, procVars, tableVars>> /\ TypeOK /\ CallsOK
  BY DEF ListPool, SkipCandidate, RefuseAcquire, Cancel, BeginRelease, IInv
<1>2. CASE RefuseAcquire(c) \/ Cancel(c)
  <2>1. Return(c)
    BY <1>2 DEF RefuseAcquire, Cancel
  <2>2. CallsOK' /\ calls' \in [Caller -> Call]
    BY <1>1, <2>1, ReturnCalls DEF tableVars
  <2>3. TypeOK'
    BY <1>1, <2>2 DEF TypeOK, clockVars, procVars, tableVars
  <2> QED
    BY <1>1, <2>2, <2>3, SameLeases DEF tableVars
<1>3. ASSUME NEW call \in Call, calls' = [calls EXCEPT ![c] = call],
             call.pc \in {"walk", "release"},
             call.pc = "release" => call.lease \in 1 .. rows,
             call.pc = "walk" => call.run \in Run /\ call.next >= 1
      PROVE  IInv'
  <2>1. calls' \in [Caller -> Call]
    BY <1>1, <1>3 DEF TypeOK
  <2>2. calls'[c] = call /\ \A d \in Caller : d # c => calls'[d] = calls[d]
    BY <1>1, <1>3 DEF TypeOK
  <2>3. CallsOK'
    BY <1>1, <1>3, <2>2 DEF CallsOK, tableVars
  <2>4. TypeOK'
    BY <1>1, <2>1 DEF TypeOK, clockVars, procVars, tableVars
  <2> QED
    BY <1>1, <2>3, <2>4, SameLeases DEF tableVars
<1>4. CASE \E r \in Run : ListPool(c, r)
  <2>1. PICK r \in Run : ListPool(c, r)
    BY <1>4
  <2> DEFINE cooling == {i \in Pooled : cooldown[i] # NoTime /\ wall < cooldown[i]}
             call == [pc |-> "walk", run |-> r, next |-> 1, lease |-> 0, skip |-> cooling]
  <2>2. calls' = [calls EXCEPT ![c] = call] /\ cooling \in SUBSET Pooled
    BY <2>1 DEF ListPool
  <2> HIDE DEF cooling
  <2>3. call \in Call /\ call.pc = "walk" /\ call.run \in Run /\ call.next >= 1
    BY <2>2, TimeAssumption DEF Call
  <2> HIDE DEF call
  <2> QED
    BY <1>3, <2>2, <2>3
<1>5. CASE SkipCandidate(c)
  <2> DEFINE call == [calls[c] EXCEPT !.next = @ + 1]
  <2>1. calls' = [calls EXCEPT ![c] = call] /\ calls[c].pc = "walk"
    BY <1>5 DEF SkipCandidate, Walking
  <2>2. calls[c] \in Call /\ calls[c].run \in Run /\ calls[c].next \in Nat
    BY <1>1, <2>1 DEF TypeOK, CallsOK, Call
  <2>3. call \in Call /\ call.pc = "walk" /\ call.run \in Run /\ call.next >= 1
    BY <2>1, <2>2 DEF Call
  <2> HIDE DEF call
  <2> QED
    BY <1>3, <2>1, <2>3
<1>6. CASE \E l \in LeaseId : BeginRelease(c, l)
  <2>1. PICK l \in LeaseId : BeginRelease(c, l)
    BY <1>6
  <2> DEFINE call == [Idle EXCEPT !.pc = "release", !.lease = l]
  <2>2. calls' = [calls EXCEPT ![c] = call] /\ l \in 1 .. rows
    BY <2>1 DEF BeginRelease
  <2>3. Idle \in Call
    BY TimeAssumption DEF Idle, Call
  <2>4. l \in 0 .. MaxLeases
    BY TimeAssumption DEF LeaseId
  <2>5. call = [Idle EXCEPT !.pc = "release", !.lease = l]
    OBVIOUS
  <2> HIDE DEF call
  <2>6. call \in Call /\ call.pc = "release" /\ call.lease = l
    BY <2>3, <2>4, <2>5 DEF Call
  <2> QED
    BY <1>3, <2>2, <2>6
<1> QED
  BY <1>2, <1>4, <1>5, <1>6

LEMMA SettleStep ==
    ASSUME IInv, NEW c \in Caller, NEW o \in SeedOutcomes, Settle(c, o)
    PROVE  IInv'
<1> DEFINE k == calls[c].lease
<1>1. TypeOK /\ Timeline /\ CallsOK /\ RunsOK
  BY DEF IInv
<1>2. /\ calls[c].pc = "seed" /\ Return(c)
      /\ UNCHANGED <<wall, stepBacks, procVars, runs, minted, rows>>
  BY DEF Settle
<1>3. k \in 1 .. rows /\ k \in LeaseId
  BY <1>1, <1>2, RowsAreIds DEF CallsOK
<1>4. CASE ~Held(k)
  <2>1. UNCHANGED <<leases, cooldown, lastNow>>
    BY <1>4 DEF Settle
  <2>2. CallsOK' /\ calls' \in [Caller -> Call]
    BY <1>2, <2>1, ReturnCalls
  <2>3. TypeOK'
    BY <1>1, <1>2, <2>1, <2>2 DEF TypeOK, procVars
  <2> QED
    BY <1>2, <2>1, <2>2, <2>3, SameLeases
<1>5. CASE Held(k)
  <2>1. /\ leases' = SettleRow(k, o) /\ lastNow' = Now
        /\ \/ cooldown' = cooldown
           \/ cooldown' = [cooldown EXCEPT ![leases[k].identity] = wall + Cooldown]
    BY <1>5 DEF Settle, Stamp
  <2>2. o \in {"seeded", "skipped", "failed"}
    BY SetAssumption
  <2>3. /\ leases' \in [LeaseId -> LeaseRow] /\ Timeline'
        /\ \A l \in LeaseId : l # k => leases'[l] = leases[l]
        /\ leases'[k].run = leases[k].run
    BY <1>1, <1>2, <1>3, <1>5, <2>1, <2>2, SettleTimeline
  <2>4. \A d \in Caller : d # c /\ calls[d].pc = "seed" =>
           leases'[calls[d].lease].seed = leases[calls[d].lease].seed
    BY <1>1, <1>2, <2>3, RowsAreIds DEF CallsOK
  <2>5. CallsOK' /\ calls' \in [Caller -> Call]
    BY <1>2, <2>4, ReturnCalls
  <2>6. cooldown' \in [Identity -> Nat \cup {NoTime}] /\ Now \in Nat
    BY <1>1, <2>1, NowType, TimeAssumption DEF TypeOK
  <2>7. TypeOK'
    BY <1>1, <1>2, <2>1, <2>3, <2>5, <2>6 DEF TypeOK, procVars
  <2>8. RunsOK'
    <3> SUFFICES ASSUME NEW l \in 1 .. rows, leases'[l].state = "held"
                 PROVE  runs[leases'[l].run].state = "active"
      BY <1>2 DEF RunsOK, Held
    <3>1. leases'[l].run = leases[l].run /\ leases[l].state = "held"
      BY <1>1, <1>5, <2>3, RowsAreIds DEF Held
    <3> QED
      BY <1>1, <3>1 DEF RunsOK, Held
  <2> QED
    BY <2>3, <2>5, <2>7, <2>8 DEF IInv
<1> QED
  BY <1>4, <1>5

LEMMA ReleaseStep ==
    ASSUME IInv, NEW c \in Caller, Release(c)
    PROVE  IInv'
<1> DEFINE k == calls[c].lease
<1>1. TypeOK /\ Timeline /\ CallsOK /\ RunsOK
  BY DEF IInv
<1>2. /\ calls[c].pc = "release" /\ Return(c) /\ lastNow' = Now
      /\ leases' = EndHeld({k}, "released", Now)
      /\ \/ cooldown' = cooldown
         \/ cooldown' = [cooldown EXCEPT ![leases[k].identity] = wall + Cooldown]
      /\ UNCHANGED <<wall, stepBacks, procVars, runs, minted, rows>>
  BY DEF Release, Stamp
<1>3. Now \in Nat
  BY <1>1, NowType
<1>4. /\ leases' \in [LeaseId -> LeaseRow] /\ Timeline'
      /\ \A l \in LeaseId :
            /\ leases'[l].run = leases[l].run
            /\ leases'[l].seed = leases[l].seed
            /\ leases'[l].state = "held" => leases[l].state = "held"
  BY <1>1, <1>2, <1>3, EndHeldTimeline
<1>5. \A d \in Caller : d # c /\ calls[d].pc = "seed" =>
         leases'[calls[d].lease].seed = leases[calls[d].lease].seed
  BY <1>1, <1>4, RowsAreIds DEF CallsOK
<1>6. CallsOK' /\ calls' \in [Caller -> Call]
  BY <1>2, <1>5, ReturnCalls
<1>7. cooldown' \in [Identity -> Nat \cup {NoTime}]
  BY <1>1, <1>2, TimeAssumption DEF TypeOK
<1>8. TypeOK'
  BY <1>1, <1>2, <1>3, <1>4, <1>6, <1>7 DEF TypeOK, procVars
<1>9. RunsOK'
  BY <1>1, <1>2, <1>4, RowsAreIds DEF RunsOK, Held
<1> QED
  BY <1>4, <1>6, <1>8, <1>9 DEF IInv

LEMMA ExpireRunsStep ==
    ASSUME IInv, ExpireRuns
    PROVE  IInv'
<1> DEFINE E == ExpiredRuns(Now)
<1>1. TypeOK /\ Timeline /\ CallsOK /\ RunsOK
  BY DEF IInv
<1>2. /\ sweep' = "leases"
      /\ UNCHANGED <<wall, stepBacks, serving, crashes, minted, cooldown, rows, calls>>
  BY DEF ExpireRuns
<1>3. CASE E = {}
  <2>1. UNCHANGED <<runs, leases, lastNow>>
    BY <1>3 DEF ExpireRuns
  <2>2. TypeOK' /\ CallsOK'
    BY <1>1, <1>2, <2>1 DEF TypeOK, CallsOK
  <2> QED
    BY <1>2, <2>1, <2>2, SameLeases
<1>4. CASE E # {}
  <2>1. /\ runs' = [r \in Run |-> IF r \in E
                                  THEN [runs[r] EXCEPT !.state = "expired"]
                                  ELSE runs[r]]
        /\ leases' = EndHeld(LeasesOfRuns(E), "released", StampAfter(Now))
        /\ lastNow' = StampAfter(Now)
    BY <1>4 DEF ExpireRuns
  <2> HIDE DEF E
  <2>2. StampAfter(Now) \in Nat
    BY <1>1, NowType
  <2>3. /\ leases' \in [LeaseId -> LeaseRow] /\ Timeline'
        /\ \A l \in LeaseId :
              /\ leases'[l].run = leases[l].run
              /\ leases'[l].seed = leases[l].seed
              /\ leases'[l].state = "held" =>
                   leases[l].state = "held" /\ l \notin LeasesOfRuns(E)
    BY <1>1, <1>2, <2>1, <2>2, EndHeldTimeline
  <2>4. runs' \in [Run -> RunRow]
    <3>1. \A r \in Run : runs[r] \in RunRow
                         /\ [runs[r] EXCEPT !.state = "expired"] \in RunRow
      BY <1>1 DEF TypeOK, RunRow, RunStates
    <3> QED
      BY <2>1, <3>1
  <2>5. TypeOK'
    BY <1>1, <1>2, <2>1, <2>2, <2>3, <2>4 DEF TypeOK
  <2>6. CallsOK'
    BY <1>2, <2>3, EndHeldCalls
  <2>7. RunsOK'
    <3> SUFFICES ASSUME NEW l \in 1 .. rows, leases'[l].state = "held"
                 PROVE  runs'[leases'[l].run].state = "active"
      BY <1>2 DEF RunsOK, Held
    <3>1. l \in LeaseId /\ leases[l].run \in Run
      BY <1>1, RowsAreIds DEF Timeline, Filled
    <3>2. /\ leases[l].state = "held" /\ leases[l].run \notin E
          /\ leases'[l].run = leases[l].run
      BY <2>3, <3>1 DEF LeasesOfRuns
    <3> QED
      BY <1>1, <2>1, <3>1, <3>2 DEF RunsOK, Held
  <2> QED
    BY <2>3, <2>5, <2>6, <2>7 DEF IInv
<1> QED
  BY <1>3, <1>4

LEMMA ExpireLeasesStep ==
    ASSUME IInv, ExpireLeases
    PROVE  IInv'
<1> DEFINE cutoff == StampAfter(Now)
<1>1. TypeOK /\ Timeline /\ CallsOK /\ RunsOK
  BY DEF IInv
<1>2. /\ sweep' = "idle" /\ serving' = TRUE
      /\ UNCHANGED <<wall, stepBacks, crashes, runs, minted, cooldown, rows, calls>>
  BY DEF ExpireLeases
<1>3. serving' \in BOOLEAN
  BY <1>2, Zenon
<1>4. CASE ExpiredLeases(cutoff) = {}
  <2>1. UNCHANGED <<leases, lastNow>>
    BY <1>4 DEF ExpireLeases
  <2>2. TypeOK' /\ CallsOK'
    BY <1>1, <1>2, <1>3, <2>1 DEF TypeOK, CallsOK
  <2> QED
    BY <1>2, <2>1, <2>2, SameLeases
<1>5. CASE ExpiredLeases(cutoff) # {}
  <2>1. leases' = EndHeld(ExpiredLeases(cutoff), "expired", Now) /\ lastNow' = cutoff
    BY <1>5 DEF ExpireLeases
  <2>2. Now \in Nat /\ cutoff \in Nat
    BY <1>1, NowType
  <2>3. /\ leases' \in [LeaseId -> LeaseRow] /\ Timeline'
        /\ \A l \in LeaseId :
              /\ leases'[l].run = leases[l].run
              /\ leases'[l].seed = leases[l].seed
              /\ leases'[l].state = "held" => leases[l].state = "held"
    BY <1>1, <1>2, <2>1, <2>2, EndHeldTimeline
  <2> HIDE DEF cutoff
  <2>4. TypeOK'
    BY <1>1, <1>2, <1>3, <2>1, <2>2, <2>3 DEF TypeOK
  <2>5. CallsOK'
    BY <1>2, <2>3, EndHeldCalls
  <2>6. RunsOK'
    BY <1>1, <1>2, <2>3, RowsAreIds DEF RunsOK, Held
  <2> QED
    BY <2>3, <2>4, <2>5, <2>6 DEF IInv
<1> QED
  BY <1>4, <1>5

LEMMA NextIInv == IInv /\ [Next]_vars => IInv'
<1> SUFFICES ASSUME IInv, [Next]_vars PROVE IInv'
  OBVIOUS
<1>1. CASE Advance \/ StepBack \/ OtherStamp \/ Crash
  BY <1>1, EnvironmentStep
<1>2. CASE ExpireRuns
  BY <1>2, ExpireRunsStep
<1>3. CASE ExpireLeases
  BY <1>3, ExpireLeasesStep
<1>4. CASE \E r \in Run : CreateRun(r) \/ \E s \in RunOutcomes : EndRun(r, s)
  BY <1>4, CreateRunStep, EndRunStep
<1>5. ASSUME NEW c \in Caller,
             \/ \E r \in Run : ListPool(c, r)
             \/ SkipCandidate(c) \/ RefuseAcquire(c) \/ Cancel(c)
             \/ \E l \in LeaseId : BeginRelease(c, l)
      PROVE  IInv'
  BY <1>5, CallStep
<1>6. ASSUME NEW c \in Caller,
             \/ \E r \in Run, i \in Ephemeral : ReserveEphemeral(c, r, i)
             \/ ReservePooled(c)
      PROVE  IInv'
  BY <1>6, ReserveStep
<1>7. ASSUME NEW c \in Caller, (\E o \in SeedOutcomes : Settle(c, o)) \/ Release(c)
      PROVE  IInv'
  BY <1>7, SettleStep, ReleaseStep
<1>8. CASE UNCHANGED vars
  <2>1. UNCHANGED <<wall, lastNow, stepBacks, serving, sweep, crashes, runs,
                    minted, cooldown, leases, rows, calls>>
    BY <1>8 DEF vars, clockVars, procVars, tableVars
  <2>2. TypeOK' /\ CallsOK'
    BY <2>1 DEF IInv, TypeOK, CallsOK
  <2> QED
    BY <2>1, <2>2, SameLeases
<1> QED
  BY <1>1, <1>2, <1>3, <1>4, <1>5, <1>6, <1>7, <1>8 DEF Next

\* The inductive invariant holds in every reachable state.
THEOREM Invariance == Spec => []IInv
  BY InitIInv, NextIInv, PTL DEF Spec

-----------------------------------------------------------------------------
(* What the tables promise.                                                *)

\* Store types: every row of runs, identities and leases, and every call in
\* flight, keeps the shape the schema gives it.
THEOREM TypeCorrect == Spec => []TypeOK
<1>1. IInv => TypeOK
  BY DEF IInv
<1> QED
  BY <1>1, Invariance, PTL

\* leases_one_held_per_identity, AcquireLease: an identity is never held
\* by two leases.
THEOREM Exclusive == Spec => []OneHeldPerIdentity
<1>1. ASSUME IInv PROVE OneHeldPerIdentity
  <2> SUFFICES ASSUME NEW l \in LeaseId, NEW m \in LeaseId, Held(l), Held(m),
                      leases[l].identity = leases[m].identity
               PROVE  l = m
    BY DEF OneHeldPerIdentity
  <2>1. l \in 1 .. rows /\ m \in 1 .. rows
    BY <1>1 DEF IInv, Timeline, Filled, Held, NoLease
  <2>2. leases[l].released = NoTime /\ leases[m].released = NoTime
    BY <1>1, <2>1 DEF IInv, Timeline, WellFormed, Held
  <2>3. ~(l < m) /\ ~(m < l)
    BY <1>1, <2>1, <2>2 DEF IInv, Timeline, Ordered
  <2> QED
    BY <2>1, <2>3
<1> QED
  BY <1>1, Invariance, PTL

\* leaseStart and leaseEnd: no instant, however the clock moved, lies in the
\* intervals of two leases of one identity.
THEOREM Disjoint == Spec => []OneOwnerPerInstant
<1>1. ASSUME IInv PROVE OneOwnerPerInstant
  <2> SUFFICES ASSUME NEW l \in LeaseId, NEW m \in LeaseId, NEW t \in 0 .. MaxStamp,
                      Owns(l, t), Owns(m, t),
                      leases[l].identity = leases[m].identity
               PROVE  l = m
    BY DEF OneOwnerPerInstant
  <2>1. /\ l \in 1 .. rows /\ m \in 1 .. rows /\ t \in Int
        /\ leases[l].acquired \in Nat /\ leases[m].acquired \in Nat
        /\ leases[l].released \in Nat \cup {NoTime}
        /\ leases[m].released \in Nat \cup {NoTime}
    BY <1>1, RowsAreIds DEF Owns, Exists, IInv, LeaseRow
  <2>2. /\ leases[l].acquired <= t
        /\ leases[l].released = NoTime \/ t < leases[l].released
        /\ leases[m].acquired <= t
        /\ leases[m].released = NoTime \/ t < leases[m].released
    BY DEF Owns
  <2>3. ~(l < m)
    BY <1>1, <2>1, <2>2 DEF IInv, Timeline, Ordered, NoTime
  <2>4. ~(m < l)
    BY <1>1, <2>1, <2>2 DEF IInv, Timeline, Ordered, NoTime
  <2> QED
    BY <2>1, <2>3, <2>4
<1> QED
  BY <1>1, Invariance, PTL

\* EndRun, ExpireRuns, AcquireLease: a run that has ended holds nothing.
THEOREM EndedRunsHoldNothing == Spec => []EndedRunHoldsNothing
<1>1. ASSUME IInv PROVE EndedRunHoldsNothing
  <2> SUFFICES ASSUME NEW l \in LeaseId, Held(l)
               PROVE  runs[leases[l].run].state = "active"
    BY DEF EndedRunHoldsNothing
  <2>1. l \in 1 .. rows
    BY <1>1 DEF IInv, Timeline, Filled, Held, NoLease
  <2> QED
    BY <1>1, <2>1 DEF IInv, RunsOK
<1> QED
  BY <1>1, Invariance, PTL

\* One step keeps the history of every row.
LEMMA HistoryStep ==
    ASSUME IInv, Next
    PROVE  \A l \in 1 .. rows : KeepsHistory(l)
<1>1. TypeOK /\ Timeline /\ CallsOK
  BY DEF IInv
<1>2. ASSUME UNCHANGED leases PROVE \A l \in 1 .. rows : KeepsHistory(l)
  BY <1>2 DEF KeepsHistory
<1>3. ASSUME NEW S, NEW st \in {"released", "expired"}, NEW at \in Nat,
             leases' = EndHeld(S, st, at), rows' = rows
      PROVE  \A l \in 1 .. rows : KeepsHistory(l)
  <2>1. \A l \in LeaseId :
           /\ leases'[l].run = leases[l].run
           /\ leases'[l].identity = leases[l].identity
           /\ leases'[l].acquired = leases[l].acquired
           /\ leases'[l].cool = leases[l].cool
           /\ leases'[l].seed = leases[l].seed
           /\ leases[l].state # "held" => leases'[l] = leases[l]
    BY <1>1, <1>3, EndHeldTimeline
  <2> QED
    BY <1>1, <2>1, RowsAreIds DEF KeepsHistory
<1>4. ASSUME NEW r \in Run, NEW i \in Identity, NEW start \in Nat,
             AcquireLease(r, i, start)
      PROVE  \A l \in 1 .. rows : KeepsHistory(l)
  <2>1. \A l \in LeaseId : l # rows + 1 => leases'[l] = leases[l]
    BY <1>1, <1>4, AcquireTimeline
  <2>2. \A l \in 1 .. rows : l \in LeaseId /\ l # rows + 1
    BY <1>1, RowsAreIds DEF TypeOK
  <2> QED
    BY <2>1, <2>2 DEF KeepsHistory
<1>5. CASE Advance \/ StepBack \/ OtherStamp \/ Crash
  BY <1>2, <1>5 DEF Advance, StepBack, OtherStamp, Crash, tableVars
<1>6. CASE ExpireRuns
  <2>1. rows' = rows /\ StampAfter(Now) \in Nat
    BY <1>1, <1>6, NowType DEF ExpireRuns
  <2>2. \/ UNCHANGED leases
        \/ leases' = EndHeld(LeasesOfRuns(ExpiredRuns(Now)), "released", StampAfter(Now))
    BY <1>6 DEF ExpireRuns
  <2> QED
    BY <1>2, <1>3, <2>1, <2>2
<1>7. CASE ExpireLeases
  <2>1. rows' = rows /\ Now \in Nat
    BY <1>1, <1>7, NowType DEF ExpireLeases
  <2>2. \/ UNCHANGED leases
        \/ leases' = EndHeld(ExpiredLeases(StampAfter(Now)), "expired", Now)
    BY <1>7 DEF ExpireLeases
  <2> QED
    BY <1>2, <1>3, <2>1, <2>2
<1>8. ASSUME NEW r \in Run, CreateRun(r) \/ \E s \in RunOutcomes : EndRun(r, s)
      PROVE  \A l \in 1 .. rows : KeepsHistory(l)
  <2>1. Now \in Nat
    BY <1>1, NowType
  <2>2. \/ UNCHANGED leases
        \/ leases' = EndHeld(LeasesOfRuns({r}), "released", Now) /\ rows' = rows
    BY <1>8 DEF CreateRun, EndRun
  <2> QED
    BY <1>2, <1>3, <2>1, <2>2
<1>9. ASSUME NEW c \in Caller,
             \/ \E r \in Run : ListPool(c, r)
             \/ SkipCandidate(c) \/ RefuseAcquire(c) \/ Cancel(c)
             \/ \E l \in LeaseId : BeginRelease(c, l)
      PROVE  \A l \in 1 .. rows : KeepsHistory(l)
  BY <1>2, <1>9
  DEF ListPool, SkipCandidate, RefuseAcquire, Cancel, BeginRelease, tableVars
<1>10. ASSUME NEW c \in Caller, NEW r \in Run, NEW i \in Ephemeral,
              ReserveEphemeral(c, r, i)
       PROVE  \A l \in 1 .. rows : KeepsHistory(l)
  <2>1. PICK start \in 0 .. MaxStamp : AcquireLease(r, i, start)
    BY <1>10 DEF ReserveEphemeral
  <2>2. start \in Nat /\ i \in Identity
    BY TimeAssumption DEF Identity
  <2> QED
    BY <1>4, <2>1, <2>2
<1>11. ASSUME NEW c \in Caller, ReservePooled(c)
       PROVE  \A l \in 1 .. rows : KeepsHistory(l)
  <2>1. /\ calls[c].run \in Run
        /\ calls[c].next \in Nat /\ calls[c].next >= 1 /\ calls[c].next <= Len(Pool)
    BY <1>1, <1>11 DEF ReservePooled, Walking, CallsOK, TypeOK, Call
  <2>2. calls[c].next \in DOMAIN Pool
    BY <2>1, SetAssumption
  <2>3. Candidate(c) \in Identity
    BY <2>2 DEF Candidate, Identity, Pooled
  <2>4. PICK start \in 0 .. MaxStamp : AcquireLease(calls[c].run, Candidate(c), start)
    BY <1>11 DEF ReservePooled
  <2>5. start \in Nat
    BY TimeAssumption
  <2> QED
    BY <1>4, <2>1, <2>3, <2>4, <2>5
<1>12. ASSUME NEW c \in Caller, NEW o \in SeedOutcomes, Settle(c, o)
       PROVE  \A l \in 1 .. rows : KeepsHistory(l)
  <2> DEFINE k == calls[c].lease
  <2>1. calls[c].pc = "seed" /\ rows' = rows
    BY <1>12 DEF Settle
  <2>2. k \in 1 .. rows /\ leases[k].seed = "pending"
    BY <1>1, <2>1 DEF CallsOK
  <2>3. CASE ~Held(k)
    BY <1>2, <1>12, <2>3 DEF Settle
  <2>4. CASE Held(k)
    <3>1. leases' = SettleRow(k, o) /\ o \in {"seeded", "skipped", "failed"}
      BY <1>12, <2>4, SetAssumption DEF Settle
    <3>2. /\ \A l \in LeaseId : l # k => leases'[l] = leases[l]
          /\ leases'[k].run = leases[k].run
          /\ leases'[k].identity = leases[k].identity
          /\ leases'[k].acquired = leases[k].acquired
          /\ leases'[k].cool = leases[k].cool
      BY <1>1, <2>1, <2>2, <2>4, <3>1, SettleTimeline
    <3> QED
      BY <1>1, <2>2, <2>4, <3>2, RowsAreIds DEF KeepsHistory, Held
  <2> QED
    BY <2>3, <2>4
<1>13. ASSUME NEW c \in Caller, Release(c)
       PROVE  \A l \in 1 .. rows : KeepsHistory(l)
  <2>1. /\ leases' = EndHeld({calls[c].lease}, "released", Now)
        /\ rows' = rows /\ Now \in Nat
    BY <1>1, <1>13, NowType DEF Release
  <2> QED
    BY <1>3, <2>1
<1> QED
  BY <1>5, <1>6, <1>7, <1>8, <1>9, <1>10, <1>11, <1>12, <1>13 DEF Next

\* SettleSeed, ReleaseLease, releaseRunLeases and ExpireLeases are guarded on
\* the row they change: no step rewrites how a lease was granted, how it ended
\* or how its seed settled.
THEOREM HistoryKept == Spec => LeaseHistoryKept
<1>1. IInv /\ [Next]_vars => [\A l \in 1 .. rows : KeepsHistory(l)]_vars
  BY HistoryStep
<1> QED
  BY <1>1, Invariance, PTL DEF Spec, LeaseHistoryKept
=============================================================================
