----------------------------- MODULE LeaseStore -----------------------------
(***************************************************************************)
(* Runs, identities and leases of AuthStunt: the tables of                 *)
(* internal/store (runs.go, leases.go, identities.go), the lease service   *)
(* that drives them (internal/personas/lease.go) and the API handlers that *)
(* read them before they call it (internal/api/leases.go).                 *)
(*                                                                         *)
(* The database has one write connection, so a transaction is one step.    *)
(* What is not one step is an API call: it reads rows on the read pool,    *)
(* waits for the application's seed endpoint, and writes in transactions   *)
(* of its own.  Each Caller is one such call in flight.  The process can   *)
(* die between any two steps and the wall clock can step backwards.        *)
(***************************************************************************)
EXTENDS Integers, Sequences

CONSTANTS
    Run,             \* run ids that may ever be created
    Caller,          \* API calls that can be in flight at one time
    Pool,            \* the pooled identities, a sequence in creation order
    Ephemeral,       \* identities that may be minted, one per acquire
    PooledDeclared,  \* TRUE iff the service was given a PooledPolicy
    SeedOutcomes,    \* answers the seed adapter can give in this deployment
    RunOutcomes,     \* terminal states clients report for their runs
    Milli,           \* clock ticks per millisecond (a tick is a nanosecond)
    RunTTL, LeaseTTL, Cooldown,
    OtherUsers,      \* TRUE iff other users of the store clock are modelled
    None,            \* stands for "no run"
    MaxLeases,       \* bound: lease rows ever inserted
    MaxTime,         \* bound: largest wall clock value
    MaxStamp,        \* bound: largest store clock value
    MaxCrashes,      \* bound: crashes of the process
    MaxStepBacks     \* bound: backward steps of the wall clock

Pooled == {Pool[k] : k \in DOMAIN Pool}
Identity == Pooled \cup Ephemeral
LeaseId == 1 .. MaxLeases

ASSUME TimeAssumption ==
    /\ Milli \in Nat \ {0}
    /\ RunTTL \in Nat \ {0} /\ LeaseTTL \in Nat \ {0} /\ Cooldown \in Nat
    /\ MaxTime \in Nat /\ MaxStamp \in Nat
    /\ MaxLeases \in Nat /\ MaxCrashes \in Nat /\ MaxStepBacks \in Nat

ASSUME SetAssumption ==
    /\ Pool \in Seq(Pooled)
    /\ Pooled \cap Ephemeral = {}
    /\ None \notin Run
    /\ PooledDeclared \in BOOLEAN /\ OtherUsers \in BOOLEAN
    /\ SeedOutcomes \subseteq {"seeded", "skipped", "failed"}
    /\ RunOutcomes \subseteq {"complete", "failed"}

-----------------------------------------------------------------------------
VARIABLES
    wall,       \* the operating system's clock, in ticks
    lastNow,    \* Store.lastNow, the last instant Store.Now returned
    serving,    \* the API listener is up
    sweep,      \* where the sweeper is in Sweep
    crashes, stepBacks,
    runs,       \* table runs
    minted,     \* ephemeral identities that have a row
    cooldown,   \* identities.cooldown_until
    leases,     \* table leases, by insertion order
    rows,       \* number of lease rows
    calls       \* the API call each caller has in flight

clockVars == <<wall, lastNow, stepBacks>>
procVars  == <<serving, sweep, crashes>>
tableVars == <<runs, minted, cooldown, leases, rows>>
vars == <<clockVars, procVars, tableVars, calls>>

NoTime == -1    \* a NULL timestamp, and the zero time.Time of a fresh process

RunStates   == {"none", "active", "complete", "failed", "expired"}
LeaseStates == {"none", "held", "released", "expired", "failed"}
SeedStates  == {"pending", "seeded", "skipped", "failed"}

RunRow == [state : RunStates, checkpoint : Nat, expires : Nat]
LeaseRow == [state : LeaseStates, seed : SeedStates,
             run : Run \cup {None}, identity : Identity \cup {None},
             acquired : Nat, expires : Nat, released : Nat \cup {NoTime},
             cool : BOOLEAN]
Call == [pc : {"idle", "walk", "seed", "release"}, run : Run \cup {None},
         next : Nat, skip : SUBSET Pooled, lease : 0 .. MaxLeases]

NoRun   == [state |-> "none", checkpoint |-> 0, expires |-> 0]
NoLease == [state |-> "none", seed |-> "pending", run |-> None,
            identity |-> None, acquired |-> 0, expires |-> 0,
            released |-> NoTime, cool |-> FALSE]
Idle    == [pc |-> "idle", run |-> None, next |-> 0, skip |-> {}, lease |-> 0]

TypeOK ==
    /\ wall \in Nat /\ lastNow \in Nat \cup {NoTime}
    /\ serving \in BOOLEAN /\ sweep \in {"idle", "leases"}
    /\ crashes \in Nat /\ stepBacks \in Nat
    /\ runs \in [Run -> RunRow]
    /\ minted \subseteq Ephemeral
    /\ cooldown \in [Identity -> Nat \cup {NoTime}]
    /\ leases \in [LeaseId -> LeaseRow]
    /\ rows \in 0 .. MaxLeases
    /\ calls \in [Caller -> Call]

-----------------------------------------------------------------------------
(* Helpers.                                                                *)

Larger(a, b) == IF a > b THEN a ELSE b

\* Store.Now: the wall clock truncated to a millisecond, pushed one tick past
\* the last stamp when it would not be later than it.
StampAfter(last) ==
    LET now == wall - (wall % Milli)
    IN  IF now > last THEN now ELSE last + 1
Now == StampAfter(lastNow)

Held(l) == leases[l].state = "held"
LeasesOf(i) == {l \in 1 .. rows : leases[l].identity = i}

\* ORDER BY acquired_at DESC LIMIT 1 walks leases_interval backwards; the
\* index breaks a tie on acquired_at by rowid, so the later insert comes first.
IsLatest(l, S) ==
    /\ l \in S
    /\ \A m \in S : \/ leases[m].acquired < leases[l].acquired
                    \/ leases[m].acquired = leases[l].acquired /\ m <= l

\* Mutated form: the new interval starts at the clock, wherever the previous
\* one ended.
LeaseStartUnclamped(i, start) == start = Now

\* leaseStart: the store clock, or the end of the identity's previous lease.
LeaseStart(i, start) ==
    \/ LeasesOf(i) = {} /\ start = Now
    \/ \E prev \in LeasesOf(i) :
          /\ IsLatest(prev, LeasesOf(i))
          /\ start = IF leases[prev].released = NoTime
                     THEN Now ELSE Larger(Now, leases[prev].released)

\* leaseEnd: MAX(now, acquired_at).
EndAt(lease, state, at) ==
    [lease EXCEPT !.state = state, !.released = Larger(at, lease.acquired)]

\* UPDATE leases ... WHERE state = 'held': the table after the held leases
\* in S have been ended.
EndHeld(S, state, at) ==
    [l \in LeaseId |-> IF l \in S /\ Held(l) THEN EndAt(leases[l], state, at)
                       ELSE leases[l]]
LeasesOfRuns(R) == {l \in 1 .. rows : leases[l].run \in R}

Stamp(t) == t <= MaxStamp /\ lastNow' = t
Return(c) == calls' = [calls EXCEPT ![c] = Idle]

-----------------------------------------------------------------------------
(* The environment: the clock, and the process dying.                      *)

Init ==
    /\ wall = 0 /\ lastNow = NoTime /\ stepBacks = 0
    /\ serving = FALSE /\ sweep = "idle" /\ crashes = 0
    /\ runs = [r \in Run |-> NoRun]
    /\ minted = {}
    /\ cooldown = [i \in Identity |-> NoTime]
    /\ leases = [l \in LeaseId |-> NoLease] /\ rows = 0
    /\ calls = [c \in Caller |-> Idle]

Advance ==
    /\ wall < MaxTime
    /\ wall' = wall + 1
    /\ UNCHANGED <<lastNow, stepBacks, procVars, tableVars, calls>>

\* The wall clock is set back, by NTP or by hand.
StepBack ==
    /\ stepBacks < MaxStepBacks
    /\ wall' \in 0 .. wall - 1
    /\ stepBacks' = stepBacks + 1
    /\ UNCHANGED <<lastNow, procVars, tableVars, calls>>

\* Any other user of the store clock takes a stamp: a ledger event, a
\* message, a binding, a claim, a sweep that finds nothing.
OtherStamp ==
    /\ OtherUsers /\ serving
    /\ Stamp(Now)
    /\ UNCHANGED <<wall, stepBacks, procVars, tableVars, calls>>

\* The process dies and is started again: rows survive, the calls in flight
\* and the in-memory clock floor do not, and nothing listens until a sweep
\* has run.
Crash ==
    /\ crashes < MaxCrashes
    /\ crashes' = crashes + 1
    /\ serving' = FALSE /\ sweep' = "idle" /\ lastNow' = NoTime
    /\ calls' = [c \in Caller |-> Idle]
    /\ UNCHANGED <<wall, stepBacks, tableVars>>

-----------------------------------------------------------------------------
(* Runs.                                                                   *)

\* Mutated form: the TTL is subtracted instead of added.
CreateRunExpired(r) ==
    /\ serving
    /\ runs[r].state = "none"
    /\ runs' = [runs EXCEPT ![r] = [state |-> "active", checkpoint |-> Now,
                                    expires |-> Now - RunTTL]]
    /\ Stamp(Now)
    /\ UNCHANGED <<wall, stepBacks, procVars, minted, cooldown, leases, rows, calls>>

CreateRun(r) ==
    /\ serving
    /\ runs[r].state = "none"
    /\ runs' = [runs EXCEPT ![r] = [state |-> "active", checkpoint |-> Now,
                                    expires |-> Now + RunTTL]]
    /\ Stamp(Now)
    /\ UNCHANGED <<wall, stepBacks, procVars, minted, cooldown, leases, rows, calls>>

\* Mutated form: only the leases whose seed has settled are released.
EndRunSettledOnly(r, state) ==
    /\ serving
    /\ runs[r].state = "active"
    /\ runs' = [runs EXCEPT ![r].state = state]
    /\ leases' = EndHeld({l \in LeasesOfRuns({r}) : leases[l].seed # "pending"},
                         "released", Now)
    /\ Stamp(Now)
    /\ UNCHANGED <<wall, stepBacks, procVars, minted, cooldown, rows, calls>>

\* EndRun moves an active run to a terminal state and releases what it still
\* holds in the same transaction.  Ending a run that is no longer active
\* changes nothing.
EndRun(r, state) ==
    /\ serving
    /\ runs[r].state = "active"
    /\ runs' = [runs EXCEPT ![r].state = state]
    /\ leases' = EndHeld(LeasesOfRuns({r}), "released", Now)
    /\ Stamp(Now)
    /\ UNCHANGED <<wall, stepBacks, procVars, minted, cooldown, rows, calls>>

-----------------------------------------------------------------------------
(* Acquire: reserve in a transaction, seed outside any, settle in another. *)

InsertLease(r, i, start) ==
    /\ rows < MaxLeases
    /\ LeaseStart(i, start)
    /\ rows' = rows + 1
    /\ leases' = [leases EXCEPT ![rows + 1] =
                    [state |-> "held", seed |-> "pending", run |-> r,
                     identity |-> i, acquired |-> start,
                     expires |-> start + LeaseTTL, released |-> NoTime,
                     cool |-> cooldown[i] # NoTime /\ start < cooldown[i]]]
    /\ Stamp(Now)

\* Mutated form: without the unique index, trusting the list read earlier.
AcquireLeaseUnindexed(r, i, start) ==
    runs[r].state = "active" /\ InsertLease(r, i, start)

\* Tx.AcquireLease for identity i: the run must be active, the unique index
\* leases_one_held_per_identity must find the identity free.
AcquireLease(r, i, start) ==
    /\ runs[r].state = "active"
    /\ \A l \in LeasesOf(i) : ~Held(l)
    /\ InsertLease(r, i, start)

Seeding(c, r) ==
    calls' = [calls EXCEPT ![c] =
                [Idle EXCEPT !.pc = "seed", !.run = r, !.lease = rows + 1]]

\* reserveEphemeral mints an address and leases it in one transaction.
ReserveEphemeral(c, r, i) ==
    /\ serving /\ calls[c].pc = "idle"
    /\ i \in Ephemeral \ minted
    /\ minted' = minted \cup {i}
    /\ \E start \in 0 .. MaxStamp : AcquireLease(r, i, start)
    /\ Seeding(c, r)
    /\ UNCHANGED <<wall, stepBacks, procVars, runs, cooldown>>

\* reservePooled lists the pool on the read connection and reads the wall
\* clock once; which candidates are cooling is decided on that snapshot.
ListPool(c, r) ==
    /\ serving /\ calls[c].pc = "idle"
    /\ PooledDeclared
    /\ runs[r].state # "none"
    /\ calls' = [calls EXCEPT ![c] =
                   [pc |-> "walk", run |-> r, next |-> 1, lease |-> 0,
                    skip |-> {i \in Pooled : cooldown[i] # NoTime
                                             /\ wall < cooldown[i]}]]
    /\ UNCHANGED <<clockVars, procVars, tableVars>>

\* One round of the candidate loop: skip a cooling candidate, take a free
\* one, go on past one that is held, give up when the run has ended.
Candidate(c) == Pool[calls[c].next]
Walking(c) == calls[c].pc = "walk" /\ calls[c].next <= Len(Pool)

SkipCandidate(c) ==
    /\ Walking(c)
    /\ \/ Candidate(c) \in calls[c].skip
       \/ /\ runs[calls[c].run].state = "active"
          /\ \E l \in LeasesOf(Candidate(c)) : Held(l)
    /\ calls' = [calls EXCEPT ![c].next = @ + 1]
    /\ UNCHANGED <<clockVars, procVars, tableVars>>

ReservePooled(c) ==
    /\ Walking(c)
    /\ Candidate(c) \notin calls[c].skip
    /\ \E start \in 0 .. MaxStamp :
          AcquireLease(calls[c].run, Candidate(c), start)
    /\ Seeding(c, calls[c].run)
    /\ UNCHANGED <<wall, stepBacks, procVars, runs, minted, cooldown>>

RefuseAcquire(c) ==
    /\ calls[c].pc = "walk"
    /\ \/ calls[c].next > Len(Pool)
       \/ /\ Walking(c)
          /\ Candidate(c) \notin calls[c].skip
          /\ runs[calls[c].run].state # "active"
    /\ Return(c)
    /\ UNCHANGED <<clockVars, procVars, tableVars>>

\* SettleSeed: a failed seed ends the lease in the statement that records it.
SettleRow(l, outcome) ==
    [leases EXCEPT ![l] = IF outcome = "failed"
                          THEN [EndAt(@, "failed", Now) EXCEPT !.seed = "failed"]
                          ELSE [@ EXCEPT !.seed = outcome]]

\* Mutated form: the update is not guarded on the lease still being held.
SettleUnguarded(c, outcome) ==
    /\ calls[c].pc = "seed"
    /\ leases' = SettleRow(calls[c].lease, outcome)
    /\ Stamp(Now)
    /\ Return(c)
    /\ UNCHANGED <<wall, stepBacks, procVars, runs, minted, rows, cooldown>>

\* settle: record what the seeder answered, and cool a pooled identity down
\* if it failed.  A lease that lost its hold while the seeder was running is
\* left as it is.
Settle(c, outcome) ==
    LET l == calls[c].lease
        i == leases[l].identity
    IN  /\ calls[c].pc = "seed"
        /\ IF ~Held(l)
           THEN UNCHANGED <<leases, cooldown, lastNow>>
           ELSE /\ leases' = SettleRow(l, outcome)
                /\ cooldown' = IF outcome = "failed" /\ i \in Pooled
                               THEN [cooldown EXCEPT ![i] = wall + Cooldown]
                               ELSE cooldown
                /\ Stamp(Now)
        /\ Return(c)
        /\ UNCHANGED <<wall, stepBacks, procVars, runs, minted, rows>>

\* The client goes away: the request context is cancelled, so whichever
\* transaction comes next cannot begin and the call ends where it stands.
Cancel(c) ==
    /\ calls[c].pc # "idle"
    /\ Return(c)
    /\ UNCHANGED <<clockVars, procVars, tableVars>>

-----------------------------------------------------------------------------
(* Release.                                                                *)

\* handleReleaseLease answers at once when the row it reads is released, and
\* calls Release in every other case.
BeginRelease(c, l) ==
    /\ serving /\ calls[c].pc = "idle"
    /\ l \in 1 .. rows
    /\ leases[l].state # "released"
    /\ calls' = [calls EXCEPT ![c] = [Idle EXCEPT !.pc = "release", !.lease = l]]
    /\ UNCHANGED <<clockVars, procVars, tableVars>>

\* Release: end the lease if it is still held, and start the identity's
\* cooldown if it is pooled, whether or not the lease had already ended.
Release(c) ==
    LET l == calls[c].lease
        i == leases[l].identity
    IN  /\ calls[c].pc = "release"
        /\ leases' = EndHeld({l}, "released", Now)
        /\ cooldown' = IF i \in Pooled
                       THEN [cooldown EXCEPT ![i] = wall + Cooldown]
                       ELSE cooldown
        /\ Stamp(Now)
        /\ Return(c)
        /\ UNCHANGED <<wall, stepBacks, procVars, runs, minted, rows>>

-----------------------------------------------------------------------------
(* The sweeper: ExpireRuns, then ExpireLeases, each its own transaction.   *)

ExpiredRuns(at) == {r \in Run : runs[r].state = "active" /\ runs[r].expires <= at}

\* Mutated form: a lease whose seed never settled is not swept.
ExpiredSettledLeases(at) ==
    {l \in 1 .. rows : Held(l) /\ leases[l].seed # "pending"
                        /\ leases[l].expires <= at}
ExpiredLeases(at) == {l \in 1 .. rows : Held(l) /\ leases[l].expires <= at}

\* ExpireRuns ends every run past its expiry as EndRun does.  (Its per-run
\* stamps are folded into one.)  A sweep that finds nothing changes no row.
ExpireRuns ==
    /\ sweep = "idle"
    /\ sweep' = "leases"
    /\ IF ExpiredRuns(Now) = {}
       THEN UNCHANGED <<runs, leases, lastNow>>
       ELSE /\ runs' = [r \in Run |-> IF r \in ExpiredRuns(Now)
                                      THEN [runs[r] EXCEPT !.state = "expired"]
                                      ELSE runs[r]]
            /\ leases' = EndHeld(LeasesOfRuns(ExpiredRuns(Now)), "released",
                                 StampAfter(Now))
            /\ lastNow' = StampAfter(Now)
    /\ UNCHANGED <<wall, stepBacks, serving, crashes, minted, cooldown, rows, calls>>

\* ExpireLeases: the release stamp is taken before the cutoff it is compared
\* with.  The first sweep of a process is what lets it start serving.
ExpireLeases ==
    LET cutoff == StampAfter(Now) IN
    /\ sweep = "leases"
    /\ sweep' = "idle"
    /\ serving' = TRUE
    /\ IF ExpiredLeases(cutoff) = {}
       THEN UNCHANGED <<leases, lastNow>>
       ELSE /\ leases' = EndHeld(ExpiredLeases(cutoff), "expired", Now)
            /\ lastNow' = cutoff
    /\ UNCHANGED <<wall, stepBacks, crashes, runs, minted, cooldown, rows, calls>>

-----------------------------------------------------------------------------
Next ==
    \/ Advance \/ StepBack \/ OtherStamp \/ Crash
    \/ ExpireRuns \/ ExpireLeases
    \/ \E r \in Run : CreateRun(r) \/ \E s \in RunOutcomes : EndRun(r, s)
    \/ \E c \in Caller :
          \/ \E r \in Run : ListPool(c, r) \/ \E i \in Ephemeral : ReserveEphemeral(c, r, i)
          \/ SkipCandidate(c) \/ ReservePooled(c) \/ RefuseAcquire(c)
          \/ \E o \in SeedOutcomes : Settle(c, o)
          \/ \E l \in LeaseId : BeginRelease(c, l)
          \/ Release(c) \/ Cancel(c)

Spec == Init /\ [][Next]_vars

\* Time passes, and the sweeper's timer keeps firing: after a crash the
\* process is started again and sweeps before it serves.
FairSpec == Spec /\ WF_vars(Advance) /\ WF_vars(ExpireRuns) /\ WF_vars(ExpireLeases)

-----------------------------------------------------------------------------
(* What the lease store promises.                                          *)

Exists(l) == l \in 1 .. rows

\* leases_one_held_per_identity: at most one lease holds an identity, however
\* the acquires, releases, sweeps and crashes of several calls interleave.
OneHeldPerIdentity ==
    \A l, m \in LeaseId :
        Held(l) /\ Held(m) /\ leases[l].identity = leases[m].identity => l = m

\* The lease owns its identity over [acquired_at, released_at).
Owns(l, t) ==
    /\ Exists(l)
    /\ leases[l].acquired <= t
    /\ leases[l].released = NoTime \/ t < leases[l].released

\* leaseStart and leaseEnd: no instant has two owners for one identity, even
\* after the process restarts or the wall clock steps backwards.
OneOwnerPerInstant ==
    \A l, m \in LeaseId : \A t \in 0 .. MaxStamp :
        /\ Owns(l, t) /\ Owns(m, t)
        /\ leases[l].identity = leases[m].identity
        => l = m

\* EndRun and AcquireLease: a run that has ended holds nothing, although an
\* acquire of that run may have been in flight when it ended.
EndedRunHoldsNothing ==
    \A l \in LeaseId : Held(l) => runs[leases[l].run].state = "active"

KeepsHistory(l) ==
    LET old == leases[l]
        new == leases'[l]
    IN  /\ new.run = old.run /\ new.identity = old.identity
        /\ new.acquired = old.acquired /\ new.cool = old.cool
        /\ old.state # "held" => new = old
        /\ old.seed # "pending" => new.seed = old.seed

\* A lease row is history: who held what from when never changes, a lease
\* that ended stays as it ended, and a seed outcome is written at most once.
LeaseHistoryKept == [][\A l \in 1 .. rows : KeepsHistory(l)]_vars

\* Sweep: a lease that runs out comes back, also one left pending by a call
\* that was cancelled or by a process that died.  (Expiries the bounded clock
\* cannot reach are left out.)
ExpiredLeaseEnds ==
    \A l \in LeaseId :
        (Held(l) /\ leases[l].expires <= MaxTime - Milli) ~> ~Held(l)
=============================================================================
