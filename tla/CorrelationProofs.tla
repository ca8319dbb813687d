------------------------- MODULE CorrelationProofs -------------------------
(***************************************************************************)
(* What the binding of mail to leases guarantees for every pool, every     *)
(* number of messages and every interleaving of runs with their mail.      *)
(*                                                                         *)
(* Unlike the lease intervals themselves, the binding compares instants of *)
(* two clocks, the store's and the network's, and so it holds under        *)
(* conditions that the theorems name: that the wall clock is not set back, *)
(* and, for the handover, that a pooled lease ends by the call that also   *)
(* starts its cooldown.  Each condition is needed: a wall clock set back   *)
(* between generation and arrival loses a run's own mail, and run          *)
(* HandoverEndRun shows what happens when EndRun ends a pooled lease.      *)
(***************************************************************************)
EXTENDS Correlation, LeaseStoreProofs

-----------------------------------------------------------------------------
(* The conditions.                                                         *)

\* The wall clock is not set back in this step.
ClockForward == wall <= wall'

\* A pooled lease that ends in this step ends by Release or by settling its
\* seed, and not by EndRun or the sweeper.
EndedByItsCall ==
    \A l \in 1 .. rows :
        Held(l) /\ leases'[l].state # "held" /\ leases[l].identity \in Pooled
        => \E c \in Caller : Release(c) \/ \E o \in SeedOutcomes : Settle(c, o)

-----------------------------------------------------------------------------
(* The inductive invariants.                                               *)

\* A message that exists was caused under a lease that exists.
Caused == \A m \in Message : mail[m].stage # "none" => mail[m].for \in 1 .. rows

MailTypes == mail \in [Message -> Mail]

Base == IInv /\ MailTypes /\ Caused

\* A Date header that the lease has to accept.
Dated(origin, l) == origin # NoTime => ~Predates(origin, l)

\* A run's own message carries an instant within its lease, first as the
\* clock of the application and then as the instant of its arrival.
OwnOK(m) ==
    mail[m].own =>
       /\ mail[m].stage = "sent" => leases[mail[m].for].acquired <= wall
       /\ mail[m].stage = "arrived" =>
             leases[mail[m].for].acquired <= mail[m].received
       /\ mail[m].stage \in {"sent", "arrived"} => Dated(mail[m].origin, mail[m].for)
       /\ mail[m].stage = "stored" =>
             /\ mail[m].bound = mail[m].for
             /\ mail[m].suspect \in {"", "origin_unknown", "cooldown"}

OwnInv == Base /\ \A m \in Message : OwnOK(m)

\* An ephemeral identity has one lease, and a pooled one is leased only where
\* a policy was declared.
Granted ==
    /\ \A c \in Caller : calls[c].pc = "walk" => PooledDeclared
    /\ \A l \in 1 .. rows :
          /\ leases[l].identity \in Pooled => PooledDeclared
          /\ leases[l].identity \in Ephemeral => leases[l].identity \in minted
    /\ \A l, k \in 1 .. rows :
          leases[l].identity = leases[k].identity /\ l # k
          => leases[l].identity \in Pooled

\* No cooldown reaches further than one started now, so a cooldown that is
\* started again never gets shorter.
CoolingOK ==
    \A i \in Identity : cooldown[i] # NoTime => cooldown[i] <= wall + Cooldown

\* Instant x lies within lease f, or the handover after f keeps a whole
\* cooldown away from x: the identity's cooldown does while nobody has taken
\* it over, and so does every later lease that was not granted in doubt.
Parted(x, f) ==
    leases[f].identity \in Pooled =>
       /\ Held(f) => x <= wall
       /\ ~Held(f) => /\ cooldown[leases[f].identity] # NoTime
                      /\ x + Cooldown <= cooldown[leases[f].identity]
       /\ \A l \in 1 .. rows :
             f < l /\ leases[l].identity = leases[f].identity /\ ~leases[l].cool
             => x + Cooldown <= leases[l].acquired

InFlight(m) == mail[m].stage \in {"acted", "sent", "arrived"}

\* A message in flight is parted from every later run by the instant of the
\* action, or by its Date header if the run still held when it was written.
PartedOK(m) ==
    /\ mail[m].stage = "acted" => ~mail[m].prompt
    /\ InFlight(m) /\ ~mail[m].prompt => Parted(mail[m].acted, mail[m].for)
    /\ InFlight(m) /\ mail[m].prompt /\ mail[m].origin # NoTime
          => Parted(mail[m].origin, mail[m].for)
    /\ mail[m].stage = "arrived" /\ ~mail[m].prompt
          => mail[m].received < mail[m].acted + MaxLatency
    /\ mail[m].stage = "stored" /\ mail[m].bound # 0 /\ mail[m].suspect = ""
          => mail[m].bound = mail[m].for

HandInv == Base /\ Granted /\ CoolingOK /\ \A m \in Message : PartedOK(m)

-----------------------------------------------------------------------------
(* Types.                                                                  *)

\* Truncating to a second keeps the order of instants.
LEMMA TruncatedOrder ==
    ASSUME NEW a \in Nat, NEW b \in Nat, a <= b
    PROVE  a - (a % Second) <= b - (b % Second)
<1>1. PICK q \in Nat : q = a \div Second
  BY PolicyAssumption
<1>2. PICK p \in Nat : p = b \div Second
  BY PolicyAssumption
<1>3. a = Second * q + (a % Second) /\ b = Second * p + (b % Second)
  BY <1>1, <1>2, PolicyAssumption
<1>4. a % Second \in 0 .. Second - 1 /\ b % Second \in 0 .. Second - 1
  BY PolicyAssumption
<1>5. PICK x \in Int, y \in Int : x = Second * q /\ y = Second * p
  BY PolicyAssumption
<1>6. CASE q <= p
  <2>1. x <= y
    BY <1>5, <1>6, PolicyAssumption
  <2> QED
    BY <1>3, <1>4, <1>5, <2>1, PolicyAssumption
<1>7. CASE p < q
  <2>1. Second * (p + 1) <= Second * q
    BY <1>7, PolicyAssumption
  <2>2. Second * (p + 1) = y + Second
    BY <1>5, PolicyAssumption
  <2> QED
    BY <1>3, <1>4, <1>5, <2>1, <2>2, PolicyAssumption
<1> QED
  BY <1>6, <1>7

\* Truncating takes less than a second off, and stays in the naturals.
LEMMA Truncated ==
    ASSUME NEW a \in Nat
    PROVE  /\ a - (a % Second) \in Nat
           /\ a - (a % Second) <= a /\ a < (a - (a % Second)) + Second
  BY PolicyAssumption

\* What a step does to the message table: one row changes, the others stay.
Moves(m) == \A n \in Message : n # m => mail'[n] = mail[n]

LEMMA ActStep ==
    ASSUME TypeOK, MailTypes, NEW m \in Message, NEW l \in LeaseId, Act(m, l)
    PROVE  /\ UNCHANGED vars /\ MailTypes' /\ Moves(m)
           /\ mail[m].stage = "none" /\ Held(l)
           /\ mail'[m].stage = "acted" /\ mail'[m].for = l
           /\ mail'[m].acted = wall
           /\ ~mail'[m].prompt /\ ~mail'[m].own
<1> DEFINE row == [NoMail EXCEPT !.stage = "acted", !.for = l, !.acted = wall]
<1>1. /\ mail' = [mail EXCEPT ![m] = row] /\ UNCHANGED vars
      /\ mail[m].stage = "none" /\ Held(l)
  BY DEF Act
<1>2. /\ row.stage = "acted" /\ row.for = l /\ row.acted = wall
      /\ row.prompt = FALSE /\ row.own = FALSE
  BY DEF NoMail
<1>3. row \in Mail
  <2>1. l \in 0 .. MaxLeases /\ wall \in Nat /\ "" \in Suspicions
    BY TimeAssumption DEF LeaseId, TypeOK, Suspicions
  <2>2. 0 \in 0 .. MaxLeases /\ 0 \in Nat /\ NoTime \in Nat \cup {NoTime}
    BY TimeAssumption
  <2> QED
    BY <2>1, <2>2 DEF NoMail, Mail
<1> HIDE DEF row
<1>4. mail' \in [Message -> Mail] /\ mail'[m] = row /\ Moves(m)
  BY <1>1, <1>3 DEF MailTypes, Moves
<1> QED
  BY <1>1, <1>2, <1>4 DEF MailTypes

LEMMA GenerateStep ==
    ASSUME TypeOK, MailTypes, NEW m \in Message, Generate(m)
    PROVE  /\ UNCHANGED vars /\ MailTypes' /\ Moves(m)
           /\ mail[m].stage = "acted" /\ mail'[m].stage = "sent"
           /\ mail'[m].for = mail[m].for
           /\ mail'[m].origin \in {wall - (wall % Second), NoTime}
           /\ ~Held(mail[m].for) => mail'[m].acted = mail[m].acted
           /\ mail'[m].prompt <=> Held(mail[m].for)
           /\ mail'[m].own => leases[mail[m].for].acquired <= wall
<1> DEFINE held == Held(mail[m].for)
           own  == held /\ leases[mail[m].for].acquired <= wall
           when == IF held THEN 0 ELSE mail[m].acted
<1>1. PICK origin \in {wall - (wall % Second), NoTime} :
         mail' = [mail EXCEPT ![m].stage = "sent", ![m].origin = origin,
                     ![m].acted = IF Held(mail[m].for) THEN 0 ELSE @,
                     ![m].prompt = Held(mail[m].for),
                     ![m].own = /\ Held(mail[m].for)
                                /\ leases[mail[m].for].acquired <= wall]
  BY DEF Generate
<1>2. /\ held \in BOOLEAN /\ own \in BOOLEAN /\ when \in Nat
      /\ ~held => when = mail[m].acted
  BY DEF Held, MailTypes, Mail
<1>3. PICK h \in BOOLEAN, o \in BOOLEAN : h = held /\ o = own
  BY <1>2
<1>4. mail' = [mail EXCEPT ![m].stage = "sent", ![m].origin = origin,
                           ![m].acted = IF h THEN 0 ELSE @,
                           ![m].prompt = h, ![m].own = o]
  BY <1>1, <1>3
<1>5. origin \in Nat \cup {NoTime}
  BY Truncated DEF TypeOK
<1>6. /\ mail'[m].stage = "sent" /\ mail'[m].origin = origin
      /\ mail'[m].prompt = h /\ mail'[m].own = o
      /\ mail'[m].for = mail[m].for
      /\ ~h => mail'[m].acted = mail[m].acted
      /\ Moves(m)
  BY <1>4 DEF MailTypes, Mail, Moves
<1>7. mail' \in [Message -> Mail]
  <2> DEFINE f1 == [mail EXCEPT ![m].stage = "sent"]
             f2 == [f1 EXCEPT ![m].origin = origin]
             f3 == [f2 EXCEPT ![m].acted = IF h THEN 0 ELSE @]
             f4 == [f3 EXCEPT ![m].prompt = h]
             f5 == [f4 EXCEPT ![m].own = o]
  <2>1. f1 \in [Message -> Mail]
    BY DEF MailTypes, Mail
  <2> HIDE DEF f1
  <2>2. f2 \in [Message -> Mail]
    BY <1>5, <2>1 DEF Mail
  <2> HIDE DEF f2
  <2>3. f3 \in [Message -> Mail]
    BY <2>2 DEF Mail
  <2> HIDE DEF f3
  <2>4. f4 \in [Message -> Mail]
    BY <2>3 DEF Mail
  <2> HIDE DEF f4
  <2>5. f5 \in [Message -> Mail]
    BY <2>4 DEF Mail
  <2>6. mail' = f5
    BY <1>4, Zenon DEF f1, f2, f3, f4, f5
  <2> HIDE DEF f5
  <2> QED
    BY <2>5, <2>6
<1>8. UNCHANGED vars /\ mail[m].stage = "acted"
  BY DEF Generate
<1> HIDE DEF held, own
<1>9. (h <=> held) /\ (o <=> own)
  BY <1>3
<1> USE DEF held, own
<1> QED
  BY <1>6, <1>7, <1>8, <1>9 DEF MailTypes

LEMMA ArriveStep ==
    ASSUME TypeOK, MailTypes, NEW m \in Message, Arrive(m)
    PROVE  /\ UNCHANGED vars /\ MailTypes' /\ Moves(m)
           /\ mail[m].stage = "sent" /\ mail'[m].stage = "arrived"
           /\ mail'[m].received = wall
           /\ mail'[m].for = mail[m].for /\ mail'[m].acted = mail[m].acted
           /\ mail'[m].origin = mail[m].origin
           /\ mail'[m].prompt = mail[m].prompt /\ mail'[m].own = mail[m].own
           /\ mail[m].prompt \/ wall < mail[m].acted + MaxLatency
<1>1. /\ mail' = [mail EXCEPT ![m].stage = "arrived", ![m].received = wall]
      /\ UNCHANGED vars /\ mail[m].stage = "sent"
      /\ mail[m].prompt \/ wall < mail[m].acted + MaxLatency
  BY DEF Arrive
<1>2. mail' \in [Message -> Mail] /\ Moves(m)
  <2> DEFINE f == [mail EXCEPT ![m].stage = "arrived"]
  <2>1. f \in [Message -> Mail]
    BY DEF MailTypes, Mail
  <2>2. mail' = [f EXCEPT ![m].received = wall]
    BY <1>1
  <2>3. \A n \in Message : n # m => f[n] = mail[n]
    BY DEF MailTypes
  <2> HIDE DEF f
  <2> QED
    BY <2>1, <2>2, <2>3 DEF Mail, TypeOK, Moves
<1>3. /\ mail'[m].stage = "arrived" /\ mail'[m].received = wall
      /\ mail'[m].for = mail[m].for /\ mail'[m].acted = mail[m].acted
      /\ mail'[m].origin = mail[m].origin
      /\ mail'[m].prompt = mail[m].prompt /\ mail'[m].own = mail[m].own
  BY <1>1 DEF MailTypes, Mail
<1> QED
  BY <1>1, <1>2, <1>3 DEF MailTypes

\* leaseOwner.suspicion gives one of the documented reasons, or none.
LEMMA SuspicionType ==
    ASSUME NEW l, NEW origin PROVE Suspicion(l, origin) \in Suspicions
  BY DEF Suspicion, SuspicionNoCooldown, Suspicions

LEMMA DeliverStep ==
    ASSUME TypeOK, MailTypes, NEW m \in Message, Deliver(m)
    PROVE  /\ lastNow' = Now
           /\ UNCHANGED <<wall, stepBacks, procVars, tableVars, calls>>
           /\ MailTypes' /\ Moves(m)
           /\ mail[m].stage = "arrived" /\ mail'[m].stage = "stored"
           /\ mail'[m].for = mail[m].for
           /\ mail'[m].own <=> mail[m].own /\ Held(mail[m].for)
           /\ LeaseAt(leases[mail[m].for].identity, mail[m].received, mail'[m].bound)
           /\ mail'[m].bound # 0
                 => mail'[m].suspect = Suspicion(mail'[m].bound, mail[m].origin)
           /\ mail'[m].bound = 0 => mail'[m].suspect = ""
<1>1. PICK l \in 0 .. MaxLeases :
         /\ LeaseAt(leases[mail[m].for].identity, mail[m].received, l)
         /\ mail' = [mail EXCEPT ![m] =
                       [NoMail EXCEPT !.stage = "stored", !.for = mail[m].for,
                          !.own = mail[m].own /\ Held(mail[m].for),
                          !.bound = l,
                          !.suspect = IF l = 0 THEN ""
                                      ELSE Suspicion(l, mail[m].origin)]]
  BY DEF Deliver
<1> DEFINE own == mail[m].own /\ Held(mail[m].for)
           sus == IF l = 0 THEN "" ELSE Suspicion(l, mail[m].origin)
           row == [NoMail EXCEPT !.stage = "stored", !.for = mail[m].for,
                     !.own = own, !.bound = l, !.suspect = sus]
<1>2. mail' = [mail EXCEPT ![m] = row]
  BY <1>1
<1>3. own \in BOOLEAN
  BY DEF Held, MailTypes, Mail
<1>4. sus \in Suspicions
  BY SuspicionType DEF Suspicions
<1>5. (l # 0 => sus = Suspicion(l, mail[m].origin)) /\ (l = 0 => sus = "")
  OBVIOUS
<1>6. mail[m].for \in 0 .. MaxLeases
  BY DEF MailTypes, Mail
<1> HIDE DEF own, sus
<1>7. /\ row.stage = "stored" /\ row.for = mail[m].for /\ row.own = own
      /\ row.bound = l /\ row.suspect = sus
  BY DEF NoMail
<1>8. row \in Mail
  BY <1>3, <1>4, <1>6 DEF NoMail, Mail, NoTime
<1> HIDE DEF row
<1>9. mail' \in [Message -> Mail] /\ mail'[m] = row /\ Moves(m)
  BY <1>2, <1>8 DEF MailTypes, Moves
<1>10. /\ lastNow' = Now /\ mail[m].stage = "arrived"
       /\ UNCHANGED <<wall, stepBacks, procVars, tableVars, calls>>
  BY DEF Deliver, Stamp
<1>11. mail'[m].own <=> mail[m].own /\ Held(mail[m].for)
  BY <1>7, <1>9, Zenon DEF own
<1> QED
  BY <1>1, <1>5, <1>7, <1>9, <1>10, <1>11 DEF MailTypes

-----------------------------------------------------------------------------
(* The store under the mail.                                               *)

\* The step that grants a lease, as the mail sees it.
Grants ==
    LET new == leases'[rows + 1] IN
    /\ rows' = rows + 1 /\ cooldown' = cooldown
    /\ \A l \in 1 .. rows : leases[l].identity = new.identity => ~Held(l)
    /\ ~new.cool /\ cooldown[new.identity] # NoTime
          => cooldown[new.identity] <= new.acquired
    /\ \/ /\ new.identity \in Ephemeral /\ ~(new.identity \in minted)
          /\ minted' = minted \cup {new.identity}
       \/ /\ new.identity \in Pooled /\ minted' = minted
          /\ \E c \in Caller : calls[c].pc = "walk"

\* Any other step: it may start cooldowns, at the wall clock.
NoGrant ==
    /\ rows' = rows /\ minted' = minted
    /\ \A i \in Identity : cooldown'[i] \in {cooldown[i], wall + Cooldown}

\* AcquireLease is the only statement that inserts a lease.
LEMMA StoreStep ==
    ASSUME IInv, Next
    PROVE  Grants \/ NoGrant
<1>1. TypeOK /\ Timeline /\ CallsOK
  BY DEF IInv
<1>2. ASSUME UNCHANGED <<rows, minted, cooldown>> PROVE NoGrant
  BY <1>2 DEF NoGrant
<1>3. ASSUME NEW k \in 1 .. rows, UNCHANGED <<rows, minted>>,
             \/ cooldown' = cooldown
             \/ cooldown' = [cooldown EXCEPT ![leases[k].identity] = wall + Cooldown]
      PROVE  NoGrant
  BY <1>1, <1>3 DEF NoGrant, TypeOK
<1>4. CASE Advance \/ StepBack \/ OtherStamp \/ Crash \/ ExpireRuns \/ ExpireLeases
  BY <1>2, <1>4 DEF Advance, StepBack, OtherStamp, Crash, ExpireRuns, ExpireLeases, tableVars
<1>5. CASE \E r \in Run : CreateRun(r) \/ \E s \in RunOutcomes : EndRun(r, s)
  BY <1>2, <1>5 DEF CreateRun, EndRun
<1>6. ASSUME NEW c \in Caller,
             \/ \E r \in Run : ListPool(c, r)
             \/ SkipCandidate(c) \/ RefuseAcquire(c) \/ Cancel(c)
             \/ \E l \in LeaseId : BeginRelease(c, l)
      PROVE  NoGrant
  BY <1>2, <1>6
  DEF ListPool, SkipCandidate, RefuseAcquire, Cancel, BeginRelease, tableVars
<1>7. ASSUME NEW c \in Caller, NEW o \in SeedOutcomes, Settle(c, o)
      PROVE  NoGrant
  <2>1. calls[c].lease \in 1 .. rows
    BY <1>1, <1>7 DEF Settle, CallsOK
  <2>2. /\ UNCHANGED <<rows, minted>>
        /\ \/ cooldown' = cooldown
           \/ cooldown' = [cooldown EXCEPT ![leases[calls[c].lease].identity] = wall + Cooldown]
    BY <1>7 DEF Settle
  <2> QED
    BY <1>3, <2>1, <2>2
<1>8. ASSUME NEW c \in Caller, Release(c)
      PROVE  NoGrant
  <2>1. calls[c].lease \in 1 .. rows
    BY <1>1, <1>8 DEF Release, CallsOK
  <2>2. /\ UNCHANGED <<rows, minted>>
        /\ \/ cooldown' = cooldown
           \/ cooldown' = [cooldown EXCEPT ![leases[calls[c].lease].identity] = wall + Cooldown]
    BY <1>8 DEF Release
  <2> QED
    BY <1>3, <2>1, <2>2
<1>9. ASSUME NEW r \in Run, NEW i \in Identity, NEW start \in Nat,
             AcquireLease(r, i, start)
      PROVE  LET new == leases'[rows + 1] IN
             /\ rows' = rows + 1 /\ new.identity = i
             /\ \A l \in 1 .. rows : leases[l].identity = new.identity => ~Held(l)
             /\ ~new.cool /\ cooldown[new.identity] # NoTime
                   => cooldown[new.identity] <= new.acquired
  <2>1. \A l \in LeasesOf(i) : ~Held(l)
    BY <1>9 DEF AcquireLease
  <2>2. /\ rows' = rows + 1 /\ leases'[rows + 1].identity = i
        /\ ~leases'[rows + 1].cool /\ cooldown[i] # NoTime
              => cooldown[i] <= leases'[rows + 1].acquired
    BY <1>1, <1>9, AcquireTimeline
  <2>3. \A l \in 1 .. rows : leases[l].identity = i => ~Held(l)
    BY <2>1 DEF LeasesOf
  <2> QED
    BY <2>2, <2>3, Zenon
<1>10. ASSUME NEW c \in Caller, NEW r \in Run, NEW i \in Ephemeral,
              ReserveEphemeral(c, r, i)
       PROVE  Grants
  <2>1. PICK start \in 0 .. MaxStamp : AcquireLease(r, i, start)
    BY <1>10 DEF ReserveEphemeral
  <2>2. start \in Nat /\ i \in Identity
    BY TimeAssumption DEF Identity
  <2>3. ~(i \in minted) /\ minted' = minted \cup {i} /\ cooldown' = cooldown
    BY <1>10 DEF ReserveEphemeral
  <2>4. LET new == leases'[rows + 1] IN
             /\ rows' = rows + 1 /\ new.identity = i
             /\ \A l \in 1 .. rows : leases[l].identity = new.identity => ~Held(l)
             /\ ~new.cool /\ cooldown[new.identity] # NoTime
                   => cooldown[new.identity] <= new.acquired
    BY <1>9, <2>1, <2>2
  <2> QED
    BY <2>3, <2>4, Zenon DEF Grants
<1>11. ASSUME NEW c \in Caller, ReservePooled(c)
       PROVE  Grants
  <2>1. /\ calls[c].run \in Run /\ calls[c].pc = "walk"
        /\ calls[c].next \in Nat /\ calls[c].next >= 1 /\ calls[c].next <= Len(Pool)
    BY <1>1, <1>11 DEF ReservePooled, Walking, CallsOK, TypeOK, Call
  <2>2. calls[c].next \in DOMAIN Pool
    BY <2>1, SetAssumption
  <2>3. Candidate(c) \in Pooled /\ Candidate(c) \in Identity
    BY <2>2 DEF Candidate, Identity, Pooled
  <2>4. PICK start \in 0 .. MaxStamp : AcquireLease(calls[c].run, Candidate(c), start)
    BY <1>11 DEF ReservePooled
  <2>5. start \in Nat
    BY TimeAssumption
  <2>6. minted' = minted /\ cooldown' = cooldown
    BY <1>11 DEF ReservePooled
  <2>7. LET new == leases'[rows + 1] IN
             /\ rows' = rows + 1 /\ new.identity = Candidate(c)
             /\ \A l \in 1 .. rows : leases[l].identity = new.identity => ~Held(l)
             /\ ~new.cool /\ cooldown[new.identity] # NoTime
                   => cooldown[new.identity] <= new.acquired
    BY <1>9, <2>1, <2>3, <2>4, <2>5
  <2> QED
    BY <2>1, <2>3, <2>6, <2>7, Zenon DEF Grants
<1> QED
  BY <1>4, <1>5, <1>6, <1>7, <1>8, <1>10, <1>11 DEF Next

\* Only a call that found a policy declared walks the pool.
LEMMA WalkStep ==
    ASSUME IInv, Next, \A c \in Caller : calls[c].pc = "walk" => PooledDeclared
    PROVE  \A c \in Caller : calls'[c].pc = "walk" => PooledDeclared
<1>1. calls \in [Caller -> Call]
  BY DEF IInv, TypeOK
<1>2. CASE UNCHANGED calls
  BY <1>2
<1>3. ASSUME NEW c \in Caller, NEW call,
             calls' = [calls EXCEPT ![c] = call], call.pc # "walk" \/ PooledDeclared
      PROVE  \A d \in Caller : calls'[d].pc = "walk" => PooledDeclared
  BY <1>1, <1>3
<1>4. CASE \/ Advance \/ StepBack \/ OtherStamp \/ ExpireRuns \/ ExpireLeases
           \/ \E r \in Run : CreateRun(r) \/ \E s \in RunOutcomes : EndRun(r, s)
  <2>1. UNCHANGED calls
    BY <1>4
    DEF Advance, StepBack, OtherStamp, ExpireRuns, ExpireLeases, CreateRun, EndRun
  <2> QED
    BY <1>2, <2>1
<1>10. CASE Crash
  BY <1>10 DEF Crash, Idle
<1>5. ASSUME NEW c \in Caller, Return(c)
      PROVE  \A d \in Caller : calls'[d].pc = "walk" => PooledDeclared
  BY <1>3, <1>5 DEF Return, Idle
<1>6. ASSUME NEW c \in Caller, NEW r, Seeding(c, r)
      PROVE  \A d \in Caller : calls'[d].pc = "walk" => PooledDeclared
  BY <1>1, <1>6 DEF Seeding, Idle
<1>7. ASSUME NEW c \in Caller,
             \/ \E r \in Run : ListPool(c, r)
             \/ SkipCandidate(c)
             \/ \E l \in LeaseId : BeginRelease(c, l)
      PROVE  \A d \in Caller : calls'[d].pc = "walk" => PooledDeclared
  BY <1>1, <1>7 DEF ListPool, SkipCandidate, BeginRelease, Idle, Walking, Call
<1>8. ASSUME NEW c \in Caller,
             \/ RefuseAcquire(c) \/ Cancel(c) \/ Release(c)
             \/ \E o \in SeedOutcomes : Settle(c, o)
      PROVE  \A d \in Caller : calls'[d].pc = "walk" => PooledDeclared
  BY <1>5, <1>8 DEF RefuseAcquire, Cancel, Release, Settle
<1>9. ASSUME NEW c \in Caller,
             \/ \E r \in Run, i \in Ephemeral : ReserveEphemeral(c, r, i)
             \/ ReservePooled(c)
      PROVE  \A d \in Caller : calls'[d].pc = "walk" => PooledDeclared
  BY <1>6, <1>9 DEF ReserveEphemeral, ReservePooled
<1> QED
  BY <1>4, <1>7, <1>8, <1>9, <1>10 DEF Next

\* A step that leaves the tables alone; it may take a stamp.
Quiet ==
    /\ UNCHANGED <<wall, stepBacks, serving, sweep, crashes, runs, minted,
                   cooldown, leases, rows, calls>>
    /\ lastNow' \in {lastNow, Now}

LEMMA QuietStep ==
    ASSUME IInv, Quiet
    PROVE  IInv' /\ (\A l \in 1 .. rows : KeepsHistory(l))
<1>1. TypeOK /\ Now \in Nat
  BY NowType DEF IInv
<1>2. UNCHANGED <<wall, stepBacks, serving, sweep, crashes, runs, minted,
                  cooldown, leases, rows, calls>>
      /\ lastNow' \in Nat \cup {NoTime}
  BY <1>1 DEF Quiet, TypeOK
<1>3. TypeOK' /\ CallsOK'
  BY <1>1, <1>2 DEF IInv, TypeOK, CallsOK
<1>4. \A l \in 1 .. rows : KeepsHistory(l)
  BY <1>2 DEF KeepsHistory
<1> QED
  BY <1>2, <1>3, <1>4, SameLeases

\* Every step of the composition is a step of the store, or a quiet step of
\* one message.
LEMMA MailNextSplit ==
    ASSUME TypeOK, MailTypes, [MailNext]_mailVars
    PROVE  \/ Next /\ mail' = mail
           \/ Quiet /\ mail' = mail
           \/ Quiet /\ \E m \in Message :
                 \/ \E l \in LeaseId : Act(m, l)
                 \/ Generate(m) \/ Arrive(m) \/ Deliver(m)
<1>1. ASSUME UNCHANGED vars PROVE Quiet
  BY <1>1 DEF Quiet, vars, clockVars, procVars, tableVars
<1>2. ASSUME UNCHANGED mailVars PROVE Quiet /\ mail' = mail
  BY <1>1, <1>2 DEF mailVars
<1>3. ASSUME NEW m \in Message, \/ \E l \in LeaseId : Act(m, l)
                                \/ Generate(m) \/ Arrive(m)
      PROVE  Quiet
  BY <1>1, <1>3, ActStep, GenerateStep, ArriveStep
<1>4. ASSUME NEW m \in Message, Deliver(m)
      PROVE  Quiet
  BY <1>4, DeliverStep DEF Quiet, procVars, tableVars
<1> QED
  BY <1>2, <1>3, <1>4 DEF MailNext

\* The leases a message may refer to keep what it was granted under.
LEMMA StoreKept ==
    ASSUME IInv, MailTypes, [MailNext]_mailVars
    PROVE  /\ IInv'
           /\ \A l \in 1 .. rows : KeepsHistory(l)
           /\ \A l \in 1 .. rows : l \in 1 .. rows'
<1>1. TypeOK /\ rows \in Nat
  BY DEF IInv, TypeOK
<1>2. CASE Next
  <2>1. rows' = rows \/ rows' = rows + 1
    BY <1>2, StoreStep DEF Grants, NoGrant
  <2> QED
    BY <1>1, <1>2, <2>1, NextIInv, HistoryStep
<1>3. CASE Quiet
  <2>1. rows' = rows
    BY <1>3 DEF Quiet
  <2> QED
    BY <1>3, <2>1, QuietStep
<1> QED
  BY <1>1, <1>2, <1>3, MailNextSplit

LEMMA InitBase == MailInit => Base
<1> SUFFICES ASSUME MailInit PROVE Base
  OBVIOUS
<1>1. IInv
  BY InitIInv DEF MailInit
<1>2. NoMail \in Mail
  <2>1. 0 \in 0 .. MaxLeases /\ 0 \in Nat /\ NoTime \in Nat \cup {NoTime}
    BY TimeAssumption
  <2> QED
    BY <2>1 DEF NoMail, Mail, Suspicions
<1>3. NoMail.stage = "none"
  BY DEF NoMail
<1> QED
  BY <1>1, <1>2, <1>3 DEF Base, MailTypes, Caused, MailInit

LEMMA NextBase ==
    ASSUME Base, [MailNext]_mailVars
    PROVE  Base'
<1>1. IInv /\ TypeOK /\ MailTypes /\ Caused
  BY DEF Base, IInv
<1>2. IInv' /\ \A l \in 1 .. rows : l \in 1 .. rows'
  BY <1>1, StoreKept
<1>3. CASE mail' = mail
  BY <1>1, <1>2, <1>3 DEF Base, MailTypes, Caused
<1>4. ASSUME NEW m \in Message, NEW l \in LeaseId, Act(m, l)
      PROVE  Base'
  <2>1. /\ MailTypes' /\ Moves(m) /\ Held(l) /\ mail'[m].for = l
    BY <1>1, <1>4, ActStep
  <2>2. l \in 1 .. rows
    BY <1>1, <2>1 DEF IInv, Timeline, Filled, Held, NoLease
  <2>3. Caused'
    BY <1>1, <1>2, <2>1, <2>2 DEF Caused, Moves
  <2> QED
    BY <1>2, <2>1, <2>3 DEF Base
<1>5. ASSUME NEW m \in Message, Generate(m) \/ Arrive(m) \/ Deliver(m)
      PROVE  Base'
  <2>1. /\ MailTypes' /\ Moves(m) /\ mail'[m].for = mail[m].for
        /\ mail[m].stage \in {"acted", "sent", "arrived"}
    BY <1>1, <1>5, GenerateStep, ArriveStep, DeliverStep
  <2>2. Caused'
    BY <1>1, <1>2, <2>1 DEF Caused, Moves
  <2> QED
    BY <1>2, <2>1, <2>2 DEF Base
<1> QED
  BY <1>1, <1>3, <1>4, <1>5, MailNextSplit

\* Every message row and binding keeps the shape the schema gives it, and a
\* message always refers to a lease that exists.
THEOREM CorrelationTypes == MailSpec => [](MailTypeOK /\ Caused)
<1>1. Base => MailTypeOK /\ Caused
  BY DEF Base, IInv, MailTypes, MailTypeOK
<1>2. Base /\ [MailNext]_mailVars => Base'
  BY NextBase
<1> QED
  BY <1>1, <1>2, InitBase, PTL DEF MailSpec

-----------------------------------------------------------------------------
(* A run's own mail.                                                       *)

\* What a later step may do around a message that it does not move.
LEMMA OwnKept ==
    ASSUME Base, [MailNext]_mailVars, ClockForward,
           NEW m \in Message, mail'[m] = mail[m], OwnOK(m)
    PROVE  OwnOK(m)'
<1>1. IInv /\ TypeOK /\ MailTypes /\ Caused /\ TypeOK'
  BY StoreKept DEF Base, IInv
<1>2. CASE mail[m].stage = "none"
  BY <1>2 DEF OwnOK
<1>3. CASE mail[m].stage # "none"
  <2>1. PICK f \in 1 .. rows : f = mail[m].for
    BY <1>1, <1>3 DEF Caused
  <2>2. f \in LeaseId /\ leases'[f].acquired = leases[f].acquired
    BY <1>1, StoreKept, RowsAreIds DEF KeepsHistory
  <2>3. leases[f].acquired \in Nat /\ wall \in Nat /\ wall' \in Nat
    BY <1>1, <2>2 DEF TypeOK, LeaseRow
  <2>4. leases[f].acquired <= wall => leases'[f].acquired <= wall'
    BY <2>2, <2>3 DEF ClockForward
  <2>5. ASSUME NEW origin PROVE Dated(origin, f)' <=> Dated(origin, f)
    BY <2>2 DEF Dated, Predates
  <2>6. mail'[m].for = f
    BY <2>1
  <2> QED
    BY <2>1, <2>2, <2>4, <2>5, <2>6 DEF OwnOK
<1> QED
  BY <1>2, <1>3

\* A held lease that contains the instant is the one leaseAt finds.
LEMMA HeldOwnerFound ==
    ASSUME IInv, NEW f \in 1 .. rows, Held(f), NEW t \in Nat,
           leases[f].acquired <= t, NEW l, LeaseAt(leases[f].identity, t, l)
    PROVE  l = f
<1>1. TypeOK /\ WellFormed /\ Ordered
  BY DEF IInv, Timeline
<1>2. leases[f].released = NoTime
  BY <1>1 DEF WellFormed, Held
<1>3. f \in Owners(leases[f].identity, t)
  BY <1>2 DEF Owners, LeasesOf
<1>4. l \in Owners(leases[f].identity, t)
  BY <1>3, Zenon DEF LeaseAt, IsLatest
<1>5. /\ l \in 1 .. rows /\ leases[l].identity = leases[f].identity
      /\ leases[l].released = NoTime \/ t < leases[l].released
  BY <1>4 DEF Owners, LeasesOf
<1>6. ~(f < l)
  BY <1>1, <1>2, <1>5 DEF Ordered
<1>7. ~(l < f)
  <2> SUFFICES ASSUME l < f PROVE FALSE
    OBVIOUS
  <2>1. leases[l].released # NoTime /\ leases[l].released <= leases[f].acquired
    BY <1>1, <1>5 DEF Ordered
  <2>2. leases[l] \in LeaseRow /\ leases[f] \in LeaseRow
    BY <1>1, <1>5, RowsAreIds DEF TypeOK
  <2>3. leases[l].released \in Nat /\ leases[f].acquired \in Nat
    BY <2>1, <2>2 DEF LeaseRow
  <2> QED
    BY <1>5, <2>1, <2>3
<1> QED
  BY <1>1, <1>5, <1>6, <1>7 DEF TypeOK

\* A held lease doubts a message only for the reasons a run has to accept.
LEMMA HeldSuspicion ==
    ASSUME IInv, NEW f \in 1 .. rows, Held(f), NEW origin, Dated(origin, f)
    PROVE  Suspicion(f, origin) \in {"", "origin_unknown", "cooldown"}
<1>1. leases[f].released = NoTime
  BY DEF IInv, Timeline, WellFormed, Held
<1> QED
  BY <1>1 DEF Suspicion, SuspicionNoCooldown, Dated

LEMMA NextOwn ==
    ASSUME OwnInv, [MailNext]_mailVars, ClockForward
    PROVE  OwnInv'
<1>1. Base /\ IInv /\ TypeOK /\ MailTypes /\ Caused /\ \A m \in Message : OwnOK(m)
  BY DEF OwnInv, Base, IInv
<1>2. Base'
  BY <1>1, NextBase
<1>3. ASSUME NEW m \in Message, Moves(m), OwnOK(m)' PROVE OwnInv'
  <2>1. \A n \in Message : n # m => OwnOK(n)'
    BY <1>1, <1>3, OwnKept DEF Moves
  <2> QED
    BY <1>2, <1>3, <2>1 DEF OwnInv
<1>4. CASE mail' = mail
  <2>1. \A m \in Message : OwnOK(m)'
    BY <1>1, <1>4, OwnKept
  <2> QED
    BY <1>2, <2>1 DEF OwnInv
<1>5. ASSUME NEW m \in Message, NEW l \in LeaseId, Act(m, l)
      PROVE  OwnInv'
  <2>1. Moves(m) /\ ~mail'[m].own
    BY <1>1, <1>5, ActStep
  <2>2. OwnOK(m)'
    BY <2>1, Zenon DEF OwnOK
  <2> QED
    BY <1>3, <2>1, <2>2
<1>6. ASSUME NEW m \in Message, Generate(m)
      PROVE  OwnInv'
  <2>1. /\ Moves(m) /\ UNCHANGED vars
        /\ mail[m].stage = "acted" /\ mail'[m].stage = "sent"
        /\ mail'[m].for = mail[m].for
        /\ mail'[m].origin \in {wall - (wall % Second), NoTime}
        /\ mail'[m].own => leases[mail[m].for].acquired <= wall
    BY <1>1, <1>6, GenerateStep
  <2>2. wall' = wall /\ leases' = leases
    BY <2>1 DEF vars, clockVars, tableVars
  <2>3. PICK f \in 1 .. rows : f = mail[m].for
    BY <1>1, <2>1 DEF Caused
  <2>4. leases[f].acquired \in Nat /\ wall \in Nat
    BY <1>1, RowsAreIds DEF TypeOK, LeaseRow
  <2>5. leases[f].acquired <= wall => Dated(mail'[m].origin, f)
    <3>1. leases[f].acquired <= wall =>
            ~(wall - (wall % Second) < leases[f].acquired - (leases[f].acquired % Second))
      BY <2>4, TruncatedOrder, Truncated
    <3> QED
      BY <2>1, <3>1 DEF Dated, Predates
  <2>6. Dated(mail'[m].origin, f) => Dated(mail[m].origin, f)'
    BY <2>2 DEF Dated, Predates
  <2>7. OwnOK(m)'
    BY <2>1, <2>2, <2>3, <2>5, <2>6 DEF OwnOK
  <2> QED
    BY <1>3, <2>1, <2>7
<1>7. ASSUME NEW m \in Message, Arrive(m)
      PROVE  OwnInv'
  <2>1. /\ UNCHANGED vars /\ Moves(m)
        /\ mail[m].stage = "sent" /\ mail'[m].stage = "arrived"
        /\ mail'[m].received = wall
        /\ mail'[m].for = mail[m].for /\ mail'[m].origin = mail[m].origin
        /\ mail'[m].own = mail[m].own
    BY <1>1, <1>7, ArriveStep
  <2>2. leases' = leases
    BY <2>1 DEF vars, tableVars
  <2>3. Dated(mail[m].origin, mail[m].for) => Dated(mail[m].origin, mail[m].for)'
    BY <2>1, <2>2 DEF Dated, Predates
  <2>4. mail[m].own => /\ leases[mail[m].for].acquired <= wall
                       /\ Dated(mail[m].origin, mail[m].for)
    BY <1>1, <2>1 DEF OwnOK
  <2>5. OwnOK(m)'
    BY <2>1, <2>2, <2>3, <2>4 DEF OwnOK
  <2> QED
    BY <1>3, <2>1, <2>5
<1>8. ASSUME NEW m \in Message, Deliver(m)
      PROVE  OwnInv'
  <2>1. /\ Moves(m) /\ mail[m].stage = "arrived" /\ mail'[m].stage = "stored"
        /\ mail'[m].for = mail[m].for
        /\ mail'[m].own <=> mail[m].own /\ Held(mail[m].for)
        /\ LeaseAt(leases[mail[m].for].identity, mail[m].received, mail'[m].bound)
        /\ mail'[m].bound # 0
              => mail'[m].suspect = Suspicion(mail'[m].bound, mail[m].origin)
    BY <1>1, <1>8, DeliverStep
  <2>2. PICK f \in 1 .. rows : f = mail[m].for
    BY <1>1, <2>1 DEF Caused
  <2>3. PICK t \in Nat : t = mail[m].received
    BY <1>1 DEF MailTypes, Mail
  <2>4. ASSUME mail[m].own, Held(f)
        PROVE  /\ mail'[m].bound = f
               /\ mail'[m].suspect \in {"", "origin_unknown", "cooldown"}
    <3>1. leases[f].acquired <= t /\ Dated(mail[m].origin, f)
      BY <1>1, <2>1, <2>2, <2>3, <2>4 DEF OwnOK
    <3>2. LeaseAt(leases[f].identity, t, mail'[m].bound)
      BY <2>1, <2>2, <2>3
    <3>3. mail'[m].bound = f
      BY <1>1, <2>4, <3>1, <3>2, HeldOwnerFound
    <3>4. Suspicion(f, mail[m].origin) \in {"", "origin_unknown", "cooldown"}
      BY <1>1, <2>4, <3>1, HeldSuspicion
    <3>5. f # 0
      OBVIOUS
    <3> QED
      BY <2>1, <3>3, <3>4, <3>5
  <2>5. OwnOK(m)'
    BY <2>1, <2>2, <2>4 DEF OwnOK
  <2> QED
    BY <1>3, <2>1, <2>5
<1> QED
  BY <1>1, <1>4, <1>5, <1>6, <1>7, <1>8, MailNextSplit

\* bindRecipient and leaseAt: as long as the wall clock is not set back, a
\* message that a run caused and that was generated and stored within its
\* lease binds to that lease, whatever other runs, calls and sweeps do in the
\* meantime, and is refused only if it has no Date header or its lease was
\* granted in doubt.
THEOREM OwnMail == MailSpec /\ [][ClockForward]_mailVars => []OwnMailBinds
<1>1. MailInit => OwnInv
  <2>1. MailInit => \A m \in Message : OwnOK(m)
    <3>1. NoMail.own = FALSE
      BY DEF NoMail
    <3>2. MailInit => \A m \in Message : mail[m].own = FALSE
      BY <3>1 DEF MailInit
    <3> QED
      BY <3>2, Zenon DEF OwnOK
  <2> QED
    BY <2>1, InitBase DEF OwnInv
<1>2. OwnInv /\ [MailNext]_mailVars /\ [ClockForward]_mailVars => OwnInv'
  <2>1. ASSUME OwnInv, UNCHANGED mailVars PROVE ClockForward
    <3>1. wall' = wall /\ wall \in Nat
      BY <2>1 DEF mailVars, vars, clockVars, OwnInv, Base, IInv, TypeOK
    <3> QED
      BY <3>1 DEF ClockForward
  <2> QED
    BY <2>1, NextOwn
<1>3. OwnInv => OwnMailBinds
  BY DEF OwnInv, OwnOK, OwnMailBinds
<1> QED
  BY <1>1, <1>2, <1>3, PTL DEF MailSpec

-----------------------------------------------------------------------------
(* The handover of a pooled address.                                       *)

\* Release, and a seed that fails, start the cooldown of the lease they end.
LEMMA EndingCools ==
    ASSUME IInv, NEW c \in Caller,
           Release(c) \/ \E o \in SeedOutcomes : Settle(c, o),
           NEW l \in 1 .. rows, Held(l), leases'[l].state # "held",
           leases[l].identity \in Pooled
    PROVE  cooldown'[leases[l].identity] = wall + Cooldown
<1>1. TypeOK /\ CallsOK /\ Timeline /\ l \in LeaseId
  BY RowsAreIds DEF IInv
<1>2. leases[l].identity \in Identity /\ cooldown \in [Identity -> Nat \cup {NoTime}]
  BY <1>1 DEF Identity, TypeOK
<1>3. CASE Release(c)
  <2>1. l = calls[c].lease
    <3>1. leases' = EndHeld({calls[c].lease}, "released", Now)
      BY <1>3 DEF Release
    <3> QED
      BY <1>1, <3>1 DEF EndHeld, Held
  <2>2. cooldown' = [cooldown EXCEPT ![leases[l].identity] = wall + Cooldown]
    BY <1>3, <2>1 DEF Release
  <2> QED
    BY <1>2, <2>2
<1>4. ASSUME NEW o \in SeedOutcomes, Settle(c, o)
      PROVE  cooldown'[leases[l].identity] = wall + Cooldown
  <2> DEFINE k == calls[c].lease
  <2>1. k \in 1 .. rows
    BY <1>1, <1>4 DEF Settle, CallsOK
  <2>2. Held(k)
    BY <1>4 DEF Settle, Held
  <2>3. /\ leases' = SettleRow(k, o)
        /\ o = "failed" /\ leases[k].identity \in Pooled
              => cooldown' = [cooldown EXCEPT ![leases[k].identity] = wall + Cooldown]
    BY <1>4, <2>2 DEF Settle
  <2>4. l = k
    BY <1>1, <2>1, <2>3, RowsAreIds DEF SettleRow, TypeOK, Held
  <2>5. o = "failed"
    <3> SUFFICES ASSUME o # "failed" PROVE FALSE
      OBVIOUS
    <3>1. leases' = [leases EXCEPT ![k] = [@ EXCEPT !.seed = o]]
      BY <2>3 DEF SettleRow
    <3>2. leases'[l].state = leases[l].state
      BY <1>1, <2>4, <3>1 DEF TypeOK, LeaseRow
    <3> QED
      BY <3>2 DEF Held
  <2> QED
    BY <1>2, <2>3, <2>4, <2>5
<1> QED
  BY <1>3, <1>4

\* Under its condition, a step that ends a pooled lease starts its cooldown.
CoolsDown ==
    \A l \in 1 .. rows :
        Held(l) /\ leases'[l].state # "held" /\ leases[l].identity \in Pooled
        => cooldown'[leases[l].identity] = wall + Cooldown

\* Arithmetic of the argument: a later start ends later, and an interval that
\* starts a cooldown after x keeps clear of what happens within the bound.
LEMMA Shifted ==
    ASSUME NEW a \in Nat, NEW b \in Nat, NEW d \in Nat, a <= b
    PROVE  a + d \in Nat /\ a + d <= b + d
  OBVIOUS

LEMMA Clear ==
    ASSUME NEW x \in Nat, NEW d \in Nat, NEW bound \in Nat, NEW q \in Nat,
           NEW t \in Nat, x + d <= q, bound <= d, t < x + bound
    PROVE  t < q
  OBVIOUS

LEMMA ClearSecond ==
    ASSUME NEW x \in Nat, NEW d \in Nat, NEW sec \in Nat, NEW q \in Nat,
           NEW s \in Nat, x + d <= q, sec <= d, q < s + sec
    PROVE  x < s
  OBVIOUS

\* A cooldown only ever gets longer.
LEMMA CoolingStep ==
    ASSUME IInv, CoolingOK, [MailNext]_mailVars, MailTypes, ClockForward
    PROVE  /\ CoolingOK'
           /\ \A i \in Identity : cooldown[i] # NoTime =>
                 cooldown'[i] # NoTime /\ cooldown[i] <= cooldown'[i]
<1>1. TypeOK /\ TypeOK'
  BY StoreKept DEF IInv
<1>2. /\ wall \in Nat /\ wall' \in Nat /\ wall <= wall' /\ Cooldown \in Nat
      /\ wall + Cooldown \in Nat /\ wall + Cooldown <= wall' + Cooldown
  <2>1. wall \in Nat /\ wall' \in Nat
    BY <1>1 DEF TypeOK
  <2> QED
    <3>1. wall <= wall' /\ Cooldown \in Nat
      BY TimeAssumption DEF ClockForward
    <3> QED
      BY <2>1, <3>1, Shifted
<1>3. \A i \in Identity : cooldown'[i] \in {cooldown[i], wall + Cooldown}
  <2>1. CASE Next
    BY <2>1, StoreStep DEF Grants, NoGrant
  <2>2. CASE Quiet
    BY <2>2 DEF Quiet
  <2> QED
    BY <1>1, <2>1, <2>2, MailNextSplit
<1>4. ASSUME NEW i \in Identity
      PROVE  /\ cooldown'[i] # NoTime => cooldown'[i] <= wall' + Cooldown
             /\ cooldown[i] # NoTime =>
                   cooldown'[i] # NoTime /\ cooldown[i] <= cooldown'[i]
  <2>1. cooldown[i] \in Nat \cup {NoTime}
    BY <1>1 DEF TypeOK
  <2>2. cooldown[i] # NoTime => cooldown[i] <= wall + Cooldown
    BY DEF CoolingOK
  <2> QED
    BY <1>2, <1>3, <2>1, <2>2 DEF NoTime
<1> QED
  BY <1>4 DEF CoolingOK

\* An instant stays parted from the later leases of its identity.
LEMMA PartedKept ==
    ASSUME IInv, CoolingOK, MailTypes, [MailNext]_mailVars, ClockForward, CoolsDown,
           NEW f \in 1 .. rows, NEW x \in Nat, Parted(x, f)
    PROVE  Parted(x, f)'
<1>1. TypeOK /\ TypeOK' /\ rows \in Nat
  BY StoreKept DEF IInv, TypeOK
<1>2. /\ \A l \in 1 .. rows : KeepsHistory(l)
      /\ \A l \in 1 .. rows : l \in 1 .. rows' /\ l \in LeaseId
  BY <1>1, StoreKept, RowsAreIds
<1>3. PICK i : i = leases[f].identity
  OBVIOUS
<1>4. leases'[f].identity = i
  BY <1>2, <1>3 DEF KeepsHistory
<1> SUFFICES ASSUME i \in Pooled
    PROVE  /\ leases'[f].state = "held" => x <= wall'
           /\ leases'[f].state # "held" => /\ cooldown'[i] # NoTime
                                           /\ x + Cooldown <= cooldown'[i]
           /\ \A l \in 1 .. rows' :
                 f < l /\ leases'[l].identity = i /\ ~leases'[l].cool
                 => x + Cooldown <= leases'[l].acquired
  BY <1>4 DEF Parted, Held
<1>5. /\ Held(f) => x <= wall
      /\ ~Held(f) => cooldown[i] # NoTime /\ x + Cooldown <= cooldown[i]
      /\ \A l \in 1 .. rows :
            f < l /\ leases[l].identity = i /\ ~leases[l].cool
            => x + Cooldown <= leases[l].acquired
  BY <1>3 DEF Parted
<1>6. /\ i \in Identity /\ cooldown[i] \in Nat \cup {NoTime}
      /\ cooldown'[i] \in Nat \cup {NoTime}
      /\ wall \in Nat /\ wall' \in Nat /\ wall <= wall' /\ Cooldown \in Nat
  BY <1>1, TimeAssumption DEF TypeOK, Identity, ClockForward
<1>7. cooldown[i] # NoTime => cooldown'[i] # NoTime /\ cooldown[i] <= cooldown'[i]
  BY <1>6, CoolingStep
<1>8. leases'[f].state = "held" => x <= wall'
  BY <1>2, <1>5, <1>6 DEF KeepsHistory, Held
<1>9. leases'[f].state # "held" => cooldown'[i] # NoTime /\ x + Cooldown <= cooldown'[i]
  <2>1. CASE Held(f)
    BY <1>3, <1>5, <1>6, <2>1 DEF CoolsDown, NoTime
  <2>2. CASE ~Held(f)
    BY <1>5, <1>6, <1>7, <2>2
  <2> QED
    BY <2>1, <2>2
<1>10. ASSUME NEW l \in 1 .. rows', f < l, leases'[l].identity = i, ~leases'[l].cool
       PROVE  x + Cooldown <= leases'[l].acquired
  <2>1. CASE l \in 1 .. rows
    <3>1. /\ leases'[l].identity = leases[l].identity
          /\ leases'[l].acquired = leases[l].acquired
          /\ leases'[l].cool = leases[l].cool
      BY <1>2, <2>1 DEF KeepsHistory
    <3>2. ~leases[l].cool
      BY <1>10, <3>1, Zenon
    <3> QED
      BY <1>5, <1>10, <2>1, <3>1, <3>2
  <2>2. CASE ~(l \in 1 .. rows)
    <3>1. ~NoGrant /\ ~Quiet
      BY <2>2 DEF NoGrant, Quiet
    <3>2. Grants
      BY <1>1, <3>1, StoreStep, MailNextSplit
    <3>3. l = rows + 1
      BY <1>1, <2>2, <3>2 DEF Grants
    <3>4. /\ ~Held(f)
          /\ cooldown[i] # NoTime => cooldown[i] <= leases'[l].acquired
      BY <1>3, <1>10, <3>2, <3>3 DEF Grants
    <3>5. leases'[l].acquired \in Nat
      <4>1. l \in LeaseId
        BY <1>1, TimeAssumption DEF TypeOK, LeaseId
      <4> QED
        BY <1>1, <4>1 DEF TypeOK, LeaseRow
    <3> QED
      BY <1>5, <1>6, <3>4, <3>5
  <2> QED
    BY <2>1, <2>2
<1> QED
  BY <1>8, <1>9, <1>10

\* An identity's leases stay one per ephemeral address, and pooled leases stay
\* under the declared policy.
LEMMA GrantedStep ==
    ASSUME IInv, Granted, MailTypes, [MailNext]_mailVars
    PROVE  Granted'
<1>1. TypeOK /\ rows \in Nat
  BY DEF IInv, TypeOK
<1>2. /\ \A l \in 1 .. rows : leases'[l].identity = leases[l].identity
      /\ Filled'
  BY StoreKept DEF KeepsHistory, IInv, Timeline
<1>3. \A c \in Caller : calls'[c].pc = "walk" => PooledDeclared
  <2>1. CASE Next
    BY <2>1, WalkStep DEF Granted
  <2>2. CASE Quiet
    BY <2>2 DEF Quiet, Granted
  <2> QED
    BY <1>1, <2>1, <2>2, MailNextSplit
<1>4. CASE rows' = rows /\ minted' = minted
  BY <1>2, <1>3, <1>4 DEF Granted
<1>5. CASE Grants
  <2>1. PICK i : i = leases'[rows + 1].identity
    OBVIOUS
  <2>2. /\ rows' = rows + 1
        /\ \/ i \in Ephemeral /\ ~(i \in minted) /\ minted' = minted \cup {i}
           \/ i \in Pooled /\ minted' = minted /\ PooledDeclared
    BY <1>5, <2>1 DEF Grants, Granted
  <2>3. ASSUME NEW l \in 1 .. rows'
        PROVE  l \in 1 .. rows \/ l = rows + 1
    BY <1>1, <2>2
  <2>4. ASSUME NEW l \in 1 .. rows'
        PROVE  /\ leases'[l].identity \in Pooled => PooledDeclared
               /\ leases'[l].identity \in Ephemeral => leases'[l].identity \in minted'
    BY <1>2, <2>1, <2>2, <2>3, SetAssumption DEF Granted
  <2>5. ASSUME NEW l \in 1 .. rows, leases'[l].identity = i
        PROVE  i \in Pooled
    <3>1. i \in Ephemeral => i \in minted
      BY <1>2, <2>5 DEF Granted
    <3> QED
      BY <2>2, <3>1
  <2>6. ASSUME NEW l \in 1 .. rows', NEW k \in 1 .. rows',
               leases'[l].identity = leases'[k].identity, l # k
        PROVE  leases'[l].identity \in Pooled
    <3>1. CASE l \in 1 .. rows /\ k \in 1 .. rows
      BY <1>2, <2>6, <3>1 DEF Granted
    <3>2. CASE l = rows + 1 \/ k = rows + 1
      BY <2>1, <2>3, <2>5, <2>6, <3>2
    <3> QED
      BY <2>3, <3>1, <3>2
  <2> QED
    BY <1>3, <2>4, <2>6 DEF Granted
<1> QED
  BY <1>1, <1>4, <1>5, StoreStep, MailNextSplit DEF NoGrant, Quiet

\* A message that a step does not move keeps what is known of it.
LEMMA MessageKept ==
    ASSUME Base, CoolingOK, [MailNext]_mailVars, ClockForward, CoolsDown,
           NEW m \in Message, mail'[m] = mail[m], PartedOK(m)
    PROVE  PartedOK(m)'
<1>1. IInv /\ MailTypes /\ Caused
  BY DEF Base
<1>2. CASE ~InFlight(m)
  BY <1>2 DEF PartedOK, InFlight
<1>3. CASE InFlight(m)
  <2>1. PICK f \in 1 .. rows : f = mail[m].for
    BY <1>1, <1>3 DEF Caused, InFlight
  <2>2. PICK a \in Nat : a = mail[m].acted
    BY <1>1 DEF MailTypes, Mail
  <2>3. PICK o \in Nat \cup {NoTime} : o = mail[m].origin
    BY <1>1 DEF MailTypes, Mail
  <2>4. Parted(a, f) => Parted(a, f)'
    BY <1>1, PartedKept
  <2>5. o # NoTime /\ Parted(o, f) => Parted(o, f)'
    BY <1>1, PartedKept
  <2>6. /\ mail[m].for = f /\ mail[m].acted = a /\ mail[m].origin = o
        /\ mail'[m].for = f /\ mail'[m].acted = a /\ mail'[m].origin = o
        /\ InFlight(m)' <=> InFlight(m)
    BY <2>1, <2>2, <2>3 DEF InFlight
  <2>7. /\ ~mail[m].prompt => Parted(a, f)
        /\ mail[m].prompt /\ o # NoTime => Parted(o, f)
    BY <1>3, <2>6 DEF PartedOK
  <2>8. /\ ~mail'[m].prompt => Parted(a, f)'
        /\ mail'[m].prompt /\ o # NoTime => Parted(o, f)'
    BY <2>4, <2>5, <2>7
  <2> QED
    BY <1>3, <2>6, <2>8 DEF PartedOK, InFlight
<1> QED
  BY <1>2, <1>3

\* A quiet step moves no instant, so what is parted stays so.
LEMMA PartedQuiet ==
    ASSUME Quiet, NEW f, NEW x, Parted(x, f)
    PROVE  Parted(x, f)'
  BY DEF Parted, Quiet, Held

\* Lease l is an owner of the instant message m arrived at, and finds nothing
\* to doubt in it.
CleanFor(l, m) ==
    /\ mail[m].stage = "arrived"
    /\ l \in Owners(leases[mail[m].for].identity, mail[m].received)
    /\ Suspicion(l, mail[m].origin) = ""

\* The heart of the handover: a lease that finds nothing to doubt in a message
\* is the lease of the run that caused it.
LEMMA CleanIsOwn ==
    ASSUME Base, Granted, NEW m \in Message, PartedOK(m),
           NEW f \in 1 .. rows, NEW l \in 1 .. rows, mail[m].for = f, CleanFor(l, m)
    PROVE  l = f
<1> SUFFICES ASSUME l # f PROVE FALSE
  OBVIOUS
<1>1. /\ IInv /\ MailTypes /\ TypeOK /\ Ordered
      /\ l \in LeaseId /\ f \in LeaseId
  BY RowsAreIds DEF Base, IInv, Timeline
<1>2. /\ leases[l].identity = leases[f].identity
      /\ leases[l].acquired <= mail[m].received
  BY DEF CleanFor, Owners, LeasesOf
<1>3. leases[f].identity \in Pooled /\ PooledDeclared
  BY <1>1, <1>2 DEF Granted
<1>4. /\ ~leases[l].cool /\ mail[m].origin # NoTime
      /\ ~Predates(mail[m].origin, l) /\ leases[l].released = NoTime
  BY <1>2, <1>3 DEF CleanFor, Suspicion, SuspicionNoCooldown
<1>5. f < l
  <2>1. ~(l < f)
    BY <1>1, <1>2, <1>4 DEF Ordered
  <2>2. rows \in Nat
    BY <1>1 DEF TypeOK
  <2> QED
    BY <2>1, <2>2
<1>6. PICK q \in Nat, a \in Nat, t \in Nat, o \in Nat :
         q = leases[l].acquired /\ a = mail[m].acted /\ t = mail[m].received
         /\ o = mail[m].origin
  BY <1>1, <1>4 DEF TypeOK, LeaseRow, MailTypes, Mail
<1>7. Cooldown \in Nat /\ Second \in Nat \ {0} /\ MaxLatency \in Nat
      /\ Second <= MaxLatency /\ MaxLatency <= Cooldown
  BY <1>3, TimeAssumption, PolicyAssumption
<1>8. ASSUME NEW x \in Nat, Parted(x, f) PROVE x + Cooldown <= q
  BY <1>2, <1>3, <1>4, <1>5, <1>6, <1>8 DEF Parted
<1>9. CASE mail[m].prompt
  <2>1. o + Cooldown <= q
    BY <1>4, <1>6, <1>8, <1>9 DEF CleanFor, PartedOK, InFlight
  <2>2. ~(o < q - (q % Second))
    BY <1>4, <1>6 DEF Predates
  <2>3. PICK s \in Nat : s = q - (q % Second) /\ q < s + Second
    BY Truncated
  <2>4. ~(o < s)
    BY <2>2, <2>3
  <2>5. Second <= Cooldown
    BY <1>7
  <2> QED
    BY <1>7, <2>1, <2>3, <2>4, <2>5, ClearSecond
<1>10. CASE ~mail[m].prompt
  <2>1. a + Cooldown <= q /\ t < a + MaxLatency
    BY <1>6, <1>8, <1>10 DEF CleanFor, PartedOK, InFlight
  <2>2. q <= t
    BY <1>2, <1>6
  <2>3. t < q
    BY <1>7, <2>1, Clear
  <2> QED
    BY <2>2, <2>3
<1> QED
  BY <1>9, <1>10

\* While a lease is held nobody has taken its identity over.
LEMMA PartedNow ==
    ASSUME IInv, NEW f \in 1 .. rows, Held(f), NEW x \in Nat, x <= wall
    PROVE  Parted(x, f)
<1>1. WellFormed /\ Ordered
  BY DEF IInv, Timeline
<1>2. leases[f].released = NoTime
  BY <1>1 DEF WellFormed, Held
<1>3. \A l \in 1 .. rows : f < l => leases[l].identity # leases[f].identity
  BY <1>1, <1>2 DEF Ordered
<1> QED
  BY <1>3 DEF Parted

LEMMA NextHand ==
    ASSUME HandInv, [MailNext]_mailVars, ClockForward, EndedByItsCall
    PROVE  HandInv'
<1>1. /\ Base /\ IInv /\ TypeOK /\ MailTypes /\ Caused /\ Granted /\ CoolingOK
      /\ \A m \in Message : PartedOK(m)
  BY DEF HandInv, Base, IInv
<1>2. Base' /\ Granted' /\ CoolingOK'
  BY <1>1, NextBase, GrantedStep, CoolingStep
<1>3. CoolsDown
  BY <1>1, EndingCools DEF EndedByItsCall, CoolsDown
<1>4. ASSUME NEW m \in Message, Moves(m), PartedOK(m)' PROVE HandInv'
  <2>1. \A n \in Message : n # m => PartedOK(n)'
    BY <1>1, <1>3, <1>4, MessageKept DEF Moves
  <2> QED
    BY <1>2, <1>4, <2>1 DEF HandInv
<1>5. CASE mail' = mail
  <2>1. \A m \in Message : PartedOK(m)'
    BY <1>1, <1>3, <1>5, MessageKept
  <2> QED
    BY <1>2, <2>1 DEF HandInv
<1>6. ASSUME Quiet, NEW m \in Message, NEW l \in LeaseId, Act(m, l)
      PROVE  HandInv'
  <2>1. /\ Moves(m) /\ Held(l) /\ mail'[m].stage = "acted"
        /\ mail'[m].for = l /\ mail'[m].acted = wall /\ ~mail'[m].prompt
    BY <1>1, <1>6, ActStep
  <2>2. l \in 1 .. rows /\ wall \in Nat
    BY <1>1, <2>1 DEF IInv, TypeOK, Timeline, Filled, Held, NoLease
  <2>3. PICK x \in Nat : x = wall
    BY <2>2
  <2>4. Parted(x, l)
    BY <1>1, <2>1, <2>2, <2>3, PartedNow
  <2>5. Parted(x, l)'
    BY <1>6, <2>4, PartedQuiet
  <2>6. mail'[m].acted = x
    BY <2>1, <2>3
  <2>7. PartedOK(m)'
    BY <2>1, <2>5, <2>6 DEF PartedOK
  <2> QED
    BY <1>4, <2>1, <2>7
<1>7. ASSUME Quiet, NEW m \in Message, Generate(m)
      PROVE  HandInv'
  <2>1. /\ Moves(m) /\ mail[m].stage = "acted" /\ mail'[m].stage = "sent"
        /\ mail'[m].for = mail[m].for
        /\ mail'[m].origin \in {wall - (wall % Second), NoTime}
        /\ ~Held(mail[m].for) => mail'[m].acted = mail[m].acted
        /\ mail'[m].prompt <=> Held(mail[m].for)
    BY <1>1, <1>7, GenerateStep
  <2>2. PICK f \in 1 .. rows : f = mail[m].for
    BY <1>1, <2>1 DEF Caused
  <2>3. PICK x \in Nat : x = wall - (wall % Second) /\ x <= wall
    BY <1>1, Truncated DEF TypeOK
  <2>4. CASE Held(f)
    <3>1. Parted(x, f)
      BY <1>1, <2>3, <2>4, PartedNow
    <3>2. Parted(x, f)'
      BY <1>7, <3>1, PartedQuiet
    <3>3. mail'[m].for = f /\ mail'[m].prompt /\ mail'[m].origin \in {x, NoTime}
      BY <2>1, <2>2, <2>3, <2>4
    <3>4. PartedOK(m)'
      BY <2>1, <3>2, <3>3 DEF PartedOK
    <3> QED
      BY <1>4, <2>1, <3>4
  <2>5. CASE ~Held(f)
    <3>1. PICK a : a = mail[m].acted
      OBVIOUS
    <3>2. mail'[m].for = f /\ ~mail'[m].prompt /\ mail'[m].acted = a
      BY <2>1, <2>2, <2>5, <3>1
    <3>3. ~mail[m].prompt => Parted(a, f)
      BY <1>1, <2>1, <2>2, <3>1 DEF PartedOK, InFlight
    <3>4. ~mail[m].prompt => Parted(a, f)'
      BY <1>7, <3>3, PartedQuiet
    <3>5. ~mail[m].prompt
      BY <1>1, <2>1 DEF PartedOK
    <3>6. PartedOK(m)'
      BY <2>1, <3>2, <3>4, <3>5 DEF PartedOK
    <3> QED
      BY <1>4, <2>1, <3>6
  <2> QED
    BY <2>4, <2>5
<1>8. ASSUME Quiet, NEW m \in Message, Arrive(m)
      PROVE  HandInv'
  <2>1. /\ Moves(m) /\ mail[m].stage = "sent" /\ mail'[m].stage = "arrived"
        /\ mail'[m].received = wall
        /\ mail'[m].for = mail[m].for /\ mail'[m].acted = mail[m].acted
        /\ mail'[m].origin = mail[m].origin
        /\ mail'[m].prompt = mail[m].prompt
        /\ mail[m].prompt \/ wall < mail[m].acted + MaxLatency
    BY <1>1, <1>8, ArriveStep
  <2>2. PICK f, a, o : f = mail[m].for /\ a = mail[m].acted /\ o = mail[m].origin
    OBVIOUS
  <2>3. mail'[m].for = f /\ mail'[m].acted = a /\ mail'[m].origin = o
    BY <2>1, <2>2
  <2>4. /\ ~mail[m].prompt => Parted(a, f)
        /\ mail[m].prompt /\ o # NoTime => Parted(o, f)
    BY <1>1, <2>1, <2>2 DEF PartedOK, InFlight
  <2>5. /\ ~mail[m].prompt => Parted(a, f)'
        /\ mail[m].prompt /\ o # NoTime => Parted(o, f)'
    BY <1>8, <2>4, PartedQuiet
  <2>6. ~mail[m].prompt => mail'[m].received < a + MaxLatency
    BY <2>1, <2>2
  <2>7. PartedOK(m)'
    BY <2>1, <2>3, <2>5, <2>6 DEF PartedOK
  <2> QED
    BY <1>4, <2>1, <2>7
<1>9. ASSUME NEW m \in Message, Deliver(m)
      PROVE  HandInv'
  <2>1. /\ Moves(m) /\ mail[m].stage = "arrived" /\ mail'[m].stage = "stored"
        /\ mail'[m].for = mail[m].for
        /\ LeaseAt(leases[mail[m].for].identity, mail[m].received, mail'[m].bound)
        /\ mail'[m].bound # 0
              => mail'[m].suspect = Suspicion(mail'[m].bound, mail[m].origin)
    BY <1>1, <1>9, DeliverStep
  <2>2. PICK f \in 1 .. rows : f = mail[m].for
    BY <1>1, <2>1 DEF Caused
  <2>3. ASSUME mail'[m].bound # 0, mail'[m].suspect = ""
        PROVE  mail'[m].bound = f
    <3>1. PICK l : l = mail'[m].bound
      OBVIOUS
    <3>2. l \in Owners(leases[mail[m].for].identity, mail[m].received)
      BY <2>1, <2>3, <3>1, Zenon DEF LeaseAt, IsLatest
    <3>3. l \in 1 .. rows
      BY <3>2 DEF Owners, LeasesOf
    <3>4. CleanFor(l, m)
      BY <2>1, <2>3, <3>1, <3>2 DEF CleanFor
    <3> QED
      BY <1>1, <2>2, <3>1, <3>3, <3>4, CleanIsOwn
  <2>4. PartedOK(m)'
    BY <2>1, <2>2, <2>3 DEF PartedOK, InFlight
  <2> QED
    BY <1>4, <2>1, <2>4
<1> QED
  BY <1>1, <1>5, <1>6, <1>7, <1>8, <1>9, MailNextSplit

\* reservePooled, StartCooldown and leaseOwner.suspicion: as long as the wall
\* clock is not set back and every pooled lease ends by the call that starts
\* its cooldown, a message that one run caused never binds clean to the lease
\* of another run on the same address, however the acquires, releases and
\* seeds of other calls interleave with its way through the network.
THEOREM PooledHandover ==
    MailSpec /\ [][ClockForward /\ EndedByItsCall]_mailVars => []HandoverSafe
<1>1. MailInit => HandInv
  <2> SUFFICES ASSUME MailInit PROVE HandInv
    OBVIOUS
  <2>1. NoMail.stage = "none" /\ Idle.pc = "idle"
    BY DEF NoMail, Idle
  <2>2. \A m \in Message : PartedOK(m)
    BY <2>1 DEF MailInit, PartedOK, InFlight
  <2>3. Granted
    BY <2>1 DEF MailInit, Init, Granted
  <2>4. CoolingOK
    BY DEF MailInit, Init, CoolingOK
  <2> QED
    BY <2>2, <2>3, <2>4, InitBase DEF HandInv
<1>2. /\ HandInv /\ [MailNext]_mailVars /\ [ClockForward /\ EndedByItsCall]_mailVars
      => HandInv'
  <2>1. ASSUME HandInv, UNCHANGED mailVars PROVE ClockForward /\ EndedByItsCall
    <3>1. wall' = wall /\ wall \in Nat /\ leases' = leases
      BY <2>1 DEF mailVars, vars, clockVars, tableVars, HandInv, Base, IInv, TypeOK
    <3> QED
      BY <3>1 DEF ClockForward, EndedByItsCall, Held
  <2> QED
    BY <2>1, NextHand
<1>3. HandInv => HandoverSafe
  BY DEF HandInv, PartedOK, HandoverSafe
<1> QED
  BY <1>1, <1>2, <1>3, PTL DEF MailSpec
=============================================================================
