---------------------------- MODULE Correlation ----------------------------
(***************************************************************************)
(* Whose mail is this: LeaseStore composed with the mail the application   *)
(* under test sends and with the binding that smtp.Ingest.Deliver commits  *)
(* for it (internal/store/bindings.go).                                    *)
(*                                                                         *)
(* A run acts on the application while it holds a lease; the application   *)
(* generates a message some time later and the network delivers it later   *)
(* still.  The server reads its wall clock when the message arrives and    *)
(* resolves the recipient to a lease in a transaction after that, so runs  *)
(* may hand the address over between any two of those steps.               *)
(***************************************************************************)
EXTENDS LeaseStore

CONSTANTS
    Message,        \* messages the application may send
    Second,         \* clock ticks per second, what a Date header can name
    MaxLatency      \* PooledPolicy.MaxDeliveryLatency

\* resolveCooldown refuses a cooldown below the declared delivery bound, and
\* a bound below the resolution of a Date header.
ASSUME PolicyAssumption ==
    /\ Second \in Nat \ {0} /\ Second % Milli = 0
    /\ MaxLatency \in Nat /\ Second <= MaxLatency
    /\ PooledDeclared => MaxLatency <= Cooldown

VARIABLE mail       \* each message, from the run's action to its binding row

mailVars == <<vars, mail>>

Suspicions == {"", "cooldown", "after_release", "origin_unknown", "predates_lease"}

Mail == [stage : {"none", "acted", "sent", "arrived", "stored"},
         for : 0 .. MaxLeases,             \* the lease whose run caused it
         acted : Nat,                      \* when that run acted
         prompt : BOOLEAN,                 \* generated while it still held
         origin : Nat \cup {NoTime},       \* the Date header
         own : BOOLEAN,                    \* ... and dated within its lease,
                                           \* which then held it until stored
         received : Nat,
         bound : 0 .. MaxLeases, suspect : Suspicions]

NoMail == [stage |-> "none", for |-> 0, acted |-> 0, prompt |-> FALSE,
           origin |-> NoTime, own |-> FALSE, received |-> 0, bound |-> 0,
           suspect |-> ""]

MailTypeOK == TypeOK /\ mail \in [Message -> Mail]

-----------------------------------------------------------------------------
(* The application and the network.                                        *)

\* A run that was granted lease l does something that will cause a message.
Act(m, l) ==
    /\ mail[m].stage = "none"
    /\ Held(l) /\ leases[l].seed \in {"seeded", "skipped"}
    /\ mail' = [mail EXCEPT ![m] = [NoMail EXCEPT !.stage = "acted", !.for = l,
                                                  !.acted = wall]]
    /\ UNCHANGED vars

\* The application writes the message, with a Date header or without one.
Generate(m) ==
    LET l == mail[m].for IN
    /\ mail[m].stage = "acted"
    /\ \E origin \in {wall - (wall % Second), NoTime} :
          mail' = [mail EXCEPT ![m].stage = "sent", ![m].origin = origin,
                     ![m].acted = IF Held(l) THEN 0 ELSE @,
                     ![m].prompt = Held(l),
                     ![m].own = Held(l) /\ leases[l].acquired <= wall]
    /\ UNCHANGED vars

\* session.Data stamps the arrival with the wall clock.  A message generated
\* while its run held the address may take any time; one generated later
\* keeps the bound the operator declared.
Arrive(m) ==
    /\ serving
    /\ mail[m].stage = "sent"
    /\ mail[m].prompt \/ wall < mail[m].acted + MaxLatency
    /\ mail' = [mail EXCEPT ![m].stage = "arrived", ![m].received = wall]
    /\ UNCHANGED vars

-----------------------------------------------------------------------------
(* The binding.                                                            *)

\* The leases whose half-open interval contains the instant.
Owners(i, t) ==
    {l \in LeasesOf(i) : /\ leases[l].acquired <= t
                         /\ leases[l].released = NoTime \/ t < leases[l].released}

\* Tx.leaseAt: the latest of them, or 0 for ErrNotFound.
LeaseAt(i, t, l) ==
    \/ IsLatest(l, Owners(i, t))
    \/ Owners(i, t) = {} /\ l = 0

\* Mutated form: the lease instant is not truncated to a second.
PredatesUntruncated(origin, l) == origin < leases[l].acquired

\* The Date header names a second before the one the lease began in.
Predates(origin, l) == origin < leases[l].acquired - (leases[l].acquired % Second)

\* The doubts other than the cooldown's.  (As a mutated form of Suspicion: the
\* doubt a lease was granted under is forgotten.)
SuspicionNoCooldown(l, origin) ==
    CASE leases[l].identity \notin Pooled ->
            IF leases[l].released # NoTime THEN "after_release" ELSE ""
      [] leases[l].identity \in Pooled /\ origin = NoTime -> "origin_unknown"
      [] leases[l].identity \in Pooled /\ origin # NoTime ->
            IF Predates(origin, l) THEN "predates_lease"
            ELSE IF leases[l].released # NoTime THEN "after_release" ELSE ""

\* leaseOwner.suspicion, proven facts first.
Suspicion(l, origin) ==
    IF leases[l].cool THEN "cooldown" ELSE SuspicionNoCooldown(l, origin)

\* Ingest.Deliver's transaction: the message row and its binding commit
\* together.  It takes stamps from the store clock, folded into one.  (The
\* instants of the transit are forgotten: no later step here reads them.)
Deliver(m) ==
    LET i == leases[mail[m].for].identity IN
    /\ serving
    /\ mail[m].stage = "arrived"
    /\ \E l \in 0 .. MaxLeases :
          /\ LeaseAt(i, mail[m].received, l)
          /\ mail' = [mail EXCEPT ![m] =
                        [NoMail EXCEPT !.stage = "stored", !.for = mail[m].for,
                           !.own = mail[m].own /\ Held(mail[m].for),
                           !.bound = l,
                           !.suspect = IF l = 0 THEN ""
                                       ELSE Suspicion(l, mail[m].origin)]]
    /\ Stamp(Now)
    /\ UNCHANGED <<wall, stepBacks, procVars, tableVars, calls>>

-----------------------------------------------------------------------------
MailInit == Init /\ mail = [m \in Message |-> NoMail]

MailNext ==
    \/ Next /\ UNCHANGED mail
    \/ \E m \in Message :
          \/ \E l \in LeaseId : Act(m, l)
          \/ Generate(m) \/ Arrive(m) \/ Deliver(m)

MailSpec == MailInit /\ [][MailNext]_mailVars

-----------------------------------------------------------------------------
(* What correlation promises.                                              *)

\* The pooled handover: a message one run caused never binds clean, and so is
\* never claimable, under a lease of another run on the same address.
HandoverSafe ==
    \A m \in Message :
        mail[m].stage = "stored" /\ mail[m].bound # 0 /\ mail[m].suspect = ""
        => mail[m].bound = mail[m].for

\* A run's own mail is neither lost nor doubted: a message generated within
\* its lease and stored before the lease ended binds to that lease, and is
\* refused only if it cannot state its age or the lease was granted in doubt.
OwnMailBinds ==
    \A m \in Message :
        mail[m].stage = "stored" /\ mail[m].own
        => /\ mail[m].bound = mail[m].for
           /\ mail[m].suspect \in {"", "origin_unknown", "cooldown"}
=============================================================================
