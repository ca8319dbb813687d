------------------------------- MODULE Claims -------------------------------
(***************************************************************************)
(* Taking a secret from the mail bound to a lease: Service.Claim           *)
(* (internal/personas/claim.go) on the claims table (internal/store/       *)
(* claims.go), parked on a Waiter of the event bus (internal/sse) that     *)
(* smtp.Ingest publishes settled messages to.                              *)
(*                                                                         *)
(* A claim is a sequence of separate reads and one write.  Between any two *)
(* of them mail arrives and settles, other claims write, leases end and    *)
(* time passes.  Mail is the messages of one server, already bound: how a  *)
(* recipient was resolved is Correlation's subject.                        *)
(***************************************************************************)
EXTENDS Naturals

CONSTANTS
    Lease, Key, Kind,
    Caller,         \* claims in flight at one time
    Message,        \* a set of numbers: received_at order
    Requests,       \* the <<lease, key, kind>> clients ask for
    Envelopes,      \* functions from Lease to BindStates a message may have
    OtherCase,      \* messages that spell the recipient's local part
                    \* differently from the leased address
    GrantEnd,       \* endOfGrant: the earlier of lease and run expiry
    ClaimTTL,
    MaxTime         \* bound: largest clock value

\* What a binding is to a claim: usable, or one of the refusals that never
\* change.  (A message is quarantined as a whole; each of its bindings is.)
BindStates == {"none", "clean", "quarantined", "suspect", "stale"}

ASSUME ClaimsAssumption ==
    /\ Message \subseteq Nat
    /\ Requests \subseteq Lease \X Key \X Kind
    /\ Envelopes \subseteq [Lease -> BindStates]
    /\ OtherCase \subseteq Message
    /\ GrantEnd \in [Lease -> Nat]
    /\ ClaimTTL \in Nat \ {0} /\ MaxTime \in Nat

\* Clients reuse an idempotency key for one kind of value only, as the MCP
\* proxy does by deriving the key from the request.
KeyFixesKind ==
    \A a, b \in Requests : a[1] = b[1] /\ a[2] = b[2] => a[3] = b[3]

VARIABLES
    now,        \* the clock
    grant,      \* whether each lease and its run pass the gates
    msgs,       \* table messages with their bindings
    claims,     \* table claims
    calls,      \* the claim each caller has in flight
    handed      \* what clients were given, and whether too late

vars == <<now, grant, msgs, claims, calls, handed>>

MessageRow == [state : {"absent", "pending", "success", "failed"},
               bind : [Lease -> BindStates],
               carries : SUBSET Kind,      \* the values its extraction found
               announced : BOOLEAN]        \* the bus has fanned it out
ClaimRow == [lease : Lease, key : Key, kind : Kind, msg : Message, expires : Nat]
Handed == [lease : Lease, key : Key, msg : Message, kind : Kind, late : BOOLEAN]

NoMessage == [state |-> "absent", bind |-> [l \in Lease |-> "none"],
              carries |-> {}, announced |-> FALSE]

\* pc: where Claim stands; hint: the Waiter's one-slot buffer; cands: the
\* candidates read and not yet tried; final: in explain.  A claim without a
\* timeout is one whose deadline has passed before it can park.
Idle == [pc |-> "idle"]
Call == [pc : {"replay", "subscribe", "query", "take", "raced", "wait"},
         req : Requests, hint : BOOLEAN, cands : SUBSET Message, final : BOOLEAN]

ClaimsTypeOK ==
    /\ now \in 0 .. MaxTime
    /\ grant \in [Lease -> {"seeding", "live", "ended"}]
    /\ msgs \in [Message -> MessageRow]
    /\ claims \subseteq ClaimRow
    /\ calls \in [Caller -> Call \cup {Idle}]
    /\ handed \subseteq Handed

-----------------------------------------------------------------------------
Init ==
    /\ now = 0
    /\ grant = [l \in Lease |-> "seeding"]
    /\ msgs = [m \in Message |-> NoMessage]
    /\ claims = {}
    /\ calls = [c \in Caller |-> Idle]
    /\ handed = {}

(* The surroundings: the clock, the lease and the mail.                    *)

Advance ==
    /\ now < MaxTime
    /\ now' = now + 1
    /\ UNCHANGED <<grant, msgs, claims, calls, handed>>

\* A lease becomes claimable when its seed settles, and ends when it is
\* released, swept, or its run ends.
Settle(l) ==
    /\ grant[l] = "seeding"
    /\ grant' = [grant EXCEPT ![l] = "live"]
    /\ UNCHANGED <<now, msgs, claims, calls, handed>>

EndGrant(l) ==
    /\ grant[l] # "ended"
    /\ grant' = [grant EXCEPT ![l] = "ended"]
    /\ UNCHANGED <<now, msgs, claims, calls, handed>>

\* Ingest.Deliver commits a message with its bindings, extraction pending.
Deliver(m) ==
    /\ msgs[m].state = "absent"
    /\ \E bind \in Envelopes :
          msgs' = [msgs EXCEPT ![m].state = "pending", ![m].bind = bind]
    /\ UNCHANGED <<now, grant, claims, calls, handed>>

\* A worker settles the extraction in one terminal state.
Extract(m) ==
    /\ msgs[m].state = "pending"
    /\ \/ \E carries \in SUBSET Kind :
             msgs' = [msgs EXCEPT ![m].state = "success", ![m].carries = carries]
       \/ msgs' = [msgs EXCEPT ![m].state = "failed"]
    /\ UNCHANGED <<now, grant, claims, calls, handed>>

\* matchAddr: the bus predicate compares spellings exactly, although the
\* binding's lookup did not.
Registered(c) ==
    calls[c].pc \in {"query", "take", "raced", "wait"} /\ ~calls[c].final
Matches(m, c) ==
    /\ Registered(c)
    /\ msgs[m].bind[calls[c].req[1]] # "none"
    /\ m \notin OtherCase

\* Mutated form: a hint reaches only a caller that is parked already.
AnnounceParked(m) ==
    /\ msgs[m].state \in {"success", "failed"} /\ ~msgs[m].announced
    /\ msgs' = [msgs EXCEPT ![m].announced = TRUE]
    /\ calls' = [c \in Caller |-> IF Matches(m, c) /\ calls[c].pc = "wait"
                                  THEN [calls[c] EXCEPT !.hint = TRUE]
                                  ELSE calls[c]]
    /\ UNCHANGED <<now, grant, claims, handed>>

\* The publication that follows the commit: the bus puts a hint into the
\* buffer of every matching waiter, or drops it where one is waiting already.
Announce(m) ==
    /\ msgs[m].state \in {"success", "failed"} /\ ~msgs[m].announced
    /\ msgs' = [msgs EXCEPT ![m].announced = TRUE]
    /\ calls' = [c \in Caller |-> IF Matches(m, c) THEN [calls[c] EXCEPT !.hint = TRUE]
                                  ELSE calls[c]]
    /\ UNCHANGED <<now, grant, claims, handed>>

-----------------------------------------------------------------------------
(* Claim.                                                                  *)

Claimed(m, kind) == \E r \in claims : r.msg = m /\ r.kind = kind

\* ClaimCandidates: what a claim on lease l for kind may use.
Candidates(l, kind) ==
    {m \in Message : /\ msgs[m].bind[l] = "clean"
                     /\ ~Claimed(m, kind)
                     /\ msgs[m].state = "success"}

\* settleClaim records the outcome and answers with a value of message m; the
\* answer reaches the client or is lost on the way.
Hand(c, m) ==
    LET req == calls[c].req IN
    /\ \/ handed' = handed \cup
             {[lease |-> req[1], key |-> req[2], msg |-> m, kind |-> req[3],
               late |-> now >= GrantEnd[req[1]]]}
       \/ UNCHANGED handed
    /\ calls' = [calls EXCEPT ![c] = Idle]
Refuse(c) == calls' = [calls EXCEPT ![c] = Idle] /\ UNCHANGED handed

\* Claim reads the lease and the run and applies the gates, once.
Begin(c, req) ==
    /\ calls[c].pc = "idle"
    /\ grant[req[1]] = "live"
    /\ calls' = [calls EXCEPT ![c] =
                   [pc |-> "replay", req |-> req, hint |-> FALSE, cands |-> {},
                    final |-> FALSE]]
    /\ UNCHANGED <<now, grant, msgs, claims, handed>>

ByKey(req) == {r \in claims : r.lease = req[1] /\ r.key = req[2]}

\* replay with a row found: the key is spent, or the value of the requested
\* kind is derived from the claimed message again.
AnswerReplay(c) ==
    \E r \in ByKey(calls[c].req) :
        IF now < r.expires /\ calls[c].req[3] \in msgs[r.msg].carries
        THEN Hand(c, r.msg)
        ELSE Refuse(c)

Replay(c) ==
    /\ calls[c].pc = "replay"
    /\ \/ AnswerReplay(c)
       \/ /\ ByKey(calls[c].req) = {}
          /\ calls' = [calls EXCEPT ![c].pc = "subscribe"]
          /\ UNCHANGED handed
    /\ UNCHANGED <<now, grant, msgs, claims>>

\* SubscribeMatch, registered before the first query.
Subscribe(c) ==
    /\ calls[c].pc = "subscribe"
    /\ calls' = [calls EXCEPT ![c].pc = "query"]
    /\ UNCHANGED <<now, grant, msgs, claims, handed>>

Query(c) ==
    /\ calls[c].pc = "query"
    /\ calls' = [calls EXCEPT ![c].pc = "take",
                   ![c].cands = Candidates(calls[c].req[1], calls[c].req[3])]
    /\ UNCHANGED <<now, grant, msgs, claims, handed>>

\* The oldest candidate not yet tried, if it carries a value of the kind.
Oldest(c, m) == m \in calls[c].cands /\ \A k \in calls[c].cands : m <= k

SkipCandidate(c) ==
    /\ calls[c].pc = "take"
    /\ \E m \in Message :
          /\ Oldest(c, m) /\ calls[c].req[3] \notin msgs[m].carries
          /\ calls' = [calls EXCEPT ![c].cands = @ \ {m}]
    /\ UNCHANGED <<now, grant, msgs, claims, handed>>

Usable(c, m) ==
    calls[c].pc = "take" /\ Oldest(c, m) /\ calls[c].req[3] \in msgs[m].carries

\* Mutated form: the replay window is not capped at the end of the grant.
ExpiryUncapped(l) == now + ClaimTTL

\* RecordClaim's expiry: the TTL, capped at NotAfter.
Expiry(l) == IF GrantEnd[l] < now + ClaimTTL THEN GrantEnd[l] ELSE now + ClaimTTL

\* Mutated forms: one of the two unique indexes is missing.
TakenByMessage(req, m) == Claimed(m, req[3])
TakenByKey(req, m) == ByKey(req) # {}

\* claims_idem and claims_one_per_message_kind.
Taken(req, m) == ByKey(req) # {} \/ Claimed(m, req[3])

\* RecordClaim: ErrClaimWindowClosed, ErrClaimTaken, or the row.
RecordClaim(c) ==
    LET req == calls[c].req IN
    /\ \E m \in Message :
          /\ Usable(c, m)
          /\ \/ /\ now >= Expiry(req[1])
                /\ Refuse(c) /\ UNCHANGED claims
             \/ /\ now < Expiry(req[1]) /\ Taken(req, m)
                /\ calls' = [calls EXCEPT ![c].pc = "raced"]
                /\ UNCHANGED <<claims, handed>>
             \/ /\ now < Expiry(req[1]) /\ ~Taken(req, m)
                /\ claims' = claims \cup
                     {[lease |-> req[1], key |-> req[2], kind |-> req[3],
                       msg |-> m, expires |-> Expiry(req[1])]}
                /\ Hand(c, m)
    /\ UNCHANGED <<now, grant, msgs>>

\* Mutated form: a caller that lost the insert answers with the value it read.
RacedHandsOver(c) ==
    /\ calls[c].pc = "raced"
    /\ \E m \in Message : Oldest(c, m) /\ Hand(c, m)
    /\ UNCHANGED <<now, grant, msgs, claims>>

\* The insert was refused: the key's own row answers, or the next candidate
\* is tried.
Raced(c) ==
    /\ calls[c].pc = "raced"
    /\ \/ AnswerReplay(c)
       \/ /\ ByKey(calls[c].req) = {}
          /\ \E m \in Message :
                /\ Oldest(c, m)
                /\ calls' = [calls EXCEPT ![c].pc = "take", ![c].cands = @ \ {m}]
          /\ UNCHANGED handed
    /\ UNCHANGED <<now, grant, msgs, claims>>

\* Nothing was usable: park, or go on to explain, which queries once more and
\* does not read the waiter again.
Exhausted(c) == calls[c].pc = "take" /\ calls[c].cands = {}
ToExplain(c) ==
    calls' = [calls EXCEPT ![c].pc = "query", ![c].final = TRUE, ![c].hint = FALSE]

Park(c) ==
    /\ Exhausted(c) /\ ~calls[c].final
    /\ \/ calls' = [calls EXCEPT ![c].pc = "wait"]
       \/ ToExplain(c)
    /\ UNCHANGED <<now, grant, msgs, claims, handed>>

\* Wait returns a hint, or the deadline passes.
Wake(c) ==
    /\ calls[c].pc = "wait"
    /\ \/ /\ calls[c].hint
          /\ calls' = [calls EXCEPT ![c].pc = "query", ![c].hint = FALSE]
       \/ ToExplain(c)
    /\ UNCHANGED <<now, grant, msgs, claims, handed>>

\* explain found nothing to take and reports why.
Explain(c) ==
    /\ Exhausted(c) /\ calls[c].final
    /\ Refuse(c)
    /\ UNCHANGED <<now, grant, msgs, claims>>

\* The client goes away before the claim settled.
Cancel(c) ==
    /\ calls[c].pc # "idle"
    /\ Refuse(c)
    /\ UNCHANGED <<now, grant, msgs, claims>>

-----------------------------------------------------------------------------
Next ==
    \/ Advance
    \/ \E l \in Lease : Settle(l) \/ EndGrant(l)
    \/ \E m \in Message : Deliver(m) \/ Extract(m) \/ Announce(m)
    \/ \E c \in Caller :
          \/ \E req \in Requests : Begin(c, req)
          \/ Replay(c) \/ Subscribe(c) \/ Query(c) \/ SkipCandidate(c)
          \/ RecordClaim(c) \/ Raced(c) \/ Park(c) \/ Wake(c) \/ Explain(c)
          \/ Cancel(c)

Spec == Init /\ [][Next]_vars

-----------------------------------------------------------------------------
(* What the claim path promises.                                           *)

Secrets == INSTANCE OneTimeSecret WITH
    Secret <- Message \X Kind, Claimant <- Lease \X Key,
    owner <- {<<<<r.msg, r.kind>>, <<r.lease, r.key>>>> : r \in claims},
    given <- {<<<<h.msg, h.kind>>, <<h.lease, h.key>>>> : h \in handed}

\* The claims table and its answers implement OneTimeSecret: a row is what
\* makes a claimant the owner, and only the owner's replay is answered again.
ImplementsOneTimeSecret == Secrets!SecretSpec

\* "The fresh secret inside it is handed over exactly once": whatever claims
\* race, are retried or lose their answer, one value of one message goes to
\* one idempotency key of one lease.
OneTime ==
    \A a, b \in handed :
        a.msg = b.msg /\ a.kind = b.kind => a.lease = b.lease /\ a.key = b.key

\* claims_idem: a retried key gets the same code back, never a second one,
\* also when the first attempt is still running or its answer was lost.
Idempotent ==
    \A a, b \in handed :
        a.lease = b.lease /\ a.key = b.key => a.msg = b.msg /\ a.kind = b.kind

\* endOfGrant: nobody decides to hand a value over once the lease or the run
\* has run out, not even as a replay and not even before the sweep has noticed.
\* The time is that of the check in RecordClaim or replay; the row and the
\* answer follow it.
WithinGrant == \A h \in handed : ~h.late

\* SubscribeMatch before the query, hints that stay buffered: a caller is
\* never parked without a hint while a message it could take has been
\* announced.
NoLostWakeup ==
    \A c \in Caller :
        calls[c].pc = "wait" =>
            \A m \in Candidates(calls[c].req[1], calls[c].req[3]) \ OtherCase :
                msgs[m].announced /\ calls[c].req[3] \in msgs[m].carries
                => calls[c].hint
=============================================================================
