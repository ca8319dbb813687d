---------------------------- MODULE ClaimsProofs ----------------------------
(***************************************************************************)
(* Proofs about Claims: one handover per secret, one secret per key, none  *)
(* past the end of the grant, no lost wakeup, and the refinement of        *)
(* OneTimeSecret, for any number of claims in flight, leases, keys, kinds  *)
(* and messages.                                                           *)
(*                                                                         *)
(* The argument: the two unique indexes keep the claims table one-to-one   *)
(* between secrets and keys, everything handed over is backed by a row of  *)
(* that table, and a row's replay window ends with the grant (CInv); a     *)
(* caller past its query still has every announced message it could take   *)
(* to try, or a hint (WInv).                                               *)
(***************************************************************************)
EXTENDS Claims, TLAPS

CallsOK == calls \in [Caller -> Call \cup {Idle}]

\* A row was asked for, and can be replayed within the grant only.
RowsOK ==
    \A r \in claims :
        /\ r \in ClaimRow
        /\ <<r.lease, r.key, r.kind>> \in Requests
        /\ r.expires <= GrantEnd[r.lease]

\* The two unique indexes.
RowsUnique ==
    \A a, b \in claims :
        \/ a = b
        \/ /\ ~(a.lease = b.lease /\ a.key = b.key)
           /\ ~(a.msg = b.msg /\ a.kind = b.kind)

\* Whatever was handed over has its row.
HandedOK ==
    \A h \in handed :
        /\ h \in Handed /\ ~h.late
        /\ \E r \in claims : /\ r.lease = h.lease /\ r.key = h.key
                             /\ r.msg = h.msg /\ r.kind = h.kind

CInv == now \in Nat /\ CallsOK /\ RowsOK /\ RowsUnique /\ HandedOK

-----------------------------------------------------------------------------
\* A call in flight carries a request that clients make.
LEMMA InFlight ==
    ASSUME CallsOK, NEW c \in Caller, calls[c].pc # "idle"
    PROVE  calls[c] \in Call /\ calls[c].req \in Requests
                             /\ calls[c].req \in Lease \X Key \X Kind
BY ClaimsAssumption DEF CallsOK, Call, Idle

\* Handing a message over to a caller that has a row for it keeps HandedOK.
LEMMA HandKeeps ==
    ASSUME CInv, NEW c \in Caller, NEW m \in Message, calls[c].pc # "idle",
           NEW r \in claims',
           r.lease = calls[c].req[1], r.key = calls[c].req[2],
           r.kind = calls[c].req[3], r.msg = m,
           now < GrantEnd[calls[c].req[1]],
           claims \subseteq claims', Hand(c, m)
    PROVE  HandedOK' /\ CallsOK'
<1>1. calls[c].req \in Lease \X Key \X Kind
  BY InFlight DEF CInv
<1>2. CallsOK'
  BY DEF CInv, CallsOK, Hand
<1> DEFINE new == [lease |-> calls[c].req[1], key |-> calls[c].req[2], msg |-> m,
                   kind |-> calls[c].req[3], late |-> now >= GrantEnd[calls[c].req[1]]]
<1>3. handed' \subseteq handed \cup {new}
  BY DEF Hand
<1>4. GrantEnd[calls[c].req[1]] \in Nat
  BY <1>1, ClaimsAssumption
<1>5. new \in Handed /\ ~new.late
  <2>1. (now >= GrantEnd[calls[c].req[1]]) = FALSE
    BY <1>4 DEF CInv
  <2>2. new = [lease |-> calls[c].req[1], key |-> calls[c].req[2], msg |-> m,
               kind |-> calls[c].req[3], late |-> FALSE]
    BY <2>1
  <2>3. [lease |-> calls[c].req[1], key |-> calls[c].req[2], msg |-> m,
         kind |-> calls[c].req[3], late |-> FALSE] \in Handed
    BY <1>1 DEF Handed
  <2> QED
    BY <2>2, <2>3, Zenon
<1>6. \A h \in handed : /\ h \in Handed /\ ~h.late
                        /\ \E q \in claims' : /\ q.lease = h.lease /\ q.key = h.key
                                              /\ q.msg = h.msg /\ q.kind = h.kind
  BY DEF CInv, HandedOK
<1>7. \E q \in claims' : /\ q.lease = new.lease /\ q.key = new.key
                         /\ q.msg = new.msg /\ q.kind = new.kind
  OBVIOUS
<1> QED
  BY <1>2, <1>3, <1>5, <1>6, <1>7 DEF HandedOK

\* A replay hands over the row's own message, or nothing.
LEMMA ReplayKeeps ==
    ASSUME KeyFixesKind, CInv, NEW c \in Caller, calls[c].pc # "idle",
           AnswerReplay(c), claims' = claims
    PROVE  HandedOK' /\ CallsOK'
<1> DEFINE req == calls[c].req
<1>1. req \in Requests /\ req \in Lease \X Key \X Kind
  BY InFlight DEF CInv
<1>2. PICK r \in ByKey(req) :
         IF now < r.expires /\ req[3] \in msgs[r.msg].carries
         THEN Hand(c, r.msg) ELSE Refuse(c)
  BY DEF AnswerReplay
<1>3. r \in claims /\ r.lease = req[1] /\ r.key = req[2]
  BY <1>2 DEF ByKey
<1>4. r \in ClaimRow /\ <<r.lease, r.key, r.kind>> \in Requests
                     /\ r.expires <= GrantEnd[r.lease]
  BY <1>3 DEF CInv, RowsOK
<1>5. r.kind = req[3]
  BY <1>1, <1>3, <1>4 DEF KeyFixesKind
<1>6. CASE Refuse(c)
  BY <1>6 DEF Refuse, CInv, HandedOK, CallsOK
<1>7. CASE now < r.expires /\ Hand(c, r.msg)
  <2>1. now < GrantEnd[req[1]]
    <3>1. r.expires \in Nat /\ GrantEnd[req[1]] \in Nat
      BY <1>1, <1>4, ClaimsAssumption DEF ClaimRow
    <3> QED
      BY <3>1, <1>3, <1>4, <1>7 DEF CInv
  <2>2. r.msg \in Message /\ r \in claims'
    BY <1>3, <1>4 DEF ClaimRow
  <2> HIDE DEF req
  <2>3. Hand(c, r.msg)
    BY <1>7
  <2> QED
    BY <1>3, <1>5, <2>1, <2>2, <2>3, HandKeeps DEF req
<1> QED
  BY <1>2, <1>6, <1>7

\* Steps that write neither the table nor an answer.
LEMMA QuietKeeps ==
    ASSUME CInv, now' \in Nat, CallsOK', claims' = claims, handed' = handed
    PROVE  CInv'
BY DEF CInv, RowsOK, RowsUnique, HandedOK

\* RecordClaim adds a row the indexes allow and hands its message over.
LEMMA RecordKeeps ==
    ASSUME CInv, NEW c \in Caller, RecordClaim(c)
    PROVE  CInv'
<1> DEFINE req == calls[c].req
<1>1. PICK m \in Message :
         /\ Usable(c, m)
         /\ \/ /\ now >= Expiry(req[1])
               /\ Refuse(c) /\ UNCHANGED claims
            \/ /\ now < Expiry(req[1]) /\ Taken(req, m)
               /\ calls' = [calls EXCEPT ![c].pc = "raced"]
               /\ UNCHANGED <<claims, handed>>
            \/ /\ now < Expiry(req[1]) /\ ~Taken(req, m)
               /\ claims' = claims \cup
                    {[lease |-> req[1], key |-> req[2], kind |-> req[3],
                      msg |-> m, expires |-> Expiry(req[1])]}
               /\ Hand(c, m)
  BY DEF RecordClaim
<1>2. calls[c].pc # "idle" /\ now' = now
  BY <1>1 DEF Usable, RecordClaim
<1>3. calls[c] \in Call /\ req \in Requests /\ req \in Lease \X Key \X Kind
  BY <1>2, InFlight DEF CInv
<1>4. CASE Refuse(c) /\ UNCHANGED claims
  <2>1. CallsOK'
    BY <1>4 DEF Refuse, CallsOK, CInv
  <2> QED
    BY <1>2, <1>4, <2>1, QuietKeeps DEF Refuse, CInv
<1>5. CASE /\ calls' = [calls EXCEPT ![c].pc = "raced"]
           /\ UNCHANGED <<claims, handed>>
  <2>1. CallsOK'
    BY <1>3, <1>5 DEF CallsOK, CInv, Call
  <2> QED
    BY <1>2, <1>5, <2>1, QuietKeeps DEF CInv
<1>6. CASE /\ now < Expiry(req[1]) /\ ~Taken(req, m)
           /\ claims' = claims \cup
                {[lease |-> req[1], key |-> req[2], kind |-> req[3],
                  msg |-> m, expires |-> Expiry(req[1])]}
           /\ Hand(c, m)
  <2> DEFINE new == [lease |-> req[1], key |-> req[2], kind |-> req[3],
                     msg |-> m, expires |-> Expiry(req[1])]
  <2>1. GrantEnd[req[1]] \in Nat /\ Expiry(req[1]) \in Nat
        /\ Expiry(req[1]) <= GrantEnd[req[1]]
    BY <1>3, ClaimsAssumption DEF Expiry, CInv
  <2>2. new \in ClaimRow
    BY <1>3, <2>1 DEF ClaimRow
  <2>3. <<new.lease, new.key, new.kind>> \in Requests
    BY <1>3
  <2>4. RowsOK'
    <3>1. new.expires <= GrantEnd[new.lease]
      BY <2>1
    <3>2. claims' = claims \cup {new}
      BY <1>6
    <3> HIDE DEF new
    <3> QED
      BY <2>2, <2>3, <3>1, <3>2 DEF RowsOK, CInv
  <2>5. \A r \in claims : /\ ~(r.lease = req[1] /\ r.key = req[2])
                          /\ ~(r.msg = m /\ r.kind = req[3])
    BY <1>6 DEF Taken, ByKey, Claimed
  <2>6. RowsUnique'
    <3>1. new.lease = req[1] /\ new.key = req[2] /\ new.kind = req[3] /\ new.msg = m
      OBVIOUS
    <3>2. claims' = claims \cup {new}
      BY <1>6
    <3> HIDE DEF new
    <3> QED
      BY <2>5, <3>1, <3>2 DEF RowsUnique, CInv
  <2>7. now < GrantEnd[req[1]]
    BY <1>6, <2>1 DEF CInv
  <2>8. HandedOK' /\ CallsOK'
    <3>1. new \in claims' /\ claims \subseteq claims'
      BY <1>6
    <3>2. new.lease = req[1] /\ new.key = req[2] /\ new.kind = req[3] /\ new.msg = m
      OBVIOUS
    <3> HIDE DEF new
    <3> QED
      BY <1>2, <1>6, <2>7, <3>1, <3>2, HandKeeps
  <2> QED
    BY <1>2, <2>4, <2>6, <2>8 DEF CInv
<1> QED
  BY <1>1, <1>4, <1>5, <1>6

\* The inductive step.
LEMMA CInvStep ==
    ASSUME KeyFixesKind, CInv, [Next]_vars
    PROVE  CInv'
<1>1. CASE UNCHANGED vars
  BY <1>1, QuietKeeps DEF vars, CInv, CallsOK
<1>2. CASE Advance
  BY <1>2, QuietKeeps DEF Advance, CInv, CallsOK
<1>3. ASSUME NEW l \in Lease, Settle(l) \/ EndGrant(l)
      PROVE  CInv'
  BY <1>3, QuietKeeps DEF Settle, EndGrant, CInv, CallsOK
<1>4. ASSUME NEW m \in Message, Deliver(m) \/ Extract(m)
      PROVE  CInv'
  BY <1>4, QuietKeeps DEF Deliver, Extract, CInv, CallsOK
<1>5. ASSUME NEW m \in Message, Announce(m)
      PROVE  CInv'
  <2>1. CallsOK'
    <3>1. \A c \in Caller : Matches(m, c) => calls[c] \in Call
      BY InFlight DEF Matches, Registered, CInv
    <3>2. \A c \in Caller : calls'[c] \in Call \cup {Idle}
      BY <1>5, <3>1 DEF Announce, Call, CInv, CallsOK
    <3> QED
      BY <1>5, <3>2 DEF Announce, CallsOK
  <2> QED
    BY <1>5, <2>1, QuietKeeps DEF Announce, CInv
<1>6. ASSUME NEW c \in Caller, NEW req \in Requests, Begin(c, req)
      PROVE  CInv'
  <2>1. CallsOK'
    BY <1>6 DEF Begin, CInv, CallsOK, Call
  <2> QED
    BY <1>6, <2>1, QuietKeeps DEF Begin, CInv
<1>7. ASSUME NEW c \in Caller, Replay(c) \/ Raced(c)
      PROVE  CInv'
  <2>1. calls[c].pc # "idle" /\ now' = now /\ claims' = claims
    BY <1>7 DEF Replay, Raced
  <2>2. CASE AnswerReplay(c)
    BY <2>1, <2>2, ReplayKeeps DEF CInv, RowsOK, RowsUnique
  <2>3. calls[c] \in Call
    BY <2>1, InFlight DEF CInv
  <2>4. CASE ~AnswerReplay(c)
    <3>1. CallsOK' /\ handed' = handed
      BY <1>7, <2>3, <2>4 DEF Replay, Raced, CInv, CallsOK, Call
    <3> QED
      BY <2>1, <3>1, QuietKeeps DEF CInv
  <2> QED
    BY <2>2, <2>4
<1>8. ASSUME NEW c \in Caller,
             \/ Subscribe(c) \/ Query(c) \/ SkipCandidate(c) \/ Park(c) \/ Wake(c)
      PROVE  CInv'
  <2>1. calls[c] \in Call
    BY <1>8, InFlight DEF Subscribe, Query, SkipCandidate, Park, Exhausted, Wake, CInv
  <2>2. CallsOK'
    BY <1>8, <2>1 DEF Subscribe, Query, SkipCandidate, Park, Wake, ToExplain,
                      Candidates, CInv, CallsOK, Call
  <2> QED
    BY <1>8, <2>2, QuietKeeps
    DEF Subscribe, Query, SkipCandidate, Park, Wake, ToExplain, CInv
<1>9. ASSUME NEW c \in Caller, Explain(c) \/ Cancel(c)
      PROVE  CInv'
  <2>1. CallsOK'
    BY <1>9 DEF Explain, Cancel, Refuse, CInv, CallsOK
  <2> QED
    BY <1>9, <2>1, QuietKeeps DEF Explain, Cancel, Refuse, CInv
<1>10. ASSUME NEW c \in Caller, RecordClaim(c)
       PROVE  CInv'
  BY <1>10, RecordKeeps
<1> QED
  BY <1>1, <1>2, <1>3, <1>4, <1>5, <1>6, <1>7, <1>8, <1>9, <1>10 DEF Next

\* CInv is an inductive invariant of the claim path, as long as an idempotency
\* key always names the same kind (Service.Claim and RecordClaim keep it).
THEOREM ClaimsInvariance ==
    ASSUME KeyFixesKind PROVE Spec => []CInv
<1>1. Init => CInv
  BY DEF Init, CInv, CallsOK, RowsOK, RowsUnique, HandedOK
<1>2. CInv /\ [Next]_vars => CInv'
  BY CInvStep
<1> QED
  BY <1>1, <1>2, PTL DEF Spec

\* Service.Claim and the two indexes of the claims table: a value of a message
\* goes to one key of one lease, for any number of racing or retried claims.
THEOREM OneHandover ==
    ASSUME KeyFixesKind PROVE Spec => []OneTime
<1>1. CInv => OneTime
  <2> SUFFICES ASSUME CInv, NEW a \in handed, NEW b \in handed,
                      a.msg = b.msg, a.kind = b.kind
               PROVE  a.lease = b.lease /\ a.key = b.key
    BY DEF OneTime
  <2>1. PICK r \in claims : r.lease = a.lease /\ r.key = a.key
                            /\ r.msg = a.msg /\ r.kind = a.kind
    BY DEF CInv, HandedOK
  <2>2. PICK q \in claims : q.lease = b.lease /\ q.key = b.key
                            /\ q.msg = b.msg /\ q.kind = b.kind
    BY DEF CInv, HandedOK
  <2> QED
    BY <2>1, <2>2 DEF CInv, RowsUnique
<1> QED
  BY <1>1, ClaimsInvariance, PTL

\* replay and claims_idem: an idempotency key of a lease is answered with one
\* secret, however often and however concurrently it is retried.
THEOREM OneSecretPerKey ==
    ASSUME KeyFixesKind PROVE Spec => []Idempotent
<1>1. CInv => Idempotent
  <2> SUFFICES ASSUME CInv, NEW a \in handed, NEW b \in handed,
                      a.lease = b.lease, a.key = b.key
               PROVE  a.msg = b.msg /\ a.kind = b.kind
    BY DEF Idempotent
  <2>1. PICK r \in claims : r.lease = a.lease /\ r.key = a.key
                            /\ r.msg = a.msg /\ r.kind = a.kind
    BY DEF CInv, HandedOK
  <2>2. PICK q \in claims : q.lease = b.lease /\ q.key = b.key
                            /\ q.msg = b.msg /\ q.kind = b.kind
    BY DEF CInv, HandedOK
  <2> QED
    BY <2>1, <2>2 DEF CInv, RowsUnique
<1> QED
  BY <1>1, ClaimsInvariance, PTL

\* endOfGrant: RecordClaim's cap and replay's expiry check decide every handover
\* before the end of the lease and of the run.
THEOREM HandedWithinGrant ==
    ASSUME KeyFixesKind PROVE Spec => []WithinGrant
<1>1. CInv => WithinGrant
  BY DEF CInv, HandedOK, WithinGrant
<1> QED
  BY <1>1, ClaimsInvariance, PTL

-----------------------------------------------------------------------------
(* No lost wakeup.                                                         *)

MsgsOK == msgs \in [Message -> MessageRow]

\* A message is announced once its extraction has settled.
Settled == \A m \in Message : msgs[m].announced => msgs[m].state \in {"success", "failed"}

\* A message the request could take, which the bus has announced.
Awaited(m, req) ==
    /\ msgs[m].announced /\ msgs[m].state = "success" /\ msgs[m].bind[req[1]] = "clean"
    /\ req[3] \in msgs[m].carries /\ ~Claimed(m, req[3])

First(r, m) == m \in r.cands /\ \A k \in r.cands : m <= k

\* A caller that has queried has every awaited message still to try, or a hint
\* to query again; one whose insert was refused loses nothing by going on.
WakeOK(r) ==
    /\ r.pc = "wait" => r.cands = {} /\ ~r.final
    /\ r.pc = "raced" => \A m \in Message : First(r, m) => Taken(r.req, m)
    /\ r.pc \in {"take", "raced", "wait"} /\ ~r.final /\ ~r.hint =>
          \A m \in Message \ OtherCase : Awaited(m, r.req) => m \in r.cands

WInv == CallsOK /\ MsgsOK /\ Settled /\ \A c \in Caller : WakeOK(calls[c])

\* One caller moves on, and rows are only added.
LEMMA WakeSame ==
    ASSUME WInv, NEW c \in Caller, NEW new \in Call \cup {Idle},
           calls' = [calls EXCEPT ![c] = new],
           claims \subseteq claims', msgs' = msgs, WakeOK(new)'
    PROVE  WInv'
<1>1. CallsOK' /\ MsgsOK' /\ Settled'
  BY DEF WInv, CallsOK, MsgsOK, Settled
<1>2. \A m, k : Claimed(m, k) => Claimed(m, k)'
  BY DEF Claimed
<1>3. \A req : ByKey(req) \subseteq ByKey(req)'
  BY DEF ByKey
<1>4. \A req, m : Taken(req, m) => Taken(req, m)'
  BY <1>2, <1>3 DEF Taken
<1>5. \A m, req : Awaited(m, req)' => Awaited(m, req)
  BY <1>2 DEF Awaited
<1>6. \A r : WakeOK(r) => WakeOK(r)'
  BY <1>4, <1>5 DEF WakeOK, First
<1>7. ASSUME NEW d \in Caller PROVE WakeOK(calls[d])'
  <2>1. CASE d = c
    <3>1. calls'[d] = new
      BY <2>1 DEF WInv, CallsOK
    <3> QED
      BY <3>1 DEF WakeOK
  <2>2. CASE d # c
    <3>1. calls'[d] = calls[d] /\ WakeOK(calls[d])
      BY <2>2 DEF WInv, CallsOK
    <3> QED
      BY <1>6, <3>1 DEF WakeOK
  <2> QED
    BY <2>1, <2>2
<1> QED
  BY <1>1, <1>7 DEF WInv

\* A call that is over, answered or not, waits for nothing.
LEMMA CallOver ==
    ASSUME WInv, NEW c \in Caller, calls' = [calls EXCEPT ![c] = Idle],
           claims \subseteq claims', msgs' = msgs
    PROVE  WInv'
BY WakeSame DEF Idle, WakeOK

LEMMA AnswerEnds ==
    ASSUME NEW c \in Caller, AnswerReplay(c)
    PROVE  calls' = [calls EXCEPT ![c] = Idle]
BY DEF AnswerReplay, Hand, Refuse

\* A call in flight goes on.
MovesTo(c, pc, cands) ==
    \/ calls' = [calls EXCEPT ![c].pc = pc, ![c].cands = cands]
    \/ calls' = [calls EXCEPT ![c].pc = pc] /\ cands = calls[c].cands
    \/ calls' = [calls EXCEPT ![c].cands = cands] /\ pc = calls[c].pc

LEMMA CallMoves ==
    ASSUME CallsOK, NEW c \in Caller, calls[c].pc # "idle",
           NEW pc \in {"subscribe", "query", "take", "raced", "wait"},
           NEW cands \in SUBSET Message,
           MovesTo(c, pc, cands)
    PROVE  \E new \in Call :
              /\ calls' = [calls EXCEPT ![c] = new]
              /\ new.pc = pc /\ new.cands = cands /\ new.req = calls[c].req
              /\ new.final = calls[c].final /\ new.hint = calls[c].hint
<1> DEFINE new == [calls[c] EXCEPT !.pc = pc, !.cands = cands]
<1>1. calls[c] \in Call
  BY InFlight
<1>2. /\ new \in Call /\ new.pc = pc /\ new.cands = cands /\ new.req = calls[c].req
      /\ new.final = calls[c].final /\ new.hint = calls[c].hint
  BY <1>1 DEF Call
<1>3. /\ cands = calls[c].cands => new = [calls[c] EXCEPT !.pc = pc]
      /\ pc = calls[c].pc => new = [calls[c] EXCEPT !.cands = cands]
  BY <1>1 DEF Call
<1>4. calls' = [calls EXCEPT ![c] = new]
  <2>1. CASE calls' = [calls EXCEPT ![c].pc = pc, ![c].cands = cands]
    BY <2>1
  <2>2. CASE calls' = [calls EXCEPT ![c].pc = pc] /\ cands = calls[c].cands
    <3>1. calls' = [calls EXCEPT ![c] = [calls[c] EXCEPT !.pc = pc]]
      BY <2>2
    <3> HIDE DEF new
    <3> QED
      BY <1>3, <2>2, <3>1
  <2>3. CASE calls' = [calls EXCEPT ![c].cands = cands] /\ pc = calls[c].pc
    <3>1. calls' = [calls EXCEPT ![c] = [calls[c] EXCEPT !.cands = cands]]
      BY <2>3
    <3> HIDE DEF new
    <3> QED
      BY <1>3, <2>3, <3>1
  <2> QED
    BY <2>1, <2>2, <2>3 DEF MovesTo
<1> QED
  BY <1>2, <1>4

LEMMA MailStep ==
    ASSUME WInv, NEW m \in Message, Deliver(m) \/ Extract(m)
    PROVE  WInv'
<1>1. /\ msgs[m] \in MessageRow /\ ~msgs[m].announced /\ UNCHANGED <<claims, calls>>
  BY DEF WInv, MsgsOK, Settled, Deliver, Extract
<1>2. PICK row : msgs' = [msgs EXCEPT ![m] = row] /\ row \in MessageRow /\ ~row.announced
  <2>1. CASE Deliver(m)
    <3>1. PICK bind \in Envelopes :
             msgs' = [msgs EXCEPT ![m].state = "pending", ![m].bind = bind]
      BY <2>1 DEF Deliver
    <3>2. bind \in [Lease -> BindStates]
      BY ClaimsAssumption
    <3> DEFINE row == [msgs[m] EXCEPT !.state = "pending", !.bind = bind]
    <3>3. row \in MessageRow /\ row.announced = msgs[m].announced
      BY <1>1, <3>2 DEF MessageRow
    <3>4. msgs' = [msgs EXCEPT ![m] = row]
      BY <3>1
    <3> QED
      BY <1>1, <3>3, <3>4
  <2>2. CASE Extract(m)
    <3>1. ASSUME NEW carries \in SUBSET Kind,
                 msgs' = [msgs EXCEPT ![m].state = "success", ![m].carries = carries]
          PROVE  \E row : /\ msgs' = [msgs EXCEPT ![m] = row]
                          /\ row \in MessageRow /\ ~row.announced
      <4> DEFINE row == [msgs[m] EXCEPT !.state = "success", !.carries = carries]
      <4>1. row \in MessageRow /\ row.announced = msgs[m].announced
        BY <1>1 DEF MessageRow
      <4>2. msgs' = [msgs EXCEPT ![m] = row]
        BY <3>1
      <4> QED
        BY <1>1, <4>1, <4>2
    <3>2. CASE msgs' = [msgs EXCEPT ![m].state = "failed"]
      <4> DEFINE row == [msgs[m] EXCEPT !.state = "failed"]
      <4>1. row \in MessageRow /\ row.announced = msgs[m].announced
        BY <1>1 DEF MessageRow
      <4>2. msgs' = [msgs EXCEPT ![m] = row]
        BY <3>2
      <4> QED
        BY <1>1, <4>1, <4>2
    <3> QED
      BY <2>2, <3>1, <3>2 DEF Extract
  <2> QED
    BY <2>1, <2>2
<1>3. /\ msgs' \in [Message -> MessageRow] /\ ~msgs'[m].announced
      /\ \A k \in Message : k # m => msgs'[k] = msgs[k]
  BY <1>2 DEF WInv, MsgsOK
<1>4. Settled'
  BY <1>3 DEF WInv, Settled
<1>5. \A k \in Message : \A req : Awaited(k, req)' => Awaited(k, req)
  BY <1>1, <1>3 DEF Awaited, Claimed
<1>6. \A req, k : Taken(req, k) => Taken(req, k)'
  BY <1>1 DEF Taken, ByKey, Claimed
<1>7. \A r : WakeOK(r) => WakeOK(r)'
  BY <1>5, <1>6 DEF WakeOK, First
<1> QED
  BY <1>1, <1>3, <1>4, <1>7 DEF WInv, CallsOK, MsgsOK, WakeOK

\* A hint reaches every caller registered for the message, parked or not.
LEMMA AnnounceStep ==
    ASSUME WInv, NEW m \in Message, Announce(m)
    PROVE  WInv'
<1>1. /\ msgs[m] \in MessageRow /\ msgs[m].state \in {"success", "failed"} /\ claims' = claims
  BY DEF WInv, MsgsOK, Announce
<1> DEFINE row == [msgs[m] EXCEPT !.announced = TRUE]
<1>2. /\ row \in MessageRow /\ row.state = msgs[m].state /\ row.bind = msgs[m].bind
  BY <1>1 DEF MessageRow
<1>3. msgs' = [msgs EXCEPT ![m] = row]
  BY DEF Announce
<1> HIDE DEF row
<1>4. /\ msgs' \in [Message -> MessageRow]
      /\ msgs'[m].state = msgs[m].state /\ msgs'[m].bind = msgs[m].bind
      /\ \A k \in Message : k # m => msgs'[k] = msgs[k]
  BY <1>2, <1>3 DEF WInv, MsgsOK
<1>5. Settled'
  BY <1>1, <1>4 DEF WInv, Settled
<1>6. \A k \in Message : \A req : k # m /\ Awaited(k, req)' => Awaited(k, req)
  BY <1>1, <1>4 DEF Awaited, Claimed
<1>7. \A req, k : Taken(req, k) => Taken(req, k)'
  BY <1>1 DEF Taken, ByKey, Claimed
<1>8. ASSUME NEW c \in Caller
      PROVE  calls'[c] \in Call \cup {Idle} /\ WakeOK(calls[c])'
  <2>1. CASE Matches(m, c)
    <3>1. calls[c] \in Call
      BY <2>1, InFlight DEF WInv, Matches, Registered
    <3> DEFINE new == [calls[c] EXCEPT !.hint = TRUE]
    <3>2. calls'[c] = new
      BY <2>1 DEF Announce
    <3>3. /\ new.hint = TRUE /\ new.pc = calls[c].pc /\ new.req = calls[c].req
          /\ new.cands = calls[c].cands /\ new.final = calls[c].final /\ new \in Call
      BY <3>1 DEF Call
    <3> HIDE DEF new
    <3>4. WakeOK(calls[c])
      BY DEF WInv
    <3> QED
      BY <1>7, <3>2, <3>3, <3>4 DEF WakeOK, First
  <2>2. CASE ~Matches(m, c)
    <3>1. calls'[c] = calls[c] /\ WakeOK(calls[c]) /\ calls[c] \in Call \cup {Idle}
      BY <2>2 DEF Announce, WInv, CallsOK
    <3>2. calls[c].pc \in {"take", "raced", "wait"} /\ ~calls[c].final
             => m \in OtherCase \/ ~Awaited(m, calls[c].req)'
      BY <2>2, <1>4, <3>1 DEF Matches, Registered, Awaited
    <3> QED
      BY <1>6, <1>7, <3>1, <3>2 DEF WakeOK, First
  <2> QED
    BY <2>1, <2>2
<1>9. CallsOK'
  BY <1>8 DEF Announce, CallsOK
<1> QED
  BY <1>4, <1>5, <1>8, <1>9 DEF WInv, MsgsOK

\* RecordClaim ends the call, or goes on to look why the insert was refused.
LEMMA RecordWakes ==
    ASSUME WInv, NEW c \in Caller, RecordClaim(c)
    PROVE  WInv'
<1>1. PICK m \in Message :
         /\ Usable(c, m)
         /\ \/ Refuse(c) /\ UNCHANGED claims
            \/ /\ Taken(calls[c].req, m)
               /\ calls' = [calls EXCEPT ![c].pc = "raced"]
               /\ UNCHANGED <<claims, handed>>
            \/ claims \subseteq claims' /\ Hand(c, m)
  BY DEF RecordClaim
<1>2. msgs' = msgs /\ calls[c].pc = "take" /\ Oldest(c, m)
  BY <1>1 DEF RecordClaim, Usable
<1>3. CASE claims \subseteq claims' /\ (Refuse(c) \/ Hand(c, m))
  BY <1>2, <1>3, CallOver DEF Refuse, Hand
<1>4. CASE /\ Taken(calls[c].req, m) /\ calls' = [calls EXCEPT ![c].pc = "raced"]
           /\ claims' = claims
  <2>1. calls[c] \in Call /\ WakeOK(calls[c])
    BY <1>2, InFlight DEF WInv
  <2>2. PICK new \in Call :
           /\ calls' = [calls EXCEPT ![c] = new]
           /\ new.pc = "raced" /\ new.cands = calls[c].cands /\ new.req = calls[c].req
           /\ new.final = calls[c].final /\ new.hint = calls[c].hint
    <3>1. calls[c].cands \in SUBSET Message
      BY <2>1 DEF Call
    <3>2. CallsOK /\ calls[c].pc # "idle" /\ MovesTo(c, "raced", calls[c].cands)
      BY <1>2, <1>4 DEF WInv, MovesTo
    <3> QED
      BY <3>1, <3>2, CallMoves
  <2>4. \A k \in Message : First(new, k) => k = m
    BY <1>2, <2>1, <2>2, ClaimsAssumption DEF First, Oldest
  <2>5. Taken(new.req, m)'
    BY <1>4, <2>2 DEF Taken, ByKey, Claimed
  <2>6. \A k \in Message : First(new, k)' => First(new, k)
    BY DEF First
  <2>7. \A k \in Message : Awaited(k, new.req)' => Awaited(k, calls[c].req)
    BY <1>2, <1>4, <2>2 DEF Awaited, Claimed
  <2>8. WakeOK(new)'
    BY <1>2, <2>1, <2>2, <2>4, <2>5, <2>6, <2>7 DEF WakeOK
  <2> QED
    BY <1>2, <1>4, <2>2, <2>8, WakeSame
<1> QED
  BY <1>1, <1>3, <1>4

\* The caller that goes on to the next candidate leaves one that is taken.
LEMMA RacedWakes ==
    ASSUME WInv, NEW c \in Caller, Raced(c)
    PROVE  WInv'
<1>1. calls[c].pc = "raced" /\ msgs' = msgs /\ claims' = claims
  BY DEF Raced
<1>2. CASE AnswerReplay(c)
  BY <1>1, <1>2, AnswerEnds, CallOver
<1>3. ASSUME NEW m \in Message, ByKey(calls[c].req) = {}, Oldest(c, m),
             calls' = [calls EXCEPT ![c].pc = "take", ![c].cands = @ \ {m}]
      PROVE  WInv'
  <2>1. calls[c] \in Call /\ WakeOK(calls[c])
    BY <1>1, InFlight DEF WInv
  <2>3. PICK new \in Call :
           /\ calls' = [calls EXCEPT ![c] = new]
           /\ new.pc = "take" /\ new.cands = calls[c].cands \ {m} /\ new.req = calls[c].req
           /\ new.final = calls[c].final /\ new.hint = calls[c].hint
    <3>1. calls[c].cands \ {m} \in SUBSET Message
      BY <2>1 DEF Call
    <3>2. CallsOK /\ calls[c].pc # "idle" /\ MovesTo(c, "take", calls[c].cands \ {m})
      BY <1>1, <1>3 DEF WInv, MovesTo
    <3> QED
      BY <3>1, <3>2, CallMoves
  <2>5. Claimed(m, calls[c].req[3])
    BY <1>1, <1>3, <2>1 DEF WakeOK, First, Oldest, Taken
  <2>6. \A k \in Message : Awaited(k, new.req)' => Awaited(k, calls[c].req) /\ k # m
    BY <1>1, <2>3, <2>5 DEF Awaited, Claimed
  <2>7. WakeOK(new)'
    BY <1>1, <2>1, <2>3, <2>6 DEF WakeOK
  <2> QED
    BY <1>1, <2>3, <2>7, WakeSame
<1> QED
  BY <1>2, <1>3 DEF Raced

LEMMA SkipWakes ==
    ASSUME WInv, NEW c \in Caller, SkipCandidate(c)
    PROVE  WInv'
<1>1. calls[c].pc = "take" /\ msgs' = msgs /\ claims' = claims
  BY DEF SkipCandidate
<1>2. PICK m \in Message : /\ calls[c].req[3] \notin msgs[m].carries
                           /\ calls' = [calls EXCEPT ![c].cands = @ \ {m}]
  BY DEF SkipCandidate
<1>3. calls[c] \in Call /\ WakeOK(calls[c])
  BY <1>1, InFlight DEF WInv
<1>4. PICK new \in Call :
         /\ calls' = [calls EXCEPT ![c] = new]
         /\ new.pc = "take" /\ new.cands = calls[c].cands \ {m} /\ new.req = calls[c].req
         /\ new.final = calls[c].final /\ new.hint = calls[c].hint
  <2>1. calls[c].cands \ {m} \in SUBSET Message
    BY <1>3 DEF Call
  <2>2. CallsOK /\ calls[c].pc # "idle" /\ MovesTo(c, "take", calls[c].cands \ {m})
    BY <1>1, <1>2 DEF WInv, MovesTo
  <2> QED
    BY <2>1, <2>2, CallMoves
<1>6. \A k \in Message : Awaited(k, new.req)' => Awaited(k, calls[c].req) /\ k # m
  BY <1>1, <1>2, <1>4 DEF Awaited, Claimed
<1>7. WakeOK(new)'
  BY <1>1, <1>3, <1>4, <1>6 DEF WakeOK
<1> QED
  BY <1>1, <1>4, <1>7, WakeSame

\* The query comes after the registration, and reads all there is.
LEMMA QueryWakes ==
    ASSUME WInv, NEW c \in Caller, Query(c)
    PROVE  WInv'
<1>1. /\ calls[c].pc = "query" /\ msgs' = msgs /\ claims' = claims
  BY DEF Query
<1>2. PICK cands : cands = Candidates(calls[c].req[1], calls[c].req[3])
  OBVIOUS
<1>3. cands \in SUBSET Message
  BY <1>2 DEF Candidates
<1>4. PICK new \in Call :
         /\ calls' = [calls EXCEPT ![c] = new]
         /\ new.pc = "take" /\ new.cands = cands /\ new.req = calls[c].req
  <2>1. CallsOK /\ calls[c].pc # "idle" /\ MovesTo(c, "take", cands)
    BY <1>1, <1>2 DEF WInv, MovesTo, Query
  <2> QED
    BY <1>3, <2>1, CallMoves
<1>5. \A m \in Message : Awaited(m, new.req)' => m \in cands
  BY <1>1, <1>2, <1>4 DEF Awaited, Candidates, Claimed
<1>6. WakeOK(new)'
  BY <1>4, <1>5 DEF WakeOK
<1> QED
  BY <1>1, <1>4, <1>6, WakeSame

\* A caller parks with no candidate left, and queries again when it wakes.
LEMMA ParkWakes ==
    ASSUME WInv, NEW c \in Caller, Park(c) \/ Wake(c)
    PROVE  WInv'
<1>1. /\ calls[c].pc \in {"take", "wait"} /\ msgs' = msgs /\ claims' = claims
  BY DEF Park, Wake, Exhausted
<1>2. calls[c] \in Call /\ WakeOK(calls[c])
  BY <1>1, InFlight DEF WInv
<1>3. CASE Exhausted(c) /\ ~calls[c].final /\ calls' = [calls EXCEPT ![c].pc = "wait"]
  <2>1. PICK new \in Call :
           /\ calls' = [calls EXCEPT ![c] = new]
           /\ new.pc = "wait" /\ new.cands = calls[c].cands /\ new.req = calls[c].req
           /\ new.final = calls[c].final /\ new.hint = calls[c].hint
    <3>1. calls[c].cands \in SUBSET Message
      BY <1>2 DEF Call
    <3>2. CallsOK /\ calls[c].pc # "idle" /\ MovesTo(c, "wait", calls[c].cands)
      BY <1>1, <1>3 DEF WInv, MovesTo
    <3> QED
      BY <3>1, <3>2, CallMoves
  <2>3. \A k \in Message : Awaited(k, new.req)' => Awaited(k, calls[c].req)
    BY <1>1, <2>1 DEF Awaited, Claimed
  <2>4. WakeOK(new)'
    BY <1>2, <1>3, <2>1, <2>3 DEF WakeOK, Exhausted
  <2> QED
    BY <1>1, <2>1, <2>4, WakeSame
<1>4. ASSUME NEW final \in BOOLEAN,
             calls' = [calls EXCEPT ![c] = [calls[c] EXCEPT !.pc = "query", !.final = final,
                                                           !.hint = FALSE]]
      PROVE  WInv'
  <2>1. [calls[c] EXCEPT !.pc = "query", !.final = final, !.hint = FALSE] \in Call
    BY <1>2 DEF Call
  <2>2. [calls[c] EXCEPT !.pc = "query", !.final = final, !.hint = FALSE].pc = "query"
    BY <1>2 DEF Call
  <2>3. PICK new \in Call : new.pc = "query" /\ calls' = [calls EXCEPT ![c] = new]
    BY <1>4, <2>1, <2>2
  <2>4. WakeOK(new)'
    BY <2>3 DEF WakeOK
  <2> QED
    BY <1>1, <2>3, <2>4, WakeSame
<1>5. CASE ToExplain(c)
  <2>1. calls' = [calls EXCEPT ![c] = [calls[c] EXCEPT !.pc = "query", !.final = TRUE,
                                                      !.hint = FALSE]]
    BY <1>5 DEF ToExplain
  <2> QED
    BY <1>4, <2>1
<1>6. CASE calls' = [calls EXCEPT ![c].pc = "query", ![c].hint = FALSE]
  <2>1. calls[c].final \in BOOLEAN
    BY <1>2 DEF Call
  <2>2. [calls[c] EXCEPT !.pc = "query", !.final = calls[c].final, !.hint = FALSE]
           = [calls[c] EXCEPT !.pc = "query", !.hint = FALSE]
    BY <1>2 DEF Call
  <2>3. calls' = [calls EXCEPT ![c] = [calls[c] EXCEPT !.pc = "query", !.hint = FALSE]]
    BY <1>6
  <2>4. calls' = [calls EXCEPT ![c] = [calls[c] EXCEPT !.pc = "query",
                                         !.final = calls[c].final, !.hint = FALSE]]
    BY <2>2, <2>3
  <2> QED
    BY <1>4, <2>1, <2>4
<1> QED
  BY <1>3, <1>5, <1>6 DEF Park, Wake

\* A call that has not queried yet.
LEMMA EarlyWakes ==
    ASSUME WInv, NEW c \in Caller,
           (\E req \in Requests : Begin(c, req)) \/ Replay(c) \/ Subscribe(c)
    PROVE  WInv'
<1>1. msgs' = msgs /\ claims' = claims
  BY DEF Begin, Replay, Subscribe
<1>2. ASSUME NEW new \in Call, new.pc \in {"replay", "subscribe", "query"},
             calls' = [calls EXCEPT ![c] = new]
      PROVE  WInv'
  <2>1. WakeOK(new)'
    BY <1>2 DEF WakeOK
  <2> QED
    BY <1>1, <1>2, <2>1, WakeSame
<1>3. ASSUME NEW req \in Requests, Begin(c, req)
      PROVE  WInv'
  <2> DEFINE new == [pc |-> "replay", req |-> req, hint |-> FALSE, cands |-> {},
                     final |-> FALSE]
  <2>1. new \in Call /\ new.pc = "replay"
    BY DEF Call
  <2>2. calls' = [calls EXCEPT ![c] = new]
    BY <1>3 DEF Begin
  <2> QED
    BY <1>2, <2>1, <2>2
<1>4. CASE AnswerReplay(c)
  BY <1>1, <1>4, AnswerEnds, CallOver
<1>5. ASSUME NEW pc \in {"subscribe", "query"}, calls[c].pc # "idle",
             calls' = [calls EXCEPT ![c].pc = pc]
      PROVE  WInv'
  <2>1. calls[c] \in Call
    BY <1>5, InFlight DEF WInv
  <2> DEFINE new == [calls[c] EXCEPT !.pc = pc]
  <2>2. new \in Call /\ new.pc = pc
    BY <2>1 DEF Call
  <2>3. calls' = [calls EXCEPT ![c] = new]
    BY <1>5
  <2> QED
    BY <1>2, <2>2, <2>3
<1>6. CASE Replay(c)
  BY <1>4, <1>5, <1>6 DEF Replay
<1>7. CASE Subscribe(c)
  BY <1>5, <1>7 DEF Subscribe
<1> QED
  BY <1>3, <1>6, <1>7

LEMMA WInvStep ==
    ASSUME WInv, [Next]_vars
    PROVE  WInv'
<1>1. ASSUME UNCHANGED <<msgs, claims, calls>>
      PROVE  WInv'
  BY <1>1 DEF WInv, CallsOK, MsgsOK, Settled, WakeOK, First, Taken, ByKey, Claimed, Awaited
<1>2. CASE UNCHANGED vars
  BY <1>1, <1>2 DEF vars
<1>3. CASE Advance \/ \E l \in Lease : Settle(l) \/ EndGrant(l)
  BY <1>1, <1>3 DEF Advance, Settle, EndGrant
<1>4. CASE \E m \in Message : Deliver(m) \/ Extract(m) \/ Announce(m)
  BY <1>4, MailStep, AnnounceStep
<1>5. ASSUME NEW c \in Caller, Explain(c) \/ Cancel(c)
      PROVE  WInv'
  BY <1>5, CallOver DEF Explain, Cancel, Refuse
<1> QED
  BY <1>2, <1>3, <1>4, <1>5, EarlyWakes, QueryWakes, SkipWakes, RecordWakes, RacedWakes,
     ParkWakes DEF Next

\* SubscribeMatch before the first query and the waiter's one-slot buffer: a
\* parked caller that could take an announced message has a hint waiting, for
\* any number of callers and messages and whatever the keys name.
THEOREM WakeupIsKept == Spec => []NoLostWakeup
<1>1. Init => WInv
  <2>1. ASSUME Init PROVE CallsOK /\ \A c \in Caller : WakeOK(calls[c])
    BY <2>1 DEF Init, CallsOK, WakeOK, Idle
  <2>2. NoMessage \in MessageRow /\ ~NoMessage.announced
    BY DEF NoMessage, MessageRow, BindStates
  <2>3. ASSUME Init PROVE MsgsOK /\ Settled
    BY <2>2, <2>3 DEF Init, MsgsOK, Settled
  <2> QED
    BY <2>1, <2>3 DEF WInv
<1>2. WInv /\ [Next]_vars => WInv'
  BY WInvStep
<1>3. WInv => NoLostWakeup
  <2> SUFFICES ASSUME WInv, NEW c \in Caller, calls[c].pc = "wait",
                      NEW m \in Candidates(calls[c].req[1], calls[c].req[3]) \ OtherCase,
                      msgs[m].announced, calls[c].req[3] \in msgs[m].carries
               PROVE  calls[c].hint
    BY DEF NoLostWakeup
  <2>1. m \in Message \ OtherCase /\ Awaited(m, calls[c].req)
    BY DEF Candidates, Awaited
  <2>2. WakeOK(calls[c])
    BY DEF WInv
  <2> QED
    BY <2>1, <2>2 DEF WakeOK
<1> QED
  BY <1>1, <1>2, <1>3, PTL DEF Spec

-----------------------------------------------------------------------------
(* The refinement of OneTimeSecret.                                        *)

Owner == {<<<<r.msg, r.kind>>, <<r.lease, r.key>>>> : r \in claims}
Given == {<<<<h.msg, h.kind>>, <<h.lease, h.key>>>> : h \in handed}
Secret(c, m) == <<m, calls[c].req[3]>>
Claimant(c) == <<calls[c].req[1], calls[c].req[2]>>

\* An answer gives the caller's pair, or nothing when it is lost.
LEMMA HandGives ==
    ASSUME NEW c \in Caller, NEW m \in Message, Hand(c, m)
    PROVE  Given' = Given \/ Given' = Given \cup {<<Secret(c, m), Claimant(c)>>}
<1> DEFINE new == [lease |-> calls[c].req[1], key |-> calls[c].req[2], msg |-> m,
                   kind |-> calls[c].req[3], late |-> now >= GrantEnd[calls[c].req[1]]]
<1>1. new.lease = calls[c].req[1] /\ new.key = calls[c].req[2]
      /\ new.msg = m /\ new.kind = calls[c].req[3]
  OBVIOUS
<1>2. handed' = handed \/ handed' = handed \cup {new}
  BY DEF Hand
<1> HIDE DEF new
<1> QED
  BY <1>1, <1>2 DEF Given, Secret, Claimant

\* A step of the claims table is a step of OneTimeSecret, or none.
LEMMA SecretStep ==
    ASSUME KeyFixesKind, CInv, [Next]_vars
    PROVE  \/ Owner' = Owner /\ Given' = Given
           \/ \E s \in Message \X Kind, o \in Lease \X Key :
                 Secrets!Take(s, o) \/ Secrets!Give(s, o)
<1>1. CASE claims' = claims /\ handed' = handed
  BY <1>1 DEF Owner, Given
<1>2. ASSUME NEW c \in Caller, calls[c].pc # "idle", claims' = claims, AnswerReplay(c)
      PROVE  \/ Owner' = Owner /\ Given' = Given
             \/ \E s \in Message \X Kind, o \in Lease \X Key : Secrets!Give(s, o)
  <2>1. calls[c].req \in Requests /\ calls[c].req \in Lease \X Key \X Kind
    BY <1>2, InFlight DEF CInv
  <2>2. PICK r \in ByKey(calls[c].req) :
           handed' = handed \/ Hand(c, r.msg)
    BY <1>2 DEF AnswerReplay, Refuse
  <2>3. r \in claims /\ r.lease = calls[c].req[1] /\ r.key = calls[c].req[2]
    BY <2>2 DEF ByKey
  <2>4. r \in ClaimRow /\ <<r.lease, r.key, r.kind>> \in Requests
    BY <2>3 DEF CInv, RowsOK
  <2>5. r.kind = calls[c].req[3] /\ r.msg \in Message
    BY <2>1, <2>3, <2>4 DEF KeyFixesKind, ClaimRow
  <2>6. CASE handed' = handed
    BY <1>2, <2>6 DEF Owner, Given
  <2>7. CASE Hand(c, r.msg)
    <3>1. Owner' = Owner
      BY <1>2 DEF Owner
    <3>2. <<Secret(c, r.msg), Claimant(c)>> \in Owner
      BY <2>3, <2>5 DEF Owner, Secret, Claimant
    <3>3. Secret(c, r.msg) \in Message \X Kind /\ Claimant(c) \in Lease \X Key
      BY <2>1, <2>5 DEF Secret, Claimant
    <3>4. CASE Given' = Given \cup {<<Secret(c, r.msg), Claimant(c)>>}
      BY <3>1, <3>2, <3>3, <3>4 DEF Secrets!Give, Owner, Given
    <3> QED
      BY <2>5, <2>7, <3>1, <3>4, HandGives
  <2> QED
    BY <2>2, <2>6, <2>7
<1>3. ASSUME NEW c \in Caller, RecordClaim(c)
      PROVE  \/ Owner' = Owner /\ Given' = Given
             \/ \E s \in Message \X Kind, o \in Lease \X Key : Secrets!Take(s, o)
  <2>1. CASE claims' = claims /\ handed' = handed
    BY <2>1 DEF Owner, Given
  <2>2. ASSUME NEW m \in Message, Usable(c, m), ~Taken(calls[c].req, m),
               claims' = claims \cup
                 {[lease |-> calls[c].req[1], key |-> calls[c].req[2],
                   kind |-> calls[c].req[3], msg |-> m,
                   expires |-> Expiry(calls[c].req[1])]},
               Hand(c, m)
        PROVE  \E s \in Message \X Kind, o \in Lease \X Key : Secrets!Take(s, o)
    <3> DEFINE new == [lease |-> calls[c].req[1], key |-> calls[c].req[2],
                       kind |-> calls[c].req[3], msg |-> m,
                       expires |-> Expiry(calls[c].req[1])]
    <3>1. calls[c].req \in Lease \X Key \X Kind
      BY <2>2, InFlight DEF Usable, CInv
    <3>2. Secret(c, m) \in Message \X Kind /\ Claimant(c) \in Lease \X Key
      BY <3>1 DEF Secret, Claimant
    <3>3. \A p \in Owner : p[1] # Secret(c, m) /\ p[2] # Claimant(c)
      BY <2>2 DEF Owner, Secret, Claimant, Taken, ByKey, Claimed
    <3>4. Owner' = Owner \cup {<<Secret(c, m), Claimant(c)>>}
      <4>1. new.lease = calls[c].req[1] /\ new.key = calls[c].req[2]
            /\ new.kind = calls[c].req[3] /\ new.msg = m
        OBVIOUS
      <4>2. claims' = claims \cup {new}
        BY <2>2
      <4> HIDE DEF new
      <4> QED
        BY <4>1, <4>2 DEF Owner, Secret, Claimant
    <3>5. Given' \in {Given, Given \cup {<<Secret(c, m), Claimant(c)>>}}
      BY <2>2, HandGives
    <3>6. Secrets!Take(Secret(c, m), Claimant(c))
      BY <3>3, <3>4, <3>5 DEF Secrets!Take, Secrets!Free, Owner, Given
    <3> QED
      BY <3>2, <3>6 DEF Secrets!Take
  <2> QED
    BY <1>3, <2>1, <2>2 DEF RecordClaim, Refuse
<1>4. ASSUME NEW c \in Caller, Replay(c) \/ Raced(c)
      PROVE  \/ claims' = claims /\ handed' = handed
             \/ calls[c].pc # "idle" /\ claims' = claims /\ AnswerReplay(c)
  BY <1>4 DEF Replay, Raced
<1>5. CASE UNCHANGED vars
  BY <1>1, <1>5 DEF vars
<1>6. CASE Advance \/ \E l \in Lease : Settle(l) \/ EndGrant(l)
  BY <1>1, <1>6 DEF Advance, Settle, EndGrant
<1>7. CASE \E m \in Message : Deliver(m) \/ Extract(m) \/ Announce(m)
  BY <1>1, <1>7 DEF Deliver, Extract, Announce
<1>8. ASSUME NEW c \in Caller,
             \/ \E req \in Requests : Begin(c, req)
             \/ Subscribe(c) \/ Query(c) \/ SkipCandidate(c) \/ Park(c) \/ Wake(c)
             \/ Explain(c) \/ Cancel(c)
      PROVE  claims' = claims /\ handed' = handed
  BY <1>8 DEF Begin, Subscribe, Query, SkipCandidate, Park, Wake, ToExplain, Explain,
              Cancel, Refuse
<1> QED
  BY <1>1, <1>2, <1>3, <1>4, <1>5, <1>6, <1>7, <1>8 DEF Next

\* Claim implements OneTimeSecret: every behaviour of the racing, retried and
\* interrupted claims is one of the abstract handover, row by row.
THEOREM ClaimsRefineOneTimeSecret ==
    ASSUME KeyFixesKind PROVE Spec => ImplementsOneTimeSecret
<1>1. Init => Secrets!SecretInit
  BY DEF Init, Secrets!SecretInit
<1>2. CInv /\ [Next]_vars => [Secrets!SecretNext]_(Secrets!secretVars)
  BY SecretStep DEF Secrets!SecretNext, Secrets!secretVars, Owner, Given
<1> QED
  BY <1>1, <1>2, ClaimsInvariance, PTL
  DEF Spec, ImplementsOneTimeSecret, Secrets!SecretSpec
=============================================================================
