-------------------------- MODULE McpSessionProofs --------------------------
(***************************************************************************)
(* Proofs about McpSession, for any number of lines, runs, leases and      *)
(* faults: every request is answered exactly once, no credential is shown  *)
(* or used for another run, what was told can be acted on, and an attempt  *)
(* replays its own secret.                                                 *)
(*                                                                         *)
(* The argument follows one line from stdin to stdout (PhaseOK) and its    *)
(* call to the server and back (CallOK): a token is in the tables from     *)
(* before its call goes out until after its answer is written, since the   *)
(* tables, and the server's runs, leases and claims, only ever grow        *)
(* (Grows).                                                                *)
(***************************************************************************)
EXTENDS McpSession, TLAPS

ClaimantOf(line) == <<line.lease, IdempotencyKey(line)>>

\* What may be shown for a line: runs and leases in the tables, and the secrets
\* that the server gave to the line's own lease and attempt.
BodyOK(line, b) ==
    \A x \in b :
        \/ \E r \in Run : x = <<"run", r>> /\ runTokens[r] = RunToken(r)
        \/ \E l \in Lease : x = <<"lease", l>> /\ leaseRuns[l] # NoRun
        \/ /\ line.form = "tool" /\ line.tool = "claim_code"
           /\ \E p \in given : x = <<"secret", p[1]>> /\ p[2] = ClaimantOf(line)

AnswerOK(i, line, a) ==
    a.id = (IF line.form = "garbage" THEN 0 ELSE i) /\ BodyOK(line, a.body)

\* A line on its way from stdin to stdout.
PhaseOK(i, line, w, as) ==
    \/ as = <<>> /\ w = Idle /\ line.form \in {None, "noMethodNote", "note"}
    \/ /\ as = <<>> /\ w = [pc |-> "handle"] /\ serve # "down"
       /\ line.form \notin {None, "garbage", "noMethod", "noMethodNote"}
    \/ as = <<>> /\ w = [pc |-> "call"] /\ serve # "down" /\ line.form = "tool"
    \/ /\ as = <<>> /\ w = [pc |-> "reply", answer |-> w.answer] /\ serve # "down"
       /\ line.form \notin {None, "noMethodNote", "note"}
       /\ AnswerOK(i, line, w.answer)
    \/ /\ as = <<as[1]>> /\ w = Idle /\ line.form \notin {None, "noMethodNote", "note"}
       /\ AnswerOK(i, line, as[1])

\* The credential of a call names the run the call is about.
SentOK(line, token) ==
    /\ line.tool = "open_run" => token = Bearer
    /\ line.tool = "lease_identity" => token = RunToken(line.run) /\ runTokens[line.run] = token
    /\ line.tool \in {"claim_code", "release_lease"} =>
          leaseRuns[line.lease] # NoRun /\ token = RunToken(leases[line.lease])

\* What the server grants, on its way to the tables.
AnsweredOK(line, status, body) ==
    /\ line.tool = "open_run" /\ status = 201 =>
          \A x \in body : \E r \in runs : x = <<"run", r>> \/ x = RunToken(r)
    /\ line.tool = "lease_identity" /\ status = 201 =>
          /\ runTokens[line.run] = RunToken(line.run)
          /\ \A x \in body : \E l \in Lease : x = <<"lease", l>> /\ leases[l] = line.run
    /\ ~(line.tool \in {"open_run", "lease_identity"} /\ status = 201) => BodyOK(line, body)

CallOK(line, c, w) ==
    \/ c = NoCall
    \/ /\ c = [state |-> "sent", token |-> c.token, status |-> 0, body |-> {}]
       /\ line.form = "tool" /\ w.pc # "handle" /\ SentOK(line, c.token)
    \/ /\ c = [state |-> "answered", token |-> c.token, status |-> c.status, body |-> c.body]
       /\ line.form = "tool" /\ w.pc = "call" /\ AnsweredOK(line, c.status, c.body)

LineOK(line) ==
    line.form = "tool" =>
        /\ line.tool \in {"open_run", "lease_identity", "claim_code", "release_lease"}
        /\ line.tool = "lease_identity" => line.run \in Run
        /\ line.tool \in {"claim_code", "release_lease"} => line.lease \in Lease
        /\ line.tool = "claim_code" =>
              line = [form |-> "tool", tool |-> "claim_code", lease |-> line.lease,
                      kind |-> line.kind, attempt |-> line.attempt]

LineInv(i) ==
    /\ LineOK(lines[i])
    /\ PhaseOK(i, lines[i], work[i], answers[i])
    /\ CallOK(lines[i], calls[i], work[i])

\* A token in the tables is one the server issued; a lease there is the run's.
TablesInv ==
    /\ DOMAIN runTokens = Run /\ leaseRuns \in [Lease -> Run \cup {NoRun}]
    /\ runs \subseteq Run /\ leases \in [Lease -> Run \cup {NoRun}]
    /\ \A r \in Run :
          runTokens[r] = NoToken \/ (runTokens[r] = RunToken(r) /\ r \in runs)
    /\ \A l \in Lease : leaseRuns[l] # NoRun =>
          leaseRuns[l] = leases[l] /\ runTokens[leases[l]] = RunToken(leases[l])

\* Secrets and claimants belong to each other one to one.
SecretsInv ==
    /\ given \subseteq owner
    /\ \A p \in owner : p = <<p[1], p[2]>>
    /\ \A p, q \in owner : p[1] = q[1] <=> p[2] = q[2]

MInv ==
    /\ DOMAIN lines = Id /\ DOMAIN work = Id /\ DOMAIN answers = Id /\ DOMAIN calls = Id
    /\ TablesInv /\ SecretsInv
    /\ \A i \in Id : LineInv(i)

-----------------------------------------------------------------------------
(* What grows, and what that keeps.                                        *)

Grows ==
    /\ \A r \in Run : runTokens[r] = RunToken(r) => runTokens'[r] = RunToken(r)
    /\ \A l \in Lease : leaseRuns[l] # NoRun => leaseRuns'[l] # NoRun
    /\ \A l \in Lease : leases[l] # NoRun => leases'[l] = leases[l]
    /\ runs \subseteq runs' /\ given \subseteq given'

LEMMA TokenFacts ==
    /\ \A r : RunToken(r) # NoToken /\ RunToken(r) # Bearer /\ RunToken(r)[2] = r
    /\ \A r : RunToken(r)[1] = "rt" /\ <<"run", r>>[1] = "run" /\ <<"lease", r>>[1] = "lease"
    /\ \A s : <<"secret", s>>[1] = "secret" /\ <<"secret", s>>[2] = s
    /\ \A r, q : <<"run", r>> # RunToken(q) /\ (<<"run", r>> = <<"run", q>> => r = q)
    /\ \A r, q : (<<"lease", r>> = <<"lease", q>> => r = q) /\ <<"run", r>> # <<"lease", q>>
    /\ \A r, q : <<"run", r>> # <<"secret", q>> /\ <<"lease", r>> # <<"secret", q>>
    /\ Bearer # NoToken
BY DEF RunToken, NoToken, Bearer

LEMMA RunFacts == NoRun \notin Run /\ 1 \in Run /\ 1 \in Lease
BY McpAssumption DEF NoRun, Run, Lease

LEMMA BodyGrows ==
    ASSUME Grows, NEW line, NEW b, BodyOK(line, b)
    PROVE  BodyOK(line, b)'
<1> SUFFICES ASSUME NEW x \in b
             PROVE  \/ \E r \in Run : x = <<"run", r>> /\ runTokens'[r] = RunToken(r)
                    \/ \E l \in Lease : x = <<"lease", l>> /\ leaseRuns'[l] # NoRun
                    \/ /\ line.form = "tool" /\ line.tool = "claim_code"
                       /\ \E p \in given' : x = <<"secret", p[1]>> /\ p[2] = ClaimantOf(line)
  BY DEF BodyOK
<1> QED
  BY Zenon DEF BodyOK, Grows

LEMMA AnswerGrows ==
    ASSUME Grows, NEW i, NEW line, NEW a, AnswerOK(i, line, a)
    PROVE  AnswerOK(i, line, a)'
BY BodyGrows DEF AnswerOK

LEMMA PhaseGrows ==
    ASSUME Grows, NEW i, NEW line, NEW w, NEW as, PhaseOK(i, line, w, as),
           serve' # "down" \/ serve = "down" \/ w = Idle
    PROVE  PhaseOK(i, line, w, as)'
<1>1. CASE as = <<>> /\ w = Idle /\ line.form \in {None, "noMethodNote", "note"}
  BY <1>1 DEF PhaseOK
<1>2. CASE /\ as = <<>> /\ w = [pc |-> "handle"] /\ serve # "down"
           /\ line.form \notin {None, "garbage", "noMethod", "noMethodNote"}
  BY <1>2 DEF PhaseOK, Idle, None
<1>3. CASE as = <<>> /\ w = [pc |-> "call"] /\ serve # "down" /\ line.form = "tool"
  BY <1>3 DEF PhaseOK, Idle, None
<1>4. CASE /\ as = <<>> /\ w = [pc |-> "reply", answer |-> w.answer] /\ serve # "down"
           /\ line.form \notin {None, "noMethodNote", "note"}
           /\ AnswerOK(i, line, w.answer)
  <2>1. PICK a : a = w.answer
    OBVIOUS
  <2>2. AnswerOK(i, line, a)'
    BY <1>4, <2>1, AnswerGrows
  <2>3. w.pc = "reply"
    BY <1>4
  <2>4. w # Idle
    BY <2>3 DEF Idle, None
  <2> QED
    BY <1>4, <2>1, <2>2, <2>4, Zenon DEF PhaseOK
<1>5. CASE /\ as = <<as[1]>> /\ w = Idle /\ line.form \notin {None, "noMethodNote", "note"}
           /\ AnswerOK(i, line, as[1])
  <2>1. PICK a : a = as[1]
    OBVIOUS
  <2>2. AnswerOK(i, line, a)'
    BY <1>5, <2>1, AnswerGrows
  <2> QED
    BY <1>5, <2>1, <2>2, Zenon DEF PhaseOK
<1> QED
  BY <1>1, <1>2, <1>3, <1>4, <1>5 DEF PhaseOK

LEMMA SentGrows ==
    ASSUME TablesInv, Grows, NEW line, NEW token, line.form = "tool", LineOK(line),
           SentOK(line, token)
    PROVE  SentOK(line, token)'
<1>1. line.tool = "lease_identity" => runTokens'[line.run] = RunToken(line.run)
  BY DEF SentOK, LineOK, Grows
<1>2. line.tool \in {"claim_code", "release_lease"} =>
         leaseRuns'[line.lease] # NoRun /\ leases'[line.lease] = leases[line.lease]
  BY DEF SentOK, LineOK, Grows, TablesInv
<1> QED
  BY <1>1, <1>2 DEF SentOK

LEMMA AnsweredGrows ==
    ASSUME Grows, NEW line, NEW status, NEW body, line.form = "tool", LineOK(line),
           AnsweredOK(line, status, body)
    PROVE  AnsweredOK(line, status, body)'
<1>1. ASSUME line.tool = "open_run" /\ status = 201
      PROVE  \A x \in body : \E r \in runs' : x = <<"run", r>> \/ x = RunToken(r)
  BY <1>1, Zenon DEF AnsweredOK, Grows
<1>2. ASSUME line.tool = "lease_identity" /\ status = 201
      PROVE  /\ runTokens'[line.run] = RunToken(line.run)
             /\ \A x \in body : \E l \in Lease : x = <<"lease", l>> /\ leases'[l] = line.run
  <2>1. line.run \in Run /\ runTokens[line.run] = RunToken(line.run) /\ line.run # NoRun
    BY <1>2, RunFacts DEF AnsweredOK, LineOK
  <2>2. \A x \in body : \E l \in Lease : x = <<"lease", l>> /\ leases[l] = line.run
    BY <1>2 DEF AnsweredOK
  <2>3. \A l \in Lease : leases[l] = line.run => leases'[l] = line.run
    BY <2>1 DEF Grows
  <2> QED
    BY <2>1, <2>2, <2>3, Zenon DEF Grows
<1>3. ~(line.tool \in {"open_run", "lease_identity"} /\ status = 201) => BodyOK(line, body)'
  BY BodyGrows DEF AnsweredOK
<1> QED
  BY <1>1, <1>2, <1>3, Zenon DEF AnsweredOK

LEMMA CallGrows ==
    ASSUME TablesInv, Grows, NEW line, LineOK(line), NEW c, NEW w, CallOK(line, c, w)
    PROVE  CallOK(line, c, w)'
<1>1. CASE c = NoCall
  BY <1>1 DEF CallOK
<1>2. CASE /\ c = [state |-> "sent", token |-> c.token, status |-> 0, body |-> {}]
           /\ line.form = "tool" /\ w.pc # "handle" /\ SentOK(line, c.token)
  <2>1. PICK token : token = c.token
    OBVIOUS
  <2>2. SentOK(line, token)'
    BY <1>2, <2>1, SentGrows
  <2> QED
    BY <1>2, <2>1, <2>2, Zenon DEF CallOK
<1>3. CASE /\ c = [state |-> "answered", token |-> c.token, status |-> c.status, body |-> c.body]
           /\ line.form = "tool" /\ w.pc = "call" /\ AnsweredOK(line, c.status, c.body)
  <2>1. PICK status, body : status = c.status /\ body = c.body
    OBVIOUS
  <2>2. AnsweredOK(line, status, body)'
    BY <1>3, <2>1, AnsweredGrows
  <2> QED
    BY <1>3, <2>1, <2>2, Zenon DEF CallOK
<1> QED
  BY <1>1, <1>2, <1>3 DEF CallOK

-----------------------------------------------------------------------------
(* One line moves.                                                         *)

\* Line i now is line, with work w, answers as and call c; no other line moves.
At(i, line, w, as, c) ==
    /\ DOMAIN lines' = Id /\ DOMAIN work' = Id /\ DOMAIN answers' = Id /\ DOMAIN calls' = Id
    /\ lines'[i] = line /\ work'[i] = w /\ answers'[i] = as /\ calls'[i] = c
    /\ \A j \in Id \ {i} : /\ lines'[j] = lines[j] /\ work'[j] = work[j]
                          /\ answers'[j] = answers[j] /\ calls'[j] = calls[j]

LEMMA Untouched ==
    ASSUME MInv, Grows, NEW j \in Id,
           lines'[j] = lines[j], work'[j] = work[j],
           answers'[j] = answers[j], calls'[j] = calls[j],
           serve' # "down" \/ serve = "down" \/ work[j] = Idle
    PROVE  LineInv(j)'
<1>1. PICK line, w, as, c :
         line = lines[j] /\ w = work[j] /\ as = answers[j] /\ c = calls[j]
  OBVIOUS
<1>2. TablesInv /\ LineOK(line) /\ PhaseOK(j, line, w, as) /\ CallOK(line, c, w)
  BY <1>1 DEF MInv, LineInv
<1>3. serve' # "down" \/ serve = "down" \/ w = Idle
  BY <1>1
<1>4. PhaseOK(j, line, w, as)' /\ CallOK(line, c, w)'
  BY <1>2, <1>3, PhaseGrows, CallGrows
<1>5. lines'[j] = line /\ work'[j] = w /\ answers'[j] = as /\ calls'[j] = c
  BY <1>1
<1> QED
  BY <1>2, <1>4, <1>5, Zenon DEF LineInv

LEMMA OneLine ==
    ASSUME MInv, Grows, serve' = serve, TablesInv', SecretsInv', NEW i \in Id,
           NEW line, NEW w, NEW as, NEW c, At(i, line, w, as, c),
           LineOK(line), PhaseOK(i, line, w, as)', CallOK(line, c, w)'
    PROVE  MInv'
<1>1. LineInv(i)'
  BY Zenon DEF At, LineInv
<1>2. ASSUME NEW j \in Id, j # i
      PROVE  LineInv(j)'
  <2>1. /\ lines'[j] = lines[j] /\ work'[j] = work[j]
        /\ answers'[j] = answers[j] /\ calls'[j] = calls[j]
    BY <1>2 DEF At
  <2>2. serve' # "down" \/ serve = "down" \/ work[j] = Idle
    OBVIOUS
  <2> QED
    BY <2>1, <2>2, Untouched
<1>3. \A j \in Id : LineInv(j)'
  BY <1>1, <1>2, Zenon
<1> QED
  BY <1>3 DEF MInv, At

\* Nothing of the tables or of the server moves.
LEMMA Still ==
    ASSUME MInv, UNCHANGED <<tables, server>>
    PROVE  Grows /\ TablesInv' /\ SecretsInv'
<1>1. /\ runTokens' = runTokens /\ leaseRuns' = leaseRuns /\ runs' = runs /\ leases' = leases
      /\ owner' = owner /\ given' = given
  BY DEF tables, server
<1> QED
  BY <1>1 DEF MInv, Grows, TablesInv, SecretsInv

Unanswered(as) == as = <<>>

\* What is known of a line from where its goroutine stands.
LEMMA PhaseAt ==
    ASSUME NEW i, NEW line, NEW w, NEW as, PhaseOK(i, line, w, as)
    PROVE  /\ w.pc = "handle" => /\ Unanswered(as) /\ serve # "down"
                                 /\ line.form \notin {None, "garbage", "noMethod", "noMethodNote"}
           /\ w.pc = "call" => Unanswered(as) /\ serve # "down" /\ line.form = "tool"
           /\ w.pc = "reply" => /\ Unanswered(as) /\ serve # "down"
                                /\ line.form \notin {None, "noMethodNote", "note"}
                                /\ AnswerOK(i, line, w.answer)
<1>1. CASE w = Idle
  <2>1. w.pc = "none"
    BY <1>1 DEF Idle, None
  <2> QED
    BY <2>1
<1>2. CASE /\ as = <<>> /\ w = [pc |-> "handle"] /\ serve # "down"
           /\ line.form \notin {None, "garbage", "noMethod", "noMethodNote"}
  <2>1. w.pc = "handle"
    BY <1>2
  <2> QED
    BY <1>2, <2>1 DEF Unanswered
<1>3. CASE as = <<>> /\ w = [pc |-> "call"] /\ serve # "down" /\ line.form = "tool"
  <2>1. w.pc = "call"
    BY <1>3
  <2> QED
    BY <1>3, <2>1 DEF Unanswered
<1>4. CASE /\ as = <<>> /\ w = [pc |-> "reply", answer |-> w.answer] /\ serve # "down"
           /\ line.form \notin {None, "noMethodNote", "note"}
           /\ AnswerOK(i, line, w.answer)
  <2>1. w.pc = "reply"
    BY <1>4
  <2> QED
    BY <1>4, <2>1 DEF Unanswered
<1> QED
  BY <1>1, <1>2, <1>3, <1>4, Zenon DEF PhaseOK

LEMMA BodyEmpty == \A line : BodyOK(line, {})
BY DEF BodyOK

-----------------------------------------------------------------------------
(* The actions.                                                            *)

LEMMA SessionStep ==
    ASSUME MInv, ReadFails \/ Leave \/ Return \/ Signal
    PROVE  MInv'
<1>1. UNCHANGED <<lines, work, answers, calls, tables, server>>
  BY DEF ReadFails, Leave, Return, Signal
<1>2. Grows /\ TablesInv' /\ SecretsInv'
  BY <1>1, Still
<1>3. ASSUME NEW j \in Id
      PROVE  serve' # "down" \/ serve = "down" \/ work[j] = Idle
  <2>1. CASE Return
    <3>1. CASE j \in Sent
      BY <2>1, <3>1 DEF Return
    <3>2. CASE j \notin Sent
      <4>1. lines[j].form = None
        BY <3>2 DEF Sent
      <4>2. PhaseOK(j, lines[j], work[j], answers[j])
        BY DEF MInv, LineInv
      <4> QED
        BY <4>1, <4>2 DEF PhaseOK, None
    <3> QED
      BY <3>1, <3>2
  <2>2. CASE ReadFails \/ Signal \/ Leave
    BY <2>2 DEF ReadFails, Signal, Leave
  <2> QED
    BY <2>1, <2>2
<1>4. \A j \in Id : LineInv(j)'
  BY <1>1, <1>2, <1>3, Untouched
<1> QED
  BY <1>1, <1>2, <1>4 DEF MInv

LEMMA ToolCallsOK ==
    ASSUME NEW line \in ToolCalls
    PROVE  LineOK(line) /\ line.form = "tool"
<1>1. CASE line \in {[form |-> "tool", tool |-> "open_run"]}
  BY <1>1 DEF LineOK
<1>2. CASE \E r \in Run : line = [form |-> "tool", tool |-> "lease_identity", run |-> r]
  <2>1. PICK r \in Run : line = [form |-> "tool", tool |-> "lease_identity", run |-> r]
    BY <1>2
  <2>2. line.form = "tool" /\ line.tool = "lease_identity" /\ line.run = r
    BY <2>1
  <2> QED
    BY <2>2 DEF LineOK
<1>3. CASE \E l \in Lease, k \in Kind, a \in Attempt :
              line = [form |-> "tool", tool |-> "claim_code", lease |-> l, kind |-> k,
                      attempt |-> a]
  <2>1. PICK l \in Lease, k \in Kind, a \in Attempt :
           line = [form |-> "tool", tool |-> "claim_code", lease |-> l, kind |-> k,
                   attempt |-> a]
    BY <1>3
  <2>2. /\ line.form = "tool" /\ line.tool = "claim_code" /\ line.lease = l
        /\ line.kind = k /\ line.attempt = a
    BY <2>1
  <2> QED
    BY <2>1, <2>2 DEF LineOK
<1>4. CASE \E l \in Lease : line = [form |-> "tool", tool |-> "release_lease", lease |-> l]
  <2>1. PICK l \in Lease : line = [form |-> "tool", tool |-> "release_lease", lease |-> l]
    BY <1>4
  <2>2. line.form = "tool" /\ line.tool = "release_lease" /\ line.lease = l
    BY <2>1
  <2> QED
    BY <2>2 DEF LineOK
<1> QED
  <2> DEFINE R == {r \in Run : <<"run", r>> \in Told}
             L == {l \in Lease : <<"lease", l>> \in Told}
             A == {[form |-> "tool", tool |-> "open_run"]}
             B == {[form |-> "tool", tool |-> "lease_identity", run |-> r] : r \in R}
             C == {[form |-> "tool", tool |-> "claim_code", lease |-> l, kind |-> k,
                    attempt |-> a] : l \in L, k \in Kind, a \in Attempt}
             D == {[form |-> "tool", tool |-> "release_lease", lease |-> l] : l \in L}
  <2>0. ToolCalls = A \cup B \cup C \cup D
    BY DEF ToolCalls
  <2>1. line \in A \cup B \cup C \cup D
    <3> HIDE DEF A, B, C, D
    <3> QED
      BY <2>0
  <2>2. R \subseteq Run /\ L \subseteq Lease
    OBVIOUS
  <2> HIDE DEF R, L
  <2>3. CASE line \in A
    BY <1>1, <2>3
  <2>4. CASE line \in B
    BY <1>2, <2>2, <2>4
  <2>5. CASE line \in C
    BY <1>3, <2>2, <2>5
  <2>6. CASE line \in D
    BY <1>4, <2>2, <2>6
  <2> HIDE DEF A, B, C, D
  <2> QED
    BY <2>1, <2>3, <2>4, <2>5, <2>6

LEMMA AcceptStep ==
    ASSUME MInv, NEW i \in Id, i \notin Sent, NEW line, LineOK(line), line.form # None,
           line.form = "tool" \/ line.form \in PlainForms, Accept(i, line)
    PROVE  MInv'
<1>1. UNCHANGED <<calls, tables, server, serve>> /\ lines' = [lines EXCEPT ![i] = line]
  BY DEF Accept
<1>2. Grows /\ TablesInv' /\ SecretsInv'
  BY <1>1, Still
<1>3. lines[i].form = None
  BY DEF Sent
<1>4. work[i] = Idle /\ answers[i] = <<>> /\ calls[i] = NoCall
  <2>1. PhaseOK(i, lines[i], work[i], answers[i]) /\ CallOK(lines[i], calls[i], work[i])
    BY DEF MInv, LineInv
  <2> QED
    BY <1>3, <2>1 DEF PhaseOK, CallOK, None
<1>5. serve' # "down" /\ serve' = serve
  BY <1>1 DEF Accept
<1>6. DOMAIN lines = Id /\ DOMAIN work = Id /\ DOMAIN answers = Id /\ DOMAIN calls = Id
  BY DEF MInv
<1>7. \A w : CallOK(line, NoCall, w)'
  BY DEF CallOK
<1>8. ASSUME NEW a, a.body = {}, a.id = IF line.form = "garbage" THEN 0 ELSE i,
             line.form \in {"garbage", "noMethod"},
             answers' = [answers EXCEPT ![i] = Append(@, a)], UNCHANGED work
      PROVE  MInv'
  <2>1. Append(answers[i], a) = <<a>> /\ <<a>>[1] = a
    BY <1>4
  <2>2. At(i, line, Idle, <<a>>, NoCall)
    BY <1>1, <1>4, <1>6, <1>8, <2>1 DEF At
  <2>3. AnswerOK(i, line, a)'
    BY <1>8, BodyEmpty DEF AnswerOK, BodyOK
  <2>4. PhaseOK(i, line, Idle, <<a>>)'
    BY <1>8, <2>1, <2>3 DEF PhaseOK, None
  <2> QED
    BY <1>2, <1>5, <1>7, <2>2, <2>4, OneLine
<1>9. CASE /\ line.form = "garbage"
           /\ answers' = [answers EXCEPT ![i] = Append(@, Answer(0, "error", {}))]
           /\ UNCHANGED work
  <2>1. PICK a : a = Answer(0, "error", {})
    OBVIOUS
  <2>2. a.body = {} /\ a.id = 0
    BY <2>1 DEF Answer
  <2> QED
    BY <1>8, <1>9, <2>1, <2>2
<1>10. CASE /\ line.form = "noMethod"
            /\ answers' = [answers EXCEPT ![i] = Append(@, Answer(i, "error", {}))]
            /\ UNCHANGED work
  <2>1. PICK a : a = Answer(i, "error", {})
    OBVIOUS
  <2>2. a.body = {} /\ a.id = i
    BY <2>1 DEF Answer
  <2> QED
    BY <1>8, <1>10, <2>1, <2>2
<1>11. CASE line.form = "noMethodNote" /\ UNCHANGED <<answers, work>>
  <2>1. At(i, line, Idle, <<>>, NoCall)
    BY <1>1, <1>4, <1>6, <1>11 DEF At
  <2>2. PhaseOK(i, line, Idle, <<>>)'
    BY <1>11 DEF PhaseOK
  <2> QED
    BY <1>2, <1>5, <1>7, <2>1, <2>2, OneLine
<1>12. CASE /\ line.form \notin {"garbage", "noMethod", "noMethodNote"}
            /\ work' = [work EXCEPT ![i] = [pc |-> "handle"]]
            /\ UNCHANGED answers
  <2>1. At(i, line, [pc |-> "handle"], <<>>, NoCall)
    BY <1>1, <1>4, <1>6, <1>12 DEF At
  <2>2. PhaseOK(i, line, [pc |-> "handle"], <<>>)'
    BY <1>5, <1>12 DEF PhaseOK
  <2> QED
    BY <1>2, <1>5, <1>7, <2>1, <2>2, OneLine
<1> QED
  BY <1>9, <1>10, <1>11, <1>12 DEF Accept

LEMMA WriteAnswerStep ==
    ASSUME MInv, NEW i \in Id, WriteAnswer(i)
    PROVE  MInv'
<1>1. PICK line, w, a : line = lines[i] /\ w = work[i] /\ a = w.answer
  OBVIOUS
<1>2. /\ w.pc = "reply" /\ UNCHANGED <<lines, calls, serve, tables, server>>
      /\ answers' = [answers EXCEPT ![i] = Append(@, a)]
      /\ work' = [work EXCEPT ![i] = Idle]
  BY <1>1 DEF WriteAnswer, sessionVars
<1>3. Grows /\ TablesInv' /\ SecretsInv'
  BY <1>2, Still
<1>4. PICK c : c = calls[i]
  OBVIOUS
<1>5. LineOK(line) /\ PhaseOK(i, line, w, answers[i]) /\ CallOK(line, c, w) /\ TablesInv
  BY <1>1, <1>4 DEF MInv, LineInv
<1>6. /\ answers[i] = <<>> /\ line.form \notin {None, "noMethodNote", "note"}
      /\ AnswerOK(i, line, a)
  BY <1>1, <1>2, <1>5 DEF PhaseOK, Idle, None
<1>7. Append(answers[i], a) = <<a>> /\ <<a>>[1] = a
  BY <1>6
<1>8. At(i, line, Idle, <<a>>, c)
  <2>1. DOMAIN lines = Id /\ DOMAIN work = Id /\ DOMAIN answers = Id /\ DOMAIN calls = Id
    BY DEF MInv
  <2> QED
    BY <1>1, <1>2, <1>4, <1>7, <2>1 DEF At
<1>9. PhaseOK(i, line, Idle, <<a>>)'
  <2>1. AnswerOK(i, line, a)'
    BY <1>3, <1>6, AnswerGrows
  <2> QED
    BY <1>6, <1>7, <2>1 DEF PhaseOK
<1>10. CallOK(line, c, Idle)'
  <2>1. CallOK(line, c, Idle)
    BY <1>2, <1>5 DEF CallOK, Idle, None
  <2> QED
    BY <1>3, <1>5, <2>1, CallGrows
<1> QED
  BY <1>2, <1>3, <1>5, <1>8, <1>9, <1>10, OneLine

\* An answer is ready: what Reply leaves behind.
LEMMA ReplyPhase ==
    ASSUME NEW i, NEW line, NEW type, NEW body, BodyOK(line, body)', serve' # "down",
           line.form \notin {None, "garbage", "noMethodNote", "note"}
    PROVE  PhaseOK(i, line, [pc |-> "reply", answer |-> Answer(i, type, body)], <<>>)'
<1>1. PICK a : a = Answer(i, type, body)
  OBVIOUS
<1>2. a.id = i /\ a.body = body
  BY <1>1 DEF Answer
<1>3. AnswerOK(i, line, a)'
  BY <1>2 DEF AnswerOK
<1>4. PICK w : w = [pc |-> "reply", answer |-> a]
  OBVIOUS
<1>5. w.answer = a
  BY <1>4
<1>6. PhaseOK(i, line, w, <<>>)'
  BY <1>3, <1>4, <1>5, Zenon DEF PhaseOK
<1> QED
  BY <1>1, <1>4, <1>6

LEMMA GiveUpStep ==
    ASSUME MInv, NEW i \in Id, GiveUp(i)
    PROVE  MInv'
<1>1. PICK line, w, as, c : line = lines[i] /\ w = work[i] /\ as = answers[i] /\ c = calls[i]
  OBVIOUS
<1>2. PICK type : type = IF 0 \in 200 .. 299 THEN "result" ELSE "isError"
  OBVIOUS
<1>3. PICK new : new = [pc |-> "reply", answer |-> Answer(i, type, {})]
  OBVIOUS
<1>4. PICK d : d = IF c.state = "sent" THEN c ELSE NoCall
  OBVIOUS
<1>5. /\ w.pc = "call" /\ UNCHANGED <<lines, answers, serve, tables, server>>
      /\ work' = [work EXCEPT ![i] = new] /\ calls' = [calls EXCEPT ![i] = d]
  BY <1>1, <1>2, <1>3, <1>4, Zenon DEF GiveUp, ToolResult, Reply
<1>6. Grows /\ TablesInv' /\ SecretsInv'
  BY <1>5, Still
<1>7. LineOK(line) /\ PhaseOK(i, line, w, as) /\ CallOK(line, c, w) /\ TablesInv
  BY <1>1 DEF MInv, LineInv
<1>8. as = <<>> /\ line.form = "tool" /\ serve # "down"
  <2>1. w.pc = "call"
    BY <1>5
  <2>2. PhaseOK(i, line, w, as)
    BY <1>7
  <2> QED
    <3>1. Unanswered(as)
      BY <2>1, <2>2, PhaseAt, Zenon
    <3> QED
      BY <2>1, <2>2, <3>1, PhaseAt, Zenon DEF Unanswered
<1>9. At(i, line, new, as, d)
  <2>1. DOMAIN lines = Id /\ DOMAIN work = Id /\ DOMAIN answers = Id /\ DOMAIN calls = Id
    BY DEF MInv
  <2> QED
    BY <1>1, <1>5, <2>1 DEF At
<1>10. PhaseOK(i, line, new, as)'
  <2>1. BodyOK(line, {})'
    BY DEF BodyOK
  <2>2. line.form \notin {None, "garbage", "noMethodNote", "note"} /\ serve' # "down"
    BY <1>5, <1>8 DEF None
  <2> QED
    BY <1>3, <1>8, <2>1, <2>2, ReplyPhase
<1>11. CallOK(line, d, new)'
  <2>1. new.pc = "reply"
    BY <1>3
  <2>2. CallOK(line, d, new)
    BY <1>4, <1>7, <2>1 DEF CallOK
  <2> QED
    BY <1>6, <1>7, <2>2, CallGrows
<1> QED
  BY <1>5, <1>6, <1>7, <1>9, <1>10, <1>11, OneLine

\* The proxy only ever sends a token under which the call will be admitted.
LEMMA CredentialOK ==
    ASSUME TablesInv, NEW i \in Id, LineOK(lines[i]), IsCall(i), Credential(i) # NoToken
    PROVE  SentOK(lines[i], Credential(i))
<1>1. Tool(i) = lines[i].tool /\ lines[i].form = "tool"
  BY DEF Tool, IsCall
<1>2. CASE lines[i].tool = "open_run"
  BY <1>1, <1>2 DEF Credential, SentOK
<1>3. CASE lines[i].tool = "lease_identity"
  <2>1. lines[i].run \in Run /\ Credential(i) = runTokens[lines[i].run]
    BY <1>1, <1>3 DEF Credential, LineOK
  <2>2. runTokens[lines[i].run] = RunToken(lines[i].run)
    BY <2>1 DEF TablesInv
  <2> QED
    BY <1>3, <2>1, <2>2 DEF SentOK
<1>4. CASE lines[i].tool \in {"claim_code", "release_lease"}
  <2>1. lines[i].lease \in Lease /\ Credential(i) = TokenForLease(lines[i].lease)
    BY <1>1, <1>4 DEF Credential, LineOK
  <2>2. leaseRuns[lines[i].lease] # NoRun
    BY <2>1 DEF TokenForLease
  <2>3. Credential(i) = RunToken(leases[lines[i].lease])
    BY <2>1, <2>2 DEF TokenForLease, TablesInv
  <2> QED
    BY <1>4, <2>2, <2>3 DEF SentOK
<1> QED
  BY <1>1, <1>2, <1>3, <1>4 DEF LineOK

LEMMA HandleStep ==
    ASSUME MInv, NEW i \in Id, Handle(i)
    PROVE  MInv'
<1>1. PICK line, w, as, c : line = lines[i] /\ w = work[i] /\ as = answers[i] /\ c = calls[i]
  OBVIOUS
<1>2. w.pc = "handle" /\ UNCHANGED <<lines, answers, serve, tables, server>>
  BY <1>1 DEF Handle, sessionVars
<1>3. Grows /\ TablesInv' /\ SecretsInv'
  BY <1>2, Still
<1>4. LineOK(line) /\ PhaseOK(i, line, w, as) /\ CallOK(line, c, w) /\ TablesInv
  BY <1>1 DEF MInv, LineInv
<1>5. /\ as = <<>> /\ line.form \notin {None, "garbage", "noMethod", "noMethodNote"}
      /\ serve' # "down"
  <2>1. w.pc = "handle" /\ serve' = serve
    BY <1>2
  <2>2. PhaseOK(i, line, w, as)
    BY <1>4
  <2> QED
    <3>1. Unanswered(as)
      BY <2>1, <2>2, PhaseAt, Zenon
    <3> QED
      BY <2>1, <2>2, <3>1, PhaseAt, Zenon DEF Unanswered
<1>6. c = NoCall
  BY <1>2, <1>4 DEF CallOK
<1>7. DOMAIN lines = Id /\ DOMAIN work = Id /\ DOMAIN answers = Id /\ DOMAIN calls = Id
  BY DEF MInv
<1>8. \A x : CallOK(line, NoCall, x)'
  BY DEF CallOK
<1>9. CASE /\ ~IsRequest(i)
           /\ work' = [work EXCEPT ![i] = Idle] /\ UNCHANGED calls
  <2>1. At(i, line, Idle, as, c)
    BY <1>1, <1>2, <1>7, <1>9 DEF At
  <2>2. PhaseOK(i, line, Idle, as)'
    BY <1>1, <1>5, <1>9 DEF PhaseOK, IsRequest
  <2> QED
    BY <1>2, <1>3, <1>4, <1>6, <1>8, <2>1, <2>2, OneLine
<1>10. ASSUME NEW type, IsRequest(i), Reply(i, type, {}), UNCHANGED calls
       PROVE  MInv'
  <2>1. PICK new : new = [pc |-> "reply", answer |-> Answer(i, type, {})]
    OBVIOUS
  <2>2. At(i, line, new, as, c)
    BY <1>1, <1>2, <1>7, <1>10, <2>1 DEF At, Reply
  <2>3. PhaseOK(i, line, new, as)'
    <3>1. BodyOK(line, {})'
      BY DEF BodyOK
    <3>2. line.form \notin {None, "garbage", "noMethodNote", "note"}
      BY <1>1, <1>5, <1>10 DEF IsRequest
    <3> QED
      BY <1>5, <2>1, <3>1, <3>2, ReplyPhase
  <2> QED
    BY <1>2, <1>3, <1>4, <1>6, <1>8, <2>2, <2>3, OneLine
<1>11. CASE /\ IsRequest(i) /\ ~IsCall(i)
            /\ Reply(i, Local(i), {}) /\ UNCHANGED calls
  BY <1>10, <1>11
<1>12. CASE /\ IsCall(i) /\ Credential(i) = NoToken
            /\ ToolResult(i, 404, {}) /\ UNCHANGED calls
  <2>1. IsRequest(i)
    BY <1>12 DEF IsCall, IsRequest
  <2> QED
    BY <1>10, <1>12, <2>1 DEF ToolResult
<1>13. CASE /\ IsCall(i) /\ Credential(i) # NoToken
            /\ work' = [work EXCEPT ![i] = [pc |-> "call"]]
            /\ calls' = [calls EXCEPT ![i].state = "sent", ![i].token = Credential(i)]
  <2>1. PICK token : token = Credential(i)
    OBVIOUS
  <2>2. PICK d : d = [state |-> "sent", token |-> token, status |-> 0, body |-> {}]
    OBVIOUS
  <2>3. calls' = [calls EXCEPT ![i] = d]
    BY <1>1, <1>6, <1>7, <1>13, <2>1, <2>2 DEF NoCall
  <2>4. At(i, line, [pc |-> "call"], as, d)
    BY <1>1, <1>2, <1>7, <1>13, <2>3 DEF At
  <2>5. line.form = "tool" /\ SentOK(line, token)
    BY <1>1, <1>4, <1>13, <2>1, CredentialOK DEF IsCall
  <2>6. SentOK(line, token)'
    BY <1>3, <1>4, <2>5, SentGrows
  <2>7. PhaseOK(i, line, [pc |-> "call"], as)'
    BY <1>5, <2>5 DEF PhaseOK
  <2>8. CallOK(line, d, [pc |-> "call"])'
    <3>1. d.token = token /\ [pc |-> "call"].pc # "handle"
      BY <2>2
    <3> QED
      BY <2>2, <2>5, <2>6, <3>1 DEF CallOK
  <2> QED
    BY <1>2, <1>3, <1>4, <2>4, <2>7, <2>8, OneLine
<1> QED
  BY <1>9, <1>11, <1>12, <1>13 DEF Handle

\* The token of a new run goes into the tables.
LEMMA KeepRunKeeps ==
    ASSUME TablesInv, NEW body, KeepRun(body), UNCHANGED <<leaseRuns, server>>,
           \A x \in body : \E r \in runs : x = <<"run", r>> \/ x = RunToken(r)
    PROVE  /\ Grows /\ TablesInv'
           /\ \A line : BodyOK(line, Stripped(body))'
<1>1. /\ leaseRuns' = leaseRuns /\ runs' = runs /\ leases' = leases /\ given' = given
      /\ runTokens' = [r \in Run |-> IF <<"run", r>> \in body THEN RunToken(r) ELSE runTokens[r]]
  BY DEF server, KeepRun
<1>2. \A r \in Run : <<"run", r>> \in body => r \in runs /\ runTokens'[r] = RunToken(r)
  BY <1>1, TokenFacts
<1>3. \A r \in Run : runTokens[r] = RunToken(r) => runTokens'[r] = RunToken(r)
  BY <1>1
<1>4. Grows
  BY <1>1, <1>3 DEF Grows
<1>5. TablesInv'
  <2>1. \A r \in Run :
           runTokens'[r] = NoToken \/ (runTokens'[r] = RunToken(r) /\ r \in runs)
    BY <1>1, <1>2 DEF TablesInv
  <2>2. \A l \in Lease : leaseRuns[l] # NoRun =>
           leaseRuns[l] = leases[l] /\ runTokens'[leases[l]] = RunToken(leases[l])
    BY <1>3 DEF TablesInv
  <2>3. DOMAIN runTokens' = Run
    BY <1>1
  <2> QED
    BY <1>1, <2>1, <2>2, <2>3 DEF TablesInv
<1>6. ASSUME NEW line
      PROVE  BodyOK(line, Stripped(body))'
  <2>1. ASSUME NEW x \in Stripped(body)
        PROVE  \E r \in Run : x = <<"run", r>> /\ runTokens'[r] = RunToken(r)
    <3>1. x \in body /\ x[1] # "rt"
      BY DEF Stripped
    <3>2. PICK r \in runs : x = <<"run", r>>
      BY <3>1, TokenFacts
    <3>3. r \in Run
      BY DEF TablesInv
    <3> QED
      BY <1>2, <3>1, <3>2, <3>3
  <2> QED
    BY <2>1 DEF BodyOK, Stripped
<1> QED
  BY <1>4, <1>5, <1>6

\* A new lease goes into the tables, under the run it was asked for.
LEMMA KeepLeaseKeeps ==
    ASSUME TablesInv, NEW i \in Id, NEW body, KeepLease(i, body),
           UNCHANGED <<runTokens, server>>,
           lines[i].run \in Run, runTokens[lines[i].run] = RunToken(lines[i].run),
           \A x \in body : \E l \in Lease : x = <<"lease", l>> /\ leases[l] = lines[i].run
    PROVE  /\ Grows /\ TablesInv'
           /\ \A line : BodyOK(line, body)'
<1>1. PICK run : run = lines[i].run
  OBVIOUS
<1>2. /\ runTokens' = runTokens /\ runs' = runs /\ leases' = leases /\ given' = given
      /\ leaseRuns' = [l \in Lease |-> IF <<"lease", l>> \in body THEN run ELSE leaseRuns[l]]
  BY <1>1 DEF server, KeepLease
<1>3. run \in Run /\ runTokens[run] = RunToken(run) /\ run # NoRun
  BY <1>1, RunFacts
<1>4. \A l \in Lease : <<"lease", l>> \in body => leases[l] = run /\ leaseRuns'[l] = run
  BY <1>1, <1>2, TokenFacts
<1>5. leaseRuns' \in [Lease -> Run \cup {NoRun}]
  BY <1>2, <1>3 DEF TablesInv
<1>6. Grows
  BY <1>2, <1>3 DEF Grows
<1>7. TablesInv'
  <2>1. \A l \in Lease : leaseRuns'[l] # NoRun =>
           leaseRuns'[l] = leases[l] /\ runTokens[leases[l]] = RunToken(leases[l])
    BY <1>2, <1>3, <1>4 DEF TablesInv
  <2> QED
    BY <1>2, <1>5, <2>1 DEF TablesInv
<1>8. ASSUME NEW line
      PROVE  BodyOK(line, body)'
  <2>1. ASSUME NEW x \in body
        PROVE  \E l \in Lease : x = <<"lease", l>> /\ leaseRuns'[l] # NoRun
    BY <1>1, <1>3, <1>4
  <2> QED
    BY <2>1 DEF BodyOK
<1> QED
  BY <1>6, <1>7, <1>8

LEMMA ReceiveStep ==
    ASSUME MInv, NEW i \in Id, Receive(i)
    PROVE  MInv'
<1>1. PICK line, w, as, c : line = lines[i] /\ w = work[i] /\ as = answers[i] /\ c = calls[i]
  OBVIOUS
<1>2. /\ w.pc = "call" /\ c.state = "answered" /\ UNCHANGED <<lines, answers, serve, server>>
      /\ calls' = [calls EXCEPT ![i] = NoCall]
  BY <1>1 DEF Receive, sessionVars
<1>3. LineOK(line) /\ PhaseOK(i, line, w, as) /\ CallOK(line, c, w) /\ TablesInv
  BY <1>1 DEF MInv, LineInv
<1>4. Unanswered(as) /\ line.form = "tool" /\ serve # "down" /\ serve' = serve
  <2>1. w.pc = "call" /\ serve' = serve
    BY <1>2
  <2> QED
    BY <1>3, <2>1, PhaseAt, Zenon
<1>5. PICK status, body : status = c.status /\ body = c.body
  OBVIOUS
<1>6. AnsweredOK(line, status, body)
  <2>1. c # NoCall /\ c.state # "sent"
    BY <1>2 DEF NoCall, None
  <2>2. AnsweredOK(line, c.status, c.body)
    BY <1>3, <2>1 DEF CallOK
  <2> QED
    BY <1>5, <2>2
<1>7. Tool(i) = line.tool
  BY <1>1, <1>4 DEF Tool, IsCall
<1>8. SecretsInv'
  <2>1. owner' = owner /\ given' = given
    BY <1>2 DEF server
  <2> QED
    BY <2>1 DEF MInv, SecretsInv
<1>9. ASSUME NEW b, ToolResult(i, status, b), Grows, TablesInv', BodyOK(line, b)'
      PROVE  MInv'
  <2>1. PICK type : type = IF status \in 200 .. 299 THEN "result" ELSE "isError"
    OBVIOUS
  <2>2. PICK new : new = [pc |-> "reply", answer |-> Answer(i, type, b)]
    OBVIOUS
  <2>3. work' = [work EXCEPT ![i] = new]
    BY <1>9, <2>1, <2>2, Zenon DEF ToolResult, Reply
  <2>4. At(i, line, new, as, NoCall)
    <3>1. DOMAIN lines = Id /\ DOMAIN work = Id /\ DOMAIN answers = Id /\ DOMAIN calls = Id
      BY DEF MInv
    <3> QED
      BY <1>1, <1>2, <2>3, <3>1 DEF At
  <2>5. PhaseOK(i, line, new, as)'
    <3>1. line.form \notin {None, "garbage", "noMethodNote", "note"} /\ serve' # "down"
      BY <1>4 DEF None
    <3>2. as = <<>>
      BY <1>4 DEF Unanswered
    <3> QED
      BY <1>9, <2>2, <3>1, <3>2, ReplyPhase
  <2>6. CallOK(line, NoCall, new)'
    BY DEF CallOK
  <2> QED
    BY <1>3, <1>4, <1>8, <1>9, <2>4, <2>5, <2>6, OneLine
<1>10. CASE /\ Tool(i) = "open_run" /\ status = 201
            /\ KeepRun(body) /\ UNCHANGED leaseRuns
            /\ ToolResult(i, status, Stripped(body))
  <2>1. \A x \in body : \E r \in runs : x = <<"run", r>> \/ x = RunToken(r)
    BY <1>6, <1>7, <1>10 DEF AnsweredOK
  <2>2. UNCHANGED <<leaseRuns, server>>
    BY <1>2, <1>10
  <2>3. Grows /\ TablesInv' /\ BodyOK(line, Stripped(body))'
    BY <1>3, <1>10, <2>1, <2>2, KeepRunKeeps
  <2>4. PICK b : b = Stripped(body)
    OBVIOUS
  <2> QED
    BY <1>9, <1>10, <2>3, <2>4
<1>11. CASE /\ Tool(i) = "lease_identity" /\ status = 201
            /\ KeepLease(i, body) /\ UNCHANGED runTokens
            /\ ToolResult(i, status, body)
  <2>1. /\ line.run \in Run /\ runTokens[line.run] = RunToken(line.run)
        /\ \A x \in body : \E l \in Lease : x = <<"lease", l>> /\ leases[l] = line.run
    BY <1>3, <1>4, <1>6, <1>7, <1>11 DEF AnsweredOK, LineOK
  <2>2. UNCHANGED <<runTokens, server>>
    BY <1>2, <1>11
  <2>3. Grows /\ TablesInv' /\ BodyOK(line, body)'
    BY <1>1, <1>3, <1>11, <2>1, <2>2, KeepLeaseKeeps
  <2> QED
    BY <1>9, <1>11, <2>3
<1>12. CASE /\ ~(Tool(i) \in {"open_run", "lease_identity"} /\ status = 201)
            /\ ToolResult(i, status, body)
            /\ UNCHANGED tables
  <2>1. BodyOK(line, body)
    BY <1>6, <1>7, <1>12 DEF AnsweredOK
  <2>2. Grows /\ TablesInv'
    BY <1>2, <1>12, Still
  <2>3. BodyOK(line, body)'
    BY <2>1, <2>2, BodyGrows
  <2> QED
    BY <1>9, <1>12, <2>2, <2>3
<1> QED
  BY <1>1, <1>5, <1>10, <1>11, <1>12, Zenon DEF Receive

-----------------------------------------------------------------------------
(* The server.                                                             *)

\* Whatever the server answers, it is on its way or goes nowhere.
LEMMA RespondStep ==
    ASSUME MInv, NEW i \in Id, calls[i].state = "sent", NEW status, NEW body,
           Respond(i, status, body), UNCHANGED <<lines, serve, work, answers>>,
           Grows, TablesInv', SecretsInv', NEW line, line = lines[i],
           AnsweredOK(line, status, body)'
    PROVE  MInv'
<1>1. PICK w, as, c : w = work[i] /\ as = answers[i] /\ c = calls[i]
  OBVIOUS
<1>2. LineOK(line) /\ PhaseOK(i, line, w, as) /\ CallOK(line, c, w) /\ TablesInv
  BY <1>1 DEF MInv, LineInv
<1>3. /\ c = [state |-> "sent", token |-> c.token, status |-> 0, body |-> {}]
      /\ line.form = "tool"
  <2>1. c # NoCall /\ c.state = "sent"
    BY <1>1 DEF NoCall, None
  <2> QED
    BY <1>2, <2>1 DEF CallOK
<1>4. PICK d : d = IF w.pc = "call"
                   THEN [state |-> "answered", token |-> c.token, status |-> status, body |-> body]
                   ELSE NoCall
  OBVIOUS
<1>5. DOMAIN lines = Id /\ DOMAIN work = Id /\ DOMAIN answers = Id /\ DOMAIN calls = Id
  BY DEF MInv
<1>6. calls' = [calls EXCEPT ![i] = d]
  <2>1. CASE w.pc = "call"
    <3>1. d = [c EXCEPT !.state = "answered", !.status = status, !.body = body]
      <4>1. PICK token : token = c.token
        OBVIOUS
      <4>2. c = [state |-> "sent", token |-> token, status |-> 0, body |-> {}]
        BY <1>3, <4>1, Zenon
      <4>3. d = [state |-> "answered", token |-> token, status |-> status, body |-> body]
        BY <1>4, <2>1, <4>1, Zenon
      <4> DEFINE CallRecord(st, s, b) ==
                   [state : {st}, token : {token}, status : {s}, body : {b}]
      <4>4. c \in CallRecord("sent", 0, {})
        BY <4>2
      <4>5. PICK e : e = [c EXCEPT !.state = "answered", !.status = status, !.body = body]
        OBVIOUS
      <4>6. e \in CallRecord("answered", status, body)
        BY <4>4, <4>5
      <4>7. e = [state |-> "answered", token |-> token, status |-> status, body |-> body]
        BY <4>6
      <4> QED
        BY <4>3, <4>5, <4>7, Zenon
    <3> QED
      BY <1>1, <1>5, <2>1, <3>1 DEF Respond
  <2>2. CASE w.pc # "call"
    BY <1>1, <1>4, <1>5, <2>2 DEF Respond
  <2> QED
    BY <2>1, <2>2
<1>7. At(i, line, w, as, d)
  BY <1>1, <1>5, <1>6 DEF At
<1>8. PhaseOK(i, line, w, as)'
  BY <1>2, PhaseGrows
<1>9. CallOK(line, d, w)'
  <2>1. CASE w.pc = "call"
    <3>1. d = [state |-> "answered", token |-> c.token, status |-> status, body |-> body]
      BY <1>4, <2>1
    <3>2. d.token = c.token /\ d.status = status /\ d.body = body
      BY <3>1
    <3> QED
      BY <1>3, <2>1, <3>1, <3>2, Zenon DEF CallOK
  <2>2. CASE w.pc # "call"
    BY <1>4, <2>2 DEF CallOK
  <2> QED
    BY <2>1, <2>2
<1> QED
  BY <1>2, <1>7, <1>8, <1>9, OneLine

\* A claim: the pair that is given is one of an exclusive pairing.
LEMMA SecretKeeps ==
    ASSUME SecretsInv, NEW s, NEW o, Secrets!Take(s, o) \/ Secrets!Give(s, o)
    PROVE  SecretsInv' /\ given \subseteq given'
<1>1. CASE Secrets!Take(s, o)
  <2>1. /\ owner' = owner \cup {<<s, o>>} /\ given' \in {given, given \cup {<<s, o>>}}
        /\ \A p \in owner : p[1] # s /\ p[2] # o
    BY <1>1 DEF Secrets!Take, Secrets!Free
  <2>2. <<s, o>>[1] = s /\ <<s, o>>[2] = o
    OBVIOUS
  <2>3. given \subseteq given' /\ given' \subseteq owner'
    BY <2>1 DEF SecretsInv
  <2>4. \A p \in owner' : p = <<p[1], p[2]>>
    BY <2>1, <2>2 DEF SecretsInv
  <2>5. \A p, q \in owner' : p[1] = q[1] <=> p[2] = q[2]
    <3> SUFFICES ASSUME NEW p \in owner', NEW q \in owner'
                 PROVE  p[1] = q[1] <=> p[2] = q[2]
      OBVIOUS
    <3>1. CASE p \in owner /\ q \in owner
      BY <3>1 DEF SecretsInv
    <3>2. CASE p = <<s, o>> /\ q = <<s, o>>
      BY <3>2
    <3>3. CASE p = <<s, o>> /\ q \in owner
      BY <2>1, <2>2, <3>3
    <3>4. CASE p \in owner /\ q = <<s, o>>
      BY <2>1, <2>2, <3>4
    <3> QED
      BY <2>1, <3>1, <3>2, <3>3, <3>4
  <2> QED
    BY <2>3, <2>4, <2>5 DEF SecretsInv
<1>2. CASE Secrets!Give(s, o)
  BY <1>2 DEF Secrets!Give, SecretsInv
<1> QED
  BY <1>1, <1>2

LEMMA ServeStep ==
    ASSUME MInv, NEW i \in Id, Serve(i)
    PROVE  MInv'
<1>1. PICK line, c : line = lines[i] /\ c = calls[i]
  OBVIOUS
<1>2. /\ calls[i].state = "sent" /\ UNCHANGED <<lines, serve, work, answers, tables>>
      /\ runTokens' = runTokens /\ leaseRuns' = leaseRuns
  BY DEF Serve, sessionVars, tables
<1>3. TablesInv /\ SecretsInv /\ LineOK(line) /\ CallOK(line, c, work[i])
  BY <1>1 DEF MInv, LineInv
<1>4. line.form = "tool" /\ SentOK(line, c.token)
  <2>1. c # NoCall /\ c.state = "sent"
    BY <1>1, <1>2 DEF NoCall, None
  <2> QED
    BY <1>3, <2>1 DEF CallOK
<1>5. Tool(i) = line.tool
  BY <1>1, <1>4 DEF Tool, IsCall
<1>6. line.tool = "lease_identity" => runTokens'[line.run] = RunToken(line.run)
  BY <1>2, <1>4 DEF SentOK
<1>7. ASSUME NEW status, Respond(i, status, {}), UNCHANGED server
      PROVE  MInv'
  <2>1. Grows /\ TablesInv' /\ SecretsInv'
    BY <1>2, <1>7, Still
  <2>2. AnsweredOK(line, status, {})'
    BY <1>6 DEF AnsweredOK, BodyOK
  <2> QED
    BY <1>1, <1>2, <1>7, <2>1, <2>2, RespondStep
<1>8. CASE Admission(i) # 200 /\ Respond(i, Admission(i), {}) /\ UNCHANGED server
  <2>1. PICK status : status = Admission(i)
    OBVIOUS
  <2> QED
    BY <1>7, <1>8, <2>1
<1>9. CASE CreateRun(i)
  <2>1. PICK r \in Run : /\ runs' = runs \cup {r}
                         /\ Respond(i, 201, {<<"run", r>>, RunToken(r)})
    BY <1>9 DEF CreateRun, NextRun
  <2>2. /\ leases' = leases /\ owner' = owner /\ given' = given /\ line.tool = "open_run"
    BY <1>5, <1>9 DEF CreateRun
  <2>3. Grows
    BY <1>2, <2>1, <2>2 DEF Grows
  <2>4. TablesInv'
    BY <1>2, <1>3, <2>1, <2>2 DEF TablesInv
  <2>5. SecretsInv'
    BY <1>3, <2>2 DEF SecretsInv
  <2>6. AnsweredOK(line, 201, {<<"run", r>>, RunToken(r)})'
    BY <2>1, <2>2 DEF AnsweredOK
  <2> QED
    BY <1>1, <1>2, <2>1, <2>3, <2>4, <2>5, <2>6, RespondStep
<1>10. CASE Acquire(i)
  <2>1. PICK l \in Lease : /\ leases[l] = NoRun /\ leases' = [leases EXCEPT ![l] = line.run]
                           /\ Respond(i, 201, {<<"lease", l>>})
    BY <1>1, <1>10 DEF Acquire, NextLease
  <2>2. /\ runs' = runs /\ owner' = owner /\ given' = given /\ line.tool = "lease_identity"
    BY <1>5, <1>10 DEF Acquire
  <2>3. line.run \in Run /\ line.run # NoRun
    BY <1>3, <1>4, <2>2, RunFacts DEF LineOK
  <2>4. leases \in [Lease -> Run \cup {NoRun}] /\ leaseRuns[l] = NoRun
    BY <1>3, <2>1 DEF TablesInv
  <2>5. \A k \in Lease : leases'[k] = IF k = l THEN line.run ELSE leases[k]
    BY <2>1, <2>4
  <2>6. Grows
    BY <1>2, <2>1, <2>2, <2>5 DEF Grows
  <2>7. TablesInv'
    <3>1. leases' \in [Lease -> Run \cup {NoRun}]
      BY <2>1, <2>3, <2>4
    <3>2. \A k \in Lease : leaseRuns[k] # NoRun =>
             leaseRuns[k] = leases'[k] /\ runTokens[leases'[k]] = RunToken(leases'[k])
      BY <1>3, <2>4, <2>5 DEF TablesInv
    <3> QED
      BY <1>2, <1>3, <2>2, <3>1, <3>2 DEF TablesInv
  <2>8. SecretsInv'
    BY <1>3, <2>2 DEF SecretsInv
  <2>9. AnsweredOK(line, 201, {<<"lease", l>>})'
    <3>1. leases'[l] = line.run
      BY <2>5
    <3> QED
      BY <1>6, <2>2, <3>1 DEF AnsweredOK
  <2> QED
    BY <1>1, <1>2, <2>1, <2>6, <2>7, <2>8, <2>9, RespondStep
<1>11. CASE Claim(i)
  <2>1. /\ runs' = runs /\ leases' = leases /\ line.tool = "claim_code"
    BY <1>5, <1>11 DEF Claim
  <2>2. TablesInv'
    BY <1>2, <1>3, <2>1 DEF TablesInv
  <2>3. PICK o : o = ClaimantOf(line)
    OBVIOUS
  <2>4. CASE Respond(i, 200, {}) /\ UNCHANGED <<owner, given>>
    <3>1. Grows
      BY <1>2, <2>1, <2>4 DEF Grows
    <3>2. SecretsInv'
      BY <1>3, <2>4 DEF SecretsInv
    <3>3. AnsweredOK(line, 200, {})'
      BY <2>1 DEF AnsweredOK, BodyOK
    <3> QED
      BY <1>1, <1>2, <2>2, <2>4, <3>1, <3>2, <3>3, RespondStep
  <2>5. ASSUME NEW s, Secrets!Take(s, o) \/ Secrets!Give(s, o), <<s, o>> \in given',
               Respond(i, 200, {<<"secret", s>>})
        PROVE  MInv'
    <3>1. SecretsInv' /\ given \subseteq given'
      BY <1>3, <2>5, SecretKeeps
    <3>2. Grows
      BY <1>2, <2>1, <3>1 DEF Grows
    <3>3. \E p \in given' : <<"secret", s>> = <<"secret", p[1]>> /\ p[2] = ClaimantOf(line)
      <4>1. <<s, o>>[1] = s /\ <<s, o>>[2] = o
        OBVIOUS
      <4> QED
        BY <2>3, <2>5, <4>1
    <3>4. AnsweredOK(line, 200, {<<"secret", s>>})'
      <4>1. BodyOK(line, {<<"secret", s>>})'
        BY <1>4, <2>1, <3>3 DEF BodyOK
      <4> QED
        BY <2>1, <4>1 DEF AnsweredOK
    <3> QED
      BY <1>1, <1>2, <2>2, <2>5, <3>1, <3>2, <3>4, RespondStep
  <2> QED
    BY <1>1, <1>11, <2>3, <2>4, <2>5, Zenon DEF Claim, ClaimantOf
<1>12. CASE Release(i)
  BY <1>7, <1>12 DEF Release
<1> QED
  BY <1>8, <1>9, <1>10, <1>11, <1>12 DEF Serve

LEMMA McpInit == Init => MInv
<1> SUFFICES ASSUME Init
             PROVE  MInv
  OBVIOUS
<1>1. /\ DOMAIN lines = Id /\ DOMAIN work = Id /\ DOMAIN answers = Id /\ DOMAIN calls = Id
      /\ \A i \in Id : /\ lines[i] = [form |-> None] /\ work[i] = Idle
                      /\ answers[i] = <<>> /\ calls[i] = NoCall
  BY DEF Init
<1>2. SecretsInv
  BY DEF Init, Secrets!SecretInit, SecretsInv
<1>3. ASSUME NEW i \in Id
      PROVE  LineInv(i)
  <2>1. PICK line : line = lines[i] /\ line.form = None
    BY <1>1
  <2>2. LineOK(line) /\ PhaseOK(i, line, Idle, <<>>) /\ CallOK(line, NoCall, Idle)
    BY <2>1 DEF LineOK, PhaseOK, CallOK, None
  <2> QED
    BY <1>1, <2>1, <2>2 DEF LineInv
<1>4. NoTokens = [r \in Run |-> NoToken] /\ NoLeases = [l \in Lease |-> NoRun]
  BY DEF NoTokens, NoLeases
<1>5. NoLeases \in [Lease -> Run \cup {NoRun}]
  BY <1>4
<1>6. CASE runs = {} /\ leases = NoLeases /\ runTokens = NoTokens /\ leaseRuns = NoLeases
  BY <1>1, <1>2, <1>3, <1>4, <1>5, <1>6 DEF TablesInv, MInv
<1>7. CASE runs = {1} /\ leases = [NoLeases EXCEPT ![1] = 1]
  <2>1. /\ leases \in [Lease -> Run \cup {NoRun}] /\ runs \subseteq Run
        /\ \A l \in Lease : leases[l] = IF l = 1 THEN 1 ELSE NoRun
    BY <1>4, <1>5, <1>7, RunFacts
  <2>2. CASE runTokens = NoTokens /\ leaseRuns = NoLeases
    BY <1>1, <1>2, <1>3, <1>4, <1>5, <2>1, <2>2 DEF TablesInv, MInv
  <2>3. CASE runTokens = [NoTokens EXCEPT ![1] = RunToken(1)] /\ leaseRuns = leases
    <3>1. /\ DOMAIN runTokens = Run
          /\ \A r \in Run : runTokens[r] = IF r = 1 THEN RunToken(1) ELSE NoToken
      BY <1>4, <2>3, RunFacts
    <3>2. \A l \in Lease : leaseRuns[l] # NoRun =>
             leaseRuns[l] = leases[l] /\ runTokens[leases[l]] = RunToken(leases[l])
      BY <2>1, <2>3, <3>1, RunFacts
    <3>3. TablesInv
      BY <1>7, <2>1, <2>3, <3>1, <3>2 DEF TablesInv
    <3> QED
      BY <1>1, <1>2, <1>3, <3>3 DEF MInv
  <2> QED
    BY <1>7, <2>2, <2>3, RunFacts DEF Init
<1> QED
  BY <1>6, <1>7 DEF Init

LEMMA McpStep ==
    ASSUME MInv, [Next]_vars
    PROVE  MInv'
<1>1. CASE UNCHANGED vars
  <2>1. UNCHANGED <<lines, work, answers, calls, serve, tables, server>>
    BY <1>1 DEF vars, sessionVars
  <2>2. Grows /\ TablesInv' /\ SecretsInv'
    BY <2>1, Still
  <2>3. \A j \in Id : LineInv(j)'
    BY <2>1, <2>2, Untouched
  <2> QED
    BY <2>1, <2>2, <2>3 DEF MInv
<1>2. ASSUME NEW i \in NextId(1 .. MaxCalls), NEW line \in ToolCalls, Accept(i, line)
      PROVE  MInv'
  <2>1. i \in Id /\ i \notin Sent
    BY McpAssumption DEF NextId, Id
  <2>2. LineOK(line) /\ line.form = "tool" /\ line.form # None
    BY ToolCallsOK DEF None
  <2> QED
    BY <1>2, <2>1, <2>2, AcceptStep
<1>3. ASSUME NEW i \in NextId(MaxCalls + 1 .. MaxCalls + MaxPlain), NEW f \in Forms,
             Accept(i, [form |-> f])
      PROVE  MInv'
  <2>1. i \in Id /\ i \notin Sent
    BY McpAssumption DEF NextId, Id
  <2>2. PICK line : line = [form |-> f]
    OBVIOUS
  <2>3. line.form = f /\ f \in PlainForms /\ f # "tool" /\ f # None
    BY <2>2, McpAssumption DEF PlainForms, None
  <2>4. LineOK(line)
    BY <2>3 DEF LineOK
  <2> QED
    BY <1>3, <2>1, <2>2, <2>3, <2>4, AcceptStep
<1>4. CASE ReadFails \/ Leave \/ Return \/ Signal
  BY <1>4, SessionStep
<1>5. ASSUME NEW i \in Sent,
             Handle(i) \/ Receive(i) \/ GiveUp(i) \/ WriteAnswer(i) \/ Serve(i)
      PROVE  MInv'
  <2>1. i \in Id
    BY DEF Sent
  <2> QED
    BY <1>5, <2>1, HandleStep, ReceiveStep, GiveUpStep, WriteAnswerStep, ServeStep
<1> QED
  BY <1>1, <1>2, <1>3, <1>4, <1>5 DEF Next

-----------------------------------------------------------------------------
(* What the session promises.                                              *)

\* Every line, call, table and claim stays consistent, whatever calls overlap,
\* fail or outlive the goroutine that made them.
THEOREM SessionInvariance == Spec => []MInv
<1>1. Init => MInv
  BY McpInit
<1>2. MInv /\ [Next]_vars => MInv'
  BY McpStep
<1> QED
  BY <1>1, <1>2, PTL DEF Spec

\* What a line shows is the body of its one answer.
LEMMA ShownIs ==
    ASSUME MInv, NEW i \in Sent, NEW x \in Shown(i)
    PROVE  /\ i \in Id
           /\ \E b : BodyOK(lines[i], b) /\ x \in b
<1>1. i \in Id /\ lines[i].form # None
  BY DEF Sent
<1>2. PICK line, w, as : line = lines[i] /\ w = work[i] /\ as = answers[i]
  OBVIOUS
<1>3. PhaseOK(i, line, w, as)
  BY <1>1, <1>2 DEF MInv, LineInv
<1>4. PICK n \in DOMAIN as : x \in as[n].body
  BY <1>2 DEF Shown
<1>5. as # <<>>
  <2> SUFFICES ASSUME as = <<>>
               PROVE  FALSE
    OBVIOUS
  <2>1. DOMAIN as = {}
    OBVIOUS
  <2> QED
    BY <1>4, <2>1
<1>6. as = <<as[1]>> /\ AnswerOK(i, line, as[1])
  BY <1>3, <1>5, Zenon DEF PhaseOK
<1>7. PICK a : a = as[1]
  OBVIOUS
<1>8. n = 1
  <2>1. as = <<a>>
    BY <1>6, <1>7, Zenon
  <2> QED
    BY <1>4, <2>1
<1>9. x \in a.body /\ BodyOK(line, a.body)
  BY <1>4, <1>6, <1>7, <1>8 DEF AnswerOK
<1> QED
  BY <1>1, <1>2, <1>9, Zenon

\* No line is answered twice, a notification never, and when Serve returns every
\* request it took has been answered under its id.
THEOREM AnsweredOnce == Spec => []ExactlyOneAnswer
<1>1. MInv => ExactlyOneAnswer
  <2> SUFFICES ASSUME MInv, NEW i \in Sent
               PROVE  /\ Len(answers[i]) <= IF IsRequest(i) THEN 1 ELSE 0
                      /\ \A n \in DOMAIN answers[i] :
                            answers[i][n].id = IF lines[i].form = "garbage" THEN 0 ELSE i
                      /\ serve = "down" /\ IsRequest(i) => answers[i] # <<>>
    BY DEF ExactlyOneAnswer
  <2>1. i \in Id /\ lines[i].form # None
    BY DEF Sent
  <2>2. PICK line, w, as : line = lines[i] /\ w = work[i] /\ as = answers[i]
    OBVIOUS
  <2>3. PhaseOK(i, line, w, as) /\ line.form # None
    BY <2>1, <2>2 DEF MInv, LineInv
  <2>4. CASE as = <<>>
    <3>1. Len(as) = 0 /\ DOMAIN as = {}
      BY <2>4
    <3>2. ~(serve = "down" /\ line.form \notin {"noMethodNote", "note"})
      <4>1. \A a : as # <<a>>
        BY <2>4
      <4> QED
        BY <2>3, <4>1, Zenon DEF PhaseOK
    <3> QED
      BY <2>2, <3>1, <3>2 DEF IsRequest
  <2>5. CASE as # <<>>
    <3>1. /\ as = <<as[1]>> /\ AnswerOK(i, line, as[1])
          /\ line.form \notin {"noMethodNote", "note"}
      BY <2>3, <2>5, Zenon DEF PhaseOK
    <3>2. PICK a : a = as[1]
      OBVIOUS
    <3>3. as = <<a>>
      BY <3>1, <3>2, Zenon
    <3>4. Len(as) = 1 /\ DOMAIN as = {1} /\ as[1] = a
      BY <3>3
    <3>5. a.id = IF line.form = "garbage" THEN 0 ELSE i
      BY <3>1, <3>2 DEF AnswerOK
    <3> QED
      BY <2>2, <2>5, <3>1, <3>4, <3>5 DEF IsRequest
  <2> QED
    BY <2>4, <2>5
<1> QED
  BY <1>1, SessionInvariance, PTL

\* No credential is ever written to stdout, and no call goes out under the token
\* of another run than the one it is about.
THEOREM CredentialsStayInside == Spec => []CredentialsConfined
<1>1. MInv => CredentialsConfined
  <2> SUFFICES ASSUME MInv
               PROVE  CredentialsConfined
    OBVIOUS
  <2>1. ASSUME NEW i \in Sent, NEW x \in Shown(i)
        PROVE  x[1] \notin {"rt", "pb"}
    <3>1. PICK b : BodyOK(lines[i], b) /\ x \in b
      BY <2>1, ShownIs
    <3>2. x[1] \in {"run", "lease", "secret"}
      BY <3>1, TokenFacts DEF BodyOK
    <3> QED
      BY <3>2
  <2>2. ASSUME NEW i \in Sent, calls[i].state = "sent"
        PROVE  Admission(i) \notin {403, 404}
    <3>1. i \in Id
      BY DEF Sent
    <3>2. PICK line, c : line = lines[i] /\ c = calls[i]
      OBVIOUS
    <3>3. TablesInv /\ LineOK(line) /\ CallOK(line, c, work[i])
      BY <3>1, <3>2 DEF MInv, LineInv
    <3>4. line.form = "tool" /\ SentOK(line, c.token)
      <4>1. c # NoCall /\ c.state = "sent"
        BY <2>2, <3>2 DEF NoCall, None
      <4> QED
        BY <3>3, <4>1 DEF CallOK
    <3>5. Tool(i) = line.tool
      BY <3>2, <3>4 DEF Tool, IsCall
    <3>6. CASE line.tool = "open_run"
      <4>1. Principal(c.token).kind \in {None, "project"}
        BY <3>4, <3>6 DEF SentOK, Principal, NoPrincipal
      <4> QED
        BY <3>2, <3>5, <3>6, <4>1 DEF Admission, None
    <3>7. ASSUME NEW r \in runs, c.token = RunToken(r), Subject(i) = r, line.tool # "open_run"
          PROVE  Admission(i) = 200
      <4>1. c.token # Bearer /\ c.token[2] = r
        BY <3>7, TokenFacts
      <4>2. Principal(c.token) = [kind |-> "run", run |-> r]
        BY <3>7, <4>1 DEF Principal
      <4>3. PICK p : p = Principal(c.token)
        OBVIOUS
      <4>4. p.kind = "run" /\ p.run = r /\ OwnsRun(p, Subject(i))
        BY <3>7, <4>2, <4>3 DEF OwnsRun
      <4> QED
        BY <3>2, <3>5, <3>7, <4>3, <4>4 DEF Admission, None
    <3>8. CASE line.tool = "lease_identity"
      <4>1. line.run \in Run /\ c.token = RunToken(line.run) /\ Subject(i) = line.run
        BY <3>2, <3>3, <3>4, <3>5, <3>8 DEF SentOK, LineOK, Subject
      <4>2. line.run \in runs
        <5>1. runTokens[line.run] = RunToken(line.run) /\ RunToken(line.run) # NoToken
          BY <3>4, <3>8, TokenFacts DEF SentOK
        <5> QED
          BY <3>3, <4>1, <5>1 DEF TablesInv
      <4> QED
        BY <3>7, <3>8, <4>1, <4>2
    <3>9. CASE line.tool \in {"claim_code", "release_lease"}
      <4>1. PICK l \in Lease : l = line.lease
        BY <3>3, <3>4, <3>9 DEF LineOK
      <4>2. leaseRuns[l] # NoRun /\ c.token = RunToken(leases[l]) /\ Subject(i) = leases[l]
        BY <3>2, <3>4, <3>5, <3>9, <4>1 DEF SentOK, Subject
      <4>3. leases[l] \in runs
        <5>1. leases[l] \in Run /\ runTokens[leases[l]] = RunToken(leases[l])
          BY <3>3, <4>2 DEF TablesInv
        <5> QED
          BY <3>3, <5>1, TokenFacts DEF TablesInv
      <4> QED
        BY <3>7, <3>9, <4>2, <4>3
    <3> QED
      BY <3>3, <3>4, <3>6, <3>8, <3>9 DEF LineOK
  <2> QED
    BY <2>1, <2>2 DEF CredentialsConfined
<1> QED
  BY <1>1, SessionInvariance, PTL

\* Every run and every lease the session has answered with can be acted on.
THEOREM ToldCanBeUsed == Spec => []ToldIsReachable
<1>1. MInv => ToldIsReachable
  <2> SUFFICES ASSUME MInv, NEW i \in Sent
               PROVE  /\ \A r \in Run : <<"run", r>> \in Shown(i) => runTokens[r] = RunToken(r)
                      /\ \A l \in Lease : <<"lease", l>> \in Shown(i) =>
                            TokenForLease(l) = RunToken(leases[l])
    BY DEF ToldIsReachable
  <2>1. ASSUME NEW r \in Run, <<"run", r>> \in Shown(i)
        PROVE  runTokens[r] = RunToken(r)
    <3>1. PICK b : BodyOK(lines[i], b) /\ <<"run", r>> \in b
      BY <2>1, ShownIs
    <3> QED
      BY <3>1, TokenFacts DEF BodyOK
  <2>2. ASSUME NEW l \in Lease, <<"lease", l>> \in Shown(i)
        PROVE  TokenForLease(l) = RunToken(leases[l])
    <3>1. PICK b : BodyOK(lines[i], b) /\ <<"lease", l>> \in b
      BY <2>2, ShownIs
    <3>2. leaseRuns[l] # NoRun
      BY <3>1, TokenFacts DEF BodyOK
    <3> QED
      BY <3>2 DEF MInv, TablesInv, TokenForLease
  <2> QED
    BY <2>1, <2>2
<1> QED
  BY <1>1, SessionInvariance, PTL

\* The same attempt is answered with the same secret, and another attempt with
\* another one.
THEOREM AttemptIsReplayed == Spec => []AttemptReplays
<1>1. MInv => AttemptReplays
  <2>1. ASSUME MInv, NEW i \in Sent, NEW x \in Shown(i), x[1] = "secret"
        PROVE  /\ lines[i] = [form |-> "tool", tool |-> "claim_code", lease |-> lines[i].lease,
                              kind |-> lines[i].kind, attempt |-> lines[i].attempt]
               /\ \E p \in owner : x = <<"secret", p[1]>> /\ p[2] = ClaimantOf(lines[i])
    <3>1. PICK line : line = lines[i]
      OBVIOUS
    <3>2. PICK b : BodyOK(line, b) /\ x \in b
      BY <2>1, <3>1, ShownIs
    <3>3. i \in Id
      BY <2>1, ShownIs
    <3>4. /\ line.form = "tool" /\ line.tool = "claim_code"
          /\ \E p \in given : x = <<"secret", p[1]>> /\ p[2] = ClaimantOf(line)
      BY <2>1, <3>2, TokenFacts DEF BodyOK
    <3>5. LineOK(line) /\ given \subseteq owner
      BY <2>1, <3>1, <3>3 DEF MInv, LineInv, SecretsInv
    <3>6. line = [form |-> "tool", tool |-> "claim_code", lease |-> line.lease,
                  kind |-> line.kind, attempt |-> line.attempt]
      BY <3>4, <3>5 DEF LineOK
    <3> QED
      BY <3>1, <3>4, <3>5, <3>6, Zenon
  <2>2. ASSUME NEW l, NEW m,
               l = [form |-> "tool", tool |-> "claim_code", lease |-> l.lease,
                    kind |-> l.kind, attempt |-> l.attempt],
               m = [form |-> "tool", tool |-> "claim_code", lease |-> m.lease,
                    kind |-> m.kind, attempt |-> m.attempt]
        PROVE  ClaimantOf(l) = ClaimantOf(m) <=> l = m
    <3>1. ASSUME ClaimantOf(l) = ClaimantOf(m)
          PROVE  l.lease = m.lease /\ l.kind = m.kind /\ l.attempt = m.attempt
      BY <3>1 DEF ClaimantOf, IdempotencyKey
    <3> QED
      BY <2>2, <3>1, Zenon
  <2>3. ASSUME MInv, NEW i \in Sent, NEW j \in Sent, NEW x \in Shown(i), NEW y \in Shown(j),
               x[1] = "secret", y[1] = "secret"
        PROVE  x = y <=> lines[i] = lines[j]
    <3>1. PICK p \in owner : x = <<"secret", p[1]>> /\ p[2] = ClaimantOf(lines[i])
      BY <2>1, <2>3
    <3>2. PICK q \in owner : y = <<"secret", q[1]>> /\ q[2] = ClaimantOf(lines[j])
      BY <2>1, <2>3
    <3>3. p[1] = q[1] <=> p[2] = q[2]
      BY <2>3 DEF MInv, SecretsInv
    <3>4. x = y <=> p[1] = q[1]
      BY <3>1, <3>2
    <3>5. ClaimantOf(lines[i]) = ClaimantOf(lines[j]) <=> lines[i] = lines[j]
      BY <2>1, <2>2, <2>3, Zenon
    <3> QED
      BY <3>1, <3>2, <3>3, <3>4, <3>5, Zenon
  <2> QED
    BY <2>3 DEF AttemptReplays
<1> QED
  BY <1>1, SessionInvariance, PTL
=============================================================================
