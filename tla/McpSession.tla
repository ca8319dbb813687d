----------------------------- MODULE McpSession -----------------------------
(***************************************************************************)
(* "authstunt mcp": a JSON-RPC session on stdin and stdout that proxies    *)
(* four tools to a running AuthStunt server (internal/mcp/server.go,       *)
(* wire.go, proxy.go), together with what that server decides about each   *)
(* call from its credential (internal/api/auth.go, runs.go, leases.go).    *)
(*                                                                         *)
(* A reader goroutine, the loop of Serve and one goroutine per request run *)
(* side by side.  Any call may fail before or after the server acted on    *)
(* it; the client may close its side, and the process may get a signal.  A *)
(* process that was killed starts again with empty tables, while its       *)
(* client still holds ids of the earlier session.                          *)
(*                                                                         *)
(* How the server hands over secrets is OneTimeSecret, which Claims        *)
(* implements.                                                             *)
(***************************************************************************)
EXTENDS Naturals, Sequences

CONSTANTS
    Forms,          \* the plain lines a client may write, see PlainForms
    Kind, Attempt,  \* arguments of claim_code
    Message,        \* the mail that carries secrets
    MaxRuns, MaxLeases,     \* bounds: rows the server creates
    MaxCalls,       \* bound: tool calls the client makes
    MaxPlain,       \* bound: lines it writes that are no tool call
    MaxFaults       \* bound: failed connections and signals

PlainForms == {"garbage", "noMethod", "noMethodNote", "note",
               "oldVersion", "ping", "unknown", "badArgs"}
Run == 1 .. MaxRuns
Lease == 1 .. MaxLeases
Id == 1 .. MaxCalls + MaxPlain

ASSUME McpAssumption ==
    /\ Forms \subseteq PlainForms /\ Attempt \subseteq Nat
    /\ MaxRuns \in Nat \ {0} /\ MaxLeases \in Nat \ {0} /\ MaxCalls \in Nat
    /\ MaxPlain \in Nat /\ MaxFaults \in Nat

VARIABLES
    lines,      \* the line the client has written under each request id
    earlier,    \* the ids the client holds from before the first line
    reader,     \* readLoop: "read", or "ended" with its channel closed
    serve,      \* Serve: "loop", "wait" for the handlers, or "down"
    ctx,        \* the session's context is canceled
    faults,     \* how many faults there were
    work,       \* the goroutine of each line
    answers,    \* what was written to stdout for each line
    runTokens, leaseRuns,       \* the proxy's tables
    calls,      \* each line's HTTP call
    runs, leases, bearerLive,   \* the server: runs, each lease's run, the bearer
    owner, given                \* the server's claims

sessionVars == <<lines, earlier, reader, serve, ctx, faults>>
tables == <<runTokens, leaseRuns>>
server == <<runs, leases, bearerLive, owner, given>>
vars == <<sessionVars, work, answers, tables, calls, server>>

None == "none"
NoRun == 0
NoToken == <<"none", 0>>
Bearer == <<"pb", 0>>
RunToken(r) == <<"rt", r>>

Sent == {i \in Id : lines[i].form # None}

IsCall(i) == lines[i].form = "tool"
Tool(i) == IF IsCall(i) THEN lines[i].tool ELSE None
IsRequest(i) == lines[i].form \notin {"noMethodNote", "note"}

\* What is written to stdout: the id echoed (0 stands for null), whether it is a
\* result, a result flagged isError or a JSON-RPC error, and what it names.
Answer(id, type, body) == [id |-> id, type |-> type, body |-> body]
Shown(i) == UNION {answers[i][n].body : n \in DOMAIN answers[i]}

\* The ids the client knows.
Told == earlier \cup UNION {Shown(i) : i \in Sent}

Secrets == INSTANCE OneTimeSecret WITH
    Secret <- Message \X Kind, Claimant <- Lease \X (Lease \X Kind \X Attempt)

NoTokens == [r \in Run |-> NoToken]
NoLeases == [l \in Lease |-> NoRun]
Idle == [pc |-> None]
NoCall == [state |-> None, token |-> NoToken, status |-> 0, body |-> {}]

\* Three beginnings: a fresh server; a server where an earlier session opened run
\* 1 and leased identity 1; and this session itself after doing so.  The bearer
\* the process was given may have been rotated or revoked since.
Init ==
    /\ lines = [i \in Id |-> [form |-> None]]
    /\ reader = "read" /\ serve = "loop" /\ ctx = FALSE
    /\ faults = 0
    /\ work = [i \in Id |-> Idle]
    /\ answers = [i \in Id |-> <<>>]
    /\ calls = [i \in Id |-> NoCall]
    /\ \/ /\ earlier = {} /\ runs = {} /\ leases = NoLeases
          /\ runTokens = NoTokens /\ leaseRuns = NoLeases
          /\ bearerLive \in BOOLEAN
       \/ /\ earlier = {<<"run", 1>>, <<"lease", 1>>}
          /\ runs = {1} /\ leases = [NoLeases EXCEPT ![1] = 1]
          /\ \/ runTokens = NoTokens /\ leaseRuns = NoLeases
             \/ runTokens = [NoTokens EXCEPT ![1] = RunToken(1)] /\ leaseRuns = leases
          /\ bearerLive = TRUE
    /\ Secrets!SecretInit

-----------------------------------------------------------------------------
(* The client, readLoop and Serve.                                         *)

\* The client names ids it was told, in this session or an earlier one.
ToolCalls ==
    {[form |-> "tool", tool |-> "open_run"]}
    \cup {[form |-> "tool", tool |-> "lease_identity", run |-> r] :
             r \in {r \in Run : <<"run", r>> \in Told}}
    \cup {[form |-> "tool", tool |-> "claim_code", lease |-> l, kind |-> k, attempt |-> a] :
             l \in {l \in Lease : <<"lease", l>> \in Told}, k \in Kind, a \in Attempt}
    \cup {[form |-> "tool", tool |-> "release_lease", lease |-> l] :
             l \in {l \in Lease : <<"lease", l>> \in Told}}

\* A client chooses its ids: here the first for tool calls, the others for the
\* rest.
NextId(ids) == {i \in ids \ Sent : \A j \in ids \ Sent : i <= j}

Fault == faults < MaxFaults /\ faults' = faults + 1

\* The reader pulls the client's next line off stdin and the loop takes it from
\* the unbuffered channel.  One that does not parse is answered under the null
\* id, one that is no request under its own; every other gets a goroutine.  (A
\* line the loop never takes, because the context is done, is as good as one
\* that was never written.)
Accept(i, line) ==
    /\ serve = "loop" /\ reader = "read"
    /\ lines' = [lines EXCEPT ![i] = line]
    /\ \/ /\ line.form = "garbage"
          /\ answers' = [answers EXCEPT ![i] = Append(@, Answer(0, "error", {}))]
          /\ UNCHANGED work
       \/ /\ line.form = "noMethod"
          /\ answers' = [answers EXCEPT ![i] = Append(@, Answer(i, "error", {}))]
          /\ UNCHANGED work
       \/ line.form = "noMethodNote" /\ UNCHANGED <<answers, work>>
       \/ /\ line.form \notin {"garbage", "noMethod", "noMethodNote"}
          /\ work' = [work EXCEPT ![i] = [pc |-> "handle"]]
          /\ UNCHANGED answers
    /\ UNCHANGED <<earlier, reader, serve, ctx, faults, tables, calls, server>>

\* The reader ends and its channel closes: the client has closed its side, or a
\* line is over the cap.
ReadFails ==
    /\ serve # "down" /\ reader = "read"
    /\ reader' = "ended"
    /\ UNCHANGED <<lines, earlier, serve, ctx, faults, work, answers, tables, calls, server>>

\* Mutated form: the deferred calls run in the other order.
LeaveWaiting ==
    /\ serve = "loop" /\ (ctx \/ reader = "ended")
    /\ serve' = "wait"
    /\ UNCHANGED <<lines, earlier, reader, ctx, faults, work, answers, tables, calls, server>>

\* The loop returns: the deferred calls cancel the context first, so that a
\* parked claim unwinds, and then wait for the handlers.
Leave ==
    /\ serve = "loop" /\ (ctx \/ reader = "ended")
    /\ serve' = "wait" /\ ctx' = TRUE
    /\ UNCHANGED <<lines, earlier, reader, faults, work, answers, tables, calls, server>>

\* Mutated form: the process ends without waiting for the handlers.
ReturnAtOnce ==
    /\ serve = "wait"
    /\ serve' = "down" /\ work' = [i \in Id |-> Idle]
    /\ UNCHANGED <<lines, earlier, reader, ctx, faults, answers, tables, calls, server>>

\* Serve returns, and with it the process ends.
Return ==
    /\ serve = "wait" /\ \A i \in Sent : work[i] = Idle
    /\ serve' = "down"
    /\ UNCHANGED <<lines, earlier, reader, ctx, faults, work, answers, tables, calls, server>>

\* SIGINT or SIGTERM cancels the context of runMCP.
Signal ==
    /\ serve # "down" /\ ~ctx /\ Fault
    /\ ctx' = TRUE
    /\ UNCHANGED <<lines, earlier, reader, serve, work, answers, tables, calls, server>>

-----------------------------------------------------------------------------
(* handle, callTool and the proxy.                                         *)

Reply(i, type, body) ==
    work' = [work EXCEPT ![i] = [pc |-> "reply", answer |-> Answer(i, type, body)]]

\* toolResult: every answer of the server is a result, flagged unless it is 2xx.
ToolResult(i, status, body) ==
    Reply(i, IF status \in 200 .. 299 THEN "result" ELSE "isError", body)

\* What handle answers without a call: the methods it knows (initialize,
\* server/discover, ping, tools/list), or an error for a version the server
\* does not speak, an unknown method, or arguments outside a tool's schema.
Local(i) == IF lines[i].form = "ping" THEN "result" ELSE "error"

TokenForLease(l) == IF leaseRuns[l] = NoRun THEN NoToken ELSE runTokens[leaseRuns[l]]

\* The credential a tool call goes out with, or NoToken where the proxy holds none.
Credential(i) ==
    CASE Tool(i) = "open_run" -> Bearer
      [] Tool(i) = "lease_identity" -> runTokens[lines[i].run]
      [] Tool(i) \in {"claim_code", "release_lease"} -> TokenForLease(lines[i].lease)

Handle(i) ==
    /\ work[i].pc = "handle"
    /\ \/ /\ ~IsRequest(i)
          /\ work' = [work EXCEPT ![i] = Idle] /\ UNCHANGED calls
       \/ /\ IsRequest(i) /\ ~IsCall(i)
          /\ Reply(i, Local(i), {}) /\ UNCHANGED calls
       \/ /\ IsCall(i) /\ Credential(i) = NoToken
          /\ ToolResult(i, 404, {}) /\ UNCHANGED calls
       \/ /\ IsCall(i) /\ Credential(i) # NoToken
          /\ work' = [work EXCEPT ![i] = [pc |-> "call"]]
          /\ calls' = [calls EXCEPT ![i].state = "sent", ![i].token = Credential(i)]
    /\ UNCHANGED <<sessionVars, answers, tables, server>>

\* Mutated form: the body of a new run is passed on as it came.
StrippedVerbatim(body) == body

\* openRun deletes run_token from the body.
Stripped(body) == {x \in body : x[1] # "rt"}

\* Mutated form: the proxy remembers one run.
KeepRunOnly(body) ==
    runTokens' = [r \in Run |-> IF <<"run", r>> \in body THEN RunToken(r) ELSE NoToken]

\* The token lifted out of a new run's body.
KeepRun(body) ==
    runTokens' = [r \in Run |-> IF <<"run", r>> \in body THEN RunToken(r) ELSE runTokens[r]]

KeepLease(i, body) ==
    leaseRuns' = [l \in Lease |-> IF <<"lease", l>> \in body THEN lines[i].run ELSE leaseRuns[l]]

\* The answer of the server arrives: what it grants goes into the tables first.
Receive(i) ==
    /\ work[i].pc = "call" /\ calls[i].state = "answered"
    /\ LET got == calls[i] IN
       \/ /\ Tool(i) = "open_run" /\ got.status = 201
          /\ KeepRun(got.body) /\ UNCHANGED leaseRuns
          /\ ToolResult(i, got.status, Stripped(got.body))
       \/ /\ Tool(i) = "lease_identity" /\ got.status = 201
          /\ KeepLease(i, got.body) /\ UNCHANGED runTokens
          /\ ToolResult(i, got.status, got.body)
       \/ /\ ~(Tool(i) \in {"open_run", "lease_identity"} /\ got.status = 201)
          /\ ToolResult(i, got.status, got.body)
          /\ UNCHANGED tables
    /\ calls' = [calls EXCEPT ![i] = NoCall]
    /\ UNCHANGED <<sessionVars, answers, server>>

\* Mutated form: a claim goes out without a deadline.
MustEndCanceled(i) == ctx

\* A call that has a deadline of its own, or whose context is canceled.
MustEnd(i) == ctx \/ Tool(i) = "claim_code"

\* The connection fails, or the call runs into its deadline or the canceled
\* context: a tool result that says the server could not be reached.
GiveUp(i) ==
    /\ work[i].pc = "call"
    /\ IF MustEnd(i) THEN UNCHANGED faults ELSE Fault
    /\ ToolResult(i, 0, {})
    /\ calls' = [calls EXCEPT ![i] = IF @.state = "sent" THEN @ ELSE NoCall]
    /\ UNCHANGED <<lines, earlier, reader, serve, ctx, answers, tables, server>>

\* writer.write.
WriteAnswer(i) ==
    /\ work[i].pc = "reply"
    /\ answers' = [answers EXCEPT ![i] = Append(@, work[i].answer)]
    /\ work' = [work EXCEPT ![i] = Idle]
    /\ UNCHANGED <<sessionVars, tables, calls, server>>

-----------------------------------------------------------------------------
(* The AuthStunt server: who may do what, and the effect of the four       *)
(* routes.                                                                 *)

NoPrincipal == [kind |-> None, run |-> NoRun]

\* authenticate: the prefix of the token decides where it is looked up.
Principal(token) ==
    IF token = Bearer
    THEN IF bearerLive THEN [kind |-> "project", run |-> NoRun] ELSE NoPrincipal
    ELSE IF token[2] \in runs THEN [kind |-> "run", run |-> token[2]] ELSE NoPrincipal

OwnsRun(p, r) == p.kind = "project" \/ (p.kind = "run" /\ p.run = r)

\* The run a call is about: runFor and leaseFor.
Subject(i) == IF Tool(i) = "lease_identity" THEN lines[i].run ELSE leases[lines[i].lease]

\* The status that refuses a call; 200 admits it to its handler.
Admission(i) ==
    LET p == Principal(calls[i].token) IN
    CASE p.kind = None -> 401
      [] p.kind # None /\ Tool(i) = "open_run" ->
            IF p.kind = "project" THEN 200 ELSE 403
      [] p.kind # None /\ Tool(i) # "open_run" ->
            IF OwnsRun(p, Subject(i)) THEN 200 ELSE 404

\* An answer that nobody waits for any more goes nowhere.
Respond(i, status, body) ==
    calls' = [calls EXCEPT ![i] =
                 IF work[i].pc = "call"
                 THEN [@ EXCEPT !.state = "answered", !.status = status, !.body = body]
                 ELSE NoCall]

\* Ids are numbered in the order they are given out.
NextRun == {r \in Run \ runs : \A q \in Run \ runs : r <= q}
NextLease == {l \in Lease : leases[l] = NoRun /\ \A k \in Lease : leases[k] = NoRun => l <= k}

\* Messages are numbered in the order they are claimed.
NextMessage ==
    LET new == {m \in Message : \A p \in owner : p[1][1] # m} IN
    {p[1][1] : p \in owner} \cup {m \in new : \A k \in new : m <= k}

\* Mutated form: the key leaves out which message is asked for.
IdempotencyKeyPerKind(line) == <<line.lease, line.kind, 1>>

\* idempotencyKey: what a claim call is retried under.
IdempotencyKey(line) == <<line.lease, line.kind, line.attempt>>

\* handleCreateRun.
CreateRun(i) ==
    /\ Tool(i) = "open_run"
    /\ \E r \in NextRun :
          /\ runs' = runs \cup {r}
          /\ Respond(i, 201, {<<"run", r>>, RunToken(r)})
    /\ UNCHANGED <<leases, bearerLive, owner, given>>

\* handleAcquireLease: the answer follows the commit of the lease.
Acquire(i) ==
    /\ Tool(i) = "lease_identity"
    /\ \E l \in NextLease :
          /\ leases' = [leases EXCEPT ![l] = lines[i].run]
          /\ Respond(i, 201, {<<"lease", l>>})
    /\ UNCHANGED <<runs, bearerLive, owner, given>>

\* handleClaim: a value, or a reason why there is none.  Which of them, and
\* when, is the subject of Claims.
Claim(i) ==
    /\ Tool(i) = "claim_code"
    /\ LET o == <<lines[i].lease, IdempotencyKey(lines[i])>> IN
       \/ \E m \in NextMessage :
             LET s == <<m, lines[i].kind>> IN
             /\ Secrets!Take(s, o) \/ Secrets!Give(s, o)
             /\ <<s, o>> \in given'
             /\ Respond(i, 200, {<<"secret", s>>})
       \/ Respond(i, 200, {}) /\ UNCHANGED <<owner, given>>
    /\ UNCHANGED <<runs, leases, bearerLive>>

\* handleReleaseLease: releasing twice is not an error.
Release(i) ==
    /\ Tool(i) = "release_lease"
    /\ Respond(i, 204, {})
    /\ UNCHANGED server

\* The server handles a call, also one whose caller has gone.  (A call that it
\* fails without an effect, with 409 or 500, is one that GiveUp ends.)
Serve(i) ==
    /\ serve # "down" /\ calls[i].state = "sent"
    /\ \/ Admission(i) # 200 /\ Respond(i, Admission(i), {}) /\ UNCHANGED server
       \/ Admission(i) = 200 /\ (CreateRun(i) \/ Acquire(i) \/ Claim(i) \/ Release(i))
    /\ UNCHANGED <<sessionVars, work, answers, tables>>

-----------------------------------------------------------------------------
Next ==
    \/ \E i \in NextId(1 .. MaxCalls), line \in ToolCalls : Accept(i, line)
    \/ \E i \in NextId(MaxCalls + 1 .. MaxCalls + MaxPlain), f \in Forms :
          Accept(i, [form |-> f])
    \/ ReadFails \/ Leave \/ Return \/ Signal
    \/ \E i \in Sent : Handle(i) \/ Receive(i) \/ GiveUp(i) \/ WriteAnswer(i) \/ Serve(i)

Spec == Init /\ [][Next]_vars

Goroutine(i) ==
    i \in Sent /\ (Handle(i) \/ Receive(i) \/ (MustEnd(i) /\ GiveUp(i)) \/ WriteAnswer(i))

\* The goroutines of the process are scheduled, contexts expire, and the client
\* reads its stdout.  Nothing is assumed of the AuthStunt server.
FairSpec ==
    /\ Spec
    /\ WF_vars(Leave \/ Return)
    /\ \A i \in Id : WF_vars(Goroutine(i))

-----------------------------------------------------------------------------
(* What the session promises.                                              *)

\* Serve waits for its handlers and handle is silent for a notification: no
\* line is answered twice, a notification never, and when Serve has returned,
\* on a signal too, every request it took was answered under its id.
ExactlyOneAnswer ==
    \A i \in Sent :
        /\ Len(answers[i]) <= IF IsRequest(i) THEN 1 ELSE 0
        /\ \A n \in DOMAIN answers[i] :
              answers[i][n].id = IF lines[i].form = "garbage" THEN 0 ELSE i
        /\ serve = "down" /\ IsRequest(i)
              => answers[i] # <<>>

\* "What the model never sees": no credential is ever written to stdout, and
\* no call goes out under the token of another run than the one it is about,
\* whatever calls overlap and whatever was lost with an earlier session.
CredentialsConfined ==
    /\ \A i \in Sent : \A x \in Shown(i) : x[1] \notin {"rt", "pb"}
    /\ \A i \in Sent : calls[i].state = "sent" => Admission(i) \notin {403, 404}

\* An id this session has answered with can be acted on by this session: the
\* tables hold the credential before the answer is written, and keep it.
ToldIsReachable ==
    serve # "down" =>
        \A i \in Sent :
            /\ \A r \in Run : <<"run", r>> \in Shown(i) => runTokens[r] = RunToken(r)
            /\ \A l \in Lease : <<"lease", l>> \in Shown(i) =>
                  TokenForLease(l) = RunToken(leases[l])

\* "Calling this tool again with the SAME attempt replays the same answer", and
\* a raised attempt is never answered with an earlier one's secret, across lost
\* answers, concurrent calls and restarts of the proxy.
AttemptReplays ==
    \A i, j \in Sent : \A x \in Shown(i), y \in Shown(j) :
        x[1] = "secret" /\ y[1] = "secret" => (x = y <=> lines[i] = lines[j])

\* A keepalive ping is answered while claims are parked, and a claim even when
\* the server never answers it; once the session ends, so is every request it
\* has taken.
LinesAnswered ==
    \A i \in Id :
        (/\ i \in Sent /\ IsRequest(i)
         /\ ctx \/ reader = "ended" \/ Tool(i) \in {None, "claim_code"})
        ~> answers[i] # <<>>

\* Serve returns once the client is gone, a signal came or a line was over the
\* cap, whatever calls are parked on the server.
SessionEnds == (ctx \/ reader = "ended") ~> serve = "down"
=============================================================================
