------------------------------- MODULE Ingest -------------------------------
(***************************************************************************)
(* The mail pipeline of one server: SMTP sessions that store a message     *)
(* before they answer 250 (internal/smtp), workers and startup recovery    *)
(* that settle its extraction, the event bus they publish to, and the      *)
(* start and stop sequence that strings them together                      *)
(* (cmd/authstunt/serve.go).  The process may be told to stop, fail to     *)
(* accept, be killed or lose power between any two steps, and is started   *)
(* again on the same data directory.                                       *)
(***************************************************************************)
EXTENDS Naturals, Sequences

CONSTANTS
    Message,        \* deliveries attempted by clients
    Worker,         \* extraction workers
    Main,           \* the goroutine of serve, which also runs Recover
    QueueSize, PublishBuffer,
    MaxBoots,       \* bound: starts of the process
    MaxFaults,      \* bound: writes that fail, disk full or I/O error
    MaxServeErrors  \* bound: times the SMTP listener fails on its own

ASSUME IngestAssumption ==
    /\ Main \notin Worker
    /\ QueueSize \in Nat \ {0} /\ PublishBuffer \in Nat \ {0}
    /\ MaxBoots \in Nat /\ MaxFaults \in Nat /\ MaxServeErrors \in Nat

Settler == Worker \cup {Main}

VARIABLES
    main,       \* where serve stands
    cancelled,  \* the context of the process is done
    boots, faults, serveErrors,
    files,      \* the blobs of each message, on disk
    rows,       \* messages.extraction_state, on disk
    session,    \* where Deliver stands for each message
    reply,      \* what Data answered
    queue,      \* Ingest.queue
    todo,       \* what Recover has read and not yet settled
    settlers,   \* the job each worker, or Recover, is on
    channel,    \* Bus.publishCh
    announced,  \* times the bus fanned each message out, over all boots
    fresh       \* messages settled since this process started

budget == <<boots, faults, serveErrors>>
mailVars == <<files, rows, session, reply, queue>>
settleVars == <<todo, settlers, channel, announced, fresh>>
vars == <<main, cancelled, budget, mailVars, settleVars>>

Resting == [pc |-> "idle"]
Gone == [pc |-> "done"]
Job(pc, m) == [pc |-> pc, msg |-> m]
JobSet == {Resting, Gone} \cup {Job(pc, m) : pc \in {"extract", "fail", "publish"}, m \in Message}

IngestTypeOK ==
    /\ main \in {"down", "recover", "serve", "drain", "stop", "sweeper"}
    /\ cancelled \in BOOLEAN
    /\ boots \in 0 .. MaxBoots /\ faults \in 0 .. MaxFaults
    /\ serveErrors \in 0 .. MaxServeErrors
    /\ files \in [Message -> {"none", "named", "durable"}]
    /\ rows \in [Message -> {"none", "pending", "success", "failed"}]
    /\ session \in [Message -> {"none", "put", "sync", "tx", "queue", "ended"}]
    /\ reply \in [Message -> {"none", "250", "451"}]
    /\ queue \in Seq(Message) /\ channel \in Seq(Message)
    /\ Len(queue) <= QueueSize /\ Len(channel) <= PublishBuffer
    /\ todo \subseteq Message /\ fresh \subseteq Message
    /\ settlers \in [Settler -> JobSet]
    /\ announced \in [Message -> Nat]

Running == main # "down"
Closed == main \in {"stop", "sweeper"}      \* Stop has closed the queue

\* A write that fails.
Fault ==
    /\ faults < MaxFaults
    /\ faults' = faults + 1
    /\ UNCHANGED <<boots, serveErrors>>

-----------------------------------------------------------------------------
(* serve: start, recover, listen, stop.                                    *)

Init ==
    /\ main = "down" /\ cancelled = FALSE
    /\ boots = 0 /\ faults = 0 /\ serveErrors = 0
    /\ files = [m \in Message |-> "none"] /\ rows = [m \in Message |-> "none"]
    /\ session = [m \in Message |-> "none"] /\ reply = [m \in Message |-> "none"]
    /\ queue = <<>> /\ channel = <<>>
    /\ todo = {} /\ fresh = {}
    /\ settlers = [s \in Settler |-> Gone]
    /\ announced = [m \in Message |-> 0]

\* Mutated form: one pending row is listed per start.
PendingLimited == {m \in Message : rows[m] = "pending"
                                   /\ \A k \in Message : rows[k] = "pending" => m <= k}

\* ListPendingExtractions.
Pending == {m \in Message : rows[m] = "pending"}

\* Workers start, then Recover lists the pending rows before anything listens.
Boot ==
    /\ main = "down" /\ boots < MaxBoots
    /\ main' = "recover" /\ boots' = boots + 1
    /\ settlers' = [s \in Settler |-> Resting]
    /\ todo' = Pending
    /\ UNCHANGED <<cancelled, faults, serveErrors, mailVars, channel, announced, fresh>>

RecoverRow ==
    /\ main = "recover" /\ settlers[Main] = Resting
    /\ \E m \in todo : /\ settlers' = [settlers EXCEPT ![Main] = Job("extract", m)]
                       /\ todo' = todo \ {m}
    /\ UNCHANGED <<main, cancelled, budget, mailVars, channel, announced, fresh>>

Listen ==
    /\ main = "recover" /\ settlers[Main] = Resting /\ todo = {}
    /\ main' = "serve"
    /\ UNCHANGED <<cancelled, budget, mailVars, settleVars>>

\* A signal ends the context.
Interrupt ==
    /\ Running /\ ~cancelled /\ boots < MaxBoots
    /\ cancelled' = TRUE
    /\ UNCHANGED <<main, budget, mailVars, settleVars>>

\* Server.Serve returns because the context is done...
ServeReturns ==
    /\ main = "serve" /\ cancelled
    /\ main' = "drain"
    /\ UNCHANGED <<cancelled, budget, mailVars, settleVars>>

\* ... or because accepting failed for another reason.
ServeFails ==
    /\ main = "serve" /\ boots < MaxBoots /\ serveErrors < MaxServeErrors
    /\ main' = "drain" /\ serveErrors' = serveErrors + 1
    /\ UNCHANGED <<cancelled, boots, faults, mailVars, settleVars>>

\* Both listeners are shut down, within a grace period; then Ingest.Stop
\* closes the queue.  Sessions are not waited for.
CloseQueue ==
    /\ main = "drain"
    /\ main' = "stop"
    /\ UNCHANGED <<cancelled, budget, mailVars, settleVars>>

\* wg.Wait.
WorkersDone ==
    /\ main = "stop" /\ \A w \in Worker : settlers[w] = Gone
    /\ main' = "sweeper"
    /\ UNCHANGED <<cancelled, budget, mailVars, settleVars>>

\* What the end of the process takes with it.
Die ==
    /\ main' = "down" /\ cancelled' = FALSE
    /\ session' = [m \in Message |-> IF session[m] = "none" THEN "none" ELSE "ended"]
    /\ queue' = <<>> /\ channel' = <<>> /\ todo' = {} /\ fresh' = {}
    /\ settlers' = [s \in Settler |-> Gone]
    /\ UNCHANGED <<budget, rows, reply, announced>>

\* The sweeper returns when the context is done; then so does serve.
Exit ==
    /\ main = "sweeper" /\ cancelled
    /\ Die
    /\ UNCHANGED files

\* The process is killed, or the machine loses power: a name that was not
\* synced to its directory may be lost with it.
Crash ==
    /\ Running /\ boots < MaxBoots
    /\ Die
    /\ \/ UNCHANGED files
       \/ files' = [m \in Message |-> IF files[m] = "named" THEN "none" ELSE files[m]]

-----------------------------------------------------------------------------
(* session.Data and Ingest.Deliver.                                        *)

Answer(m, code) ==
    /\ session' = [session EXCEPT ![m] = "ended"]
    /\ reply' = [reply EXCEPT ![m] = code]

\* A body has been read and parsed.
Receive(m) ==
    /\ main = "serve" /\ session[m] = "none"
    /\ session' = [session EXCEPT ![m] = "put"]
    /\ UNCHANGED <<main, cancelled, budget, files, rows, reply, queue, settleVars>>

\* Mutated form: the directory is not synced.
PutUnsynced(m) ==
    /\ session[m] = "put"
    /\ \/ /\ files' = [files EXCEPT ![m] = "named"]
          /\ session' = [session EXCEPT ![m] = "tx"]
          /\ UNCHANGED <<budget, reply>>
       \/ Fault /\ Answer(m, "451") /\ UNCHANGED files
    /\ UNCHANGED <<main, cancelled, rows, queue, settleVars>>

\* BlobStore.Put, for the raw message and its HTML: synced contents under a
\* new name, then the directory.
Put(m) ==
    /\ session[m] = "put"
    /\ \/ /\ files' = [files EXCEPT ![m] = "named"]
          /\ session' = [session EXCEPT ![m] = "sync"]
          /\ UNCHANGED <<budget, reply>>
       \/ Fault /\ Answer(m, "451") /\ UNCHANGED files
    /\ UNCHANGED <<main, cancelled, rows, queue, settleVars>>

SyncDir(m) ==
    /\ session[m] = "sync"
    /\ \/ /\ files' = [files EXCEPT ![m] = "durable"]
          /\ session' = [session EXCEPT ![m] = "tx"]
          /\ UNCHANGED <<budget, reply>>
       \/ Fault /\ Answer(m, "451") /\ UNCHANGED files
    /\ UNCHANGED <<main, cancelled, rows, queue, settleVars>>

\* The transaction: the row, its recipients, its bindings and their events.
Commit(m) ==
    /\ session[m] = "tx"
    /\ \/ /\ ~cancelled
          /\ rows' = [rows EXCEPT ![m] = "pending"]
          /\ session' = [session EXCEPT ![m] = "queue"]
          /\ UNCHANGED <<budget, reply>>
       \/ /\ cancelled \/ Fault
          /\ cancelled => UNCHANGED budget
          /\ Answer(m, "451") /\ UNCHANGED rows
    /\ UNCHANGED <<main, cancelled, files, queue, settleVars>>

\* The handoff, or shutdown; a send that meets the closed queue panics, which
\* Data turns into a refusal.
Enqueue(m) ==
    /\ session[m] = "queue"
    /\ \/ /\ ~Closed /\ Len(queue) < QueueSize
          /\ queue' = Append(queue, m)
          /\ Answer(m, "250")
       \/ cancelled /\ Answer(m, "250") /\ UNCHANGED queue
       \/ Closed /\ Answer(m, "451") /\ UNCHANGED queue
    /\ UNCHANGED <<main, cancelled, budget, files, rows, settleVars>>

-----------------------------------------------------------------------------
(* Settling, by a worker or by Recover.                                    *)

Become(s, job) == settlers' = [settlers EXCEPT ![s] = job]

Take(w) ==
    /\ settlers[w] = Resting /\ queue # <<>>
    /\ Become(w, Job("extract", Head(queue)))
    /\ queue' = Tail(queue)
    /\ UNCHANGED <<main, cancelled, budget, files, rows, session, reply,
                   todo, channel, announced, fresh>>

Quit(w) ==
    /\ settlers[w] = Resting
    /\ cancelled \/ (Closed /\ queue = <<>>)
    /\ Become(w, Gone)
    /\ UNCHANGED <<main, cancelled, budget, mailVars, todo, channel, announced, fresh>>

\* settleExtraction, guarded on the row still being pending; whoever settled
\* it publishes it.
SettleRow(s, m, state) ==
    LET won == rows[m] = "pending" IN
    /\ rows' = [rows EXCEPT ![m] = IF won THEN state ELSE @]
    /\ fresh' = IF won THEN fresh \cup {m} ELSE fresh
    /\ Become(s, IF won THEN Job("publish", m) ELSE Resting)

Working(s, pc) == settlers[s].pc = pc

\* Mutated form: a result that could not be stored is published all the same.
SettlePublishingAnyway(s) ==
    /\ Working(s, "extract")
    /\ LET m == settlers[s].msg IN
       \/ ~cancelled /\ SettleRow(s, m, "success") /\ UNCHANGED budget
       \/ Become(s, Job("fail", m)) /\ UNCHANGED <<budget, rows, fresh>>
       \/ Become(s, Job("publish", m)) /\ Fault /\ UNCHANGED <<rows, fresh>>
    /\ UNCHANGED <<main, cancelled, files, session, reply, queue, todo, channel, announced>>

\* settle: the result is stored, or the message fails: its extraction
\* panicked, it cannot be read back, or storing the result failed.
Settle(s) ==
    /\ Working(s, "extract")
    /\ LET m == settlers[s].msg IN
       \/ ~cancelled /\ SettleRow(s, m, "success") /\ UNCHANGED budget
       \/ Become(s, Job("fail", m)) /\ UNCHANGED <<budget, rows, fresh>>
       \/ Become(s, Job("fail", m)) /\ Fault /\ UNCHANGED <<rows, fresh>>
    /\ UNCHANGED <<main, cancelled, files, session, reply, queue, todo, channel, announced>>

\* fail: the failed state is stored, or the row stays pending for the next
\* start.
Fail(s) ==
    /\ Working(s, "fail")
    /\ LET m == settlers[s].msg IN
       \/ ~cancelled /\ SettleRow(s, m, "failed") /\ UNCHANGED budget
       \/ /\ cancelled \/ Fault
          /\ cancelled => UNCHANGED budget
          /\ Become(s, Resting) /\ UNCHANGED <<rows, fresh>>
    /\ UNCHANGED <<main, cancelled, files, session, reply, queue, todo, channel, announced>>

\* Mutated form: the publication inherits the caller's cancellation.
PublishCancelled(s) ==
    /\ Working(s, "publish")
    /\ \/ /\ Len(channel) < PublishBuffer
          /\ channel' = Append(channel, settlers[s].msg)
       \/ cancelled /\ UNCHANGED channel
    /\ Become(s, Resting)
    /\ UNCHANGED <<main, cancelled, budget, mailVars, todo, announced, fresh>>

\* publish: Bus.Publish without the caller's cancellation, blocking while the
\* buffer is full.  The bus outlives every settler.
Publish(s) ==
    /\ Working(s, "publish")
    /\ Len(channel) < PublishBuffer
    /\ channel' = Append(channel, settlers[s].msg)
    /\ Become(s, Resting)
    /\ UNCHANGED <<main, cancelled, budget, mailVars, todo, announced, fresh>>

\* Mutated form: the bus ends with the context of the process.
FanOutUntilCancelled ==
    /\ channel # <<>> /\ ~cancelled
    /\ announced' = [announced EXCEPT ![Head(channel)] = @ + 1]
    /\ channel' = Tail(channel)
    /\ UNCHANGED <<main, cancelled, budget, mailVars, todo, settlers, fresh>>

\* Bus.Run takes a publication.
FanOut ==
    /\ channel # <<>>
    /\ announced' = [announced EXCEPT ![Head(channel)] = @ + 1]
    /\ channel' = Tail(channel)
    /\ UNCHANGED <<main, cancelled, budget, mailVars, todo, settlers, fresh>>

-----------------------------------------------------------------------------
MainStep ==
    \/ Boot \/ RecoverRow \/ Listen \/ ServeReturns \/ CloseQueue \/ WorkersDone \/ Exit
SettlerStep(s) == Settle(s) \/ Fail(s) \/ Publish(s)
WorkerStep(w) == Take(w) \/ Quit(w) \/ SettlerStep(w)
SessionStep(m) == Put(m) \/ SyncDir(m) \/ Commit(m) \/ Enqueue(m)

Next ==
    \/ MainStep \/ Interrupt \/ ServeFails \/ Crash \/ FanOut
    \/ \E m \in Message : Receive(m) \/ SessionStep(m)
    \/ \E w \in Worker : WorkerStep(w)
    \/ SettlerStep(Main)

Spec == Init /\ [][Next]_vars

\* Every goroutine is scheduled, and a process that ended is started again.
FairSpec ==
    /\ Spec
    /\ WF_vars(MainStep) /\ WF_vars(SettlerStep(Main)) /\ WF_vars(FanOut)
    /\ \A w \in Worker : WF_vars(WorkerStep(w))

-----------------------------------------------------------------------------
(* What the pipeline promises.                                             *)

\* The ack contract of Deliver: a 250 means the row is on disk and, whatever
\* crashed in between, so are the blobs it refers to.
AckedIsStored ==
    \A m \in Message :
        /\ reply[m] = "250" => rows[m] # "none"
        /\ rows[m] # "none" => files[m] = "durable"

\* settle publishes after the terminal state commits, and nothing a restart
\* recovers is announced a second time.
AnnouncedOnceSettled ==
    \A m \in Message :
        /\ announced[m] <= 1
        /\ announced[m] = 1 => rows[m] \in {"success", "failed"}

\* publish: while a process lives, a message it has settled has been announced
\* or is on its way to the bus, also when shutdown lands in between, so no
\* claim stays parked on mail that has been read.
NoSilentSettle ==
    \A m \in fresh :
        \/ announced[m] = 1
        \/ \E k \in DOMAIN channel : channel[k] = m
        \/ \E s \in Settler : settlers[s] = Job("publish", m)

\* Recover: an acknowledged message does not stay pending, whichever step the
\* process was stopped or died at.  (A write that fails can leave it pending
\* until the next start.)
AckedSettles ==
    \A m \in Message :
        (reply[m] = "250" /\ faults = 0) ~> (rows[m] \in {"success", "failed"} \/ faults > 0)

\* Stopping terminates: a process told to stop while it is publishing, blocked
\* on a full queue or recovering does return from serve.
StopEnds == cancelled ~> (main = "down")
=============================================================================
