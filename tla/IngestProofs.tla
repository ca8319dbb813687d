---------------------------- MODULE IngestProofs ----------------------------
(***************************************************************************)
(* What the mail pipeline guarantees for any number of messages and        *)
(* workers, any queue and buffer size, and any history of failed writes,   *)
(* signals, kills and power losses.                                        *)
(*                                                                         *)
(* Two arguments.  The row of a message follows its blobs and precedes its *)
(* answer (Stored).  The right to announce a message comes into being once,*)
(* with the commit that ends its pending state, and then is in one place:  *)
(* with the settler, in the bus' channel, or spent (Once).                 *)
(***************************************************************************)
EXTENDS Ingest, TLAPS

Terminal(m) == rows[m] \in {"success", "failed"}
Queued(m) == \E k \in DOMAIN channel : channel[k] = m

\* A message is on disk before its row is, and its row before its answer.
Stored ==
    \A m \in Message :
        /\ session[m] \in {"none", "put", "sync", "tx"} => rows[m] = "none"
        /\ session[m] = "tx" => files[m] = "durable"
        /\ session[m] = "queue" => rows[m] # "none"
        /\ reply[m] = "250" => rows[m] # "none"
        /\ rows[m] # "none" => files[m] = "durable"

\* Who is about to publish a message is the only one, and nobody did before.
OncePublishing ==
    \A s \in Settler, m \in Message :
        settlers[s] = Job("publish", m) =>
            /\ Terminal(m) /\ announced[m] = 0 /\ ~Queued(m)
            /\ \A t \in Settler : settlers[t] = Job("publish", m) => t = s

\* A message is in the channel of the bus once, and not announced yet.
OnceQueued ==
    \A k \in DOMAIN channel :
        /\ Terminal(channel[k]) /\ announced[channel[k]] = 0
        /\ \A j \in DOMAIN channel : channel[j] = channel[k] => j = k

OnceAnnounced ==
    \A m \in Message : announced[m] \in {0, 1} /\ (announced[m] = 1 => Terminal(m))

Once == OncePublishing /\ OnceQueued /\ OnceAnnounced

\* A process that is down has settled nothing and settles nothing.
Fresh ==
    /\ NoSilentSettle
    /\ main = "down" => fresh = {} /\ \A s \in Settler : settlers[s] = Gone

IInv == IngestTypeOK /\ Stored /\ Once /\ Fresh

\* The type invariant, by who keeps which variables.
ControlOK ==
    /\ main \in {"down", "recover", "serve", "drain", "stop", "sweeper"}
    /\ cancelled \in BOOLEAN
    /\ boots \in 0 .. MaxBoots /\ faults \in 0 .. MaxFaults
    /\ serveErrors \in 0 .. MaxServeErrors

MailOK ==
    /\ files \in [Message -> {"none", "named", "durable"}]
    /\ rows \in [Message -> {"none", "pending", "success", "failed"}]
    /\ session \in [Message -> {"none", "put", "sync", "tx", "queue", "ended"}]
    /\ reply \in [Message -> {"none", "250", "451"}]
    /\ queue \in Seq(Message) /\ Len(queue) <= QueueSize

SettleOK ==
    /\ channel \in Seq(Message) /\ Len(channel) <= PublishBuffer
    /\ todo \subseteq Message /\ fresh \subseteq Message
    /\ settlers \in [Settler -> JobSet]
    /\ announced \in [Message -> Nat]

LEMMA TypeParts == IngestTypeOK <=> ControlOK /\ MailOK /\ SettleOK
BY DEF IngestTypeOK, ControlOK, MailOK, SettleOK

-----------------------------------------------------------------------------
(* Jobs.                                                                   *)

LEMMA JobsDiffer ==
    /\ \A p, q, m, n : Job(p, m) = Job(q, n) <=> p = q /\ m = n
    /\ \A p, m : Job(p, m) # Resting /\ Job(p, m) # Gone
    /\ \A p, m : Job(p, m).pc = p /\ Job(p, m).msg = m
    /\ Resting.pc = "idle" /\ Gone.pc = "done" /\ Resting # Gone
<1>1. \A p, q, m, n : Job(p, m) = Job(q, n) => p = q /\ m = n
  <2> SUFFICES ASSUME NEW p, NEW q, NEW m, NEW n, Job(p, m) = Job(q, n)
               PROVE  p = q /\ m = n
    OBVIOUS
  <2>1. Job(p, m).pc = p /\ Job(p, m).msg = m /\ Job(q, n).pc = q /\ Job(q, n).msg = n
    BY DEF Job
  <2> QED
    BY <2>1
<1>2. \A p, m : Job(p, m) # Resting /\ Job(p, m) # Gone
  <2> SUFFICES ASSUME NEW p, NEW m
               PROVE  Job(p, m) # Resting /\ Job(p, m) # Gone
    OBVIOUS
  <2>1. "msg" \in DOMAIN Job(p, m) /\ "msg" \notin DOMAIN Resting /\ "msg" \notin DOMAIN Gone
    BY DEF Job, Resting, Gone
  <2> QED
    BY <2>1
<1>3. Resting.pc = "idle" /\ Gone.pc = "done"
  BY DEF Resting, Gone
<1>4. Resting # Gone
  BY <1>3
<1>5. \A p, m : Job(p, m).pc = p /\ Job(p, m).msg = m
  BY DEF Job
<1> QED
  BY <1>1, <1>2, <1>3, <1>4, <1>5

\* A settler at work is on one message.
LEMMA AtWork ==
    ASSUME IngestTypeOK, NEW s \in Settler,
           NEW pc \in {"extract", "fail", "publish"}, Working(s, pc)
    PROVE  settlers[s].msg \in Message /\ settlers[s] = Job(pc, settlers[s].msg)
<1>1. settlers[s] \in JobSet /\ settlers[s].pc = pc
  BY DEF IngestTypeOK, Working
<1>2. PICK p \in {"extract", "fail", "publish"}, m \in Message : settlers[s] = Job(p, m)
  BY <1>1, JobsDiffer DEF JobSet
<1> QED
  BY <1>1, <1>2, JobsDiffer

\* Handing a settler its next job.
LEMMA BecomeType ==
    ASSUME IngestTypeOK, NEW s \in Settler, NEW job \in JobSet, Become(s, job)
    PROVE  /\ settlers' \in [Settler -> JobSet]
           /\ settlers'[s] = job
           /\ \A t \in Settler : t # s => settlers'[t] = settlers[t]
BY DEF IngestTypeOK, Become

LEMMA JobsTyped ==
    /\ Resting \in JobSet /\ Gone \in JobSet
    /\ \A m \in Message, pc \in {"extract", "fail", "publish"} : Job(pc, m) \in JobSet
BY DEF JobSet

-----------------------------------------------------------------------------
(* What keeps each part of the invariant.                                  *)

\* Steps that settle rows and leave the mail side alone.
LEMMA StoredKept ==
    ASSUME IngestTypeOK, Stored, UNCHANGED <<files, session, reply>>,
           \A m \in Message : rows'[m] = rows[m] \/ (rows[m] = "pending" /\ rows'[m] # "none")
    PROVE  Stored'
BY DEF Stored

\* Nobody becomes a publisher, and no settled row changes.
LEMMA OnceKept ==
    ASSUME Once, UNCHANGED <<channel, announced>>,
           \A m \in Message : Terminal(m) => Terminal(m)',
           \A s \in Settler, m \in Message :
               settlers'[s] = Job("publish", m) => settlers[s] = Job("publish", m),
           \A k \in DOMAIN channel : channel[k] \in Message
    PROVE  Once'
<1>1. OncePublishing'
  BY DEF Once, OncePublishing, Queued
<1>2. OnceQueued'
  BY DEF Once, OnceQueued
<1>3. OnceAnnounced'
  BY DEF Once, OnceAnnounced
<1> QED
  BY <1>1, <1>2, <1>3 DEF Once

\* Nobody stops being a publisher, and nothing is settled.
LEMMA FreshKept ==
    ASSUME Fresh, UNCHANGED <<channel, announced, fresh>>,
           main' # "down",
           \A s \in Settler, m \in Message :
               settlers[s] = Job("publish", m) => settlers'[s] = Job("publish", m),
           fresh \subseteq Message
    PROVE  Fresh'
BY DEF Fresh, NoSilentSettle

LEMMA ChannelMessages ==
    ASSUME IngestTypeOK
    PROVE  /\ \A k \in DOMAIN channel : channel[k] \in Message
           /\ DOMAIN channel = 1 .. Len(channel)
BY DEF IngestTypeOK

\* settleExtraction: the one commit that ends the pending state of a row makes
\* its settler the publisher of the message.
LEMMA SettleRowKeeps ==
    ASSUME IInv, NEW s \in Settler, NEW m \in Message,
           NEW pc \in {"extract", "fail"}, settlers[s] = Job(pc, m),
           NEW state \in {"success", "failed"}, SettleRow(s, m, state),
           UNCHANGED <<main, files, session, reply, channel, announced>>
    PROVE  /\ rows' \in [Message -> {"none", "pending", "success", "failed"}]
           /\ settlers' \in [Settler -> JobSet] /\ fresh' \subseteq Message
           /\ Stored' /\ Once' /\ Fresh'
<1> DEFINE won == rows[m] = "pending"
<1>0. /\ rows \in [Message -> {"none", "pending", "success", "failed"}]
      /\ fresh \subseteq Message
      /\ main' # "down"
  BY JobsDiffer DEF IInv, IngestTypeOK, Fresh
<1>1. /\ rows' \in [Message -> {"none", "pending", "success", "failed"}]
      /\ fresh' \subseteq Message
      /\ \A n \in Message : n # m => rows'[n] = rows[n]
      /\ won => rows'[m] = state /\ fresh' = fresh \cup {m}
      /\ ~won => rows'[m] = rows[m] /\ fresh' = fresh
  BY <1>0 DEF SettleRow
<1>2. Become(s, IF won THEN Job("publish", m) ELSE Resting)
  BY DEF SettleRow
<1>3. /\ settlers' \in [Settler -> JobSet]
      /\ settlers'[s] = (IF won THEN Job("publish", m) ELSE Resting)
      /\ \A t \in Settler : t # s => settlers'[t] = settlers[t]
  BY <1>2, JobsTyped, BecomeType DEF IInv
<1>4. Stored'
  BY <1>1, StoredKept DEF IInv
<1>5. \A n \in Message : Terminal(n) => Terminal(n)'
  BY <1>1 DEF Terminal
<1>6. CASE ~won
  <2>1. \A t \in Settler, n \in Message :
           settlers'[t] = Job("publish", n) <=> settlers[t] = Job("publish", n)
    BY <1>3, <1>6, JobsDiffer
  <2>2. Once'
    BY <1>5, <2>1, OnceKept, ChannelMessages DEF IInv
  <2>3. Fresh'
    BY <1>0, <1>1, <1>6, <2>1, FreshKept DEF IInv
  <2> QED
    BY <1>1, <1>3, <1>4, <2>2, <2>3
<1>7. CASE won
  <2>1. Terminal(m)' /\ ~Terminal(m)
    BY <1>1, <1>7 DEF Terminal
  <2>2. announced[m] = 0 /\ ~Queued(m) /\ \A t \in Settler : settlers[t] # Job("publish", m)
    BY <2>1 DEF IInv, Once, OncePublishing, OnceQueued, OnceAnnounced, Queued
  <2>3. \A t \in Settler, n \in Message :
           settlers'[t] = Job("publish", n) <=>
              (t = s /\ n = m) \/ settlers[t] = Job("publish", n)
    BY <1>3, <1>7, JobsDiffer
  <2>4. OncePublishing'
    <3> SUFFICES ASSUME NEW t \in Settler, NEW n \in Message, settlers'[t] = Job("publish", n)
                 PROVE  /\ Terminal(n)' /\ announced'[n] = 0 /\ ~Queued(n)'
                        /\ \A u \in Settler : settlers'[u] = Job("publish", n) => u = t
      BY DEF OncePublishing
    <3>1. CASE n = m
      BY <2>1, <2>2, <2>3, <3>1 DEF Queued
    <3>2. CASE n # m
      BY <1>5, <2>3, <3>2 DEF IInv, Once, OncePublishing, Queued
    <3> QED
      BY <3>1, <3>2
  <2>5. OnceQueued' /\ OnceAnnounced'
    BY <1>5, ChannelMessages DEF IInv, Once, OnceQueued, OnceAnnounced
  <2>6. Fresh'
    <3>1. NoSilentSettle'
      BY <1>0, <1>1, <1>7, <2>3 DEF IInv, Fresh, NoSilentSettle
    <3> QED
      BY <1>0, <3>1 DEF Fresh
  <2> QED
    BY <1>1, <1>3, <1>4, <2>4, <2>5, <2>6 DEF Once
<1> QED
  BY <1>6, <1>7

-----------------------------------------------------------------------------
(* The actions.                                                            *)

LEMMA InitIInv == Init => IInv
<1> SUFFICES ASSUME Init PROVE IInv
  OBVIOUS
<1>1. IngestTypeOK
  <2>1. cancelled \in BOOLEAN
    BY DEF Init
  <2>2. ControlOK
    BY <2>1, IngestAssumption DEF Init, ControlOK
  <2>3. MailOK
    BY IngestAssumption DEF Init, MailOK
  <2>4. SettleOK
    BY IngestAssumption, JobsTyped DEF Init, SettleOK
  <2> QED
    BY <2>2, <2>3, <2>4, TypeParts
<1>2. Stored
  BY DEF Init, Stored
<1>3. Once
  BY JobsDiffer DEF Init, Once, OncePublishing, OnceQueued, OnceAnnounced
<1>4. Fresh
  BY DEF Init, Fresh, NoSilentSettle
<1> QED
  BY <1>1, <1>2, <1>3, <1>4 DEF IInv

\* serve goes on, or is told to stop, and touches neither mail nor settlers.
LEMMA ServeStep ==
    ASSUME IInv,
           Listen \/ Interrupt \/ ServeReturns \/ ServeFails \/ CloseQueue \/ WorkersDone
    PROVE  IInv'
<1> USE DEF Listen, Interrupt, ServeReturns, ServeFails, CloseQueue, WorkersDone,
            budget, mailVars, settleVars
<1>1. IngestTypeOK'
  <2>1. cancelled' \in BOOLEAN
    BY DEF IInv, IngestTypeOK
  <2>2. ControlOK'
    BY <2>1, IngestAssumption, TypeParts DEF IInv, ControlOK
  <2>3. MailOK' /\ SettleOK'
    BY TypeParts DEF IInv, MailOK, SettleOK
  <2> QED
    BY <2>2, <2>3 DEF IngestTypeOK, ControlOK, MailOK, SettleOK
<1>2. Stored'
  BY DEF IInv, Stored
<1>3. Once'
  BY OnceKept, ChannelMessages DEF IInv, Terminal
<1>4. main' # "down"
  BY DEF Running
<1>5. Fresh'
  BY <1>4, FreshKept DEF IInv, IngestTypeOK
<1> QED
  BY <1>1, <1>2, <1>3, <1>5 DEF IInv

LEMMA BootStep ==
    ASSUME IInv, Boot
    PROVE  IInv'
<1> USE DEF Boot, mailVars
<1>1. \A s \in Settler : settlers'[s] = Resting
  OBVIOUS
<1>2. IngestTypeOK'
  BY IngestAssumption, JobsTyped DEF IInv, IngestTypeOK, Pending
<1>3. Stored'
  BY DEF IInv, Stored
<1>4. Once'
  BY <1>1, OnceKept, ChannelMessages, JobsDiffer DEF IInv, Terminal
<1>5. Fresh'
  BY DEF IInv, Fresh, NoSilentSettle
<1> QED
  BY <1>2, <1>3, <1>4, <1>5 DEF IInv

\* A settler at rest takes a message on, or ends.
TakesOn(s, job) ==
    settlers[s] = Resting /\ Become(s, job) /\ \A m \in Message : job # Job("publish", m)

LEMMA TakeStep ==
    ASSUME IInv, RecoverRow \/ \E w \in Worker : Take(w) \/ Quit(w)
    PROVE  IInv'
<1>1. ASSUME RecoverRow
      PROVE  \E s \in Settler, job \in JobSet : TakesOn(s, job)
  <2>1. PICK m \in todo : settlers' = [settlers EXCEPT ![Main] = Job("extract", m)]
    BY <1>1 DEF RecoverRow
  <2>2. m \in Message
    BY DEF IInv, IngestTypeOK
  <2>3. Main \in Settler /\ Job("extract", m) \in JobSet
    BY <2>2, JobsTyped DEF Settler
  <2>4. settlers[Main] = Resting
    BY <1>1 DEF RecoverRow
  <2>5. TakesOn(Main, Job("extract", m))
    BY <2>1, <2>4, JobsDiffer DEF Become, TakesOn
  <2> QED
    BY <2>3, <2>5
<1>2. ASSUME NEW w \in Worker, Take(w)
      PROVE  \E s \in Settler, job \in JobSet : TakesOn(s, job)
  <2>1. Head(queue) \in Message
    BY <1>2 DEF Take, IInv, IngestTypeOK
  <2>2. w \in Settler /\ Job("extract", Head(queue)) \in JobSet
    BY <2>1, JobsTyped DEF Settler
  <2>3. TakesOn(w, Job("extract", Head(queue)))
    BY <1>2, JobsDiffer DEF Take, TakesOn
  <2> QED
    BY <2>2, <2>3
<1>3. ASSUME NEW w \in Worker, Quit(w)
      PROVE  \E s \in Settler, job \in JobSet : TakesOn(s, job)
  <2>1. w \in Settler /\ Gone \in JobSet /\ TakesOn(w, Gone)
    BY <1>3, JobsTyped, JobsDiffer DEF Quit, TakesOn, Settler
  <2> QED
    BY <2>1
<1>4. PICK s \in Settler, job \in JobSet : TakesOn(s, job)
  BY <1>1, <1>2, <1>3
<1>5. /\ settlers' \in [Settler -> JobSet]
      /\ settlers'[s] = job
      /\ \A t \in Settler : t # s => settlers'[t] = settlers[t]
  BY <1>4, BecomeType DEF IInv, TakesOn
<1>6. \A t \in Settler, m \in Message :
         settlers'[t] = Job("publish", m) <=> settlers[t] = Job("publish", m)
  BY <1>4, <1>5, JobsDiffer DEF TakesOn
<1>7. /\ UNCHANGED <<main, cancelled, boots, faults, serveErrors, files, rows, session,
                     reply, channel, announced, fresh>>
      /\ todo' \subseteq Message /\ queue' \in Seq(Message) /\ Len(queue') <= QueueSize
  <2>1. queue \in Seq(Message) /\ Len(queue) <= QueueSize /\ todo \subseteq Message
        /\ QueueSize \in Nat
    BY IngestAssumption DEF IInv, IngestTypeOK
  <2> QED
    BY <2>1 DEF RecoverRow, Take, Quit, budget, mailVars
<1>8. IngestTypeOK'
  BY <1>5, <1>7 DEF IInv, IngestTypeOK
<1>9. Stored'
  BY <1>7, StoredKept DEF IInv
<1>10. Once'
  BY <1>6, <1>7, OnceKept, ChannelMessages DEF IInv, Terminal
<1>11. main # "down"
  BY <1>4, JobsDiffer DEF IInv, Fresh, TakesOn
<1>12. Fresh'
  BY <1>6, <1>7, <1>11, FreshKept DEF IInv, IngestTypeOK
<1> QED
  BY <1>8, <1>9, <1>10, <1>12 DEF IInv

\* The process ends: what was only in memory is gone, and nothing else is.
LEMMA EndStep ==
    ASSUME IInv, Exit \/ Crash
    PROVE  IInv'
<1>1. /\ main' = "down" /\ cancelled' = FALSE
      /\ session' = [m \in Message |-> IF session[m] = "none" THEN "none" ELSE "ended"]
      /\ queue' = <<>> /\ channel' = <<>> /\ todo' = {} /\ fresh' = {}
      /\ settlers' = [s \in Settler |-> Gone]
      /\ UNCHANGED <<boots, faults, serveErrors, rows, reply, announced>>
      /\ \/ files' = files
         \/ files' = [m \in Message |-> IF files[m] = "named" THEN "none" ELSE files[m]]
  BY DEF Exit, Crash, Die, budget
<1>2. IngestTypeOK'
  <2>1. ControlOK'
    BY <1>1, TypeParts DEF IInv, ControlOK
  <2>2. MailOK'
    BY <1>1, IngestAssumption, TypeParts DEF IInv, MailOK
  <2>3. SettleOK'
    BY <1>1, IngestAssumption, JobsTyped, TypeParts DEF IInv, SettleOK
  <2> QED
    BY <2>1, <2>2, <2>3 DEF IngestTypeOK, ControlOK, MailOK, SettleOK
<1>3. Stored'
  BY <1>1 DEF IInv, IngestTypeOK, Stored
<1>4. Once'
  BY <1>1, JobsDiffer DEF IInv, Once, OncePublishing, OnceQueued, OnceAnnounced, Terminal
<1>5. Fresh'
  BY <1>1 DEF Fresh, NoSilentSettle
<1> QED
  BY <1>2, <1>3, <1>4, <1>5 DEF IInv

\* Deliver, step by step: only the transaction writes a row, over none.
LEMMA SessionStepKeeps ==
    ASSUME IInv, NEW m \in Message, Receive(m) \/ SessionStep(m)
    PROVE  IInv'
<1> USE DEF Receive, SessionStep, Put, SyncDir, Commit, Enqueue, Answer, Fault,
            budget, settleVars
<1>1. IngestTypeOK'
  <2>1. ControlOK' /\ SettleOK'
    BY IngestAssumption, TypeParts DEF IInv, ControlOK, SettleOK
  <2>2. MailOK /\ QueueSize \in Nat
    BY IngestAssumption, TypeParts DEF IInv
  <2>3. MailOK'
    <3>1. CASE Receive(m)
      BY <2>2, <3>1 DEF MailOK
    <3>2. CASE Put(m) \/ SyncDir(m)
      BY <2>2, <3>2 DEF MailOK
    <3>3. CASE Commit(m)
      BY <2>2, <3>3 DEF MailOK
    <3>4. CASE Enqueue(m)
      <4>1. queue' \in Seq(Message) /\ Len(queue') <= QueueSize
        BY <2>2, <3>4 DEF MailOK
      <4> QED
        BY <2>2, <3>4, <4>1 DEF MailOK
    <3> QED
      BY <3>1, <3>2, <3>3, <3>4
  <2> QED
    BY <2>1, <2>3 DEF IngestTypeOK, ControlOK, MailOK, SettleOK
<1>2. Stored'
  <2>1. CASE Receive(m)
    BY <2>1 DEF IInv, IngestTypeOK, Stored
  <2>2. CASE Put(m)
    BY <2>2 DEF IInv, IngestTypeOK, Stored
  <2>3. CASE SyncDir(m)
    BY <2>3 DEF IInv, IngestTypeOK, Stored
  <2>4. CASE Commit(m)
    BY <2>4 DEF IInv, IngestTypeOK, Stored
  <2>5. CASE Enqueue(m)
    BY <2>5 DEF IInv, IngestTypeOK, Stored
  <2> QED
    BY <2>1, <2>2, <2>3, <2>4, <2>5
<1>3. UNCHANGED <<main, settlers, channel, announced, fresh>>
  OBVIOUS
<1>4. \A n \in Message : Terminal(n) => Terminal(n)'
  BY DEF IInv, IngestTypeOK, Stored, Terminal
<1>5. Once'
  BY <1>3, <1>4, OnceKept, ChannelMessages DEF IInv
<1>6. Fresh'
  BY <1>3 DEF IInv, Fresh, NoSilentSettle
<1> QED
  BY <1>1, <1>2, <1>5, <1>6 DEF IInv

\* settle and fail: the row is settled, or the job changes and nothing else.
LEMMA SettleStep ==
    ASSUME IInv, NEW s \in Settler, Settle(s) \/ Fail(s)
    PROVE  IInv'
<1> DEFINE m == settlers[s].msg
<1>1. PICK pc \in {"extract", "fail"} : Working(s, pc)
  BY DEF Settle, Fail
<1>2. m \in Message /\ settlers[s] = Job(pc, m)
  BY <1>1, AtWork DEF IInv
<1>3. /\ UNCHANGED <<main, cancelled, boots, serveErrors, files, session, reply, queue, todo,
                     channel, announced>>
      /\ faults' \in 0 .. MaxFaults
  BY IngestAssumption DEF Settle, Fail, Fault, budget, IInv, IngestTypeOK
<1>4. \/ \E state \in {"success", "failed"} : SettleRow(s, m, state)
      \/ /\ Become(s, Job("fail", m)) \/ Become(s, Resting)
         /\ UNCHANGED <<rows, fresh>>
  BY DEF Settle, Fail
<1>5. /\ rows' \in [Message -> {"none", "pending", "success", "failed"}]
      /\ settlers' \in [Settler -> JobSet] /\ fresh' \subseteq Message
      /\ Stored' /\ Once' /\ Fresh'
  <2>1. CASE \E state \in {"success", "failed"} : SettleRow(s, m, state)
    <3>1. PICK state \in {"success", "failed"} : SettleRow(s, m, state)
      BY <2>1
    <3> HIDE DEF m
    <3> QED
      BY <1>2, <1>3, <3>1, SettleRowKeeps
  <2>2. CASE /\ Become(s, Job("fail", m)) \/ Become(s, Resting)
             /\ UNCHANGED <<rows, fresh>>
    <3>1. PICK job \in {Job("fail", m), Resting} : Become(s, job)
      BY <2>2
    <3>2. job \in JobSet /\ \A n \in Message : job # Job("publish", n)
      BY <1>2, JobsTyped, JobsDiffer
    <3>3. /\ settlers' \in [Settler -> JobSet]
          /\ settlers'[s] = job
          /\ \A t \in Settler : t # s => settlers'[t] = settlers[t]
      BY <3>1, <3>2, BecomeType DEF IInv
    <3>4. \A t \in Settler, n \in Message :
             settlers'[t] = Job("publish", n) <=> settlers[t] = Job("publish", n)
      BY <1>2, <3>2, <3>3, JobsDiffer
    <3>5. Stored'
      BY <1>3, <2>2, StoredKept DEF IInv
    <3>6. Once'
      BY <1>3, <2>2, <3>4, OnceKept, ChannelMessages DEF IInv, Terminal
    <3>7. main # "down" /\ fresh \subseteq Message
      BY <1>2, JobsDiffer DEF IInv, Fresh, IngestTypeOK
    <3>8. Fresh'
      BY <1>3, <2>2, <3>4, <3>7, FreshKept DEF IInv
    <3> QED
      BY <2>2, <3>3, <3>5, <3>6, <3>8 DEF IInv, IngestTypeOK
  <2> QED
    BY <1>4, <2>1, <2>2
<1>6. IngestTypeOK'
  BY <1>3, <1>5 DEF IInv, IngestTypeOK
<1> QED
  BY <1>5, <1>6 DEF IInv

\* publish: the right to announce moves from the settler into the channel.
LEMMA PublishStep ==
    ASSUME IInv, NEW s \in Settler, Publish(s)
    PROVE  IInv'
<1> DEFINE m == settlers[s].msg
<1>1. m \in Message /\ settlers[s] = Job("publish", m)
  BY AtWork DEF IInv, Publish
<1>2. /\ UNCHANGED <<main, cancelled, boots, faults, serveErrors, files, rows, session,
                     reply, queue, todo, announced, fresh>>
      /\ Become(s, Resting)
      /\ channel' = Append(channel, m) /\ Len(channel) < PublishBuffer
  BY DEF Publish, budget, mailVars
<1> HIDE DEF m
<1>3. /\ settlers' \in [Settler -> JobSet]
      /\ settlers'[s] = Resting
      /\ \A t \in Settler : t # s => settlers'[t] = settlers[t]
  BY <1>2, JobsTyped, BecomeType DEF IInv
<1>4. channel \in Seq(Message) /\ fresh \subseteq Message
  BY DEF IInv, IngestTypeOK
<1>5. /\ channel' \in Seq(Message) /\ Len(channel') <= PublishBuffer
      /\ DOMAIN channel = 1 .. Len(channel) /\ Len(channel) \in Nat
      /\ DOMAIN channel' = 1 .. Len(channel) + 1
      /\ \A k \in DOMAIN channel : channel'[k] = channel[k]
      /\ channel'[Len(channel) + 1] = m
  BY <1>1, <1>2, <1>4, IngestAssumption
<1>6. IngestTypeOK'
  BY <1>2, <1>3, <1>5 DEF IInv, IngestTypeOK
<1>7. Stored'
  BY <1>2, StoredKept DEF IInv
<1>8. /\ Terminal(m) /\ announced[m] = 0 /\ ~Queued(m)
      /\ \A t \in Settler : settlers[t] = Job("publish", m) => t = s
  BY <1>1 DEF IInv, Once, OncePublishing
<1>9. \A t \in Settler, n \in Message :
         settlers'[t] = Job("publish", n) <=> settlers[t] = Job("publish", n) /\ n # m
  BY <1>1, <1>3, <1>8, JobsDiffer
<1>10. \A n \in Message : Queued(n)' <=> Queued(n) \/ n = m
  BY <1>5 DEF Queued
<1>11. OncePublishing'
  BY <1>2, <1>9, <1>10 DEF IInv, Once, OncePublishing, Terminal
<1>12. OnceQueued'
  BY <1>2, <1>4, <1>5, <1>8 DEF IInv, Once, OnceQueued, Terminal, Queued
<1>13. OnceAnnounced'
  BY <1>2 DEF IInv, Once, OnceAnnounced, Terminal
<1>14. Fresh'
  <2>1. NoSilentSettle'
    <3> SUFFICES ASSUME NEW n \in fresh
                 PROVE  \/ announced[n] = 1 \/ Queued(n)'
                        \/ \E t \in Settler : settlers'[t] = Job("publish", n)
      BY <1>2 DEF NoSilentSettle, Queued
    <3>1. announced[n] = 1 \/ Queued(n) \/ \E t \in Settler : settlers[t] = Job("publish", n)
      BY DEF IInv, Fresh, NoSilentSettle, Queued
    <3> QED
      BY <1>4, <1>9, <1>10, <3>1
  <2>2. main # "down"
    BY <1>1, JobsDiffer DEF IInv, Fresh
  <2> QED
    BY <1>2, <2>1, <2>2 DEF Fresh
<1> QED
  BY <1>6, <1>7, <1>11, <1>12, <1>13, <1>14 DEF IInv, Once

\* Bus.Run: the right to announce is spent.
LEMMA FanOutStep ==
    ASSUME IInv, FanOut
    PROVE  IInv'
<1> DEFINE m == Head(channel)
<1>1. channel \in Seq(Message) /\ channel # <<>> /\ Len(channel) <= PublishBuffer
      /\ announced \in [Message -> Nat] /\ fresh \subseteq Message
  BY DEF FanOut, IInv, IngestTypeOK
<1>2. /\ m \in Message /\ m = channel[1]
      /\ DOMAIN channel = 1 .. Len(channel) /\ 1 \in DOMAIN channel /\ Len(channel) \in Nat
      /\ Tail(channel) \in Seq(Message) /\ Len(Tail(channel)) = Len(channel) - 1
      /\ DOMAIN Tail(channel) = 1 .. Len(channel) - 1
      /\ \A k \in 1 .. Len(channel) - 1 : Tail(channel)[k] = channel[k + 1]
  BY <1>1
<1>3. /\ UNCHANGED <<main, cancelled, boots, faults, serveErrors, files, rows, session,
                     reply, queue, todo, settlers, fresh>>
      /\ channel' = Tail(channel)
      /\ announced' = [announced EXCEPT ![m] = @ + 1]
  BY DEF FanOut, budget, mailVars
<1> HIDE DEF m
<1>4. Terminal(m) /\ announced[m] = 0 /\ Queued(m)
      /\ \A j \in DOMAIN channel : channel[j] = m => j = 1
  BY <1>2 DEF IInv, Once, OnceQueued, Queued
<1>5. announced'[m] = 1 /\ \A n \in Message : n # m => announced'[n] = announced[n]
  BY <1>1, <1>2, <1>3, <1>4
<1>6. \A n \in Message : Queued(n)' <=> Queued(n) /\ n # m
  <2> SUFFICES ASSUME NEW n \in Message
               PROVE  Queued(n)' <=> Queued(n) /\ n # m
    OBVIOUS
  <2>1. ASSUME Queued(n)' PROVE Queued(n) /\ n # m
    <3>1. PICK k \in 1 .. Len(channel) - 1 : channel[k + 1] = n
      BY <1>2, <1>3, <2>1 DEF Queued
    <3>2. k + 1 \in DOMAIN channel /\ k + 1 # 1
      BY <1>2
    <3> QED
      BY <1>4, <3>1, <3>2 DEF Queued
  <2>2. ASSUME Queued(n), n # m PROVE Queued(n)'
    <3>1. PICK k \in 1 .. Len(channel) : channel[k] = n
      BY <1>2, <2>2 DEF Queued
    <3>2. k - 1 \in 1 .. Len(channel) - 1 /\ (k - 1) + 1 = k
      BY <1>2, <2>2, <3>1
    <3>3. k - 1 \in DOMAIN channel' /\ channel'[k - 1] = n
      BY <1>2, <1>3, <3>1, <3>2
    <3> QED
      BY <3>3 DEF Queued
  <2> QED
    BY <2>1, <2>2
<1>7. IngestTypeOK'
  BY <1>1, <1>2, <1>3, IngestAssumption DEF IInv, IngestTypeOK
<1>8. Stored'
  BY <1>3, StoredKept DEF IInv
<1>9. OncePublishing'
  BY <1>3, <1>4, <1>5, <1>6 DEF IInv, Once, OncePublishing, Terminal
<1>10. OnceQueued'
  <2> SUFFICES ASSUME NEW k \in DOMAIN channel'
               PROVE  /\ Terminal(channel[k])' /\ announced'[channel'[k]] = 0
                      /\ \A j \in DOMAIN channel' : channel'[j] = channel'[k] => j = k
    BY DEF OnceQueued
  <2>1. k \in 1 .. Len(channel) - 1 /\ channel'[k] = channel[k + 1]
        /\ k + 1 \in DOMAIN channel /\ k + 1 # 1 /\ channel[k + 1] \in Message
    BY <1>1, <1>2, <1>3
  <2>2. channel[k + 1] # m /\ Terminal(channel[k + 1]) /\ announced[channel[k + 1]] = 0
    BY <1>4, <2>1 DEF IInv, Once, OnceQueued
  <2>3. Terminal(channel[k])' /\ announced'[channel'[k]] = 0
    BY <1>3, <1>5, <2>1, <2>2 DEF Terminal
  <2>4. ASSUME NEW j \in DOMAIN channel', channel'[j] = channel'[k] PROVE j = k
    <3>1. j \in 1 .. Len(channel) - 1 /\ channel'[j] = channel[j + 1]
          /\ j + 1 \in DOMAIN channel
      BY <1>2, <1>3
    <3>2. j + 1 = k + 1
      BY <2>1, <2>4, <3>1 DEF IInv, Once, OnceQueued
    <3> QED
      BY <2>1, <3>1, <3>2
  <2> QED
    BY <2>3, <2>4
<1>11. OnceAnnounced'
  BY <1>3, <1>4, <1>5 DEF IInv, Once, OnceAnnounced, Terminal
<1>12. Fresh'
  <2>1. NoSilentSettle'
    <3> SUFFICES ASSUME NEW n \in fresh
                 PROVE  \/ announced'[n] = 1 \/ Queued(n)'
                        \/ \E t \in Settler : settlers[t] = Job("publish", n)
      BY <1>3 DEF NoSilentSettle, Queued
    <3>1. announced[n] = 1 \/ Queued(n) \/ \E t \in Settler : settlers[t] = Job("publish", n)
      BY DEF IInv, Fresh, NoSilentSettle, Queued
    <3> QED
      BY <1>1, <1>5, <1>6, <3>1
  <2> QED
    BY <1>3, <2>1 DEF IInv, Fresh
<1> QED
  BY <1>7, <1>8, <1>9, <1>10, <1>11, <1>12 DEF IInv, Once

LEMMA NextIInv == IInv /\ [Next]_vars => IInv'
<1> SUFFICES ASSUME IInv, [Next]_vars PROVE IInv'
  OBVIOUS
<1>1. CASE UNCHANGED vars
  <2>1. UNCHANGED <<main, cancelled, boots, faults, serveErrors, files, rows, session, reply,
                    queue, todo, settlers, channel, announced, fresh>>
    BY <1>1 DEF vars, budget, mailVars, settleVars
  <2>2. IngestTypeOK'
    BY <2>1 DEF IInv, IngestTypeOK
  <2>3. Once'
    BY <2>1, OnceKept, ChannelMessages DEF IInv, Terminal
  <2> QED
    BY <2>1, <2>2, <2>3 DEF IInv, Stored, Fresh, NoSilentSettle
<1>2. CASE MainStep
  BY <1>2, ServeStep, BootStep, TakeStep, EndStep DEF MainStep
<1>3. CASE Interrupt \/ ServeFails
  BY <1>3, ServeStep
<1>4. CASE Crash
  BY <1>4, EndStep
<1>5. CASE FanOut
  BY <1>5, FanOutStep
<1>6. ASSUME NEW m \in Message, Receive(m) \/ SessionStep(m) PROVE IInv'
  BY <1>6, SessionStepKeeps
<1>7. ASSUME NEW s \in Settler, SettlerStep(s) PROVE IInv'
  BY <1>7, SettleStep, PublishStep DEF SettlerStep
<1>8. ASSUME NEW w \in Worker, WorkerStep(w) PROVE IInv'
  BY <1>7, <1>8, TakeStep DEF WorkerStep, Settler
<1>9. CASE SettlerStep(Main)
  BY <1>7, <1>9 DEF Settler
<1> QED
  BY <1>1, <1>2, <1>3, <1>4, <1>5, <1>6, <1>8, <1>9 DEF Next

-----------------------------------------------------------------------------
(* The theorems.                                                           *)

\* Stored, Once and Fresh together with the types are an inductive invariant
\* of serve, Deliver, settle and the bus.
THEOREM PipelineInvariance == Spec => []IInv
<1> QED
  BY InitIInv, NextIInv, PTL DEF Spec

\* Queue and channel never exceed their sizes and every variable of the
\* pipeline keeps its type (Ingest, serve).
THEOREM PipelineTypes == Spec => []IngestTypeOK
<1>1. IInv => IngestTypeOK
  BY DEF IInv
<1> QED
  BY <1>1, PipelineInvariance, PTL

\* The ack contract of Deliver: a 250 means row and blobs are on disk, through
\* every crash, power loss and failed write, for any number of sessions.
THEOREM AcknowledgedMailIsStored == Spec => []AckedIsStored
<1>1. IInv => AckedIsStored
  BY DEF IInv, Stored, AckedIsStored
<1> QED
  BY <1>1, PipelineInvariance, PTL

\* settle and Recover: a message is announced at most once over all starts of
\* the process, and only after its terminal state has committed.
THEOREM AnnouncedAtMostOnce == Spec => []AnnouncedOnceSettled
<1>1. IInv => AnnouncedOnceSettled
  <2> SUFFICES ASSUME IInv, NEW m \in Message
               PROVE  /\ announced[m] <= 1
                      /\ announced[m] = 1 => rows[m] \in {"success", "failed"}
    BY DEF AnnouncedOnceSettled
  <2>1. announced[m] \in {0, 1} /\ (announced[m] = 1 => Terminal(m))
    BY DEF IInv, Once, OnceAnnounced
  <2> QED
    BY <2>1 DEF Terminal
<1> QED
  BY <1>1, PipelineInvariance, PTL

\* publish: whatever a living process has settled is announced or on its way,
\* also when the process has been told to stop.
THEOREM SettledIsAnnounced == Spec => []NoSilentSettle
<1>1. IInv => NoSilentSettle
  BY DEF IInv, Fresh
<1> QED
  BY <1>1, PipelineInvariance, PTL
=============================================================================
