------------------------------ MODULE DataDir ------------------------------
(***************************************************************************)
(* Opening a data directory: the encryption key (internal/secrets/keys.go),*)
(* the schema (internal/store/store.go, migrate.go), the project and its   *)
(* allowlist (bootstrap in cmd/authstunt/serve.go) and the API bearer      *)
(* (cmd/authstunt/bearer.go, internal/store/projects.go).                  *)
(*                                                                         *)
(* Every command opens the directory the same way and several may do so at *)
(* once: the server, and the bearer commands an operator or a fixture      *)
(* runs.  They share files and tables and no lock, so each read below may  *)
(* be stale when the write that follows it happens.  A process can be      *)
(* killed, a write can fail and the machine can lose power at any step.    *)
(***************************************************************************)
EXTENDS Naturals, Sequences

CONSTANTS
    Process,
    Name,           \* project names
    Commands,       \* command lines: [op, name, domains]
    Unusable,       \* --domain lists with a pattern that cannot be canonicalized
    None,           \* a flag that was not given; a row that is not there
    Migrations,     \* len(migrations)
    Rebuilding,     \* those whose statements run again without an error
    MaxStarts,      \* bound: commands ever started
    MaxFaults       \* bound: writes that fail and power losses

Ops == {"serve", "catch", "provision", "rotate", "revoke"}
Serving == {"serve", "catch"}       \* catch: serve with --api-listen ""
Empty == <<>>                       \* an allowlist without a pattern

ASSUME DataDirAssumption ==
    /\ \A c \in Commands : c.op \in Ops /\ c.name \in Name \cup {None}
    /\ None \notin Name /\ None # Empty
    /\ Migrations \in Nat /\ Rebuilding \subseteq 1 .. Migrations
    /\ MaxStarts \in Nat /\ MaxFaults \in Nat

VARIABLES
    keyFile,    \* the key file: its material, and what of it is on disk
    keys,       \* keys minted, returned by createKey, used to seal, lost
    schema,     \* user_version, and the migrations in the order they ran
    projects,   \* the allowlist of each project, None where there is no row
    bearer,     \* projects.bearer_hash
    tokens,     \* bearers minted, shown to an operator, or never seen
    procs,      \* where each process stands
    starts, faults

tableVars == <<schema, projects, bearer>>
vars == <<keyFile, keys, tableVars, tokens, procs, starts, faults>>

NoFile == [exists |-> FALSE, material |-> 0, synced |-> FALSE, named |-> FALSE]
Off == [pc |-> "off"]
InUse == {procs[p].key : p \in {q \in Process : procs[q].pc # "off" /\ procs[q].key # 0}}

DataDirTypeOK ==
    /\ keyFile \in [exists : BOOLEAN, material : Nat, synced : BOOLEAN, named : BOOLEAN]
    /\ keys.minted \in Nat /\ keys.returned \cup keys.sealed \cup keys.lost \subseteq 1 .. keys.minted
    /\ schema.version \in 0 .. Migrations
    /\ DOMAIN projects = Name /\ bearer \in [Name -> Nat]
    /\ tokens.minted \in Nat /\ tokens.shown \cup tokens.unseen \subseteq 1 .. tokens.minted
    /\ DOMAIN procs = Process
    /\ starts \in 0 .. MaxStarts /\ faults \in 0 .. MaxFaults

-----------------------------------------------------------------------------
(* Processes coming and going.                                             *)

Init ==
    /\ keyFile = NoFile
    /\ keys = [minted |-> 0, returned |-> {}, sealed |-> {}, lost |-> {}]
    /\ schema = [version |-> 0, applied |-> <<>>]
    /\ projects = [n \in Name |-> None]
    /\ bearer = [n \in Name |-> 0]
    /\ tokens = [minted |-> 0, shown |-> {}, unseen |-> {}]
    /\ procs = [p \in Process |-> Off]
    /\ starts = 0 /\ faults = 0

At(p, pc) == procs[p].pc = pc
Goto(p, pc) == procs' = [procs EXCEPT ![p].pc = pc]
End(p) == procs' = [procs EXCEPT ![p] = Off]

Fault == faults < MaxFaults /\ faults' = faults + 1

Start(p, cmd) ==
    /\ At(p, "off") /\ starts < MaxStarts
    /\ starts' = starts + 1
    /\ procs' = [procs EXCEPT ![p] =
                   [pc |-> "key", cmd |-> cmd, key |-> 0, seen |-> 0,
                    project |-> None, allow |-> Empty, token |-> 0]]
    /\ UNCHANGED <<keyFile, keys, tableVars, tokens, faults>>

\* The bearers only a process in P knows, which nobody will see when it ends.
Printing(P) == {procs[p].token : p \in {q \in P : At(q, "print")}}
Forgotten(P) == tokens' = [tokens EXCEPT !.unseen = @ \cup Printing(P)]

\* A process is killed, or gives up on an error of the operating system.
Kill(p) ==
    /\ ~At(p, "off")
    /\ End(p) /\ Forgotten({p})
    /\ UNCHANGED <<keyFile, keys, tableVars, starts, faults>>

\* What is left of the key file when its material is gone.
Lose(file) ==
    /\ keyFile' = file
    /\ keys' = IF file.material = keyFile.material THEN keys
               ELSE [keys EXCEPT !.lost = @ \cup {keyFile.material}]

\* Commits are on disk (synchronous=FULL).  Of the key file, a name the
\* directory was not synced for and contents that were not synced may vanish.
PowerLoss ==
    /\ Fault
    /\ \/ UNCHANGED <<keyFile, keys>>
       \/ ~keyFile.named /\ Lose(NoFile)
       \/ ~keyFile.synced /\ Lose([keyFile EXCEPT !.material = 0])
    /\ procs' = [p \in Process |-> Off]
    /\ Forgotten(Process)
    /\ UNCHANGED <<tableVars, starts>>

-----------------------------------------------------------------------------
(* LoadOrCreateKey.                                                        *)

UseKey(p, material) == procs' = [procs EXCEPT ![p].pc = "version", ![p].key = material]

\* readKeyFile: a key, a file that is still empty, or none.
ReadKey(p) ==
    /\ At(p, "key")
    /\ \/ keyFile.material # 0 /\ UseKey(p, keyFile.material)
       \/ keyFile.exists /\ keyFile.material = 0 /\ Goto(p, "await")
       \/ ~keyFile.exists /\ Goto(p, "create")
    /\ UNCHANGED <<keyFile, keys, tableVars, tokens, starts, faults>>

\* Mutated form: opened without O_EXCL, and truncated.
CreateKeyTruncating(p) ==
    /\ At(p, "create")
    /\ keyFile' = [keyFile EXCEPT !.exists = TRUE, !.material = 0, !.synced = FALSE]
    /\ Goto(p, "write")
    /\ UNCHANGED <<keys, tableVars, tokens, starts, faults>>

\* createKey's O_EXCL: exactly one process creates the file, still empty.
CreateKey(p) ==
    /\ At(p, "create")
    /\ \/ ~keyFile.exists /\ keyFile' = [NoFile EXCEPT !.exists = TRUE] /\ Goto(p, "write")
       \/ keyFile.exists /\ UNCHANGED keyFile /\ Goto(p, "await")
    /\ UNCHANGED <<keys, tableVars, tokens, starts, faults>>

\* f.Write; a file that could not be restricted or written is removed.
WriteKey(p) ==
    /\ At(p, "write")
    /\ \/ /\ keyFile' = [keyFile EXCEPT !.material = keys.minted + 1]
          /\ keys' = [keys EXCEPT !.minted = @ + 1]
          /\ Goto(p, "sync") /\ UNCHANGED faults
       \/ Fault /\ Lose(NoFile) /\ End(p)
    /\ UNCHANGED <<tableVars, tokens, starts>>

\* syncFile; a file that could not be synced is removed.
SyncFile(p) ==
    /\ At(p, "sync")
    /\ \/ /\ keyFile' = [keyFile EXCEPT !.synced = TRUE]
          /\ Goto(p, "syncdir") /\ UNCHANGED <<keys, faults>>
       \/ Fault /\ Lose(NoFile) /\ End(p)
    /\ UNCHANGED <<tableVars, tokens, starts>>

\* syncDir; a failure is reported and the file stays.
SyncDir(p) ==
    /\ At(p, "syncdir")
    /\ \/ /\ keyFile' = [keyFile EXCEPT !.named = TRUE]
          /\ keys' = [keys EXCEPT !.returned = @ \cup {keyFile.material}]
          /\ UseKey(p, keyFile.material) /\ UNCHANGED faults
       \/ Fault /\ End(p) /\ UNCHANGED <<keyFile, keys>>
    /\ UNCHANGED <<tableVars, tokens, starts>>

\* awaitKey rereads a file of the wrong size until it holds a key or the
\* attempts are used up; a file that is gone is an error at once.
AwaitKey(p) ==
    /\ At(p, "await")
    /\ IF keyFile.material # 0 THEN UseKey(p, keyFile.material) ELSE End(p)
    /\ UNCHANGED <<keyFile, keys, tableVars, tokens, starts, faults>>

-----------------------------------------------------------------------------
(* store.Open.                                                             *)

\* Open waits for the file while another process initializes it, then
\* migrateTo reads user_version outside any transaction.
ReadVersion(p) ==
    /\ At(p, "version")
    /\ procs' = [procs EXCEPT ![p].pc = "migrate", ![p].seen = schema.version]
    /\ UNCHANGED <<keyFile, keys, tableVars, tokens, starts, faults>>

\* The migrations among the first k that were run.
Ran(k) == {schema.applied[j] : j \in 1 .. k}
Applied == Ran(Len(schema.applied))
Pending(p) == At(p, "migrate") /\ procs[p].seen < Migrations

Run(p, i) ==
    /\ schema' = [version |-> i, applied |-> Append(schema.applied, i)]
    /\ procs' = [procs EXCEPT ![p].seen = i]

\* Mutated form: the version is committed first, apart from the statements, and
\* the process may die between the two.
MigrateVersionFirst(p) ==
    LET i == procs[p].seen + 1 IN
    /\ Pending(p)
    /\ \/ schema' = [schema EXCEPT !.version = i] /\ End(p)
       \/ (i \in Applied => i \in Rebuilding) /\ Run(p, i)
    /\ UNCHANGED <<keyFile, keys, projects, bearer, tokens, starts, faults>>

\* applyMigration: the statements and the version in one transaction, which
\* does not read the version again.  Run a second time, most migrations fail
\* on what they created the first time and roll back; one that builds a table
\* anew and renames it (schema_v5.sql) succeeds, and sets the version to its
\* own number whatever it was.
Migrate(p) ==
    LET i == procs[p].seen + 1 IN
    /\ Pending(p)
    /\ IF i \in Applied \ Rebuilding
       THEN End(p) /\ UNCHANGED schema
       ELSE Run(p, i)
    /\ UNCHANGED <<keyFile, keys, projects, bearer, tokens, starts, faults>>

-----------------------------------------------------------------------------
(* bootstrap.                                                              *)

Rows == {n \in Name : projects[n] # None}

\* ListProjects: initialize an empty directory, verify one project, refuse
\* several.
ListProjects(p) ==
    LET cmd == procs[p].cmd IN
    /\ At(p, "migrate") /\ procs[p].seen = Migrations
    /\ \/ Rows = {} /\ cmd.name # None /\ cmd.domains # None /\ Goto(p, "project")
       \/ Rows = {} /\ (cmd.name = None \/ cmd.domains = None) /\ End(p)
       \/ \E n \in Rows :
             /\ Rows = {n}
             /\ procs' = [procs EXCEPT ![p].pc = "verify", ![p].project = n]
       \/ (\E m, n \in Rows : m # n) /\ End(p)
    /\ UNCHANGED <<keyFile, keys, tableVars, tokens, starts, faults>>

\* CreateProject, under the unique index on the name.
CreateProject(p) ==
    LET n == procs[p].cmd.name IN
    /\ At(p, "project")
    /\ IF n \in Rows
       THEN End(p) /\ UNCHANGED projects
       ELSE /\ projects' = [projects EXCEPT ![n] = Empty]
            /\ procs' = [procs EXCEPT ![p].pc = "allowlist", ![p].project = n]
    /\ UNCHANGED <<keyFile, keys, schema, bearer, tokens, starts, faults>>

\* SetAllowlist canonicalizes every pattern, then replaces the list in a
\* transaction of its own; bootstrap reads it back.
SetAllowlist(p) ==
    LET list == procs[p].cmd.domains IN
    /\ At(p, "allowlist")
    /\ IF list \in Unusable
       THEN End(p) /\ UNCHANGED projects
       ELSE /\ projects' = [projects EXCEPT ![procs[p].project] = list]
            /\ procs' = [procs EXCEPT ![p].pc = "open", ![p].allow = list]
    /\ UNCHANGED <<keyFile, keys, schema, bearer, tokens, starts, faults>>

\* Mutated form: a difference is reconciled with the flags.
VerifyReconciling(p) ==
    LET cmd == procs[p].cmd
        n == procs[p].project
        list == IF cmd.domains = None THEN projects[n] ELSE cmd.domains
    IN  /\ At(p, "verify")
        /\ projects' = [projects EXCEPT ![n] = list]
        /\ procs' = [procs EXCEPT ![p].pc = "open", ![p].allow = list]
        /\ UNCHANGED <<keyFile, keys, schema, bearer, tokens, starts, faults>>

\* Allowlist, read after the project, and verifyFlags.
Verify(p) ==
    LET cmd == procs[p].cmd
        stored == projects[procs[p].project]
    IN  /\ At(p, "verify")
        /\ IF cmd.name \in {None, procs[p].project} /\ cmd.domains \in {None, stored}
           THEN procs' = [procs EXCEPT ![p].pc = "open", ![p].allow = stored]
           ELSE End(p)
        /\ UNCHANGED <<keyFile, keys, tableVars, tokens, starts, faults>>

-----------------------------------------------------------------------------
(* serve.                                                                  *)

IsServer(p) == procs[p].pc # "off" /\ procs[p].cmd.op \in Serving
HasBearer(p) == bearer[procs[p].project] # 0

\* personas.New needs an allowlist, requireBearer a bearer if the API is on.
Serve(p) ==
    /\ At(p, "open") /\ IsServer(p)
    /\ IF procs[p].allow # Empty /\ (procs[p].cmd.op = "serve" => HasBearer(p))
       THEN Goto(p, "serving")
       ELSE End(p)
    /\ UNCHANGED <<keyFile, keys, tableVars, tokens, starts, faults>>

\* Mail is stored, sealed with the key the process loaded; startup recovery
\* seals before anything is served.
Seal(p) ==
    /\ At(p, "open") \/ At(p, "serving")
    /\ IsServer(p) /\ procs[p].allow # Empty
    /\ keys' = [keys EXCEPT !.sealed = @ \cup {procs[p].key}]
    /\ UNCHANGED <<keyFile, tableVars, tokens, procs, starts, faults>>

-----------------------------------------------------------------------------
(* project bearer.                                                         *)

\* runBearerOperation reads ProjectHasBearer and decides on it.
Decide(p) ==
    LET op == procs[p].cmd.op IN
    /\ At(p, "open") /\ ~IsServer(p)
    /\ \/ op = "provision" /\ ~HasBearer(p) /\ Goto(p, "sink")
       \/ op = "rotate" /\ HasBearer(p) /\ Goto(p, "sink")
       \/ op = "revoke" /\ HasBearer(p) /\ Goto(p, "revoke")
       \/ HasBearer(p) = (op = "provision") /\ End(p)
    /\ UNCHANGED <<keyFile, keys, tableVars, tokens, starts, faults>>

\* mintBearer secures where the value will go, or refuses.
SecureSink(p) ==
    /\ At(p, "sink")
    /\ Goto(p, "mint") \/ End(p)
    /\ UNCHANGED <<keyFile, keys, tableVars, tokens, starts, faults>>

NewBearer(p) ==
    /\ bearer' = [bearer EXCEPT ![procs[p].project] = tokens.minted + 1]
    /\ tokens' = [tokens EXCEPT !.minted = @ + 1]

\* Mutated form: the reveal is refused after the value has been minted.
MintThenRefuse(p) ==
    /\ At(p, "mint")
    /\ NewBearer(p)
    /\ \/ procs' = [procs EXCEPT ![p].pc = "print", ![p].token = tokens.minted + 1]
       \/ End(p)
    /\ UNCHANGED <<keyFile, keys, schema, projects, starts, faults>>

\* SetProjectBearer and its ledger event, in one transaction.
Mint(p) ==
    /\ At(p, "mint")
    /\ NewBearer(p)
    /\ procs' = [procs EXCEPT ![p].pc = "print", ![p].token = tokens.minted + 1]
    /\ UNCHANGED <<keyFile, keys, schema, projects, starts, faults>>

\* The value is written out, or that fails.
PrintBearer(p) ==
    /\ At(p, "print")
    /\ \/ tokens' = [tokens EXCEPT !.shown = @ \cup {procs[p].token}] /\ UNCHANGED faults
       \/ Fault /\ Forgotten({p})
    /\ End(p)
    /\ UNCHANGED <<keyFile, keys, tableVars, starts>>

\* RevokeProjectBearer and its ledger event.
Revoke(p) ==
    /\ At(p, "revoke")
    /\ bearer' = [bearer EXCEPT ![procs[p].project] = 0]
    /\ End(p)
    /\ UNCHANGED <<keyFile, keys, schema, projects, tokens, starts, faults>>

-----------------------------------------------------------------------------
Next ==
    \/ PowerLoss
    \/ \E p \in Process :
          \/ \E cmd \in Commands : Start(p, cmd)
          \/ Kill(p)
          \/ ReadKey(p) \/ CreateKey(p) \/ WriteKey(p) \/ SyncFile(p) \/ SyncDir(p)
          \/ AwaitKey(p)
          \/ ReadVersion(p) \/ Migrate(p)
          \/ ListProjects(p) \/ CreateProject(p) \/ SetAllowlist(p) \/ Verify(p)
          \/ Serve(p) \/ Seal(p)
          \/ Decide(p) \/ SecureSink(p) \/ Mint(p) \/ PrintBearer(p) \/ Revoke(p)

Spec == Init /\ [][Next]_vars

-----------------------------------------------------------------------------
(* What an open data directory promises.                                   *)

\* createKey and awaitKey: whoever raced, failed or died while the key was
\* being created, every process uses, and every sealed byte needs, the key
\* that is in the file.  The one exception is a key that went with a failed
\* sync or a power loss before its creator had it on disk; a key createKey
\* returned is never lost.
KeyKept ==
    \A k \in InUse \cup keys.sealed \cup keys.returned :
        \/ keyFile.material = k
        \/ k \in keys.lost \ keys.returned

\* migrateTo and applyMigration: although each process read the version before
\* it locked anything, no migration runs before every lower one has, none runs
\* again unless it can, and whoever gets past migrateTo works on tables with
\* all of them, even when the version was set back under it.
RanInOrder ==
    \A k \in DOMAIN schema.applied :
        /\ 1 .. schema.applied[k] - 1 \subseteq Ran(k - 1)
        /\ schema.applied[k] \in Ran(k - 1) => schema.applied[k] \in Rebuilding

SchemaWhole ==
    /\ RanInOrder
    /\ \A p \in Process :
          ~At(p, "off") /\ procs[p].seen = Migrations => 1 .. Migrations \subseteq Applied

\* "Applied in order.  The applied count lives in PRAGMA user_version": the
\* version counts the migrations whose effects the tables have.  It does not
\* hold: one that can run again sets the version back below a later one, which
\* then fails at every start from there on.
SchemaInStep == Applied = 1 .. schema.version

\* "serve never silently reconciles a difference": every server runs on the
\* list that is stored and, when it was given one, on the list it was given,
\* also while other commands open the directory with other flags.
ServedAsStored ==
    \A p \in Process :
        At(p, "serving") =>
            /\ procs[p].allow = projects[procs[p].project]
            /\ procs[p].cmd.domains \in {None, procs[p].allow}

\* mintBearer secures its destination first: the bearer that authenticates is
\* one somebody was shown, unless its process failed or died while showing it.
LiveBearerShown ==
    \A n \in Name :
        bearer[n] # 0 => bearer[n] \in tokens.shown \cup tokens.unseen \cup Printing(Process)

\* "The first run initializes the data directory with the project and its
\* ordered domain allowlist": once that run has ended, in whichever way,
\* there is no project without a list.
InitialisedWhole ==
    \A n \in Rows :
        projects[n] # Empty \/ \E p \in Process : At(p, "allowlist") /\ procs[p].project = n
=============================================================================
