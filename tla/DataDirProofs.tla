--------------------------- MODULE DataDirProofs ---------------------------
(***************************************************************************)
(* What opening a data directory guarantees for any number of processes,   *)
(* commands, project names and migrations, and any history of kills,       *)
(* failed writes and power losses.                                         *)
(*                                                                         *)
(* Four arguments that share only the processes: the key file has one      *)
(* creator at a time and is named and synced before its key is returned    *)
(* (KeyInv); all migrations up to a version a process saw have run, even   *)
(* when the version is set back (SchemaInv);                               *)
(* only the creator of a project writes its list, once, over the empty one *)
(* (ListInv); a bearer is stored by the process that is about to print it  *)
(* (BearerInv).                                                            *)
(***************************************************************************)
EXTENDS DataDir, TLAPS

\* The allowlists there can be.
Lists == {Empty, None} \cup {c.domains : c \in Commands}

Creating == {"write", "sync", "syncdir"}
Opening == {"key", "await", "create"} \cup Creating
Listed == {"open", "serving", "sink", "mint", "print", "revoke"}
Keyed == {"version", "migrate", "project", "allowlist", "verify"} \cup Listed

Proc == [pc : Opening \cup Keyed, cmd : Commands, key : Nat, seen : Nat,
         project : Name \cup {None}, allow : Lists, token : Nat]

Types ==
    /\ keyFile \in [exists : BOOLEAN, material : Nat, synced : BOOLEAN, named : BOOLEAN]
    /\ keys \in [minted : Nat, returned : SUBSET Nat, sealed : SUBSET Nat, lost : SUBSET Nat]
    /\ schema \in [version : Nat, applied : Seq(Nat)]
    /\ projects \in [Name -> Lists]
    /\ bearer \in [Name -> Nat]
    /\ tokens \in [minted : Nat, shown : SUBSET Nat, unseen : SUBSET Nat]
    /\ procs \in [Process -> Proc \cup {Off}]
    /\ starts \in 0 .. MaxStarts /\ faults \in 0 .. MaxFaults

\* The key file and its one creator; keys that were lost never come back.
FileInv ==
    /\ keyFile.material # 0 => keyFile.exists
    /\ keyFile.material <= keys.minted /\ keyFile.material \notin keys.lost
    /\ \A k \in keys.sealed \cup keys.lost \cup keys.returned : 1 <= k /\ k <= keys.minted
    /\ \A k \in keys.returned : k = keyFile.material /\ keyFile.named /\ keyFile.synced
    /\ \A k \in keys.sealed : k = keyFile.material \/ k \in keys.lost

CreatorInv ==
    \A p \in Process : procs[p].pc \in Creating =>
        /\ keyFile.exists /\ ~keyFile.named
        /\ procs[p].pc = "write" => keyFile.material = 0
        /\ procs[p].pc # "write" => keyFile.material # 0
        /\ procs[p].pc = "syncdir" => keyFile.synced
        /\ \A q \in Process : procs[q].pc \in Creating => p = q

UserInv ==
    \A p \in Process :
        /\ procs[p].pc \in Opening => procs[p].key = 0
        /\ procs[p].pc \in Keyed =>
              /\ 1 <= procs[p].key /\ procs[p].key <= keys.minted
              /\ procs[p].key = keyFile.material \/ procs[p].key \in keys.lost

KeyInv == FileInv /\ CreatorInv /\ UserInv

\* Tables never lose a migration, so what a process read or ran stays true.
Reached(n) == n <= Migrations /\ 1 .. n \subseteq Applied

SchemaInv ==
    /\ RanInOrder /\ Reached(schema.version)
    /\ \A p \in Process : procs[p].pc # "off" => Reached(procs[p].seen)

\* A process that has a project has its stored list, once that is not empty.
ListOK(r) ==
    /\ r.pc \in {"project", "allowlist"} => r.cmd.name # None /\ r.cmd.domains # None
    /\ r.pc \in {"verify", "allowlist"} \cup Listed =>
          r.project \in Name /\ projects[r.project] # None
    /\ r.pc = "allowlist" => projects[r.project] = Empty
    /\ r.pc \in Listed => /\ r.cmd.domains \in {None, r.allow}
                          /\ r.allow # Empty => r.allow = projects[r.project]
    /\ r.pc = "serving" => r.allow # Empty

ListInv ==
    /\ \A p \in Process : ListOK(procs[p])
    /\ \A p, q \in Process :
          /\ procs[p].pc = "allowlist" /\ procs[q].pc = "allowlist"
          /\ procs[p].project = procs[q].project
          => p = q

\* A bearer was printed, can no longer be, or is about to be.
BearerInv ==
    /\ LiveBearerShown
    /\ \A k \in tokens.shown \cup tokens.unseen : 1 <= k /\ k <= tokens.minted
    /\ \A p \in Process : procs[p].pc = "print" =>
          1 <= procs[p].token /\ procs[p].token <= tokens.minted

IInv == Types /\ KeyInv /\ SchemaInv /\ ListInv /\ BearerInv

-----------------------------------------------------------------------------
(* One process moves on.                                                   *)

Becomes(p, new) ==
    /\ procs' \in [Process -> Proc \cup {Off}]
    /\ procs'[p] = new
    /\ \A q \in Process : q # p => procs'[q] = procs[q]

LEMMA OffFacts == Off.pc = "off"
BY DEF Off

LEMMA Started ==
    ASSUME Types, NEW p \in Process, procs[p].pc # "off"
    PROVE  procs[p] \in Proc
BY OffFacts DEF Types

LEMMA Replaced ==
    ASSUME Types, NEW p \in Process, NEW new \in Proc \cup {Off},
           procs' = [procs EXCEPT ![p] = new]
    PROVE  Becomes(p, new)
BY DEF Becomes, Types

LEMMA Ended ==
    ASSUME Types, NEW p \in Process, End(p)
    PROVE  Becomes(p, Off)
BY Replaced DEF End

LEMMA Moved ==
    ASSUME Types, NEW p \in Process, procs[p].pc # "off",
           NEW pc \in Opening \cup Keyed, Goto(p, pc)
    PROVE  \E new \in Proc :
              /\ Becomes(p, new) /\ new.pc = pc
              /\ new.cmd = procs[p].cmd /\ new.key = procs[p].key /\ new.seen = procs[p].seen
              /\ new.project = procs[p].project /\ new.allow = procs[p].allow
              /\ new.token = procs[p].token
<1> DEFINE new == [procs[p] EXCEPT !.pc = pc]
<1>1. procs[p] \in Proc
  BY Started
<1>2. /\ new \in Proc /\ new.pc = pc
      /\ new.cmd = procs[p].cmd /\ new.key = procs[p].key /\ new.seen = procs[p].seen
      /\ new.project = procs[p].project /\ new.allow = procs[p].allow
      /\ new.token = procs[p].token
  BY <1>1 DEF Proc
<1>3. procs' = [procs EXCEPT ![p] = new]
  BY DEF Goto
<1> HIDE DEF new
<1>4. Becomes(p, new)
  BY <1>2, <1>3, Replaced
<1> QED
  BY <1>2, <1>4

LEMMA KeyTaken ==
    ASSUME Types, NEW p \in Process, procs[p].pc # "off", UseKey(p, keyFile.material)
    PROVE  \E new \in Proc :
              /\ Becomes(p, new) /\ new.pc = "version" /\ new.key = keyFile.material
              /\ new.seen = procs[p].seen
<1> DEFINE new == [procs[p] EXCEPT !.pc = "version", !.key = keyFile.material]
<1>1. procs[p] \in Proc /\ keyFile.material \in Nat
  BY Started DEF Types
<1>2. /\ new \in Proc /\ new.pc = "version" /\ new.key = keyFile.material
      /\ new.seen = procs[p].seen
  BY <1>1 DEF Proc, Keyed
<1>3. procs' = [procs EXCEPT ![p] = new]
  BY DEF UseKey
<1> HIDE DEF new
<1>4. Becomes(p, new)
  BY <1>2, <1>3, Replaced
<1> QED
  BY <1>2, <1>4

-----------------------------------------------------------------------------
(* What a step of one process must respect to keep each part.              *)

\* The process that moves on does not create the key and uses the one it has,
\* or the one in the file.
LEMMA KeySame ==
    ASSUME Types, KeyInv, NEW p \in Process, NEW new, Becomes(p, new),
           UNCHANGED <<keyFile, keys>>,
           new.pc \notin Creating,
           new.pc \in Opening => new.key = 0,
           new.pc \in Keyed =>
              \/ procs[p].pc \in Keyed /\ new.key = procs[p].key
              \/ new.key = keyFile.material /\ keyFile.material # 0
    PROVE  KeyInv'
<1>1. FileInv'
  BY DEF KeyInv, FileInv
<1>2. CreatorInv'
  BY DEF KeyInv, CreatorInv, Becomes
<1>3. UserInv'
  <2>1. keyFile.material \in Nat /\ keyFile.material <= keys.minted
    BY DEF Types, KeyInv, FileInv
  <2> QED
    BY <2>1 DEF KeyInv, UserInv, Becomes
<1> QED
  BY <1>1, <1>2, <1>3 DEF KeyInv

\* Whoever has a key keeps it: it is in the file, or lost.
LEMMA UserSame ==
    ASSUME Types, UserInv, NEW p \in Process, NEW new, Becomes(p, new),
           keys'.minted \in Nat, keys.minted <= keys'.minted,
           \A k \in Nat : 1 <= k /\ (k = keyFile.material \/ k \in keys.lost)
                          => k = keyFile'.material \/ k \in keys'.lost,
           new.pc \in Opening => new.key = 0,
           new.pc \in Keyed =>
              /\ 1 <= new.key /\ new.key <= keys'.minted
              /\ new.key = keyFile'.material \/ new.key \in keys'.lost
    PROVE  UserInv'
<1> SUFFICES ASSUME NEW q \in Process
             PROVE  /\ procs'[q].pc \in Opening => procs'[q].key = 0
                    /\ procs'[q].pc \in Keyed =>
                          /\ 1 <= procs'[q].key /\ procs'[q].key <= keys'.minted
                          /\ procs'[q].key = keyFile'.material \/ procs'[q].key \in keys'.lost
  BY DEF UserInv
<1>1. CASE q = p
  BY <1>1 DEF Becomes
<1>2. CASE q # p
  <2>1. procs'[q] = procs[q]
    BY <1>2 DEF Becomes
  <2>2. CASE procs[q].pc \in Keyed
    <3>1. procs[q].key \in Nat /\ keys.minted \in Nat
      BY <2>2, Started DEF Keyed, Listed, Proc, Types
    <3>2. /\ 1 <= procs[q].key /\ procs[q].key <= keys.minted
          /\ procs[q].key = keyFile.material \/ procs[q].key \in keys.lost
          /\ procs[q].pc \in Opening => procs[q].key = 0
      BY <2>2 DEF UserInv
    <3> QED
      BY <2>1, <3>1, <3>2
  <2>3. CASE procs[q].pc \notin Keyed
    BY <2>1, <2>3 DEF UserInv
  <2> QED
    BY <2>2, <2>3
<1> QED
  BY <1>1, <1>2

LEMMA SchemaSame ==
    ASSUME SchemaInv, NEW p \in Process, NEW new, Becomes(p, new),
           UNCHANGED schema, new.pc # "off" => Reached(new.seen)
    PROVE  SchemaInv'
<1>1. \A n : Reached(n)' <=> Reached(n)
  BY DEF Reached, Applied, Ran
<1>2. RanInOrder' /\ Reached(schema.version)'
  BY <1>1 DEF SchemaInv, RanInOrder, Ran
<1> QED
  BY <1>1, <1>2 DEF SchemaInv, Becomes

LEMMA ListSame ==
    ASSUME ListInv, NEW p \in Process, NEW new, Becomes(p, new),
           UNCHANGED projects, ListOK(new), new.pc # "allowlist"
    PROVE  ListInv'
<1>1. \A r : ListOK(r)' <=> ListOK(r)
  BY DEF ListOK
<1> QED
  BY <1>1 DEF ListInv, Becomes

\* The bearers a process was about to print are shown or written off when it
\* goes on to something else.
LEMMA PrintingAfter ==
    ASSUME NEW p \in Process, NEW new, Becomes(p, new), new.pc # "print"
    PROVE  /\ Printing({p}) = IF procs[p].pc = "print" THEN {procs[p].token} ELSE {}
           /\ Printing(Process) = Printing(Process)' \cup Printing({p})
           /\ \A q \in Process : procs'[q].pc = "print" => procs'[q] = procs[q]
<1>1. Printing({p}) = IF procs[p].pc = "print" THEN {procs[p].token} ELSE {}
  BY DEF Printing, At
<1>2. \A q \in Process : procs'[q].pc = "print" => procs'[q] = procs[q]
  BY DEF Becomes
<1>3. \A q \in Process : q # p => procs'[q] = procs[q]
  BY DEF Becomes
<1>4. procs'[p].pc # "print"
  BY DEF Becomes
<1>5. Printing(Process) = Printing(Process)' \cup Printing({p})
  BY <1>3, <1>4 DEF Printing, At
<1> QED
  BY <1>1, <1>2, <1>5

LEMMA BearerSame ==
    ASSUME Types, BearerInv, NEW p \in Process, NEW new, Becomes(p, new), new.pc # "print",
           UNCHANGED bearer,
           \/ tokens' = tokens /\ procs[p].pc # "print"
           \/ tokens' = [tokens EXCEPT !.unseen = @ \cup Printing({p})]
           \/ tokens' = [tokens EXCEPT !.shown = @ \cup {procs[p].token}] /\ procs[p].pc = "print"
    PROVE  BearerInv' /\ tokens' \in [minted : Nat, shown : SUBSET Nat, unseen : SUBSET Nat]
<1>1. tokens \in [minted : Nat, shown : SUBSET Nat, unseen : SUBSET Nat]
  BY DEF Types
<1>2. /\ Printing({p}) \subseteq Nat
      /\ \A k \in Printing({p}) : 1 <= k /\ k <= tokens.minted
  <2>1. CASE procs[p].pc = "print"
    <3>1. procs[p].token \in Nat
      BY <2>1, Started DEF Proc
    <3>2. Printing({p}) = {procs[p].token}
      BY <2>1, PrintingAfter
    <3> QED
      BY <2>1, <3>1, <3>2 DEF BearerInv
  <2>2. CASE procs[p].pc # "print"
    <3>1. Printing({p}) = {}
      BY <2>2, PrintingAfter
    <3> QED
      BY <3>1
  <2> QED
    BY <2>1, <2>2
<1>3. /\ tokens' \in [minted : Nat, shown : SUBSET Nat, unseen : SUBSET Nat]
      /\ tokens'.minted = tokens.minted
      /\ tokens'.shown \cup tokens'.unseen = (tokens.shown \cup tokens.unseen) \cup Printing({p})
  <2>1. CASE tokens' = tokens /\ procs[p].pc # "print"
    <3>1. Printing({p}) = {}
      BY <2>1, PrintingAfter
    <3> QED
      BY <1>1, <2>1, <3>1
  <2>2. CASE tokens' = [tokens EXCEPT !.unseen = @ \cup Printing({p})]
    BY <1>1, <1>2, <2>2
  <2>3. CASE /\ tokens' = [tokens EXCEPT !.shown = @ \cup {procs[p].token}]
             /\ procs[p].pc = "print"
    <3>1. Printing({p}) = {procs[p].token}
      BY <2>3, PrintingAfter
    <3> QED
      BY <1>1, <1>2, <2>3, <3>1
  <2> QED
    BY <2>1, <2>2, <2>3
<1>4. LiveBearerShown'
  BY <1>3, PrintingAfter DEF BearerInv, LiveBearerShown
<1> QED
  BY <1>2, <1>3, <1>4, PrintingAfter DEF BearerInv

\* A process reads, decides, or ends, and nothing but its own state changes.
LEMMA QuietStep ==
    ASSUME IInv, NEW p \in Process, NEW new, Becomes(p, new),
           UNCHANGED <<keyFile, keys, tableVars, tokens>>,
           starts' \in 0 .. MaxStarts, faults' \in 0 .. MaxFaults,
           procs[p].pc # "print", new.pc # "print", new.pc # "allowlist",
           new.pc \notin Creating,
           new.pc \in Opening => new.key = 0,
           new.pc \in Keyed =>
              \/ procs[p].pc \in Keyed /\ new.key = procs[p].key
              \/ new.key = keyFile.material /\ keyFile.material # 0,
           new.pc # "off" => Reached(new.seen),
           ListOK(new)
    PROVE  IInv'
<1>1. KeyInv' /\ SchemaInv' /\ ListInv'
  BY KeySame, SchemaSame, ListSame DEF IInv, tableVars
<1>2. BearerInv'
  BY BearerSame DEF IInv, tableVars
<1>3. Types'
  BY DEF IInv, Types, tableVars, Becomes
<1> QED
  BY <1>1, <1>2, <1>3 DEF IInv

\* A process that ends leaves everything else as it is.
LEMMA EndQuiet ==
    ASSUME IInv, NEW p \in Process, End(p), procs[p].pc # "print",
           UNCHANGED <<keyFile, keys, tableVars, tokens, starts>>, faults' \in 0 .. MaxFaults
    PROVE  IInv'
<1>1. Becomes(p, Off)
  BY Ended DEF IInv
<1>2. Off.pc \notin Opening \cup Keyed
  BY OffFacts DEF Opening, Keyed, Creating, Listed
<1>3. ListOK(Off)
  BY <1>2, OffFacts DEF ListOK, Keyed, Listed
<1>4. starts \in 0 .. MaxStarts
  BY DEF IInv, Types
<1> QED
  BY <1>1, <1>2, <1>3, <1>4, OffFacts, QuietStep DEF Opening

-----------------------------------------------------------------------------
(* LoadOrCreateKey.                                                        *)

FileType == [exists : BOOLEAN, material : Nat, synced : BOOLEAN, named : BOOLEAN]
KeysType == [minted : Nat, returned : SUBSET Nat, sealed : SUBSET Nat, lost : SUBSET Nat]

\* The contents of the key file go before a key was returned.
LEMMA LoseKeeps ==
    ASSUME Types, FileInv, NEW file \in FileType, file.material = 0,
           keys.returned = {}, Lose(file)
    PROVE  /\ FileInv' /\ keyFile' = file /\ keys' \in KeysType
           /\ keys'.minted = keys.minted
           /\ \A k : 1 <= k /\ (k = keyFile.material \/ k \in keys.lost) => k \in keys'.lost
<1>1. keyFile \in FileType /\ keys \in KeysType /\ keyFile' = file
  BY DEF Types, FileType, KeysType, Lose
<1>2. CASE keyFile.material = 0
  <2>1. keys' = keys
    BY <1>2 DEF Lose
  <2>2. FileInv'
    BY <1>1, <1>2, <2>1 DEF FileInv, FileType, KeysType
  <2> QED
    BY <1>1, <1>2, <2>1, <2>2
<1>3. CASE keyFile.material # 0
  <2>1. keys' = [keys EXCEPT !.lost = @ \cup {keyFile.material}]
    BY <1>3 DEF Lose
  <2>2. /\ keys' \in KeysType /\ keys'.minted = keys.minted
        /\ keys'.lost = keys.lost \cup {keyFile.material}
        /\ keys'.returned = keys.returned /\ keys'.sealed = keys.sealed
    BY <1>1, <2>1 DEF FileType, KeysType
  <2>3. FileInv'
    BY <1>1, <1>3, <2>2 DEF FileInv, FileType, KeysType
  <2> QED
    BY <1>1, <2>2, <2>3
<1> QED
  BY <1>2, <1>3

\* While the file is being created no key has been returned.
LEMMA CreatorFacts ==
    ASSUME Types, KeyInv, NEW p \in Process, procs[p].pc \in Creating
    PROVE  /\ keys.returned = {} /\ keyFile.exists /\ ~keyFile.named
           /\ \A q \in Process : q # p => procs[q].pc \notin Creating
BY DEF KeyInv, FileInv, CreatorInv

\* The other parts, when the creator goes on or gives up.
LEMMA CreatorStep ==
    ASSUME IInv, NEW p \in Process, procs[p].pc \in Opening, NEW new, Becomes(p, new),
           new.pc \in Creating \cup {"off"},
           new.pc # "off" => new.seen = procs[p].seen,
           UNCHANGED <<tableVars, tokens, starts>>, faults' \in 0 .. MaxFaults,
           keyFile' \in FileType, keys' \in KeysType, KeyInv'
    PROVE  IInv'
<1>1. /\ new.pc \notin Keyed /\ new.pc # "print" /\ new.pc # "allowlist"
      /\ procs[p].pc # "print" /\ ListOK(new)
  BY DEF Creating, Opening, Keyed, Listed, ListOK
<1>2. SchemaInv' /\ ListInv'
  <2>1. procs[p].pc # "off" => Reached(procs[p].seen)
    BY DEF IInv, SchemaInv
  <2>2. procs[p].pc # "off"
    BY DEF Opening, Creating
  <2> QED
    BY <1>1, <2>1, <2>2, SchemaSame, ListSame DEF IInv, tableVars
<1>3. BearerInv'
  BY <1>1, BearerSame DEF IInv, tableVars
<1>4. Types'
  BY DEF IInv, Types, tableVars, Becomes, FileType, KeysType
<1> QED
  BY <1>2, <1>3, <1>4 DEF IInv

LEMMA FaultTyped ==
    ASSUME Types
    PROVE  /\ Fault => faults' \in 0 .. MaxFaults
           /\ UNCHANGED faults => faults' \in 0 .. MaxFaults
BY DataDirAssumption DEF Fault, Types

LEMMA CreateKeyStep ==
    ASSUME IInv, NEW p \in Process, CreateKey(p)
    PROVE  IInv'
<1>1. /\ procs[p].pc = "create"
      /\ UNCHANGED <<keys, tableVars, tokens, starts, faults>>
  BY DEF CreateKey, At
<1>2. Types /\ KeyInv /\ faults' \in 0 .. MaxFaults /\ starts' \in 0 .. MaxStarts
  BY <1>1 DEF IInv, Types
<1>3. CASE ~keyFile.exists /\ keyFile' = [NoFile EXCEPT !.exists = TRUE] /\ Goto(p, "write")
  <2>1. PICK new \in Proc : /\ Becomes(p, new) /\ new.pc = "write"
                            /\ new.key = procs[p].key /\ new.seen = procs[p].seen
    BY <1>1, <1>2, <1>3, Moved DEF Opening, Creating
  <2>2. /\ keyFile' \in FileType /\ keyFile'.exists /\ keyFile'.material = 0
        /\ ~keyFile'.named /\ ~keyFile'.synced
    BY <1>3 DEF NoFile, FileType
  <2>3. keyFile.material = 0 /\ keys \in KeysType
    BY <1>2, <1>3 DEF KeyInv, FileInv, Types, KeysType
  <2>4. FileInv'
    BY <1>1, <1>2, <2>2, <2>3 DEF KeyInv, FileInv, KeysType
  <2>5. CreatorInv'
    BY <1>2, <1>3, <2>1, <2>2 DEF KeyInv, CreatorInv, Becomes, Creating
  <2>6. UserInv'
    BY <1>1, <1>2, <2>1, <2>2, <2>3 DEF KeyInv, UserInv, Becomes, Opening, Creating, Keyed, Listed
  <2> QED
    BY <1>1, <1>2, <2>1, <2>2, <2>3, <2>4, <2>5, <2>6, CreatorStep
    DEF KeyInv, Opening, Creating
<1>4. CASE keyFile.exists /\ UNCHANGED keyFile /\ Goto(p, "await")
  <2>1. PICK new \in Proc : /\ Becomes(p, new) /\ new.pc = "await"
                            /\ new.key = procs[p].key /\ new.seen = procs[p].seen
    BY <1>1, <1>2, <1>4, Moved DEF Opening
  <2>2. new.key = 0
    BY <1>1, <1>2, <2>1 DEF KeyInv, UserInv, Opening
  <2>3. ListOK(new)
    BY <2>1 DEF ListOK, Listed
  <2>4. Reached(new.seen)
    BY <1>1, <2>1 DEF IInv, SchemaInv
  <2> QED
    BY <1>1, <1>2, <1>4, <2>1, <2>2, <2>3, <2>4, QuietStep DEF Creating, Keyed, Listed
<1> QED
  BY <1>3, <1>4 DEF CreateKey

\* The creator's file could not be written or synced and is removed.
LEMMA RemoveKey ==
    ASSUME IInv, NEW p \in Process, procs[p].pc \in Creating, Fault, Lose(NoFile), End(p),
           UNCHANGED <<tableVars, tokens, starts>>
    PROVE  IInv'
<1>2. Types /\ KeyInv /\ keys \in KeysType /\ keyFile \in FileType
  BY DEF IInv, Types, FileType, KeysType
<1>3. /\ keys.returned = {}
      /\ \A q \in Process : q # p => procs[q].pc \notin Creating
  BY <1>2, CreatorFacts
<1>4. Becomes(p, Off)
  BY <1>2, Ended
<1>5. NoFile \in FileType /\ NoFile.material = 0
  BY DEF NoFile, FileType
<1>6. /\ FileInv' /\ keyFile' = NoFile /\ keys' \in KeysType
      /\ keys'.minted = keys.minted
      /\ \A k : 1 <= k /\ (k = keyFile.material \/ k \in keys.lost) => k \in keys'.lost
  BY <1>2, <1>3, <1>5, LoseKeeps DEF KeyInv
<1>7. CreatorInv'
  BY <1>3, <1>4, OffFacts DEF CreatorInv, Becomes, Creating
<1>8. UserInv'
  BY <1>2, <1>4, <1>6, OffFacts
  DEF KeyInv, UserInv, Becomes, Opening, Creating, Keyed, Listed
<1> QED
  BY <1>2, <1>4, <1>5, <1>6, <1>7, <1>8, OffFacts, CreatorStep, FaultTyped
  DEF KeyInv, Opening, Creating

LEMMA WriteKeyStep ==
    ASSUME IInv, NEW p \in Process, WriteKey(p)
    PROVE  IInv'
<1>1. procs[p].pc = "write" /\ UNCHANGED <<tableVars, tokens, starts>>
  BY DEF WriteKey, At
<1>2. Types /\ KeyInv /\ keys \in KeysType /\ keyFile \in FileType
  BY DEF IInv, Types, FileType, KeysType
<1>3. keyFile.material = 0 /\ keyFile.exists /\ ~keyFile.named /\ keys.returned = {}
      /\ \A q \in Process : q # p => procs[q].pc \notin Creating
  BY <1>1, <1>2, CreatorFacts DEF KeyInv, CreatorInv, Creating
<1>4. CASE /\ keyFile' = [keyFile EXCEPT !.material = keys.minted + 1]
           /\ keys' = [keys EXCEPT !.minted = @ + 1]
           /\ Goto(p, "sync") /\ UNCHANGED faults
  <2>1. PICK new \in Proc : /\ Becomes(p, new) /\ new.pc = "sync"
                            /\ new.key = procs[p].key /\ new.seen = procs[p].seen
    BY <1>1, <1>2, <1>4, Moved DEF Opening, Creating
  <2>2. /\ keyFile' \in FileType /\ keyFile'.exists /\ keyFile'.material = keys.minted + 1
        /\ ~keyFile'.named
    BY <1>2, <1>3, <1>4 DEF FileType, KeysType
  <2>3. /\ keys' \in KeysType /\ keys'.minted = keys.minted + 1 /\ keys'.lost = keys.lost
        /\ keys'.returned = keys.returned /\ keys'.sealed = keys.sealed
    BY <1>2, <1>4 DEF KeysType
  <2>4. FileInv'
    BY <1>2, <1>3, <2>2, <2>3 DEF KeyInv, FileInv, KeysType
  <2>5. CreatorInv'
    BY <1>2, <1>3, <2>1, <2>2 DEF CreatorInv, Becomes, KeysType
  <2>6. UserInv'
    <3>1. new.key = 0
      BY <1>1, <1>2, <2>1 DEF KeyInv, UserInv, Opening, Creating
    <3>2. keys.minted \in Nat /\ keys'.minted \in Nat /\ keys.minted <= keys'.minted
      BY <1>2, <2>3 DEF KeysType
    <3>3. \A k \in Nat : 1 <= k /\ (k = keyFile.material \/ k \in keys.lost)
                         => k = keyFile'.material \/ k \in keys'.lost
      BY <1>3, <2>3
    <3>4. new.pc \notin Keyed
      BY <2>1 DEF Keyed, Listed
    <3> QED
      BY <1>2, <2>1, <3>1, <3>2, <3>3, <3>4, UserSame DEF KeyInv
  <2> QED
    BY <1>1, <1>2, <1>4, <2>1, <2>2, <2>3, <2>4, <2>5, <2>6, CreatorStep, FaultTyped
    DEF KeyInv, Opening, Creating
<1>5. CASE Fault /\ Lose(NoFile) /\ End(p)
  BY <1>1, <1>5, RemoveKey DEF Creating
<1> QED
  BY <1>4, <1>5 DEF WriteKey

LEMMA SyncFileStep ==
    ASSUME IInv, NEW p \in Process, SyncFile(p)
    PROVE  IInv'
<1>1. procs[p].pc = "sync" /\ UNCHANGED <<tableVars, tokens, starts>>
  BY DEF SyncFile, At
<1>2. Types /\ KeyInv /\ keys \in KeysType /\ keyFile \in FileType
  BY DEF IInv, Types, FileType, KeysType
<1>3. keyFile.material # 0 /\ keyFile.exists /\ ~keyFile.named /\ keys.returned = {}
      /\ \A q \in Process : q # p => procs[q].pc \notin Creating
  BY <1>1, <1>2, CreatorFacts DEF KeyInv, CreatorInv, Creating
<1>4. CASE /\ keyFile' = [keyFile EXCEPT !.synced = TRUE]
           /\ Goto(p, "syncdir") /\ UNCHANGED <<keys, faults>>
  <2>1. PICK new \in Proc : /\ Becomes(p, new) /\ new.pc = "syncdir"
                            /\ new.key = procs[p].key /\ new.seen = procs[p].seen
    BY <1>1, <1>2, <1>4, Moved DEF Opening, Creating
  <2>2. /\ keyFile' \in FileType /\ keyFile'.exists /\ keyFile'.material = keyFile.material
        /\ ~keyFile'.named /\ keyFile'.synced
    BY <1>2, <1>3, <1>4 DEF FileType
  <2>3. FileInv'
    BY <1>2, <1>3, <1>4, <2>2 DEF KeyInv, FileInv
  <2>4. CreatorInv'
    BY <1>3, <2>1, <2>2 DEF CreatorInv, Becomes
  <2>5. UserInv'
    BY <1>1, <1>2, <1>4, <2>1, <2>2
    DEF KeyInv, UserInv, Becomes, Opening, Creating, Keyed, Listed
  <2> QED
    BY <1>1, <1>2, <1>4, <2>1, <2>2, <2>3, <2>4, <2>5, CreatorStep, FaultTyped
    DEF KeyInv, Opening, Creating
<1>5. CASE Fault /\ Lose(NoFile) /\ End(p)
  BY <1>1, <1>5, RemoveKey DEF Creating
<1> QED
  BY <1>4, <1>5 DEF SyncFile

LEMMA SyncDirStep ==
    ASSUME IInv, NEW p \in Process, SyncDir(p)
    PROVE  IInv'
<1>1. procs[p].pc = "syncdir" /\ UNCHANGED <<tableVars, tokens, starts>>
  BY DEF SyncDir, At
<1>2. Types /\ KeyInv /\ keys \in KeysType /\ keyFile \in FileType
  BY DEF IInv, Types, FileType, KeysType
<1>3. /\ keyFile.material # 0 /\ keyFile.exists /\ keyFile.synced /\ keys.returned = {}
      /\ \A q \in Process : q # p => procs[q].pc \notin Creating
  BY <1>1, <1>2, CreatorFacts DEF KeyInv, CreatorInv, Creating
<1>4. CASE /\ keyFile' = [keyFile EXCEPT !.named = TRUE]
           /\ keys' = [keys EXCEPT !.returned = @ \cup {keyFile.material}]
           /\ UseKey(p, keyFile.material) /\ UNCHANGED faults
  <2>1. PICK new \in Proc : /\ Becomes(p, new) /\ new.pc = "version"
                            /\ new.key = keyFile.material /\ new.seen = procs[p].seen
    BY <1>1, <1>2, <1>4, KeyTaken
  <2>2. /\ keyFile' \in FileType /\ keyFile'.exists /\ keyFile'.material = keyFile.material
        /\ keyFile'.named /\ keyFile'.synced
    BY <1>2, <1>3, <1>4 DEF FileType
  <2>3. /\ keys' \in KeysType /\ keys'.minted = keys.minted /\ keys'.lost = keys.lost
        /\ keys'.returned = {keyFile.material} /\ keys'.sealed = keys.sealed
    BY <1>2, <1>3, <1>4 DEF KeysType, FileType
  <2>4. FileInv'
    BY <1>2, <1>3, <2>2, <2>3 DEF KeyInv, FileInv, FileType, KeysType
  <2>5. CreatorInv'
    BY <1>3, <2>1, <2>2 DEF CreatorInv, Becomes, Creating
  <2>6. UserInv'
    <3>1. keys.minted \in Nat /\ keyFile.material \in Nat
      BY <1>2 DEF KeysType, FileType
    <3>2. 1 <= new.key /\ new.key <= keys'.minted
      BY <1>2, <1>3, <2>1, <2>3, <3>1 DEF KeyInv, FileInv
    <3>3. new.pc \notin Opening
      BY <2>1 DEF Opening, Creating
    <3> QED
      BY <1>2, <2>1, <2>2, <2>3, <3>1, <3>2, <3>3, UserSame DEF KeyInv
  <2>7. SchemaInv' /\ ListInv'
    <3>1. Reached(new.seen)
      BY <1>1, <2>1 DEF IInv, SchemaInv
    <3>2. ListOK(new)
      BY <2>1 DEF ListOK, Listed
    <3> QED
      BY <1>1, <2>1, <3>1, <3>2, SchemaSame, ListSame DEF IInv, tableVars
  <2>8. BearerInv'
    BY <1>1, <2>1, BearerSame DEF IInv, tableVars
  <2>9. Types'
    BY <1>1, <1>4, <2>1, <2>2, <2>3 DEF IInv, Types, tableVars, Becomes, FileType, KeysType
  <2> QED
    BY <2>4, <2>5, <2>6, <2>7, <2>8, <2>9 DEF IInv, KeyInv
<1>5. CASE Fault /\ End(p) /\ UNCHANGED <<keyFile, keys>>
  BY <1>1, <1>2, <1>5, EndQuiet, FaultTyped
<1> QED
  BY <1>4, <1>5 DEF SyncDir

\* A process takes the key that is in the file.
LEMMA TakeKey ==
    ASSUME IInv, NEW p \in Process, procs[p].pc \in Opening, keyFile.material # 0,
           UseKey(p, keyFile.material),
           UNCHANGED <<keyFile, keys, tableVars, tokens, starts, faults>>
    PROVE  IInv'
<1>1. Types /\ KeyInv /\ procs[p].pc # "off" /\ procs[p].pc # "print"
  BY DEF IInv, Opening, Creating
<1>2. PICK new \in Proc :
         /\ Becomes(p, new) /\ new.pc = "version"
         /\ new.key = keyFile.material /\ new.seen = procs[p].seen
  BY <1>1, KeyTaken
<1>3. Reached(new.seen)
  BY <1>1, <1>2 DEF IInv, SchemaInv
<1>4. ListOK(new) /\ new.pc \notin Opening /\ new.pc \notin Creating
  BY <1>2 DEF ListOK, Listed, Opening, Creating
<1>5. starts' \in 0 .. MaxStarts /\ faults' \in 0 .. MaxFaults
  BY <1>1 DEF Types
<1> QED
  BY <1>1, <1>2, <1>3, <1>4, <1>5, QuietStep

LEMMA ReadKeyStep ==
    ASSUME IInv, NEW p \in Process, ReadKey(p)
    PROVE  IInv'
<1>1. procs[p].pc = "key" /\ UNCHANGED <<keyFile, keys, tableVars, tokens, starts, faults>>
  BY DEF ReadKey, At
<1>2. Types /\ KeyInv /\ starts' \in 0 .. MaxStarts /\ faults' \in 0 .. MaxFaults
  BY <1>1 DEF IInv, Types
<1>3. CASE keyFile.material # 0 /\ UseKey(p, keyFile.material)
  BY <1>1, <1>3, TakeKey DEF Opening
<1>4. ASSUME NEW pc \in {"await", "create"}, Goto(p, pc)
      PROVE  IInv'
  <2>1. PICK new \in Proc :
           /\ Becomes(p, new) /\ new.pc = pc
           /\ new.key = procs[p].key /\ new.seen = procs[p].seen
    BY <1>1, <1>2, <1>4, Moved DEF Opening
  <2>2. new.key = 0
    BY <1>1, <1>2, <2>1 DEF KeyInv, UserInv, Opening
  <2>3. ListOK(new) /\ new.pc \notin Creating \cup Keyed
    BY <2>1 DEF ListOK, Keyed, Listed, Creating
  <2>4. Reached(new.seen)
    BY <1>1, <2>1 DEF IInv, SchemaInv
  <2> QED
    BY <1>1, <1>2, <2>1, <2>2, <2>3, <2>4, QuietStep
<1> QED
  BY <1>3, <1>4 DEF ReadKey

LEMMA AwaitKeyStep ==
    ASSUME IInv, NEW p \in Process, AwaitKey(p)
    PROVE  IInv'
<1>1. procs[p].pc = "await" /\ UNCHANGED <<keyFile, keys, tableVars, tokens, starts, faults>>
  BY DEF AwaitKey, At
<1>2. faults' \in 0 .. MaxFaults
  BY <1>1 DEF IInv, Types
<1>3. CASE keyFile.material # 0
  BY <1>1, <1>3, TakeKey DEF AwaitKey, Opening
<1>4. CASE keyFile.material = 0
  BY <1>1, <1>2, <1>4, EndQuiet DEF AwaitKey
<1> QED
  BY <1>3, <1>4

-----------------------------------------------------------------------------
(* Processes coming and going.                                             *)

LEMMA StartStep ==
    ASSUME IInv, NEW p \in Process, NEW cmd \in Commands, Start(p, cmd)
    PROVE  IInv'
<1> DEFINE new == [pc |-> "key", cmd |-> cmd, key |-> 0, seen |-> 0,
                   project |-> None, allow |-> Empty, token |-> 0]
<1>1. /\ procs[p].pc = "off" /\ procs' = [procs EXCEPT ![p] = new]
      /\ UNCHANGED <<keyFile, keys, tableVars, tokens, faults>>
  BY DEF Start, At
<1>2. starts' \in 0 .. MaxStarts /\ faults' \in 0 .. MaxFaults
  BY DataDirAssumption DEF Start, IInv, Types
<1>3. /\ new \in Proc /\ new.pc = "key" /\ new.key = 0 /\ new.seen = 0
  BY DEF Proc, Opening, Lists
<1> HIDE DEF new
<1>4. Becomes(p, new)
  BY <1>1, <1>3, Replaced DEF IInv
<1>5. ListOK(new) /\ new.pc \notin Creating \cup Keyed
  BY <1>3 DEF ListOK, Keyed, Listed, Creating
<1>6. Reached(new.seen)
  BY <1>3, DataDirAssumption DEF Reached
<1> QED
  BY <1>1, <1>2, <1>3, <1>4, <1>5, <1>6, QuietStep

LEMMA KillStep ==
    ASSUME IInv, NEW p \in Process, Kill(p)
    PROVE  IInv'
<1>1. /\ Becomes(p, Off) /\ UNCHANGED <<keyFile, keys, tableVars, starts, faults>>
      /\ tokens' = [tokens EXCEPT !.unseen = @ \cup Printing({p})]
  BY Ended DEF Kill, IInv, Forgotten
<1>2. Off.pc \notin Opening \cup Keyed /\ Off.pc \notin Creating
  BY OffFacts DEF Opening, Keyed, Creating, Listed
<1>3. ListOK(Off)
  BY <1>2, OffFacts DEF ListOK, Keyed, Listed
<1>4. KeyInv' /\ SchemaInv' /\ ListInv'
  BY <1>1, <1>2, <1>3, OffFacts, KeySame, SchemaSame, ListSame DEF IInv, tableVars
<1>5. BearerInv' /\ tokens' \in [minted : Nat, shown : SUBSET Nat, unseen : SUBSET Nat]
  BY <1>1, OffFacts, BearerSame DEF IInv, tableVars
<1>6. Types'
  BY <1>1, <1>5 DEF IInv, Types, tableVars, Becomes
<1> QED
  BY <1>4, <1>5, <1>6 DEF IInv

\* A file that is not both named and synced was not returned.
LEMMA PowerLossFile ==
    ASSUME Types, FileInv,
           \/ UNCHANGED <<keyFile, keys>>
           \/ ~keyFile.named /\ Lose(NoFile)
           \/ ~keyFile.synced /\ Lose([keyFile EXCEPT !.material = 0])
    PROVE  FileInv' /\ keyFile' \in FileType /\ keys' \in KeysType
<1>1. keys \in KeysType /\ keyFile \in FileType
  BY DEF Types, FileType, KeysType
<1>2. CASE UNCHANGED <<keyFile, keys>>
  BY <1>1, <1>2 DEF FileInv
<1>3. CASE ~keyFile.named /\ Lose(NoFile)
  <2>1. NoFile \in FileType /\ NoFile.material = 0
    BY DEF NoFile, FileType
  <2>2. keys.returned = {}
    BY <1>3 DEF FileInv
  <2> QED
    BY <1>3, <2>1, <2>2, LoseKeeps
<1>4. CASE ~keyFile.synced /\ Lose([keyFile EXCEPT !.material = 0])
  <2> DEFINE file == [keyFile EXCEPT !.material = 0]
  <2>1. file \in FileType /\ file.material = 0
    BY <1>1 DEF FileType
  <2>2. keys.returned = {}
    BY <1>4 DEF FileInv
  <2> HIDE DEF file
  <2>3. Lose(file)
    BY <1>4 DEF file
  <2> QED
    BY <2>1, <2>2, <2>3, LoseKeeps
<1> QED
  BY <1>2, <1>3, <1>4

LEMMA PowerLossStep ==
    ASSUME IInv, PowerLoss
    PROVE  IInv'
<1>1. /\ procs' = [p \in Process |-> Off] /\ UNCHANGED <<tableVars, starts>>
      /\ tokens' = [tokens EXCEPT !.unseen = @ \cup Printing(Process)]
  BY DEF PowerLoss, Forgotten
<1>2. FileInv' /\ keyFile' \in FileType /\ keys' \in KeysType
  BY PowerLossFile DEF PowerLoss, IInv, KeyInv
<1>3. \A p \in Process : procs'[p] = Off
  BY <1>1
<1>4. /\ Off.pc = "off" /\ Off.pc \notin Opening \cup Keyed /\ Off.pc \notin Creating
      /\ Off.pc \notin Listed
  BY OffFacts DEF Opening, Keyed, Creating, Listed
<1>5. KeyInv'
  BY <1>2, <1>3, <1>4 DEF KeyInv, CreatorInv, UserInv
<1>6. SchemaInv'
  BY <1>1, <1>3, <1>4 DEF IInv, SchemaInv, RanInOrder, Reached, Applied, Ran, tableVars
<1>7. ListInv'
  <2>1. \A p \in Process : procs'[p].pc = "off" /\ procs'[p].pc \notin Listed
    BY <1>3, <1>4
  <2> QED
    BY <2>1 DEF ListInv, ListOK
<1>8. /\ tokens' \in [minted : Nat, shown : SUBSET Nat, unseen : SUBSET Nat]
      /\ tokens'.minted = tokens.minted
      /\ tokens'.shown \cup tokens'.unseen
            = (tokens.shown \cup tokens.unseen) \cup Printing(Process)
      /\ \A k \in Printing(Process) : 1 <= k /\ k <= tokens.minted
  <2>1. tokens \in [minted : Nat, shown : SUBSET Nat, unseen : SUBSET Nat]
    BY DEF IInv, Types
  <2>2. \A p \in Process : procs[p].pc = "print" => procs[p].token \in Nat
    BY Started DEF IInv, Proc
  <2>3. Printing(Process) \subseteq Nat
    BY <2>2 DEF Printing, At
  <2>4. \A k \in Printing(Process) : 1 <= k /\ k <= tokens.minted
    BY DEF IInv, BearerInv, Printing, At
  <2> QED
    BY <1>1, <2>1, <2>3, <2>4
<1>9. BearerInv'
  <2>1. LiveBearerShown'
    BY <1>1, <1>8 DEF IInv, BearerInv, LiveBearerShown, tableVars
  <2> QED
    BY <1>3, <1>4, <1>8, <2>1 DEF IInv, BearerInv
<1>10. Types'
  <2>1. procs' \in [Process -> Proc \cup {Off}]
    BY <1>1
  <2>2. faults' \in 0 .. MaxFaults
    BY FaultTyped DEF IInv, PowerLoss
  <2> QED
    BY <1>1, <1>2, <1>8, <2>1, <2>2 DEF IInv, Types, tableVars, FileType, KeysType
<1> QED
  BY <1>5, <1>6, <1>7, <1>9, <1>10 DEF IInv

-----------------------------------------------------------------------------
(* store.Open.                                                             *)

\* A process that has its key goes on.
LEMMA KeyedStep ==
    ASSUME IInv, NEW p \in Process, procs[p].pc \in Keyed \ {"print"},
           NEW new \in Proc, Becomes(p, new), new.pc \in Keyed \ {"print", "allowlist"},
           new.key = procs[p].key, Reached(new.seen), ListOK(new),
           UNCHANGED <<keyFile, keys, tableVars, tokens, starts, faults>>
    PROVE  IInv'
<1>1. starts' \in 0 .. MaxStarts /\ faults' \in 0 .. MaxFaults
  BY DEF IInv, Types
<1>2. new.pc \notin Opening /\ new.pc \notin Creating
  BY DEF Opening, Creating, Keyed, Listed
<1> QED
  BY <1>1, <1>2, QuietStep

LEMMA ReadVersionStep ==
    ASSUME IInv, NEW p \in Process, ReadVersion(p)
    PROVE  IInv'
<1> DEFINE new == [procs[p] EXCEPT !.pc = "migrate", !.seen = schema.version]
<1>1. /\ procs[p].pc = "version" /\ procs' = [procs EXCEPT ![p] = new]
      /\ UNCHANGED <<keyFile, keys, tableVars, tokens, starts, faults>>
  BY DEF ReadVersion, At
<1>2. procs[p] \in Proc /\ schema.version \in Nat
  BY <1>1, Started DEF IInv, Types
<1>3. /\ new \in Proc /\ new.pc = "migrate" /\ new.key = procs[p].key
      /\ new.seen = schema.version
  BY <1>2 DEF Proc, Keyed
<1> HIDE DEF new
<1>4. Becomes(p, new)
  BY <1>1, <1>3, Replaced DEF IInv
<1>5. ListOK(new)
  BY <1>3 DEF ListOK, Listed
<1>6. Reached(new.seen)
  BY <1>3 DEF IInv, SchemaInv
<1> QED
  BY <1>1, <1>3, <1>4, <1>5, <1>6, KeyedStep DEF Keyed

\* A migration runs only after those before it, and again only if it can.
LEMMA MigrationRan ==
    ASSUME Types, RanInOrder, NEW i \in Nat, 1 .. i - 1 \subseteq Applied,
           i \notin Applied \ Rebuilding,
           schema' = [version |-> i, applied |-> Append(schema.applied, i)]
    PROVE  /\ schema' \in [version : Nat, applied : Seq(Nat)] /\ schema'.version = i
           /\ Applied' = Applied \cup {i}
           /\ RanInOrder'
<1> DEFINE n == Len(schema.applied)
<1>1. schema.applied \in Seq(Nat) /\ n \in Nat
  BY DEF Types
<1>2. /\ schema'.version = i /\ schema'.applied \in Seq(Nat)
      /\ schema' \in [version : Nat, applied : Seq(Nat)]
      /\ Len(schema'.applied) = n + 1 /\ schema'.applied[n + 1] = i
      /\ \A k \in 1 .. n : schema'.applied[k] = schema.applied[k]
  BY <1>1
<1> HIDE DEF n
<1>3. \A k \in 0 .. n : Ran(k)' = Ran(k)
  BY <1>1, <1>2 DEF Ran
<1>4. Applied = Ran(n)
  BY DEF Applied, n
<1>5. Applied' = Applied \cup {i}
  <2>1. Applied' = {schema'.applied[k] : k \in 1 .. n + 1}
    BY <1>2 DEF Applied, Ran
  <2>2. Applied = {schema'.applied[k] : k \in 1 .. n}
    BY <1>2, <1>4 DEF Ran
  <2>3. 1 .. n + 1 = (1 .. n) \cup {n + 1}
    BY <1>1
  <2>4. schema'.applied[n + 1] = i
    BY <1>2
  <2> QED
    BY <2>1, <2>2, <2>3, <2>4, Zenon
<1>6. RanInOrder'
  <2> SUFFICES ASSUME NEW k \in 1 .. n + 1
               PROVE  /\ 1 .. schema'.applied[k] - 1 \subseteq Ran(k - 1)'
                      /\ schema'.applied[k] \in Ran(k - 1)' => schema'.applied[k] \in Rebuilding
    BY <1>2 DEF RanInOrder
  <2>1. k - 1 \in 0 .. n /\ Ran(k - 1)' = Ran(k - 1)
    BY <1>1, <1>3
  <2>2. CASE k = n + 1
    BY <1>1, <1>2, <1>4, <2>1, <2>2
  <2>3. CASE k \in 1 .. n
    <3>1. k \in DOMAIN schema.applied
      BY <1>1, <2>3 DEF n
    <3> QED
      BY <1>2, <2>1, <2>3, <3>1 DEF RanInOrder
  <2>4. k = n + 1 \/ k \in 1 .. n
    BY <1>1
  <2> QED
    BY <2>2, <2>3, <2>4
<1> QED
  BY <1>2, <1>5, <1>6

LEMMA MigrateStep ==
    ASSUME IInv, NEW p \in Process, Migrate(p)
    PROVE  IInv'
<1>1. /\ procs[p].pc = "migrate" /\ procs[p].seen < Migrations
      /\ UNCHANGED <<keyFile, keys, projects, bearer, tokens, starts, faults>>
  BY DEF Migrate, Pending, At
<1>2. Types /\ procs[p] \in Proc /\ faults' \in 0 .. MaxFaults
  BY <1>1, Started DEF IInv, Types
<1>3. PICK i \in Nat : i = procs[p].seen + 1
  BY <1>2 DEF Proc
<1>4. CASE i \in Applied \ Rebuilding
  BY <1>1, <1>2, <1>3, <1>4, EndQuiet DEF Migrate, tableVars
<1>5. CASE i \notin Applied \ Rebuilding
  <2> DEFINE new == [procs[p] EXCEPT !.seen = i]
  <2>1. /\ schema' = [version |-> i, applied |-> Append(schema.applied, i)]
        /\ procs' = [procs EXCEPT ![p] = new]
    BY <1>3, <1>5 DEF Migrate, Run
  <2>2. /\ new \in Proc /\ new.pc = "migrate" /\ new.key = procs[p].key
        /\ new.seen = i
    BY <1>1, <1>2 DEF Proc
  <2>3. procs[p].seen \in Nat /\ procs[p].seen = i - 1
    BY <1>2, <1>3 DEF Proc
  <2>4. i <= Migrations /\ Reached(i - 1)
    BY <1>1, <2>3, DataDirAssumption DEF IInv, SchemaInv
  <2> HIDE DEF new
  <2>5. Becomes(p, new)
    BY <1>2, <2>1, <2>2, Replaced
  <2>6. /\ schema' \in [version : Nat, applied : Seq(Nat)] /\ schema'.version = i
        /\ Applied' = Applied \cup {i} /\ RanInOrder'
    BY <1>2, <1>5, <2>1, <2>3, <2>4, MigrationRan DEF IInv, SchemaInv, Reached
  <2>7. SchemaInv'
    <3>1. Reached(i)'
      BY <2>3, <2>4, <2>6 DEF Reached
    <3>2. \A q \in Process : procs'[q].pc # "off" => Reached(procs[q].seen)'
      <4> SUFFICES ASSUME NEW q \in Process, procs'[q].pc # "off"
                   PROVE  Reached(procs[q].seen)'
        OBVIOUS
      <4>1. CASE q = p
        BY <2>2, <2>5, <3>1, <4>1 DEF Becomes, Reached
      <4>2. CASE q # p
        <5>1. procs'[q] = procs[q] /\ Reached(procs[q].seen)
          BY <2>5, <4>2 DEF Becomes, IInv, SchemaInv
        <5> QED
          BY <2>6, <5>1 DEF Reached
      <4> QED
        BY <4>1, <4>2
    <3> QED
      BY <2>6, <3>1, <3>2 DEF SchemaInv, Reached
  <2>8. KeyInv' /\ ListInv'
    <3>1. ListOK(new)
      BY <2>2 DEF ListOK, Listed
    <3>2. new.pc \notin Creating /\ new.pc \notin Opening /\ procs[p].pc \in Keyed
      BY <1>1, <2>2 DEF Opening, Creating, Keyed
    <3>3. KeyInv'
      BY <1>1, <1>2, <2>2, <2>5, <3>2, KeySame DEF IInv
    <3> QED
      BY <1>1, <2>2, <2>5, <3>1, <3>3, ListSame DEF IInv
  <2>9. BearerInv'
    BY <1>1, <1>2, <2>2, <2>5, BearerSame DEF IInv
  <2>10. Types'
    BY <1>1, <1>2, <2>5, <2>6 DEF Types, Becomes
  <2> QED
    BY <2>7, <2>8, <2>9, <2>10 DEF IInv
<1> QED
  BY <1>4, <1>5

-----------------------------------------------------------------------------
(* bootstrap.                                                              *)

LEMMA ListProjectsStep ==
    ASSUME IInv, NEW p \in Process, ListProjects(p)
    PROVE  IInv'
<1>1. /\ procs[p].pc = "migrate"
      /\ UNCHANGED <<keyFile, keys, tableVars, tokens, starts, faults>>
  BY DEF ListProjects, At
<1>2. /\ Types /\ procs[p] \in Proc /\ faults' \in 0 .. MaxFaults
      /\ Reached(procs[p].seen)
  BY <1>1, Started DEF IInv, Types, SchemaInv
<1>3. CASE /\ procs[p].cmd.name # None /\ procs[p].cmd.domains # None
           /\ Goto(p, "project")
  <2>1. PICK new \in Proc :
           /\ Becomes(p, new) /\ new.pc = "project" /\ new.cmd = procs[p].cmd
           /\ new.key = procs[p].key /\ new.seen = procs[p].seen
    BY <1>1, <1>2, <1>3, Moved DEF Keyed
  <2>2. ListOK(new)
    BY <1>3, <2>1 DEF ListOK, Listed
  <2> QED
    BY <1>1, <1>2, <2>1, <2>2, KeyedStep DEF Keyed
<1>4. CASE \E n \in Rows : procs' = [procs EXCEPT ![p].pc = "verify", ![p].project = n]
  <2>1. PICK n \in Rows : procs' = [procs EXCEPT ![p].pc = "verify", ![p].project = n]
    BY <1>4
  <2> DEFINE new == [procs[p] EXCEPT !.pc = "verify", !.project = n]
  <2>2. procs' = [procs EXCEPT ![p] = new]
    BY <2>1
  <2>3. n \in Name /\ projects[n] # None
    BY DEF Rows
  <2>4. /\ new \in Proc /\ new.pc = "verify" /\ new.key = procs[p].key
        /\ new.seen = procs[p].seen /\ new.project = n
    BY <1>2, <2>3 DEF Proc, Keyed
  <2> HIDE DEF new
  <2>5. Becomes(p, new)
    BY <1>2, <2>2, <2>4, Replaced
  <2>6. ListOK(new)
    BY <2>3, <2>4 DEF ListOK, Listed
  <2> QED
    BY <1>1, <1>2, <2>4, <2>5, <2>6, KeyedStep DEF Keyed
<1>5. CASE End(p)
  BY <1>1, <1>2, <1>5, EndQuiet
<1> QED
  BY <1>3, <1>4, <1>5 DEF ListProjects

\* What becomes of the other parts when a process writes a project.
LEMMA ProjectStep ==
    ASSUME IInv, NEW p \in Process, procs[p].pc \in Keyed \ {"print"},
           NEW new \in Proc, Becomes(p, new), new.pc \in Keyed \ {"print"},
           new.key = procs[p].key, new.seen = procs[p].seen,
           NEW n \in Name, NEW list \in Lists, projects' = [projects EXCEPT ![n] = list],
           ListInv',
           UNCHANGED <<keyFile, keys, schema, bearer, tokens, starts, faults>>
    PROVE  IInv'
<1>1. new.pc \notin Creating /\ new.pc \notin Opening /\ procs[p].pc # "off"
  BY DEF Opening, Creating, Keyed, Listed
<1>2. KeyInv'
  BY <1>1, KeySame DEF IInv
<1>3. SchemaInv'
  <2>1. Reached(new.seen)
    BY <1>1 DEF IInv, SchemaInv
  <2> QED
    BY <2>1, SchemaSame DEF IInv
<1>4. BearerInv'
  BY BearerSame DEF IInv
<1>5. Types'
  <2>1. projects' \in [Name -> Lists]
    BY DEF IInv, Types
  <2> QED
    BY <2>1 DEF IInv, Types, Becomes
<1> QED
  BY <1>2, <1>3, <1>4, <1>5 DEF IInv

LEMMA CreateProjectStep ==
    ASSUME IInv, NEW p \in Process, CreateProject(p)
    PROVE  IInv'
<1> DEFINE n == procs[p].cmd.name
<1>1. /\ procs[p].pc = "project"
      /\ UNCHANGED <<keyFile, keys, schema, bearer, tokens, starts, faults>>
  BY DEF CreateProject, At
<1>2. Types /\ procs[p] \in Proc /\ faults' \in 0 .. MaxFaults
  BY <1>1, Started DEF IInv, Types
<1>3. n \in Name /\ procs[p].cmd.domains # None /\ n # None
  <2>1. ListOK(procs[p])
    BY DEF IInv, ListInv
  <2>2. procs[p].cmd \in Commands
    BY <1>2 DEF Proc
  <2> QED
    BY <1>1, <2>1, <2>2, DataDirAssumption DEF ListOK
<1>4. CASE n \in Rows
  BY <1>1, <1>2, <1>4, EndQuiet DEF CreateProject, tableVars
<1>5. CASE n \notin Rows
  <2> DEFINE new == [procs[p] EXCEPT !.pc = "allowlist", !.project = n]
  <2>1. /\ projects' = [projects EXCEPT ![n] = Empty] /\ procs' = [procs EXCEPT ![p] = new]
        /\ projects[n] = None
    BY <1>3, <1>5 DEF CreateProject, Rows
  <2>2. /\ new \in Proc /\ new.pc = "allowlist" /\ new.key = procs[p].key
        /\ new.seen = procs[p].seen /\ new.project = n /\ new.cmd = procs[p].cmd
    BY <1>2, <1>3 DEF Proc, Keyed
  <2> HIDE DEF new
  <2>3. Becomes(p, new)
    BY <1>2, <2>1, <2>2, Replaced
  <2> HIDE DEF n
  <2>4. projects'[n] = Empty /\ \A m \in Name : m # n => projects'[m] = projects[m]
    BY <1>2, <1>3, <2>1 DEF Types
  <2>5. ListInv'
    <3>1. \A q \in Process : procs[q].pc \in {"verify", "allowlist"} \cup Listed
             => procs[q].project \in Name /\ procs[q].project # n
      BY <2>1 DEF IInv, ListInv, ListOK
    <3>2. \A q \in Process : q # p => ListOK(procs[q])'
      <4> SUFFICES ASSUME NEW q \in Process, q # p
                   PROVE  ListOK(procs[q])'
        OBVIOUS
      <4>1. procs'[q] = procs[q] /\ ListOK(procs[q])
        BY <2>3 DEF Becomes, IInv, ListInv
      <4> QED
        BY <2>4, <3>1, <4>1 DEF ListOK
    <3>3. procs'[p] = new
      BY <2>3 DEF Becomes
    <3>4. ListOK(procs[p])'
      <4>1. None # Empty
        BY DataDirAssumption
      <4> QED
        BY <1>3, <2>2, <2>4, <3>3, <4>1 DEF ListOK, Listed, n
    <3>5. \A q \in Process : q # p => procs'[q] = procs[q]
      BY <2>3 DEF Becomes
    <3>6. \A q, r \in Process :
             /\ procs'[q].pc = "allowlist" /\ procs'[r].pc = "allowlist"
             /\ procs'[q].project = procs'[r].project
             => q = r
      BY <2>2, <3>1, <3>3, <3>5 DEF IInv, ListInv
    <3> QED
      BY <3>2, <3>4, <3>6 DEF ListInv
  <2> QED
    BY <1>1, <1>3, <2>1, <2>2, <2>3, <2>5, ProjectStep DEF Keyed, Lists
<1> QED
  BY <1>4, <1>5

LEMMA SetAllowlistStep ==
    ASSUME IInv, NEW p \in Process, SetAllowlist(p)
    PROVE  IInv'
<1> DEFINE n == procs[p].project
           list == procs[p].cmd.domains
<1>1. /\ procs[p].pc = "allowlist"
      /\ UNCHANGED <<keyFile, keys, schema, bearer, tokens, starts, faults>>
  BY DEF SetAllowlist, At
<1>2. Types /\ procs[p] \in Proc /\ faults' \in 0 .. MaxFaults
  BY <1>1, Started DEF IInv, Types
<1>3. n \in Name /\ list # None /\ projects[n] = Empty
  <2>1. ListOK(procs[p])
    BY DEF IInv, ListInv
  <2> QED
    BY <1>1, <2>1 DEF ListOK
<1>4. list \in Lists
  BY <1>2 DEF Proc, Lists
<1>5. CASE list \in Unusable
  BY <1>1, <1>2, <1>5, EndQuiet DEF SetAllowlist, tableVars
<1>6. CASE list \notin Unusable
  <2> DEFINE new == [procs[p] EXCEPT !.pc = "open", !.allow = list]
  <2>1. projects' = [projects EXCEPT ![n] = list] /\ procs' = [procs EXCEPT ![p] = new]
    BY <1>6 DEF SetAllowlist
  <2>2. /\ new \in Proc /\ new.pc = "open" /\ new.key = procs[p].key
        /\ new.seen = procs[p].seen /\ new.project = n /\ new.cmd.domains = list
        /\ new.allow = list
    BY <1>2, <1>4 DEF Proc, Keyed, Listed
  <2> HIDE DEF new
  <2>3. Becomes(p, new)
    BY <1>2, <2>1, <2>2, Replaced
  <2>4. projects'[n] = list /\ \A m \in Name : m # n => projects'[m] = projects[m]
    BY <1>2, <1>3, <2>1 DEF Types
  <2>5. ListInv'
    <3>1. \A q \in Process : q # p => ListOK(procs[q])'
      <4> SUFFICES ASSUME NEW q \in Process, q # p
                   PROVE  ListOK(procs[q])'
        OBVIOUS
      <4>1. procs'[q] = procs[q] /\ ListOK(procs[q])
        BY <2>3 DEF Becomes, IInv, ListInv
      <4>2. ~(procs[q].pc = "allowlist" /\ procs[q].project = n)
        BY <1>1 DEF IInv, ListInv
      <4>3. CASE procs[q].project = n
        BY <1>3, <2>4, <4>1, <4>2, <4>3 DEF ListOK
      <4>4. CASE procs[q].project # n
        BY <2>4, <4>1, <4>4 DEF ListOK
      <4> QED
        BY <4>3, <4>4
    <3>2. procs'[p] = new /\ \A q \in Process : q # p => procs'[q] = procs[q]
      BY <2>3 DEF Becomes
    <3>3. ListOK(procs[p])'
      BY <1>3, <2>2, <2>4, <3>2 DEF ListOK, Listed
    <3>4. \A q, r \in Process :
             /\ procs'[q].pc = "allowlist" /\ procs'[r].pc = "allowlist"
             /\ procs'[q].project = procs'[r].project
             => q = r
      BY <2>2, <3>2 DEF IInv, ListInv
    <3> QED
      BY <3>1, <3>3, <3>4 DEF ListInv
  <2> QED
    BY <1>1, <1>3, <1>4, <2>1, <2>2, <2>3, <2>5, ProjectStep DEF Keyed, Listed
<1> QED
  BY <1>5, <1>6

LEMMA VerifyStep ==
    ASSUME IInv, NEW p \in Process, Verify(p)
    PROVE  IInv'
<1> DEFINE stored == projects[procs[p].project]
<1>1. /\ procs[p].pc = "verify"
      /\ UNCHANGED <<keyFile, keys, tableVars, tokens, starts, faults>>
  BY DEF Verify, At
<1>2. /\ Types /\ procs[p] \in Proc /\ faults' \in 0 .. MaxFaults
      /\ Reached(procs[p].seen)
  BY <1>1, Started DEF IInv, Types, SchemaInv
<1>3. procs[p].project \in Name /\ stored # None /\ stored \in Lists
  <2>1. ListOK(procs[p])
    BY DEF IInv, ListInv
  <2> QED
    BY <1>1, <1>2, <2>1 DEF ListOK, Types
<1>4. CASE procs[p].cmd.domains \in {None, stored}
           /\ procs' = [procs EXCEPT ![p].pc = "open", ![p].allow = stored]
  <2> DEFINE new == [procs[p] EXCEPT !.pc = "open", !.allow = stored]
  <2>1. procs' = [procs EXCEPT ![p] = new]
    BY <1>4
  <2>2. /\ new \in Proc /\ new.pc = "open" /\ new.key = procs[p].key
        /\ new.seen = procs[p].seen /\ new.project = procs[p].project
        /\ new.cmd = procs[p].cmd /\ new.allow = stored
    BY <1>2, <1>3 DEF Proc, Keyed, Listed
  <2> HIDE DEF new
  <2>3. Becomes(p, new)
    BY <1>2, <2>1, <2>2, Replaced
  <2>4. ListOK(new)
    BY <1>3, <1>4, <2>2 DEF ListOK, Listed
  <2> QED
    BY <1>1, <1>2, <2>2, <2>3, <2>4, KeyedStep DEF Keyed, Listed
<1>5. CASE End(p)
  BY <1>1, <1>2, <1>5, EndQuiet
<1> QED
  BY <1>4, <1>5 DEF Verify

-----------------------------------------------------------------------------
(* serve and project bearer.                                               *)

\* A process that runs on its list goes on.
LEMMA ListedStep ==
    ASSUME IInv, NEW p \in Process, procs[p].pc \in Listed \ {"print"},
           NEW pc \in Listed \ {"print"}, Goto(p, pc),
           pc = "serving" => procs[p].allow # Empty,
           UNCHANGED <<keyFile, keys, tableVars, tokens, starts, faults>>
    PROVE  IInv'
<1>1. Types /\ procs[p].pc # "off" /\ procs[p].pc \in Keyed /\ pc \in Keyed
  BY DEF IInv, Keyed, Listed
<1>2. PICK new \in Proc :
         /\ Becomes(p, new) /\ new.pc = pc /\ new.cmd = procs[p].cmd
         /\ new.key = procs[p].key /\ new.seen = procs[p].seen
         /\ new.project = procs[p].project /\ new.allow = procs[p].allow
  BY <1>1, Moved
<1>3. ListOK(procs[p]) /\ Reached(procs[p].seen)
  BY <1>1 DEF IInv, ListInv, SchemaInv
<1>4. ListOK(new) /\ pc # "allowlist"
  BY <1>2, <1>3 DEF ListOK, Listed
<1> QED
  BY <1>1, <1>2, <1>3, <1>4, KeyedStep

LEMMA ServeStep ==
    ASSUME IInv, NEW p \in Process, Serve(p)
    PROVE  IInv'
<1>1. /\ procs[p].pc = "open"
      /\ UNCHANGED <<keyFile, keys, tableVars, tokens, starts, faults>>
  BY DEF Serve, At
<1>2. faults' \in 0 .. MaxFaults
  BY <1>1 DEF IInv, Types
<1>3. CASE procs[p].allow # Empty /\ Goto(p, "serving")
  BY <1>1, <1>3, ListedStep DEF Listed
<1>4. CASE End(p)
  BY <1>1, <1>2, <1>4, EndQuiet
<1> QED
  BY <1>3, <1>4 DEF Serve

LEMMA SealStep ==
    ASSUME IInv, NEW p \in Process, Seal(p)
    PROVE  IInv'
<1>1. /\ procs[p].pc \in Keyed /\ procs[p].pc # "off"
      /\ keys' = [keys EXCEPT !.sealed = @ \cup {procs[p].key}]
      /\ UNCHANGED <<keyFile, tableVars, tokens, procs, starts, faults>>
  BY DEF Seal, At, Keyed, Listed
<1>2. /\ procs[p].key \in Nat /\ 1 <= procs[p].key /\ procs[p].key <= keys.minted
      /\ procs[p].key = keyFile.material \/ procs[p].key \in keys.lost
  BY <1>1, Started DEF IInv, KeyInv, UserInv, Proc
<1>3. /\ keys' \in KeysType /\ keys'.minted = keys.minted /\ keys'.lost = keys.lost
      /\ keys'.returned = keys.returned /\ keys'.sealed = keys.sealed \cup {procs[p].key}
  BY <1>1, <1>2 DEF IInv, Types, KeysType
<1>4. FileInv'
  BY <1>1, <1>2, <1>3 DEF IInv, KeyInv, FileInv
<1>5. CreatorInv' /\ UserInv'
  BY <1>1, <1>3 DEF IInv, KeyInv, CreatorInv, UserInv
<1>6. SchemaInv' /\ ListInv' /\ BearerInv'
  BY <1>1 DEF IInv, SchemaInv, RanInOrder, Reached, Applied, Ran, ListInv, ListOK, BearerInv,
              LiveBearerShown, Printing, At, tableVars
<1>7. Types'
  BY <1>1, <1>3 DEF IInv, Types, tableVars, KeysType
<1> QED
  BY <1>4, <1>5, <1>6, <1>7 DEF IInv, KeyInv

LEMMA DecideStep ==
    ASSUME IInv, NEW p \in Process, Decide(p)
    PROVE  IInv'
<1>1. /\ procs[p].pc = "open"
      /\ UNCHANGED <<keyFile, keys, tableVars, tokens, starts, faults>>
  BY DEF Decide, At
<1>2. faults' \in 0 .. MaxFaults
  BY <1>1 DEF IInv, Types
<1>3. CASE Goto(p, "sink")
  BY <1>1, <1>3, ListedStep DEF Listed
<1>4. CASE Goto(p, "revoke")
  BY <1>1, <1>4, ListedStep DEF Listed
<1>5. CASE End(p)
  BY <1>1, <1>2, <1>5, EndQuiet
<1> QED
  BY <1>3, <1>4, <1>5 DEF Decide

LEMMA SecureSinkStep ==
    ASSUME IInv, NEW p \in Process, SecureSink(p)
    PROVE  IInv'
<1>1. /\ procs[p].pc = "sink"
      /\ UNCHANGED <<keyFile, keys, tableVars, tokens, starts, faults>>
  BY DEF SecureSink, At
<1>2. faults' \in 0 .. MaxFaults
  BY <1>1 DEF IInv, Types
<1>3. CASE Goto(p, "mint")
  BY <1>1, <1>3, ListedStep DEF Listed
<1>4. CASE End(p)
  BY <1>1, <1>2, <1>4, EndQuiet
<1> QED
  BY <1>3, <1>4 DEF SecureSink

\* The new bearer is the one its process is about to print; it replaces one
\* project's, and no other process stops printing.
LEMMA MintStep ==
    ASSUME IInv, NEW p \in Process, Mint(p)
    PROVE  IInv'
<1> DEFINE new == [procs[p] EXCEPT !.pc = "print", !.token = tokens.minted + 1]
           n == procs[p].project
<1>1. /\ procs[p].pc = "mint" /\ procs' = [procs EXCEPT ![p] = new]
      /\ bearer' = [bearer EXCEPT ![n] = tokens.minted + 1]
      /\ tokens' = [tokens EXCEPT !.minted = @ + 1]
      /\ UNCHANGED <<keyFile, keys, schema, projects, starts, faults>>
  BY DEF Mint, NewBearer, At
<1>2. /\ Types /\ procs[p] \in Proc /\ Reached(procs[p].seen)
      /\ ListOK(procs[p])
  BY <1>1, Started DEF IInv, SchemaInv, ListInv
<1>3. tokens \in [minted : Nat, shown : SUBSET Nat, unseen : SUBSET Nat]
  BY <1>2 DEF Types
<1>3a. tokens.minted + 1 \in Nat
  BY <1>3
<1>4. /\ new \in Proc /\ new.pc = "print" /\ new.key = procs[p].key
      /\ new.seen = procs[p].seen /\ new.project = n
      /\ new.cmd = procs[p].cmd /\ new.allow = procs[p].allow
      /\ new.token = tokens.minted + 1
  BY <1>2, <1>3a DEF Proc, Keyed, Listed
<1> HIDE DEF new
<1>5. Becomes(p, new)
  BY <1>1, <1>2, <1>4, Replaced
<1>6. n \in Name /\ ListOK(new)
  BY <1>1, <1>2, <1>4 DEF ListOK, Listed
<1> HIDE DEF n
<1>7. /\ tokens' \in [minted : Nat, shown : SUBSET Nat, unseen : SUBSET Nat]
      /\ tokens'.minted = tokens.minted + 1
      /\ tokens'.shown = tokens.shown /\ tokens'.unseen = tokens.unseen
  BY <1>1, <1>3
<1>8. KeyInv'
  <2>1. new.pc \notin Creating /\ new.pc \notin Opening /\ procs[p].pc \in Keyed
    BY <1>1, <1>4 DEF Opening, Creating, Keyed, Listed
  <2> QED
    BY <1>1, <1>2, <1>4, <1>5, <2>1, KeySame DEF IInv
<1>9. SchemaInv' /\ ListInv'
  BY <1>1, <1>2, <1>4, <1>5, <1>6, SchemaSame, ListSame DEF IInv
<1>10. BearerInv'
  <2>1. procs'[p] = new /\ \A q \in Process : q # p => procs'[q] = procs[q]
    BY <1>5 DEF Becomes
  <2>2. Printing(Process)' = Printing(Process) \cup {tokens.minted + 1}
    BY <1>1, <1>4, <2>1 DEF Printing, At
  <2>3. /\ bearer'[n] = tokens.minted + 1
        /\ \A m \in Name : m # n => bearer'[m] = bearer[m]
    BY <1>1, <1>2, <1>6 DEF Types
  <2>4. LiveBearerShown'
    BY <1>7, <2>2, <2>3 DEF IInv, BearerInv, LiveBearerShown
  <2>5. \A k \in tokens'.shown \cup tokens'.unseen : 1 <= k /\ k <= tokens'.minted
    BY <1>3, <1>7 DEF IInv, BearerInv
  <2>6. \A q \in Process : procs'[q].pc = "print" =>
           1 <= procs'[q].token /\ procs'[q].token <= tokens'.minted
    <3> SUFFICES ASSUME NEW q \in Process, procs'[q].pc = "print"
                 PROVE  1 <= procs'[q].token /\ procs'[q].token <= tokens'.minted
      OBVIOUS
    <3>1. CASE q = p
      BY <1>3, <1>4, <1>7, <2>1, <3>1
    <3>2. CASE q # p
      <4>1. procs'[q] = procs[q] /\ procs[q].pc = "print"
        BY <2>1, <3>2
      <4>2. procs[q].token \in Nat
        BY <1>2, <4>1, Started DEF Proc
      <4>3. 1 <= procs[q].token /\ procs[q].token <= tokens.minted
        BY <4>1 DEF IInv, BearerInv
      <4> QED
        BY <1>3, <1>7, <4>1, <4>2, <4>3
    <3> QED
      BY <3>1, <3>2
  <2> QED
    BY <2>4, <2>5, <2>6 DEF BearerInv
<1>11. Types'
  <2>1. bearer' \in [Name -> Nat]
    BY <1>1, <1>2, <1>3a DEF Types
  <2> QED
    BY <1>1, <1>2, <1>5, <1>7, <2>1 DEF Types, Becomes
<1> QED
  BY <1>8, <1>9, <1>10, <1>11 DEF IInv

\* The other parts, when a bearer command ends.
LEMMA BearerEnds ==
    ASSUME IInv, NEW p \in Process, End(p), UNCHANGED <<keyFile, keys, schema, projects>>
    PROVE  Becomes(p, Off) /\ KeyInv' /\ SchemaInv' /\ ListInv'
<1>1. Becomes(p, Off)
  BY Ended DEF IInv
<1>2. Off.pc \notin Opening \cup Keyed /\ Off.pc \notin Creating
  BY OffFacts DEF Opening, Keyed, Creating, Listed
<1>3. ListOK(Off)
  BY <1>2, OffFacts DEF ListOK, Keyed, Listed
<1>4. KeyInv' /\ SchemaInv' /\ ListInv'
  BY <1>1, <1>2, <1>3, OffFacts, KeySame, SchemaSame, ListSame DEF IInv
<1> QED
  BY <1>1, <1>4

LEMMA PrintBearerStep ==
    ASSUME IInv, NEW p \in Process, PrintBearer(p)
    PROVE  IInv'
<1>1. /\ procs[p].pc = "print" /\ End(p) /\ UNCHANGED <<keyFile, keys, tableVars, starts>>
      /\ \/ tokens' = [tokens EXCEPT !.shown = @ \cup {procs[p].token}]
         \/ tokens' = [tokens EXCEPT !.unseen = @ \cup Printing({p})]
  BY DEF PrintBearer, Forgotten, At
<1>2. Types /\ faults' \in 0 .. MaxFaults
  BY FaultTyped DEF IInv, PrintBearer
<1>3. Becomes(p, Off) /\ KeyInv' /\ SchemaInv' /\ ListInv'
  BY <1>1, BearerEnds DEF tableVars
<1>4. BearerInv' /\ tokens' \in [minted : Nat, shown : SUBSET Nat, unseen : SUBSET Nat]
  BY <1>1, <1>3, OffFacts, BearerSame DEF IInv, tableVars
<1>5. Types'
  BY <1>1, <1>2, <1>3, <1>4 DEF Types, tableVars, Becomes
<1> QED
  BY <1>3, <1>4, <1>5 DEF IInv

LEMMA RevokeStep ==
    ASSUME IInv, NEW p \in Process, Revoke(p)
    PROVE  IInv'
<1>1. /\ procs[p].pc = "revoke" /\ End(p)
      /\ bearer' = [bearer EXCEPT ![procs[p].project] = 0]
      /\ UNCHANGED <<keyFile, keys, schema, projects, tokens, starts, faults>>
  BY DEF Revoke, At
<1>2. Becomes(p, Off) /\ KeyInv' /\ SchemaInv' /\ ListInv'
  BY <1>1, BearerEnds
<1>3. /\ bearer' \in [Name -> Nat]
      /\ \A m \in Name : bearer'[m] # 0 => bearer'[m] = bearer[m]
  BY <1>1 DEF IInv, Types
<1>4. BearerInv'
  <2>1. Printing(Process)' = Printing(Process)
    <3>1. Printing({p}) = {} /\ Printing(Process) = Printing(Process)' \cup Printing({p})
      BY <1>1, <1>2, OffFacts, PrintingAfter
    <3> QED
      BY <3>1
  <2>2. LiveBearerShown'
    BY <1>1, <1>3, <2>1 DEF IInv, BearerInv, LiveBearerShown
  <2>3. \A q \in Process : procs'[q].pc = "print" => procs'[q] = procs[q]
    BY <1>2, OffFacts, PrintingAfter
  <2> QED
    BY <1>1, <2>2, <2>3 DEF IInv, BearerInv
<1>5. Types'
  BY <1>1, <1>2, <1>3 DEF IInv, Types, Becomes
<1> QED
  BY <1>2, <1>4, <1>5 DEF IInv

-----------------------------------------------------------------------------
(* The invariant, and what follows from it.                                *)

LEMMA InitHolds ==
    ASSUME Init
    PROVE  IInv
<1>1. Types
  <2>1. /\ keyFile \in [exists : BOOLEAN, material : Nat, synced : BOOLEAN, named : BOOLEAN]
        /\ keys \in [minted : Nat, returned : SUBSET Nat, sealed : SUBSET Nat, lost : SUBSET Nat]
    BY DEF Init, NoFile
  <2>2. schema \in [version : Nat, applied : Seq(Nat)]
    BY DEF Init
  <2>3. /\ projects \in [Name -> Lists] /\ bearer \in [Name -> Nat]
        /\ tokens \in [minted : Nat, shown : SUBSET Nat, unseen : SUBSET Nat]
        /\ procs \in [Process -> Proc \cup {Off}]
    BY DEF Init, Lists
  <2>4. starts \in 0 .. MaxStarts /\ faults \in 0 .. MaxFaults
    BY DataDirAssumption DEF Init
  <2> QED
    BY <2>1, <2>2, <2>3, <2>4 DEF Types
<1>2. \A p \in Process : procs[p] = Off
  BY DEF Init
<1>3. /\ Off.pc = "off" /\ Off.pc \notin Opening \cup Keyed /\ Off.pc \notin Creating
      /\ Off.pc \notin Listed
  BY OffFacts DEF Opening, Keyed, Creating, Listed
<1>4. KeyInv
  BY <1>2, <1>3 DEF Init, NoFile, KeyInv, FileInv, CreatorInv, UserInv
<1>5. SchemaInv
  BY <1>2, <1>3, DataDirAssumption DEF Init, SchemaInv, RanInOrder, Reached
<1>6. ListInv
  <2>1. \A p \in Process : procs[p].pc = "off" /\ procs[p].pc \notin Listed
    BY <1>2, <1>3
  <2> QED
    BY <2>1 DEF ListInv, ListOK
<1>7. BearerInv
  BY <1>2, <1>3 DEF Init, BearerInv, LiveBearerShown
<1> QED
  BY <1>1, <1>4, <1>5, <1>6, <1>7 DEF IInv

LEMMA StepHolds ==
    ASSUME IInv, [Next]_vars
    PROVE  IInv'
<1>1. CASE PowerLoss
  BY <1>1, PowerLossStep
<1>2. ASSUME NEW p \in Process,
             \/ \E cmd \in Commands : Start(p, cmd)
             \/ Kill(p)
             \/ ReadKey(p) \/ CreateKey(p) \/ WriteKey(p) \/ SyncFile(p) \/ SyncDir(p)
             \/ AwaitKey(p)
      PROVE  IInv'
  BY <1>2, StartStep, KillStep, ReadKeyStep, CreateKeyStep, WriteKeyStep, SyncFileStep,
     SyncDirStep, AwaitKeyStep
<1>3. ASSUME NEW p \in Process,
             \/ ReadVersion(p) \/ Migrate(p)
             \/ ListProjects(p) \/ CreateProject(p) \/ SetAllowlist(p) \/ Verify(p)
             \/ Serve(p) \/ Seal(p)
             \/ Decide(p) \/ SecureSink(p) \/ Mint(p) \/ PrintBearer(p) \/ Revoke(p)
      PROVE  IInv'
  BY <1>3, ReadVersionStep, MigrateStep, ListProjectsStep, CreateProjectStep,
     SetAllowlistStep, VerifyStep, ServeStep, SealStep, DecideStep, SecureSinkStep,
     MintStep, PrintBearerStep, RevokeStep
<1>4. CASE UNCHANGED vars
  <2>1. KeyInv' /\ SchemaInv'
    BY <1>4 DEF vars, tableVars, IInv, KeyInv, FileInv, CreatorInv, UserInv, SchemaInv,
                RanInOrder, Reached, Applied, Ran
  <2>2. ListInv' /\ BearerInv'
    BY <1>4 DEF vars, tableVars, IInv, ListInv, ListOK, BearerInv, LiveBearerShown,
                Printing, At
  <2>3. Types'
    BY <1>4 DEF vars, tableVars, IInv, Types
  <2> QED
    BY <2>1, <2>2, <2>3 DEF IInv
<1> QED
  BY <1>1, <1>2, <1>3, <1>4 DEF Next

\* IInv holds in every state of every behaviour of DataDir.
THEOREM DirectoryInvariance == Spec => []IInv
<1>1. Init => IInv
  BY InitHolds
<1>2. IInv /\ [Next]_vars => IInv'
  BY StepHolds
<1> QED
  BY <1>1, <1>2, PTL DEF Spec

\* The state of a data directory keeps its types, whatever processes do to it.
THEOREM DirectoryTypes == Spec => []DataDirTypeOK
<1>1. IInv => DataDirTypeOK
  <2> SUFFICES ASSUME IInv
               PROVE  DataDirTypeOK
    OBVIOUS
  <2>1. keyFile \in [exists : BOOLEAN, material : Nat, synced : BOOLEAN, named : BOOLEAN]
    BY DEF IInv, Types
  <2>2. keys.minted \in Nat /\ keys.returned \cup keys.sealed \cup keys.lost \subseteq 1 .. keys.minted
    BY DEF IInv, Types, KeyInv, FileInv
  <2>3. schema.version \in 0 .. Migrations
    BY DataDirAssumption DEF IInv, Types, SchemaInv, Reached
  <2>4. DOMAIN projects = Name /\ bearer \in [Name -> Nat] /\ DOMAIN procs = Process
    BY DEF IInv, Types
  <2>5. tokens.minted \in Nat /\ tokens.shown \cup tokens.unseen \subseteq 1 .. tokens.minted
    BY DEF IInv, Types, BearerInv
  <2>6. starts \in 0 .. MaxStarts /\ faults \in 0 .. MaxFaults
    BY DEF IInv, Types
  <2> QED
    BY <2>1, <2>2, <2>3, <2>4, <2>5, <2>6 DEF DataDirTypeOK
<1> QED
  BY <1>1, DirectoryInvariance, PTL

\* LoadOrCreateKey: whatever races, fails or dies while the key is created, and
\* whenever the power goes, every process uses and every sealed byte needs the
\* key in the file, or one that was lost before its creator had returned it.
THEOREM KeyIsKept == Spec => []KeyKept
<1>1. IInv => KeyKept
  <2> SUFFICES ASSUME IInv, NEW k \in InUse \cup keys.sealed \cup keys.returned
               PROVE  keyFile.material = k \/ k \in keys.lost \ keys.returned
    BY DEF KeyKept
  <2>1. keyFile.material \notin keys.lost /\ \A r \in keys.returned : r = keyFile.material
    BY DEF IInv, KeyInv, FileInv
  <2>2. k = keyFile.material \/ k \in keys.lost
    <3>1. CASE k \in keys.sealed \cup keys.returned
      BY <3>1 DEF IInv, KeyInv, FileInv
    <3>2. CASE k \in InUse
      <4>1. PICK p \in Process : procs[p].pc # "off" /\ procs[p].key # 0 /\ k = procs[p].key
        BY <3>2 DEF InUse
      <4>2. procs[p].pc \in Opening \cup Keyed
        BY <4>1, Started DEF IInv, Proc
      <4> QED
        BY <4>1, <4>2 DEF IInv, KeyInv, UserInv
    <3> QED
      BY <3>1, <3>2
  <2> QED
    BY <2>1, <2>2
<1> QED
  BY <1>1, DirectoryInvariance, PTL

\* migrateTo: however many processes read the version before any of them locked
\* the database, no migration runs before those below it, none runs again
\* unless its statements can, and a process that gets past migrateTo has every
\* migration in the tables, also when the version was set back.
THEOREM SchemaIsWhole == Spec => []SchemaWhole
<1>1. IInv => SchemaWhole
  BY DEF IInv, SchemaInv, Reached, SchemaWhole, At
<1> QED
  BY <1>1, DirectoryInvariance, PTL

\* bootstrap: a server runs on the list that is stored, and on the one it was
\* given, however many commands opened the directory before and since.
THEOREM ServedListIsStored == Spec => []ServedAsStored
<1>1. IInv => ServedAsStored
  BY DEF IInv, ListInv, ListOK, ServedAsStored, Listed, At
<1> QED
  BY <1>1, DirectoryInvariance, PTL

\* mintBearer: a bearer that authenticates was shown, is being shown, or was
\* lost with the process that was showing it.
THEOREM LiveBearerWasShown == Spec => []LiveBearerShown
<1>1. IInv => LiveBearerShown
  BY DEF IInv, BearerInv
<1> QED
  BY <1>1, DirectoryInvariance, PTL
=============================================================================
