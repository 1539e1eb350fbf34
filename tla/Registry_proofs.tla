---------------------------- MODULE Registry_proofs ----------------------------
(***************************************************************************)
(* What the configuration commands keep, for any number of shells, runners *)
(* and commands, and whatever is edited by hand or killed on the way.      *)
(***************************************************************************)
EXTENDS Registry, TLAPS

-----------------------------------------------------------------------------
(* The inductive invariant *)

Fields  == {"runners", "ruled", "routes"}
Ops     == {"runner add", "runner remove", "route add", "route remove", "policy"}
Holding == {"load", "edit", "write", "secret"}

\* A command is a record, of an operation and a runner once it runs; what it is to
\* write is a configuration.
ShellOK(s) ==
  /\ DOMAIN s = {"at", "op", "name", "text"}
  /\ s.at \in Holding \cup {"idle", "lock"}
  /\ s.at # "idle" => s.op \in Ops
  /\ s.at # "idle" /\ s.op \in {"runner add", "runner remove"} => s.name \in Added
  /\ DOMAIN s.text = Fields

\* What it is to write is its edit of the file as it is: hand edits change routes
\* only.
Applies(s, f) ==
  s.at = "write" =>
    /\ s.text.runners = Edits(s.op, s.name, f).runners
    /\ s.text.ruled = Edits(s.op, s.name, f).ruled

\* A runner that is being added is not there yet, and when the file is about to
\* be written there is no token file of its name.
AddsAfresh(s, f, tokens) ==
  s.op = "runner add" =>
    /\ s.at \in {"edit", "write"} => s.name \notin f.runners
    /\ s.at = "write" => tokens[s.name] = NoFile

CommandOK(s, f, tokens) == ShellOK(s) /\ Applies(s, f) /\ AddsAfresh(s, f, tokens)

RegistryTypeOK ==
  /\ DOMAIN file = Fields /\ DOMAIN landed = Fields
  /\ DOMAIN shell = Shells
  /\ enrolled \in [Added -> Nat] /\ secretFile \in [Added -> Nat]

CommandsOK == \A p \in Shells : CommandOK(shell[p], file, secretFile)

\* The lock is held by one command, from its lock to its last step.
OneHolder ==
  /\ \A p \in lock, q \in lock : p = q
  /\ \A p \in Shells : p \in lock <=> shell[p].at \in Holding

RegistryInv ==
  /\ RegistryTypeOK /\ CommandsOK /\ OneHolder
  /\ NoLostEdit /\ Unshadowed

-----------------------------------------------------------------------------
(* Edits *)

(* An edit of a configuration is one, and what it does to runners and rules *)
(* does not depend on the routes.                                           *)
LEMMA EditsParts ==
  ASSUME NEW c, NEW d, DOMAIN c = Fields, DOMAIN d = Fields,
         c.runners = d.runners, c.ruled = d.ruled,
         NEW op \in Ops, NEW name
  PROVE  /\ DOMAIN Edits(op, name, c) = Fields
         /\ Edits(op, name, c).runners = Edits(op, name, d).runners
         /\ Edits(op, name, c).ruled = Edits(op, name, d).ruled
  <1>1. CASE op = "runner add"
    BY <1>1 DEF Edits, Fields
  <1>2. CASE op = "runner remove"
    BY <1>2 DEF Edits, Fields, Unrouted
  <1>3. CASE op = "route add"
    BY <1>3 DEF Edits, Fields
  <1>4. CASE op = "route remove"
    BY <1>4 DEF Edits, Fields
  <1>5. CASE op = "policy"
    BY <1>5 DEF Edits, Fields
  <1> QED
    BY <1>1, <1>2, <1>3, <1>4, <1>5 DEF Ops

(* Only an addition adds a runner, and only its own.                        *)
LEMMA EditsRunners ==
  ASSUME NEW c, DOMAIN c = Fields, NEW op \in Ops, NEW name
  PROVE  /\ op = "runner add" => Edits(op, name, c).runners = c.runners \cup {name}
         /\ op # "runner add" => Edits(op, name, c).runners \subseteq c.runners
  <1>1. CASE op = "runner add"
    BY <1>1 DEF Edits, Fields
  <1>2. CASE op = "runner remove"
    BY <1>2 DEF Edits, Fields, Unrouted
  <1>3. CASE op = "route add"
    BY <1>3 DEF Edits, Fields
  <1>4. CASE op = "route remove"
    BY <1>4 DEF Edits, Fields
  <1>5. CASE op = "policy"
    BY <1>5 DEF Edits, Fields
  <1> QED
    BY <1>1, <1>2, <1>3, <1>4, <1>5 DEF Ops

-----------------------------------------------------------------------------
(* The commands *)

(* A command that moves on to t, takes the lock if it is free or gives it up, *)
(* keeps the invariant when t is a command that may be, if the files stay.   *)
LEMMA Moves ==
  ASSUME RegistryInv, NEW p \in Shells, NEW t,
         shell' = [shell EXCEPT ![p] = t], CommandOK(t, file, secretFile),
         UNCHANGED <<file, landed, enrolled, secretFile>>,
         \/ lock' = lock /\ (t.at \in Holding <=> shell[p].at \in Holding)
         \/ lock = {} /\ lock' = {p} /\ t.at \in Holding
         \/ lock' = lock \ {p} /\ t.at \notin Holding
  PROVE  RegistryInv'
  <1>1. /\ DOMAIN shell' = Shells /\ shell'[p] = t
        /\ \A q \in Shells \ {p} : shell'[q] = shell[q]
    BY DEF RegistryInv, RegistryTypeOK
  <1>2. CommandsOK'
    BY <1>1 DEF RegistryInv, CommandsOK
  <1>3. OneHolder'
    BY <1>1 DEF RegistryInv, OneHolder
  <1> QED
    BY <1>1, <1>2, <1>3 DEF RegistryInv, RegistryTypeOK, NoLostEdit, Unshadowed

(* No command is one that may be, whatever the files hold.                   *)
LEMMA NoCommandOK ==
  ASSUME NEW f, NEW tokens
  PROVE  CommandOK(NoCommand, f, tokens) /\ NoCommand.at \notin Holding
  BY DEF CommandOK, ShellOK, Applies, AddsAfresh, NoCommand, Holding, Start, Fields

(* A command that ends, wherever it was, keeps the invariant.                *)
LEMMA EndsKeepsInv ==
  ASSUME RegistryInv, NEW p \in Shells, Ends(p),
         UNCHANGED <<file, landed, enrolled, secretFile>>
  PROVE  RegistryInv'
  <1>1. CommandOK(NoCommand, file, secretFile) /\ NoCommand.at \notin Holding
    BY NoCommandOK
  <1> QED
    BY <1>1, Moves DEF Ends

(* A command that starts waits for the lock.                                 *)
LEMMA RunsStep ==
  ASSUME RegistryInv, NEW p \in Shells, NEW op \in Ops, NEW name \in RunnerNames, Runs(p, op, name)
  PROVE  RegistryInv'
  <1> DEFINE t == [NoCommand EXCEPT !.at = "lock", !.op = op, !.name = name]
  <1>1. /\ DOMAIN t = {"at", "op", "name", "text"}
        /\ t.at = "lock" /\ t.op = op /\ t.name = name /\ t.text = Start
    BY DEF NoCommand
  <1>2. shell' = [shell EXCEPT ![p] = t] /\ lock' = lock /\ shell[p].at = "idle"
        /\ (op \in {"runner add", "runner remove"} => name \in Added)
    BY DEF Runs
  <1> HIDE DEF t
  <1>3. CommandOK(t, file, secretFile)
    BY <1>1, <1>2 DEF CommandOK, ShellOK, Applies, AddsAfresh, Start, Fields
  <1>4. t.at \notin Holding /\ shell[p].at \notin Holding
    BY <1>1, <1>2 DEF Holding
  <1> QED
    BY <1>2, <1>3, <1>4, Moves DEF Runs

(* A command that goes on, holding the lock, is the same command.            *)
LEMMA GoesOn ==
  ASSUME RegistryInv, NEW p \in Shells, shell[p].at # "idle", NEW at \in Holding
  PROVE  LET t == [shell[p] EXCEPT !.at = at] IN
         ShellOK(t) /\ t.at = at /\ t.op = shell[p].op /\ t.name = shell[p].name
  <1>1. ShellOK(shell[p])
    BY DEF RegistryInv, CommandsOK, CommandOK
  <1> QED
    BY <1>1 DEF ShellOK, Holding

(* The lock is taken when nobody has it, and the file not looked at yet.     *)
LEMMA LockConfigStep ==
  ASSUME RegistryInv, NEW p \in Shells, LockConfig(p)
  PROVE  RegistryInv'
  <1> DEFINE at == IF shell[p].op = "route remove" THEN "edit" ELSE "load"
             t  == [shell[p] EXCEPT !.at = at]
  <1>1. /\ at \in Holding /\ shell[p].at # "idle" /\ shell' = [shell EXCEPT ![p] = t]
        /\ at # "write" /\ (shell[p].op = "runner add" => at = "load")
    BY DEF LockConfig, Goes, Holding
  <1> HIDE DEF at
  <1>2. ShellOK(t) /\ t.at = at /\ t.op = shell[p].op
    BY <1>1, GoesOn
  <1> HIDE DEF t
  <1>3. CommandOK(t, file, secretFile)
    BY <1>1, <1>2 DEF CommandOK, Applies, AddsAfresh
  <1> QED
    BY <1>1, <1>2, <1>3, Moves DEF LockConfig, LockFree

(* A command that may be run goes on to its edit, and another one ends.      *)
LEMMA LoadConfigStep ==
  ASSUME RegistryInv, NEW p \in Shells, LoadConfig(p)
  PROVE  RegistryInv'
  <1>1. CASE Ends(p)
    BY <1>1, EndsKeepsInv DEF LoadConfig
  <1>2. CASE Allowed(shell[p].op, shell[p].name, file) /\ Goes(p, "edit") /\ UNCHANGED lock
    <2> DEFINE t == [shell[p] EXCEPT !.at = "edit"]
    <2>1. /\ shell' = [shell EXCEPT ![p] = t] /\ shell[p].at # "idle"
          /\ "edit" \in Holding /\ shell[p].at \in Holding
      BY <1>2 DEF LoadConfig, Goes, Holding
    <2>2. ShellOK(t) /\ t.at = "edit" /\ t.op = shell[p].op /\ t.name = shell[p].name
      BY <2>1, GoesOn
    <2> HIDE DEF t
    <2>3. t.op = "runner add" => t.name \notin file.runners
      BY <1>2, <2>2 DEF Allowed
    <2>4. CommandOK(t, file, secretFile)
      BY <2>2, <2>3 DEF CommandOK, Applies, AddsAfresh
    <2> QED
      BY <1>2, <2>1, <2>2, <2>4, Moves DEF LoadConfig
  <1> QED
    BY <1>1, <1>2 DEF LoadConfig

(* A command that edits is to write its edit of the file, unless there is a  *)
(* token file of the runner it adds.                                         *)
LEMMA EditDocStep ==
  ASSUME RegistryInv, NEW p \in Shells, EditDoc(p)
  PROVE  RegistryInv'
  <1> DEFINE s == shell[p]
             text == Edits(s.op, s.name, file)
             t == [s EXCEPT !.at = "write", !.text = text]
  <1>1. CASE Ends(p)
    BY <1>1, EndsKeepsInv DEF EditDoc
  <1>2. CASE ~(s.op = "runner add" /\ Stale(s.name)) /\ shell' = [shell EXCEPT ![p] = t] /\ UNCHANGED lock
    <2>1. s.at = "edit" /\ ShellOK(s) /\ AddsAfresh(s, file, secretFile)
      BY DEF EditDoc, RegistryInv, CommandsOK, CommandOK
    <2>2. DOMAIN text = Fields
      BY <2>1, EditsParts DEF RegistryInv, RegistryTypeOK, ShellOK
    <2> HIDE DEF text
    <2>3. ShellOK(t) /\ t.at = "write" /\ t.op = s.op /\ t.name = s.name /\ t.text = text
      BY <2>1, <2>2 DEF ShellOK, Holding
    <2> HIDE DEF t
    <2>4. s.op = "runner add" => s.name \notin file.runners /\ secretFile[s.name] = NoFile
      BY <1>2, <2>1 DEF AddsAfresh, Stale, ShellOK
    <2>5. Applies(t, file)
      BY <2>3 DEF Applies, text
    <2>6. CommandOK(t, file, secretFile)
      BY <2>3, <2>4, <2>5 DEF CommandOK, AddsAfresh
    <2>7. t.at \in Holding /\ s.at \in Holding
      BY <2>1, <2>3 DEF Holding
    <2> QED
      BY <1>2, <2>6, <2>7, Moves DEF EditDoc
  <1> QED
    BY <1>1, <1>2 DEF EditDoc

(* The file is replaced by what the command was to write, which is its edit  *)
(* of what the commands before it left.                                      *)
LEMMA WriteConfigStep ==
  ASSUME RegistryInv, NEW p \in Shells, WriteConfig(p)
  PROVE  RegistryInv'
  <1> DEFINE s == shell[p]
             t == IF s.op = "runner remove" THEN [s EXCEPT !.at = "secret"] ELSE NoCommand
  <1>1. /\ s.at = "write" /\ ShellOK(s) /\ Applies(s, file) /\ AddsAfresh(s, file, secretFile)
        /\ s.op \in Ops /\ DOMAIN file = Fields /\ DOMAIN landed = Fields
        /\ file.runners = landed.runners /\ file.ruled = landed.ruled
    BY DEF WriteConfig, RegistryInv, RegistryTypeOK, CommandsOK, CommandOK, ShellOK, NoLostEdit
  <1>2. /\ DOMAIN landed' = Fields
        /\ file'.runners = landed'.runners /\ file'.ruled = landed'.ruled
    <2>1. /\ file' = s.text /\ landed' = Edits(s.op, s.name, landed)
          /\ s.text.runners = Edits(s.op, s.name, file).runners
          /\ s.text.ruled = Edits(s.op, s.name, file).ruled
      BY <1>1 DEF WriteConfig, Applies
    <2>2. /\ DOMAIN Edits(s.op, s.name, landed) = Fields
          /\ Edits(s.op, s.name, file).runners = Edits(s.op, s.name, landed).runners
          /\ Edits(s.op, s.name, file).ruled = Edits(s.op, s.name, landed).ruled
      BY <1>1, EditsParts
    <2> QED
      BY <2>1, <2>2
  <1>3. /\ shell' = [shell EXCEPT ![p] = t]
        /\ lock' = IF s.op = "runner remove" THEN lock ELSE lock \ {p}
    BY DEF WriteConfig, Goes, Ends
  <1>4. /\ ShellOK(t) /\ t.at # "write" /\ (t.op = "runner add" => t.at # "edit")
        /\ t.at \in Holding <=> s.op = "runner remove"
    <2>1. CASE s.op = "runner remove"
      BY <1>1, <2>1, GoesOn DEF Holding
    <2>2. CASE s.op # "runner remove"
      <3>1. t = NoCommand
        BY <2>2
      <3> QED
        BY <2>2, <3>1, NoCommandOK DEF NoCommand, CommandOK
    <2> QED
      BY <2>1, <2>2
  <1> HIDE DEF t
  <1>5. /\ DOMAIN shell' = Shells /\ shell'[p] = t
        /\ \A q \in Shells \ {p} : shell'[q] = shell[q]
    BY <1>3 DEF RegistryInv, RegistryTypeOK
  <1>6. /\ DOMAIN file' = Fields
        /\ s.op = "runner add" => s.name \in Added /\ file'.runners = file.runners \cup {s.name}
        /\ s.op # "runner add" => file'.runners \subseteq file.runners
    <2>1. /\ s.op = "runner add" => Edits(s.op, s.name, file).runners = file.runners \cup {s.name}
          /\ s.op # "runner add" => Edits(s.op, s.name, file).runners \subseteq file.runners
      BY <1>1, EditsRunners
    <2> QED
      BY <1>1, <2>1 DEF WriteConfig, ShellOK, Applies
  <1>7. enrolled' \in [Added -> Nat]
    <2>1. CASE s.op = "runner add"
      <3>1. s.name \in Added /\ enrolled \in [Added -> Nat]
        BY <1>6, <2>1 DEF RegistryInv, RegistryTypeOK
      <3>2. enrolled[s.name] + 1 \in Nat
        BY <3>1
      <3>3. enrolled' = [enrolled EXCEPT ![s.name] = enrolled[s.name] + 1]
        BY <2>1 DEF WriteConfig
      <3> QED
        BY <3>1, <3>2, <3>3
    <2>2. CASE s.op # "runner add"
      BY <2>2 DEF WriteConfig, RegistryInv, RegistryTypeOK
    <2> QED
      BY <2>1, <2>2
  <1>8. OneHolder'
    BY <1>1, <1>3, <1>4, <1>5 DEF RegistryInv, OneHolder, Holding
  <1>9. CommandsOK'
    <2> SUFFICES ASSUME NEW q \in Shells PROVE CommandOK(shell'[q], file', secretFile')
      BY DEF CommandsOK
    <2>1. CASE q = p
      BY <1>4, <1>5, <2>1 DEF CommandOK, Applies, AddsAfresh
    <2>2. CASE q # p
      <3>1. shell'[q] = shell[q] /\ ShellOK(shell[q])
        BY <1>5, <2>2 DEF RegistryInv, CommandsOK, CommandOK
      <3>2. shell[q].at \notin Holding
        BY <1>1, <2>2 DEF RegistryInv, OneHolder, Holding
      <3> QED
        BY <3>1, <3>2 DEF CommandOK, Applies, AddsAfresh, Holding
    <2> QED
      BY <2>1, <2>2
  <1>10. Unshadowed'
    <2> SUFFICES ASSUME NEW n \in Added, n \in file'.runners
                 PROVE  secretFile'[n] \in {NoFile, enrolled'[n]}
      BY DEF Unshadowed
    <2>1. CASE s.op = "runner add" /\ n = s.name
      BY <1>1, <2>1 DEF WriteConfig, AddsAfresh
    <2>2. CASE ~(s.op = "runner add" /\ n = s.name)
      <3>1. n \in file.runners /\ secretFile' = secretFile
        BY <1>6, <2>2 DEF WriteConfig
      <3>2. enrolled'[n] = enrolled[n]
        BY <1>6, <2>2 DEF WriteConfig, RegistryInv, RegistryTypeOK
      <3> QED
        BY <3>1, <3>2 DEF RegistryInv, Unshadowed
    <2> QED
      BY <2>1, <2>2
  <1> QED
    BY <1>2, <1>5, <1>6, <1>7, <1>8, <1>9, <1>10
    DEF WriteConfig, RegistryInv, RegistryTypeOK, NoLostEdit

(* A token file that is deleted stands in the way of nobody.                 *)
LEMMA DeleteSecretStep ==
  ASSUME RegistryInv, NEW p \in Shells, DeleteSecret(p)
  PROVE  RegistryInv'
  <1>1. CASE UNCHANGED secretFile
    BY <1>1, EndsKeepsInv DEF DeleteSecret
  <1>2. CASE secretFile' = [secretFile EXCEPT ![shell[p].name] = NoFile]
    <2>1. /\ DOMAIN shell' = Shells /\ shell'[p] = NoCommand
          /\ \A q \in Shells \ {p} : shell'[q] = shell[q]
      BY DEF DeleteSecret, Ends, RegistryInv, RegistryTypeOK
    <2>2. /\ secretFile' \in [Added -> Nat]
          /\ \A n \in Added : secretFile'[n] \in {NoFile, secretFile[n]}
      BY <1>2 DEF RegistryInv, RegistryTypeOK, NoFile
    <2>3. OneHolder'
      BY <2>1, NoCommandOK DEF DeleteSecret, Ends, RegistryInv, OneHolder
    <2>4. CommandsOK'
      <3> SUFFICES ASSUME NEW q \in Shells PROVE CommandOK(shell'[q], file', secretFile')
        BY DEF CommandsOK
      <3>1. CASE q = p
        BY <2>1, <3>1, NoCommandOK
      <3>2. CASE q # p
        <4>1. shell'[q] = shell[q] /\ CommandOK(shell[q], file, secretFile) /\ file' = file
          BY <2>1, <3>2 DEF RegistryInv, CommandsOK, DeleteSecret
        <4> QED
          BY <2>2, <4>1 DEF CommandOK, ShellOK, Applies, AddsAfresh
      <3> QED
        BY <3>1, <3>2
    <2> QED
      BY <2>1, <2>2, <2>3, <2>4
      DEF DeleteSecret, RegistryInv, RegistryTypeOK, NoLostEdit, Unshadowed
  <1> QED
    BY <1>1, <1>2 DEF DeleteSecret

-----------------------------------------------------------------------------
(* The operator *)

(* A route written by hand changes no runner and no rule, so that what a     *)
(* command is to write is still its edit of the file.                        *)
LEMMA EditByHandStep ==
  ASSUME RegistryInv, EditByHand
  PROVE  RegistryInv'
  <1>1. /\ DOMAIN file = Fields /\ DOMAIN file' = Fields
        /\ file'.runners = file.runners /\ file'.ruled = file.ruled
    BY DEF EditByHand, RegistryInv, RegistryTypeOK, Fields
  <1>2. CommandsOK'
    <2> SUFFICES ASSUME NEW q \in Shells PROVE CommandOK(shell[q], file', secretFile)
      BY DEF CommandsOK, EditByHand
    <2>1. CommandOK(shell[q], file, secretFile)
      BY DEF RegistryInv, CommandsOK
    <2>2. Applies(shell[q], file')
      <3> SUFFICES ASSUME shell[q].at = "write" PROVE Applies(shell[q], file')
        BY DEF Applies
      <3>1. shell[q].op \in Ops
        BY <2>1 DEF CommandOK, ShellOK
      <3> QED
        BY <1>1, <2>1, <3>1, EditsParts DEF CommandOK, Applies
    <2> QED
      BY <1>1, <2>1, <2>2 DEF CommandOK, AddsAfresh
  <1> QED
    BY <1>1, <1>2
    DEF EditByHand, RegistryInv, RegistryTypeOK, OneHolder, NoLostEdit, Unshadowed

(* A token is given to a runner that there is, which is not being added.     *)
LEMMA WriteSecretStep ==
  ASSUME RegistryInv, NEW n \in Added, WriteSecret(n)
  PROVE  RegistryInv'
  <1>1. /\ secretFile' \in [Added -> Nat] /\ secretFile'[n] = enrolled[n]
        /\ \A m \in Added \ {n} : secretFile'[m] = secretFile[m]
    BY DEF WriteSecret, RegistryInv, RegistryTypeOK
  <1>2. CommandsOK'
    <2> SUFFICES ASSUME NEW q \in Shells PROVE CommandOK(shell[q], file, secretFile')
      BY DEF CommandsOK, WriteSecret
    <2>1. CommandOK(shell[q], file, secretFile)
      BY DEF RegistryInv, CommandsOK
    <2> QED
      BY <1>1, <2>1 DEF WriteSecret, CommandOK, ShellOK, AddsAfresh
  <1> QED
    BY <1>1, <1>2
    DEF WriteSecret, RegistryInv, RegistryTypeOK, OneHolder, NoLostEdit, Unshadowed

-----------------------------------------------------------------------------
(* The theorems *)

(* The invariant holds before any command is run.                            *)
LEMMA InitInv == RegistryInit => RegistryInv
  <1> SUFFICES ASSUME RegistryInit PROVE RegistryInv
    OBVIOUS
  <1>1. RegistryTypeOK
    BY DEF RegistryInit, RegistryTypeOK, Start, Fields, NoFile
  <1>2. CommandsOK
    BY NoCommandOK DEF RegistryInit, CommandsOK
  <1>3. OneHolder
    BY NoCommandOK DEF RegistryInit, OneHolder
  <1> QED
    BY <1>1, <1>2, <1>3 DEF RegistryInit, RegistryInv, NoLostEdit, Unshadowed, NoFile

(* Every step keeps the invariant; the gateway's do not touch what it is     *)
(* about.                                                                    *)
LEMMA NextInv == RegistryInv /\ [RegistryNext]_registryVars => RegistryInv'
  <1> SUFFICES ASSUME RegistryInv, [RegistryNext]_registryVars PROVE RegistryInv'
    OBVIOUS
  <1>1. ASSUME NEW p \in Shells, Shell(p) PROVE RegistryInv'
    <2>1. ASSUME NEW op \in {"runner add", "runner remove", "route add", "route remove", "policy"},
                 NEW name \in RunnerNames, Runs(p, op, name)
          PROVE  RegistryInv'
      BY <2>1, RunsStep DEF Ops
    <2>2. CASE LockConfig(p)
      BY <2>2, LockConfigStep
    <2>3. CASE LockTimesOut(p)
      BY <2>3, EndsKeepsInv DEF LockTimesOut
    <2>4. CASE LoadConfig(p)
      BY <2>4, LoadConfigStep
    <2>5. CASE EditDoc(p)
      BY <2>5, EditDocStep
    <2>6. CASE WriteConfig(p)
      BY <2>6, WriteConfigStep
    <2>7. CASE DeleteSecret(p)
      BY <2>7, DeleteSecretStep
    <2>8. CASE CommandKilled(p)
      BY <2>8, EndsKeepsInv DEF CommandKilled
    <2> QED
      BY <1>1, <2>1, <2>2, <2>3, <2>4, <2>5, <2>6, <2>7, <2>8 DEF Shell
  <1>2. CASE EditByHand
    BY <1>2, EditByHandStep
  <1>3. ASSUME NEW n \in Added, WriteSecret(n) PROVE RegistryInv'
    BY <1>3, WriteSecretStep
  <1>4. CASE UNCHANGED <<file, landed, lock, shell, enrolled, secretFile>>
    BY <1>4 DEF RegistryInv, RegistryTypeOK, CommandsOK, OneHolder, NoLostEdit, Unshadowed
  <1>5. ReloadConfig \/ OnMessage \/ (\E n \in RunnerNames : PickRunner(n)) \/ Rebind
          => UNCHANGED <<file, landed, lock, shell, enrolled, secretFile>>
    BY DEF ReloadConfig, OnMessage, PickRunner, Rebind
  <1>6. UNCHANGED registryVars => UNCHANGED <<file, landed, lock, shell, enrolled, secretFile>>
    BY DEF registryVars
  <1> QED
    BY <1>1, <1>2, <1>3, <1>4, <1>5, <1>6 DEF RegistryNext

(* In every reachable state.                                                 *)
LEMMA InvCorrect == RegistrySpec => []RegistryInv
  BY InitInv, NextInv, PTL DEF RegistrySpec

(* No command's edit is lost: the lock that lockConfig takes covers the load *)
(* and the edit of the file, and what is written is the edit of the file as  *)
(* it is when it is replaced.                                                *)
THEOREM NoLostEditCorrect == RegistrySpec => []NoLostEdit
  <1>1. RegistryInv => NoLostEdit
    BY DEF RegistryInv
  <1> QED
    BY <1>1, InvCorrect, PTL

(* A runner that was added never has a token file of an earlier one of its   *)
(* name beside it: runner add looks for one under the lock.                  *)
THEOREM UnshadowedCorrect == RegistrySpec => []Unshadowed
  <1>1. RegistryInv => Unshadowed
    BY DEF RegistryInv
  <1> QED
    BY <1>1, InvCorrect, PTL

(* A conversation that has a runner keeps it but for a rebind, whatever the  *)
(* channel's route is (OnMessage, !runner, !rebind).                         *)
THEOREM StaysPutCorrect == RegistrySpec => StaysPut
  <1>1. [RegistryNext]_registryVars
          => [bound # NoRunner /\ bound' # bound => rebinding']_registryVars
    <2> SUFFICES ASSUME RegistryNext, bound # NoRunner, bound' # bound PROVE rebinding'
      BY DEF registryVars, registrySide
    <2>1. ~ \E p \in Shells : Shell(p)
      BY DEF Shell, Runs, LockConfig, LockTimesOut, LoadConfig, EditDoc, WriteConfig,
             DeleteSecret, CommandKilled, registrySide
    <2>2. ~ EditByHand /\ ~ (\E n \in Added : WriteSecret(n)) /\ ~ ReloadConfig
      BY DEF EditByHand, WriteSecret, ReloadConfig, registrySide
    <2>3. ~ OnMessage /\ ~ \E n \in RunnerNames : PickRunner(n)
      BY DEF OnMessage, AnsweredBy, PickRunner
    <2> QED
      BY <2>1, <2>2, <2>3 DEF RegistryNext, Rebind
  <1> QED
    BY <1>1, PTL DEF RegistrySpec, StaysPut

=============================================================================
