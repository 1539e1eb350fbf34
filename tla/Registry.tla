------------------------------ MODULE Registry ------------------------------
(***************************************************************************)
(* The configuration file, the commands that edit it, and the gateway that *)
(* runs what it last loaded of it.                                         *)
(*                                                                         *)
(* A command takes the lock beside the file, loads and checks it, reads it *)
(* again to edit it, validates the result, and replaces the file by a      *)
(* rename.  An editor in the operator's hands takes no lock and may leave  *)
(* anything.  A command may be killed between any two of its steps.        *)
(*                                                                         *)
(* Removing a runner also deletes its token from the secrets directory,    *)
(* where it would win over whatever a later runner of the name is given.   *)
(***************************************************************************)
EXTENDS Naturals, FiniteSets, SequencesExt

CONSTANTS
  Added,        \* names that runners are added under
  Template,     \* the runner they are copied from
  Shells,       \* commands that may run at once
  MaxCommands,  \* bound: commands
  MaxHandEdits  \* bound: edits by hand, and commands that are killed

ASSUME RegistryAssumption ==
  Template \notin Added /\ MaxCommands \in Nat /\ MaxHandEdits \in Nat

RunnerNames == Added \cup {Template}
Targets     == {"channel", "dm"}
NoRunner    == "none"
NoFile      == 0

VARIABLES
  file,       \* the configuration file
  landed,     \* what the commands that wrote it were to make of it
  lock,       \* the command that holds the lock, as a set
  shell,      \* command -> where it is, what it does, what it is to write
  serving,    \* the configuration of the gateway
  bound,      \* the runner of a thread in the channel
  rebinding,  \* the last step was a !rebind
  enrolled,   \* name -> times it was added
  secretFile, \* name -> the addition whose token is in the secrets directory
  commands, handEdits

registrySide == <<serving, bound, rebinding>>
registryVars == <<file, landed, lock, shell, registrySide, enrolled, secretFile, commands,
                  handEdits>>

Route(to, name) == [to |-> to, runner |-> name]
Start == [runners |-> {Template}, ruled |-> {}, routes |-> <<Route("dm", Template)>>]
NoCommand == [at |-> "idle", op |-> "none", name |-> NoRunner, text |-> Start]

RegistryInit ==
  /\ file = Start /\ landed = Start /\ serving = Start
  /\ lock = {} /\ shell = [p \in Shells |-> NoCommand]
  /\ bound = NoRunner /\ rebinding = FALSE
  /\ enrolled = [n \in Added |-> 0] /\ secretFile = [n \in Added |-> NoFile]
  /\ commands = 0 /\ handEdits = 0

\* Validate, of what routing rests on.
ValidConfig(c) ==
  /\ c.runners # {}
  /\ \A i \in DOMAIN c.routes : c.routes[i].runner \in c.runners
  /\ \A i, j \in DOMAIN c.routes : c.routes[i].to = c.routes[j].to => i = j

\* RunnerFor: the first route of the channel, as a set.
RunnerFor(c, to) ==
  LET hits == SelectSeq(c.routes, LAMBDA r : r.to = to) IN
  IF hits = <<>> THEN {} ELSE {Head(hits).runner}

-----------------------------------------------------------------------------
(* The commands *)

Unrouted(c, name) == [c EXCEPT !.routes = SelectSeq(@, LAMBDA r : r.runner # name)]
\* What a command checks of the configuration it loaded.
Allowed(op, name, c) ==
  CASE op = "runner add"    -> name \notin c.runners /\ Template \in c.runners
    [] op = "runner remove" -> name \in c.runners
    [] op = "route add"     -> name \in c.runners /\ RunnerFor(c, "channel") = {}
    [] op = "route remove"  -> TRUE
    [] op = "policy"        -> name \in c.runners \ c.ruled
\* What it makes of the document.
Edits(op, name, c) ==
  CASE op = "runner add"    -> [c EXCEPT !.runners = @ \cup {name},
                                         !.ruled = IF Template \in @ THEN @ \cup {name} ELSE @]
    [] op = "runner remove" -> [Unrouted(c, name) EXCEPT !.runners = @ \ {name}, !.ruled = @ \ {name}]
    [] op = "route add"     -> [c EXCEPT !.routes = Append(@, Route("channel", name))]
    [] op = "route remove"  -> [c EXCEPT !.routes = SelectSeq(@, LAMBDA r : r.to # "channel")]
    [] op = "policy"        -> [c EXCEPT !.ruled = @ \cup {name}]

Runs(p, op, name) ==
  /\ shell[p].at = "idle" /\ commands < MaxCommands
  /\ commands' = commands + 1
  /\ op \in {"runner add", "runner remove"} => name \in Added
  /\ op = "route remove" => name = Template
  /\ shell' = [shell EXCEPT ![p] = [NoCommand EXCEPT !.at = "lock", !.op = op, !.name = name]]
  /\ rebinding' = FALSE
  /\ UNCHANGED <<file, landed, lock, serving, bound, enrolled, secretFile, handEdits>>

Goes(p, at) == shell' = [shell EXCEPT ![p].at = at]
Ends(p) == shell' = [shell EXCEPT ![p] = NoCommand] /\ lock' = lock \ {p}

AnyLock == TRUE  \* mutant: the lock is taken on the inode that was renamed away
LockFree == lock = {}
LockConfig(p) ==
  /\ shell[p].at = "lock" /\ LockFree
  /\ lock' = {p}
  /\ Goes(p, IF shell[p].op = "route remove" THEN "edit" ELSE "load")
  /\ UNCHANGED <<file, landed, registrySide, enrolled, secretFile, commands, handEdits>>
LockTimesOut(p) ==
  /\ shell[p].at = "lock" /\ lock # {}
  /\ Ends(p)
  /\ UNCHANGED <<file, landed, registrySide, enrolled, secretFile, commands, handEdits>>

LoadConfig(p) ==
  /\ shell[p].at = "load"
  /\ IF ValidConfig(file) /\ Allowed(shell[p].op, shell[p].name, file)
     THEN Goes(p, "edit") /\ UNCHANGED lock ELSE Ends(p)
  /\ UNCHANGED <<file, landed, registrySide, enrolled, secretFile, commands, handEdits>>

NeverStale(n) == FALSE  \* mutant: a token file left behind is not looked for
Stale(n) == n \in Added /\ secretFile[n] # NoFile
\* editDoc and Parse; a runner is not added beside a token file of its name.
EditDoc(p) ==
  LET s == shell[p]  text == Edits(s.op, s.name, file) IN
  /\ s.at = "edit"
  /\ IF \/ text = file
        \/ ~ValidConfig(text)
        \/ s.op = "runner add" /\ Stale(s.name)
     THEN Ends(p)
     ELSE shell' = [shell EXCEPT ![p] = [s EXCEPT !.at = "write", !.text = text]] /\ UNCHANGED lock
  /\ UNCHANGED <<file, landed, registrySide, enrolled, secretFile, commands, handEdits>>

\* writeConfig.
WriteConfig(p) ==
  LET s == shell[p] IN
  /\ s.at = "write"
  /\ file' = s.text
  /\ landed' = Edits(s.op, s.name, landed)
  /\ enrolled' = IF s.op = "runner add" THEN [enrolled EXCEPT ![s.name] = @ + 1] ELSE enrolled
  /\ IF s.op = "runner remove" THEN Goes(p, "secret") /\ UNCHANGED lock ELSE Ends(p)
  /\ UNCHANGED <<registrySide, secretFile, commands, handEdits>>
\* Deleted, unless the file cannot be or --keep-secret says so.
DeleteSecret(p) ==
  /\ shell[p].at = "secret"
  /\ Ends(p)
  /\ \/ secretFile' = [secretFile EXCEPT ![shell[p].name] = NoFile]
     \/ UNCHANGED secretFile
  /\ UNCHANGED <<file, landed, registrySide, enrolled, commands, handEdits>>

HandEdit == handEdits < MaxHandEdits /\ handEdits' = handEdits + 1
CommandKilled(p) ==
  /\ HandEdit
  /\ shell[p].at # "idle"
  /\ Ends(p)
  /\ UNCHANGED <<file, landed, registrySide, enrolled, secretFile, commands>>

-----------------------------------------------------------------------------
(* The operator and the gateway *)

\* A route that nobody validated: to a runner there is not, or a second one.
EditByHand ==
  /\ HandEdit
  /\ \E n \in RunnerNames : file' = [file EXCEPT !.routes = Append(@, Route("channel", n))]
  /\ UNCHANGED <<landed, lock, shell, registrySide, enrolled, secretFile, commands>>
\* A runner gets its token, here or in another backend.
WriteSecret(n) ==
  /\ n \in file.runners /\ secretFile[n] = NoFile
  /\ secretFile' = [secretFile EXCEPT ![n] = enrolled[n]]
  /\ UNCHANGED <<file, landed, lock, shell, registrySide, enrolled, commands, handEdits>>

ReloadConfig ==
  /\ ValidConfig(file) /\ serving # file
  /\ serving' = file
  /\ rebinding' = FALSE
  /\ UNCHANGED <<file, landed, lock, shell, bound, enrolled, secretFile, commands, handEdits>>

\* OnMessage: the thread's runner, or else the channel's.
RouteFirst ==  \* mutant: the channel's route is looked at first
  IF RunnerFor(serving, "channel") # {} THEN RunnerFor(serving, "channel")
  ELSE IF bound = NoRunner THEN {} ELSE {bound}
AnsweredBy == IF bound # NoRunner THEN {bound} ELSE RunnerFor(serving, "channel")
OnMessage ==
  /\ \E n \in AnsweredBy \cap serving.runners : bound' = n
  /\ bound' # bound
  /\ rebinding' = FALSE
  /\ UNCHANGED <<file, landed, lock, shell, serving, enrolled, secretFile, commands, handEdits>>
\* !runner, in a thread that has none yet.
PickRunner(n) ==
  /\ bound = NoRunner /\ RunnerFor(serving, "channel") # {} /\ n \in serving.runners
  /\ bound' = n
  /\ rebinding' = FALSE
  /\ UNCHANGED <<file, landed, lock, shell, serving, enrolled, secretFile, commands, handEdits>>
Rebind ==
  /\ bound \in serving.runners
  /\ \E n \in RunnerFor(serving, "channel") \ {bound} : bound' = n
  /\ rebinding' = TRUE
  /\ UNCHANGED <<file, landed, lock, shell, serving, enrolled, secretFile, commands, handEdits>>

-----------------------------------------------------------------------------
Shell(p) ==
  \/ \E op \in {"runner add", "runner remove", "route add", "route remove", "policy"},
        n \in RunnerNames : Runs(p, op, n)
  \/ LockConfig(p)
  \/ LockTimesOut(p)
  \/ LoadConfig(p)
  \/ EditDoc(p)
  \/ WriteConfig(p)
  \/ DeleteSecret(p)
  \/ CommandKilled(p)
RegistryNext ==
  \/ \E p \in Shells : Shell(p)
  \/ EditByHand
  \/ \E n \in Added : WriteSecret(n)
  \/ ReloadConfig
  \/ OnMessage
  \/ \E n \in RunnerNames : PickRunner(n)
  \/ Rebind
RegistrySpec == RegistryInit /\ [][RegistryNext]_registryVars

-----------------------------------------------------------------------------
(* Properties *)

\* No command's edit is lost to another's: the file has the runners and the
\* rules that the commands which wrote it have left (lockConfig).
NoLostEdit ==
  file.runners = landed.runners /\ (file.ruled = landed.ruled)

\* A runner that was added is not refused for the token of an earlier one of its
\* name, whatever became of that one's removal (runner add, runner remove).
Unshadowed ==
  \A n \in Added \cap file.runners : secretFile[n] \in {NoFile, enrolled[n]}

\* A conversation stays with the runner it began on, however channels are routed
\* since, unless it is rebound (OnMessage).
StaysPut ==
  [][bound # NoRunner /\ bound' # bound => rebinding']_registryVars
=============================================================================
