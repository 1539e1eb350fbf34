------------------------------ MODULE Bundles ------------------------------
(***************************************************************************)
(* The distribution of a runner's bundle: the gateway builds it from its   *)
(* configuration, gives it a version and pushes it over the runner's       *)
(* connection; the runner materializes it beside the live config           *)
(* directory, swaps the two, and reports what it has when it connects.     *)
(*                                                                         *)
(* pushBundle runs in the goroutine that serves a new connection and in    *)
(* the one that reloads the configuration; only its decision is under a    *)
(* lock.  The runner applies pushes one by one, on its read loop, and      *)
(* keeps skills made at run time in a directory it shares with bundles.    *)
(***************************************************************************)
EXTENDS Naturals, FiniteSets, SequencesExt

CONSTANTS
  BundleSkills, \* names of skills
  Envs,         \* environments of the bundle's MCP servers
  MaxEdits,     \* bound: reloads of the configuration
  MaxLinks,     \* bound: connections
  MaxBreaks     \* bound: lost connections, failures, crashes, restarts

ASSUME BundlesAssumption ==
  Envs # {} /\ MaxEdits \in Nat /\ MaxLinks \in Nat /\ MaxBreaks \in Nat

Contents == [skills : SUBSET BundleSkills, env : Envs]
\* digestBundle: every part of the bundle but the environment of its servers.
DigestOf(c) == [skills |-> c.skills]
NoDigest  == [skills |-> {"none"}]
NoContent == [skills |-> {"none"}, env |-> "none"]
Links     == 1 .. MaxLinks
\* pushBundle runs in Reload, and in serveConn once for each connection.
Reloader == 0
Pushers  == {Reloader} \cup Links

VARIABLES
  cfg,      \* the configuration: the content to push
  edits,    \* reloads so far
  latest,   \* the gateway's bundles entry: version and digest last built
  links,    \* connections so far
  link,     \* the connection that is up, or 0
  conn,     \* connection -> version and digest the gateway takes the runner to have
  pusher,   \* goroutine in pushBundle -> where it is and what it holds
  wire,     \* pushes on their way to the runner
  mem,      \* the runner's bundle in memory: version and digest
  dir,      \* content of the live config directory
  apply,    \* the push being applied, and how far
  skills,   \* name -> who put that skill into the state directory
  manifest, \* skills the state directory records as the bundle's
  breaks,   \* faults so far
  torn,     \* the skills directory was written in part
  missed,   \* a push of the connection that is up was not built or not applied
  crossed   \* a push was built while another was under way, or for a connection
            \* that a later one has replaced

bundleGateway == <<cfg, edits, latest, conn, pusher>>
bundleRunner  == <<mem, dir, apply, skills, manifest>>
bundleNotes   == <<torn, missed, crossed>>
bundleVars == <<bundleGateway, links, link, wire, bundleRunner, breaks, bundleNotes>>

NoVersion == [version |-> 0, digest |-> NoDigest]
NoPush    == [at |-> "idle", on |-> 0, content |-> NoContent, version |-> 0]
NoApply   == [at |-> "idle", content |-> NoContent, version |-> 0]

BundlesInit ==
  /\ cfg = [skills |-> {}, env |-> CHOOSE e \in Envs : TRUE]
  /\ edits = 0
  /\ latest = NoVersion
  /\ links = 0 /\ link = 0
  /\ conn = [l \in Links |-> NoVersion]
  /\ pusher = [p \in Pushers |-> NoPush]
  /\ wire = <<>>
  /\ mem = NoVersion /\ dir = NoContent /\ apply = NoApply
  /\ skills = [s \in BundleSkills |-> "none"] /\ manifest = {}
  /\ breaks = 0
  /\ torn = FALSE /\ missed = FALSE /\ crossed = FALSE

Break == breaks < MaxBreaks /\ breaks' = breaks + 1

-----------------------------------------------------------------------------
(* Gateway *)

\* A runner connects and says hello with what it has in memory; serveConn pushes.
LinkUp ==
  /\ link = 0 /\ links < MaxLinks /\ apply.at = "idle"
  /\ links' = links + 1 /\ link' = links + 1
  /\ conn' = [conn EXCEPT ![links + 1] = mem]
  /\ pusher' = [pusher EXCEPT ![links + 1] = [NoPush EXCEPT !.at = "build", !.on = links + 1]]
  /\ missed' = FALSE
  /\ UNCHANGED <<cfg, edits, latest, wire, bundleRunner, breaks, torn, crossed>>

\* Reload: the new configuration is in force, then connected runners get a push.
Edit(c) ==
  /\ edits < MaxEdits /\ pusher[Reloader].at = "idle" /\ c # cfg
  /\ edits' = edits + 1
  /\ cfg' = c
  /\ pusher' = IF link = 0 THEN pusher
               ELSE [pusher EXCEPT ![Reloader] = [NoPush EXCEPT !.at = "build", !.on = link]]
  /\ UNCHANGED <<latest, links, link, conn, wire, bundleRunner, breaks, bundleNotes>>

Build(p) ==
  /\ pusher[p].at = "build"
  /\ pusher' = [pusher EXCEPT ![p].at = "decide", ![p].content = cfg]
  /\ crossed' = (\/ crossed
                 \/ pusher[p].on # links
                 \/ \E q \in Pushers : pusher[q].at \in {"decide", "skip", "send"})
  /\ UNCHANGED <<cfg, edits, latest, conn, links, link, wire, bundleRunner, breaks, torn,
                 missed>>
\* A file or secret it needs cannot be read.
BuildFails(p) ==
  /\ Break
  /\ pusher[p].at = "build"
  /\ missed' = (missed \/ pusher[p].on = link)
  /\ pusher' = [pusher EXCEPT ![p] = NoPush]
  /\ UNCHANGED <<cfg, edits, latest, conn, links, link, wire, bundleRunner, torn, crossed>>

Higher(a, b) == IF a > b THEN a ELSE b
\* Mutant: the gateway trusts what it last built.
CachedHas(p) == latest.digest = DigestOf(pusher[p].content)
\* What the runner reports decides whether it needs the push.
RunnerHas(p) == conn[pusher[p].on].digest = DigestOf(pusher[p].content)
\* Mutant: versions count from the gateway's own memory.
OwnBase(p) == latest.version
Base(p) == Higher(latest.version, conn[pusher[p].on].version)
NextVersion(p) ==
  LET d == DigestOf(pusher[p].content) IN
  IF RunnerHas(p) THEN Higher(1, Base(p))
  ELSE IF latest.digest = d /\ latest.version > 0 THEN latest.version
  ELSE Base(p) + 1
\* Under bundlesMu.
Decide(p) ==
  /\ pusher[p].at = "decide"
  /\ latest' = [version |-> NextVersion(p), digest |-> DigestOf(pusher[p].content)]
  /\ pusher' = [pusher EXCEPT ![p].at = IF RunnerHas(p) THEN "skip" ELSE "send",
                              ![p].version = NextVersion(p)]
  /\ UNCHANGED <<cfg, edits, conn, links, link, wire, bundleRunner, breaks, bundleNotes>>
\* Send fails on a connection that is closed.
SendPush(p) ==
  LET q == pusher[p]  has == [version |-> q.version, digest |-> DigestOf(q.content)] IN
  /\ q.at \in {"skip", "send"}
  /\ wire' = IF q.at = "send" /\ q.on = link
             THEN Append(wire, [content |-> q.content, version |-> q.version]) ELSE wire
  /\ conn' = IF q.at = "skip" \/ q.on = link
             THEN [conn EXCEPT ![q.on] = has] ELSE conn
  /\ pusher' = [pusher EXCEPT ![p] = NoPush]
  /\ UNCHANGED <<cfg, edits, latest, links, link, bundleRunner, breaks, bundleNotes>>

LinkLost ==
  /\ Break
  /\ link # 0
  /\ link' = 0 /\ wire' = <<>>
  /\ UNCHANGED <<bundleGateway, links, bundleRunner, bundleNotes>>
RestartGateway ==
  /\ Break
  /\ link' = 0 /\ wire' = <<>>
  /\ latest' = NoVersion
  /\ conn' = [l \in Links |-> NoVersion]
  /\ pusher' = [p \in Pushers |-> NoPush]
  /\ UNCHANGED <<cfg, edits, links, bundleRunner, bundleNotes>>

-----------------------------------------------------------------------------
(* Runner: applyBundle *)

Reaches(at) == apply' = [apply EXCEPT !.at = at]

\* The staging directory is cleared and the bundle's files written to it.
Stage ==
  /\ apply.at = "idle" /\ wire # <<>>
  /\ apply' = [at |-> "skills", content |-> Head(wire).content, version |-> Head(wire).version]
  /\ wire' = Tail(wire)
  /\ UNCHANGED <<bundleGateway, links, link, mem, dir, skills, manifest, breaks, bundleNotes>>

\* syncBundleSkills: the bundle's are installed, the previous bundle's removed,
\* and the record of them is rewritten.
Shipped == apply.content.skills
KeepsEmpty == IF Shipped = {} THEN manifest ELSE Shipped  \* mutant: nothing to record
Recorded == Shipped
SyncedSkills ==
  [s \in BundleSkills |->
    IF s \in Shipped THEN "bundle" ELSE IF s \in manifest THEN "none" ELSE skills[s]]
Recording(now) ==
  IF now THEN mem' = [version |-> apply.version, digest |-> DigestOf(apply.content)]
  ELSE UNCHANGED mem
Eager == TRUE  \* mutant: the bundle is recorded before the swap
RecordsFirst == FALSE
PrepareState ==
  /\ apply.at = "skills"
  /\ Recording(RecordsFirst)
  /\ skills' = SyncedSkills
  /\ manifest' = Recorded
  /\ Reaches("rotate")
  /\ UNCHANGED <<bundleGateway, links, link, wire, dir, breaks, bundleNotes>>

\* The live directory is moved aside, then the staged one takes its place: only
\* then is the bundle the runner's.
Rotate ==
  /\ apply.at = "rotate"
  /\ dir' = NoContent
  /\ Reaches("install")
  /\ UNCHANGED <<bundleGateway, links, link, wire, mem, skills, manifest, breaks, bundleNotes>>
Install ==
  /\ apply.at = "install"
  /\ dir' = apply.content
  /\ Recording(TRUE)
  /\ apply' = NoApply
  /\ UNCHANGED <<bundleGateway, links, link, wire, skills, manifest, breaks, bundleNotes>>

\* An error at any point gives the push up; the gateway only logs it.  In
\* syncBundleSkills some of the skills may have been written already.
ApplyFails ==
  /\ Break
  /\ apply.at # "idle"
  /\ apply' = NoApply
  /\ missed' = TRUE
  /\ \/ UNCHANGED <<skills, torn>>
     \/ /\ apply.at = "skills" /\ skills # SyncedSkills
        /\ skills' = SyncedSkills
        /\ torn' = TRUE
  /\ UNCHANGED <<bundleGateway, links, link, wire, mem, dir, manifest, crossed>>
\* The runner's memory is lost, and after a reboot its runtime directory too.
RestartsRunner(wiped) ==
  /\ Break
  /\ mem' = NoVersion
  /\ dir' = IF wiped THEN NoContent ELSE dir
  /\ apply' = NoApply
  /\ link' = 0 /\ wire' = <<>>
  /\ torn' = (torn \/ apply.at = "skills")
  /\ UNCHANGED <<bundleGateway, links, skills, manifest, missed, crossed>>

\* The agent makes a skill of its own in the linked directory.
MakeSkill(s) ==
  /\ dir # NoContent /\ skills[s] = "none"
  /\ skills' = [skills EXCEPT ![s] = "runtime"]
  /\ UNCHANGED <<bundleGateway, links, link, wire, mem, dir, apply, manifest, breaks,
                 bundleNotes>>

-----------------------------------------------------------------------------
Pushes(p) ==
  \/ Build(p)
  \/ Decide(p)
  \/ SendPush(p)
Applies ==
  \/ Stage
  \/ PrepareState
  \/ Rotate
  \/ Install
BundlesNext ==
  \/ LinkUp
  \/ \E c \in Contents : Edit(c)
  \/ \E p \in Pushers : Pushes(p) \/ BuildFails(p)
  \/ Applies
  \/ ApplyFails
  \/ \E s \in BundleSkills : MakeSkill(s)
  \/ LinkLost
  \/ RestartGateway
  \/ \E wiped \in BOOLEAN : RestartsRunner(wiped)

\* Goroutines run.
BundlesFairness ==
  /\ \A p \in Pushers : WF_bundleVars(Pushes(p))
  /\ WF_bundleVars(Applies)
BundlesSpec == BundlesInit /\ [][BundlesNext]_bundleVars /\ BundlesFairness

-----------------------------------------------------------------------------
(* Properties *)

\* What the runner reports is what it has: its config directory holds the bundle
\* with the digest in memory, or is missing because the swap is under way or
\* failed (applyBundle).
ReportsInstalled ==
  /\ mem \in [version : Nat, digest : {NoDigest} \cup {DigestOf(c) : c \in Contents}]
  /\ mem # NoVersion /\ dir # NoContent => DigestOf(dir) = mem.digest

\* As long as the runner runs, the versions it applies never go back, and a
\* version is never used for a second content, also when the gateway restarts
\* and counts anew, unless overlapping pushes were sent out of order or a push for
\* a connection that was replaced came late (pushBundle).
VersionsGrow ==
  [][mem # NoVersion /\ mem' # NoVersion =>
       \/ crossed'
       \/ mem'.version > mem.version
       \/ mem'.version = mem.version /\ mem'.digest = mem.digest]_bundleVars

\* A skill the agent made is lost only to a bundle that ships one of its name,
\* unless an earlier bundle was installed in part (syncBundleSkills).
RuntimeSkillsKept ==
  [][\A s \in BundleSkills :
       skills[s] = "runtime" /\ skills'[s] # "runtime" => s \in Shipped \/ torn']_bundleVars

\* A connected runner comes to have the configured bundle: while it stays
\* connected, no push of it fails and none is overtaken or late (serveConn, Reload).
HasBundle(c) == link # 0 /\ cfg = c /\ mem.digest = DigestOf(c)
Delivered == []<>(link # 0 => HasBundle(cfg) \/ missed \/ crossed)

\* The same of the whole content, as Reload's comment has it: runners whose bundle
\* changed get a push.
ChangeReaches ==
  \A c \in Contents :
    link # 0 /\ cfg = c ~> dir = c \/ link = 0 \/ cfg # c \/ missed \/ crossed
=============================================================================
