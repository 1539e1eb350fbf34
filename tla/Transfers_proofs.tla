---------------------------- MODULE Transfers_proofs ----------------------------
(***************************************************************************)
(* What reaches a runner and its harness: bundles, with their versions and *)
(* the agent's own skills, and files.                                      *)
(***************************************************************************)
EXTENDS Bundles, Blobs, SequenceTheorems, TLAPS

-----------------------------------------------------------------------------
(* Bundles: what holds whatever is pushed when                               *)

\* The version and digest of a push, wherever it is on its way.
Has(m) == [version |-> m.version, digest |-> DigestOf(m.content)]

InFlight == {"decide", "skip", "send"}
Versions == [version : Nat, digest : {NoDigest} \cup {DigestOf(c) : c \in Contents}]
\* Nothing is known to be installed, or a bundle that was given a number.
Numbered(v) == v \in Versions /\ (v.version = 0 => v = NoVersion)

PusherOK(q) ==
  /\ DOMAIN q = {"at", "on", "content", "version"}
  /\ q.at \in InFlight \cup {"idle", "build"}
  /\ q.at # "idle" => q.on \in 1 .. links
  /\ q.at \in InFlight => q.content \in Contents
  /\ q.at \in {"skip", "send"} => q.version \in Nat \ {0}
GatewayOK ==
  /\ cfg \in Contents /\ latest \in Versions
  /\ links \in 0 .. MaxLinks /\ link \in {0, links}
  /\ DOMAIN conn = Links /\ \A l \in Links : Numbered(conn[l])
  /\ DOMAIN pusher = Pushers /\ \A p \in Pushers : PusherOK(pusher[p])
  /\ wire \in Seq([content : Contents, version : Nat \ {0}])
  /\ link = 0 => wire = <<>>
RunnerOK ==
  /\ Numbered(mem)
  /\ DOMAIN apply = {"at", "content", "version"}
  /\ apply.at \in {"idle", "skills", "rotate", "install"}
  /\ apply.at # "idle" => apply.content \in Contents /\ apply.version \in Nat \ {0}
  /\ mem # NoVersion /\ dir # NoContent => DigestOf(dir) = mem.digest

\* The skills that are recorded as the bundle's are, unless some were written and
\* not recorded.
SkillsRecorded ==
  /\ DOMAIN skills = BundleSkills
  /\ ~torn => \A s \in manifest \cap BundleSkills : skills[s] = "bundle"

BundlesOK == GatewayOK /\ RunnerOK /\ SkillsRecorded

(* The digest of a content is one that a version may have.                   *)
LEMMA HasVersion ==
  ASSUME NEW m, m.content \in Contents, m.version \in Nat \ {0}
  PROVE  Has(m) \in Versions /\ Numbered(Has(m))
  BY DEF Has, Versions, Numbered

(* A pusher's step leaves the other pushers alone.                           *)
LEMMA PusherStep ==
  ASSUME GatewayOK, NEW p \in Pushers, NEW q,
         pusher' = [pusher EXCEPT ![p] = q], PusherOK(q), UNCHANGED links
  PROVE  /\ DOMAIN pusher' = Pushers /\ pusher'[p] = q
         /\ \A r \in Pushers \ {p} : pusher'[r] = pusher[r]
         /\ \A r \in Pushers : PusherOK(pusher[r])'
  <1>1. /\ DOMAIN pusher' = Pushers /\ pusher'[p] = q
        /\ \A r \in Pushers \ {p} : pusher'[r] = pusher[r]
    BY DEF GatewayOK
  <1>2. ASSUME NEW r \in Pushers PROVE PusherOK(pusher[r])'
    <2>1. CASE r = p
      BY <1>1, <2>1 DEF PusherOK
    <2>2. CASE r # p
      BY <1>1, <2>2 DEF GatewayOK, PusherOK
    <2> QED
      BY <2>1, <2>2
  <1> QED
    BY <1>1, <1>2

(* A pusher that gives up is idle.                                           *)
LEMMA NoPushOK == PusherOK(NoPush) /\ NoPush.at = "idle"
  BY DEF PusherOK, NoPush, InFlight

(* What is decided is a number, no lower than the gateway's last and than    *)
(* what the runner of the connection has.                                    *)
LEMMA NextVersionNumber ==
  ASSUME GatewayOK, NEW p \in Pushers, pusher[p].at = "decide"
  PROVE  /\ NextVersion(p) \in Nat \ {0}
         /\ pusher[p].on \in Links /\ Numbered(conn[pusher[p].on]) /\ latest \in Versions
         /\ pusher[p].content \in Contents
  <1>1. /\ pusher[p].on \in Links /\ pusher[p].content \in Contents
        /\ Numbered(conn[pusher[p].on]) /\ latest \in Versions
    BY BundlesAssumption DEF GatewayOK, PusherOK, InFlight, Links
  <1>2. latest.version \in Nat /\ conn[pusher[p].on].version \in Nat
    BY <1>1 DEF Numbered, Versions
  <1>3. NextVersion(p) \in Nat \ {0}
    BY <1>2 DEF NextVersion, Base, Higher
  <1> QED
    BY <1>1, <1>3

(* The gateway's steps keep the shape of what it has.                        *)
LEMMA GatewaySteps ==
  ASSUME BundlesOK,
         \/ LinkUp
         \/ \E c \in Contents : Edit(c)
         \/ \E p \in Pushers : Pushes(p) \/ BuildFails(p)
         \/ LinkLost \/ RestartGateway
  PROVE  BundlesOK'
  <1>1. CASE LinkUp
    <2> DEFINE l == links + 1  q == [NoPush EXCEPT !.at = "build", !.on = l]
    <2>1. /\ l \in Links /\ links \in Nat /\ links' = l /\ link' = l /\ l \in 0 .. MaxLinks
          /\ 0 \notin Links
      BY <1>1, BundlesAssumption DEF LinkUp, BundlesOK, GatewayOK, Links
    <2>2. DOMAIN conn' = Links /\ \A k \in Links : Numbered(conn'[k])
      BY <1>1 DEF LinkUp, BundlesOK, GatewayOK, RunnerOK
    <2>3. /\ pusher' = [pusher EXCEPT ![l] = q] /\ l \in Pushers
      BY <1>1, <2>1 DEF LinkUp, Pushers
    <2>4. ASSUME NEW r \in Pushers PROVE PusherOK(pusher[r])'
      <3>1. CASE r = l
        <4>1. /\ DOMAIN q = {"at", "on", "content", "version"} /\ q.at = "build" /\ q.on = l
          BY DEF NoPush
        <4>2. pusher'[r] = q
          BY <2>3, <3>1 DEF BundlesOK, GatewayOK
        <4> QED
          BY <2>1, <4>1, <4>2 DEF PusherOK, InFlight
      <3>2. CASE r # l
        <4>1. pusher'[r] = pusher[r] /\ PusherOK(pusher[r])
          BY <2>3, <3>2 DEF BundlesOK, GatewayOK
        <4> QED
          BY <2>1, <4>1 DEF PusherOK
      <3> QED
        BY <3>1, <3>2
    <2>5. DOMAIN pusher' = Pushers
      BY <2>3 DEF BundlesOK, GatewayOK
    <2> QED
      BY <1>1, <2>1, <2>2, <2>4, <2>5
      DEF LinkUp, BundlesOK, GatewayOK, RunnerOK, SkillsRecorded, bundleRunner
  <1>2. ASSUME NEW c \in Contents, Edit(c) PROVE BundlesOK'
    <2> DEFINE q == [NoPush EXCEPT !.at = "build", !.on = link]
    <2>1. CASE link = 0
      BY <1>2, <2>1
      DEF Edit, BundlesOK, GatewayOK, PusherOK, RunnerOK, SkillsRecorded, bundleRunner, bundleNotes
    <2>2. CASE link # 0
      <3>1. link \in 1 .. links
        BY <2>2, BundlesAssumption DEF BundlesOK, GatewayOK
      <3>2. PusherOK(q)
        BY <3>1 DEF PusherOK, NoPush, InFlight
      <3>3. Reloader \in Pushers /\ pusher' = [pusher EXCEPT ![Reloader] = q] /\ UNCHANGED links
        BY <1>2, <2>2 DEF Edit, Pushers
      <3>4. DOMAIN pusher' = Pushers /\ \A r \in Pushers : PusherOK(pusher[r])'
        BY <3>2, <3>3, PusherStep DEF BundlesOK
      <3> QED
        BY <1>2, <3>4
        DEF Edit, BundlesOK, GatewayOK, RunnerOK, SkillsRecorded, bundleRunner, bundleNotes
    <2> QED
      BY <2>1, <2>2
  <1>3. ASSUME NEW p \in Pushers, Build(p) PROVE BundlesOK'
    <2> DEFINE q == [pusher[p] EXCEPT !.at = "decide", !.content = cfg]
    <2>1. PusherOK(pusher[p]) /\ pusher[p].at = "build" /\ cfg \in Contents
      BY <1>3 DEF Build, BundlesOK, GatewayOK
    <2>2. PusherOK(q)
      BY <2>1 DEF PusherOK, InFlight
    <2>3. pusher' = [pusher EXCEPT ![p] = q] /\ UNCHANGED links
      BY <1>3 DEF Build
    <2>4. DOMAIN pusher' = Pushers /\ \A r \in Pushers : PusherOK(pusher[r])'
      BY <2>2, <2>3, PusherStep DEF BundlesOK
    <2> QED
      BY <1>3, <2>4
      DEF Build, BundlesOK, GatewayOK, RunnerOK, SkillsRecorded, bundleRunner
  <1>4. ASSUME NEW p \in Pushers, BuildFails(p) PROVE BundlesOK'
    <2>1. DOMAIN pusher' = Pushers /\ \A r \in Pushers : PusherOK(pusher[r])'
      BY <1>4, NoPushOK, PusherStep DEF BuildFails, BundlesOK
    <2> QED
      BY <1>4, <2>1
      DEF BuildFails, BundlesOK, GatewayOK, RunnerOK, SkillsRecorded, bundleRunner
  <1>5. ASSUME NEW p \in Pushers, Decide(p) PROVE BundlesOK'
    <2> DEFINE at == IF RunnerHas(p) THEN "skip" ELSE "send"
               q  == [pusher[p] EXCEPT !.at = at, !.version = NextVersion(p)]
    <2>1. /\ PusherOK(pusher[p]) /\ pusher[p].at = "decide" /\ pusher[p].content \in Contents
          /\ NextVersion(p) \in Nat \ {0}
      BY <1>5, NextVersionNumber DEF Decide, BundlesOK, GatewayOK
    <2>2. at \in {"skip", "send"}
      OBVIOUS
    <2> HIDE DEF at
    <2>3. PusherOK(q)
      BY <2>1, <2>2 DEF PusherOK, InFlight
    <2>4. pusher' = [pusher EXCEPT ![p] = q] /\ UNCHANGED links
      BY <1>5 DEF Decide, at
    <2>5. DOMAIN pusher' = Pushers /\ \A r \in Pushers : PusherOK(pusher[r])'
      BY <2>3, <2>4, PusherStep DEF BundlesOK
    <2>6. latest' \in Versions
      BY <1>5, <2>1 DEF Decide, Versions
    <2> QED
      BY <1>5, <2>5, <2>6
      DEF Decide, BundlesOK, GatewayOK, RunnerOK, SkillsRecorded, bundleRunner, bundleNotes
  <1>6. ASSUME NEW p \in Pushers, SendPush(p) PROVE BundlesOK'
    <2> DEFINE q == pusher[p]
               m == [content |-> q.content, version |-> q.version]
    <2>1. /\ q.at \in {"skip", "send"} /\ q.content \in Contents /\ q.version \in Nat \ {0}
          /\ q.on \in Links
      BY <1>6, BundlesAssumption DEF SendPush, BundlesOK, GatewayOK, PusherOK, InFlight, Links
    <2>2. DOMAIN pusher' = Pushers /\ \A r \in Pushers : PusherOK(pusher[r])'
      BY <1>6, NoPushOK, PusherStep DEF SendPush, BundlesOK
    <2>3. Has(q) = [version |-> q.version, digest |-> DigestOf(q.content)] /\ Numbered(Has(q))
      BY <2>1, HasVersion DEF Has
    <2>4. DOMAIN conn' = Links /\ \A l \in Links : Numbered(conn'[l])
      <3>1. conn' = conn \/ conn' = [conn EXCEPT ![q.on] = Has(q)]
        BY <1>6, <2>3 DEF SendPush
      <3> QED
        BY <2>3, <3>1 DEF BundlesOK, GatewayOK
    <2>5. wire' \in Seq([content : Contents, version : Nat \ {0}]) /\ (link = 0 => wire' = <<>>)
      <3>1. wire' = wire \/ (link # 0 /\ wire' = Append(wire, m))
        <4>1. q.on # 0
          BY <2>1, BundlesAssumption DEF Links
        <4> QED
          BY <1>6, <4>1 DEF SendPush
      <3>2. wire \in Seq([content : Contents, version : Nat \ {0}]) /\ (link = 0 => wire = <<>>)
        BY DEF BundlesOK, GatewayOK
      <3>3. m \in [content : Contents, version : Nat \ {0}]
        BY <2>1
      <3>4. Append(wire, m) \in Seq([content : Contents, version : Nat \ {0}])
        BY <3>2, <3>3, AppendProperties
      <3> HIDE DEF m
      <3> QED
        BY <3>1, <3>2, <3>4
    <2> QED
      BY <1>6, <2>2, <2>4, <2>5
      DEF SendPush, BundlesOK, GatewayOK, RunnerOK, SkillsRecorded, bundleRunner, bundleNotes
  <1>7. CASE LinkLost
    <2>1. <<>> \in Seq([content : Contents, version : Nat \ {0}])
      OBVIOUS
    <2> QED
      BY <1>7, <2>1
      DEF LinkLost, BundlesOK, GatewayOK, PusherOK, RunnerOK, SkillsRecorded,
          bundleGateway, bundleRunner, bundleNotes
  <1>8. CASE RestartGateway
    <2>1. Numbered(NoVersion) /\ NoVersion \in Versions
      BY DEF Numbered, NoVersion, Versions
    <2>2. DOMAIN pusher' = Pushers /\ \A p \in Pushers : PusherOK(pusher[p])'
      BY <1>8, NoPushOK DEF RestartGateway, PusherOK
    <2> QED
      BY <1>8, <2>1, <2>2
      DEF RestartGateway, BundlesOK, GatewayOK, RunnerOK, SkillsRecorded, bundleRunner, bundleNotes
  <1> QED
    BY <1>1, <1>2, <1>3, <1>4, <1>5, <1>6, <1>7, <1>8 DEF Pushes

(* The runner's steps keep the shape of what it has, its report of it, and   *)
(* the record of the bundle's skills.                                        *)
LEMMA RunnerSteps ==
  ASSUME BundlesOK,
         \/ Applies \/ ApplyFails
         \/ \E s \in BundleSkills : MakeSkill(s)
         \/ \E wiped \in BOOLEAN : RestartsRunner(wiped)
  PROVE  BundlesOK'
  <1> USE DEF bundleGateway, bundleNotes
  <1>1. CASE Stage
    <2>1. /\ wire # <<>> /\ wire \in Seq([content : Contents, version : Nat \ {0}])
      BY <1>1 DEF Stage, BundlesOK, GatewayOK
    <2>2. /\ Head(wire) \in [content : Contents, version : Nat \ {0}]
          /\ Tail(wire) \in Seq([content : Contents, version : Nat \ {0}])
      BY <2>1, HeadTailProperties
    <2>3. GatewayOK'
      BY <1>1, <2>1, <2>2 DEF Stage, BundlesOK, GatewayOK, PusherOK
    <2>4. RunnerOK' /\ SkillsRecorded'
      BY <1>1, <2>2 DEF Stage, BundlesOK, RunnerOK, SkillsRecorded
    <2> QED
      BY <2>3, <2>4 DEF BundlesOK
  <1>2. CASE PrepareState
    <2>1. GatewayOK'
      BY <1>2 DEF PrepareState, BundlesOK, GatewayOK, PusherOK
    <2>2. RunnerOK'
      BY <1>2 DEF PrepareState, Recording, RecordsFirst, Reaches, BundlesOK, RunnerOK
    <2>3. SkillsRecorded'
      BY <1>2 DEF PrepareState, SyncedSkills, Recorded, Shipped, SkillsRecorded
    <2> QED
      BY <2>1, <2>2, <2>3 DEF BundlesOK
  <1>3. CASE Rotate
    <2>1. GatewayOK'
      BY <1>3 DEF Rotate, BundlesOK, GatewayOK, PusherOK
    <2>2. RunnerOK' /\ SkillsRecorded'
      BY <1>3 DEF Rotate, Reaches, BundlesOK, RunnerOK, SkillsRecorded
    <2> QED
      BY <2>1, <2>2 DEF BundlesOK
  <1>4. CASE Install
    <2>1. GatewayOK'
      BY <1>4 DEF Install, BundlesOK, GatewayOK, PusherOK
    <2>2. apply.content \in Contents /\ apply.version \in Nat \ {0}
      BY <1>4 DEF Install, BundlesOK, RunnerOK
    <2>3. mem' = Has(apply) /\ dir' = apply.content /\ apply' = NoApply
      BY <1>4 DEF Install, Recording, Has
    <2>4. RunnerOK'
      BY <2>2, <2>3, HasVersion DEF RunnerOK, NoApply, Has
    <2>5. SkillsRecorded'
      BY <1>4 DEF Install, BundlesOK, SkillsRecorded
    <2> QED
      BY <2>1, <2>4, <2>5 DEF BundlesOK
  <1>5. CASE ApplyFails
    <2>1. GatewayOK'
      BY <1>5 DEF ApplyFails, BundlesOK, GatewayOK, PusherOK
    <2>2. RunnerOK'
      BY <1>5 DEF ApplyFails, NoApply, BundlesOK, RunnerOK
    <2>3. SkillsRecorded'
      BY <1>5 DEF ApplyFails, SyncedSkills, BundlesOK, SkillsRecorded
    <2> QED
      BY <2>1, <2>2, <2>3 DEF BundlesOK
  <1>6. ASSUME NEW s \in BundleSkills, MakeSkill(s) PROVE BundlesOK'
    <2>1. GatewayOK'
      BY <1>6 DEF MakeSkill, BundlesOK, GatewayOK, PusherOK
    <2>2. RunnerOK' /\ SkillsRecorded'
      BY <1>6 DEF MakeSkill, BundlesOK, RunnerOK, SkillsRecorded
    <2> QED
      BY <2>1, <2>2 DEF BundlesOK
  <1>7. ASSUME NEW wiped \in BOOLEAN, RestartsRunner(wiped) PROVE BundlesOK'
    <2>1. GatewayOK'
      <3>1. <<>> \in Seq([content : Contents, version : Nat \ {0}])
        OBVIOUS
      <3> QED
        BY <1>7, <3>1 DEF RestartsRunner, BundlesOK, GatewayOK, PusherOK
    <2>2. RunnerOK'
      <3>1. Numbered(NoVersion)
        BY DEF Numbered, NoVersion, Versions
      <3> QED
        BY <1>7, <3>1 DEF RestartsRunner, NoApply, RunnerOK
    <2>3. SkillsRecorded'
      BY <1>7 DEF RestartsRunner, BundlesOK, SkillsRecorded
    <2> QED
      BY <2>1, <2>2, <2>3 DEF BundlesOK
  <1> QED
    BY <1>1, <1>2, <1>3, <1>4, <1>5, <1>6, <1>7 DEF Applies

(* Every step keeps all of it.                                               *)
LEMMA BundlesNextOK == BundlesOK /\ [BundlesNext]_bundleVars => BundlesOK'
  <1> SUFFICES ASSUME BundlesOK, [BundlesNext]_bundleVars PROVE BundlesOK'
    OBVIOUS
  <1>1. CASE BundlesNext
    BY <1>1, GatewaySteps, RunnerSteps DEF BundlesNext
  <1>2. CASE UNCHANGED bundleVars
    BY <1>2 DEF bundleVars, bundleGateway, bundleRunner, bundleNotes,
                BundlesOK, GatewayOK, PusherOK, RunnerOK, SkillsRecorded
  <1> QED
    BY <1>1, <1>2

(* And it holds when nothing has been pushed yet.                            *)
LEMMA BundlesInitOK == BundlesInit => BundlesOK
  <1> SUFFICES ASSUME BundlesInit PROVE BundlesOK
    OBVIOUS
  <1>1. Numbered(NoVersion) /\ NoVersion \in Versions
    BY DEF Numbered, NoVersion, Versions
  <1>2. cfg \in Contents
    <2>1. (CHOOSE e \in Envs : TRUE) \in Envs
      BY BundlesAssumption
    <2> QED
      BY <2>1 DEF BundlesInit, Contents
  <1>3. GatewayOK
    BY <1>1, <1>2, NoPushOK, BundlesAssumption DEF BundlesInit, GatewayOK, PusherOK
  <1>4. RunnerOK /\ SkillsRecorded
    BY <1>1 DEF BundlesInit, RunnerOK, NoApply, SkillsRecorded
  <1> QED
    BY <1>3, <1>4 DEF BundlesOK

(* So it holds in every run.                                                 *)
LEMMA BundlesCorrect == BundlesSpec => []BundlesOK
  BY BundlesInitOK, BundlesNextOK, PTL DEF BundlesSpec

(* What the runner reports in its hello is installed, or its directory is    *)
(* missing: wherever applyBundle fails or the runner restarts.               *)
THEOREM ReportsInstalledCorrect == BundlesSpec => []ReportsInstalled
  <1>1. BundlesOK => ReportsInstalled
    BY DEF BundlesOK, RunnerOK, ReportsInstalled, Numbered, Versions
  <1> QED
    BY <1>1, BundlesCorrect, PTL

(* A skill that the agent made is overwritten only by a bundle that ships    *)
(* one of its name, unless an earlier one was installed in part              *)
(* (syncBundleSkills).                                                       *)
THEOREM RuntimeSkillsKeptCorrect == BundlesSpec => RuntimeSkillsKept
  <1> DEFINE Kept == \A s \in BundleSkills :
                       skills[s] = "runtime" /\ skills'[s] # "runtime" => s \in Shipped \/ torn'
  <1>1. BundlesOK /\ [BundlesNext]_bundleVars => [Kept]_bundleVars
    <2> SUFFICES ASSUME BundlesOK, BundlesNext, NEW s \in BundleSkills,
                        skills[s] = "runtime", skills'[s] # "runtime"
                 PROVE  s \in Shipped \/ torn'
      OBVIOUS
    <2>1. skills' # skills
      OBVIOUS
    <2>2. CASE PrepareState
      BY <2>2 DEF PrepareState, SyncedSkills, BundlesOK, SkillsRecorded, bundleNotes
    <2>3. CASE ApplyFails
      BY <2>1, <2>3 DEF ApplyFails
    <2>4. ~ \E r \in BundleSkills : MakeSkill(r)
      <3> SUFFICES ASSUME NEW r \in BundleSkills, MakeSkill(r) PROVE FALSE
        OBVIOUS
      <3>1. skills[r] = "none" /\ skills' = [skills EXCEPT ![r] = "runtime"]
        BY DEF MakeSkill
      <3>2. DOMAIN skills = BundleSkills
        BY DEF BundlesOK, SkillsRecorded
      <3>3. skills'[s] = "runtime"
        BY <3>1, <3>2
      <3> QED
        BY <3>3
    <2>5. /\ ~ LinkUp /\ ~ (\E c \in Contents : Edit(c)) /\ ~ LinkLost /\ ~ RestartGateway
          /\ ~ \E p \in Pushers : Pushes(p) \/ BuildFails(p)
      BY <2>1 DEF LinkUp, Edit, LinkLost, RestartGateway, Pushes, Build, Decide, SendPush,
                  BuildFails, bundleRunner
    <2>6. ~ Stage /\ ~ Rotate /\ ~ Install /\ ~ \E wiped \in BOOLEAN : RestartsRunner(wiped)
      BY <2>1 DEF Stage, Rotate, Install, RestartsRunner
    <2> QED
      BY <2>2, <2>3, <2>4, <2>5, <2>6 DEF BundlesNext, Applies
  <1> QED
    BY <1>1, BundlesCorrect, PTL DEF BundlesSpec, RuntimeSkillsKept

-----------------------------------------------------------------------------
(* Bundles: the order of versions, as long as pushes are not crossed         *)

\* A version that may follow another: higher, or the same of the same content.
Leads(a, b) == a.version < b.version \/ (a.version = b.version /\ a.digest = b.digest)

\* What the runner has, is applying, or has coming.
Held == {mem} \cup (IF apply.at = "idle" THEN {} ELSE {Has(apply)})
              \cup {Has(wire[i]) : i \in DOMAIN wire}
\* They follow each other.
HeldInOrder ==
  /\ \A h \in Held : Leads(mem, h)
  /\ apply.at # "idle" => \A i \in DOMAIN wire : Leads(Has(apply), Has(wire[i]))
  /\ \A i, j \in DOMAIN wire : i < j => Leads(Has(wire[i]), Has(wire[j]))

\* The gateway is connected, or is still at a push.
Engaged == link # 0 \/ \E p \in Pushers : pusher[p].at # "idle"
\* What the gateway takes the runner to have, and what it last decided, follow what
\* the runner holds.
Ahead ==
  /\ Engaged => \A h \in Held : Leads(h, conn[links])
  /\ latest.version > 0 =>
       (\A h \in Held : Leads(h, latest)) /\ (Engaged => Leads(conn[links], latest))

\* One push is under way at most.  It is decided on what the newest connection has
\* or later, and what is sent is the last decision.
OnePush ==
  /\ \A p, q \in Pushers : pusher[p].at \in InFlight /\ pusher[q].at \in InFlight => p = q
  /\ \A p \in Pushers :
       /\ pusher[p].at = "decide" =>
            /\ Leads(conn[links], conn[pusher[p].on])
            /\ latest.version > 0 => Leads(conn[pusher[p].on], latest)
       /\ pusher[p].at \in {"skip", "send"} => latest = Has(pusher[p]) /\ latest.version > 0

VersionsOrdered == ~crossed => HeldInOrder /\ Ahead /\ OnePush

(* The order is one.                                                         *)
LEMMA LeadsOrder ==
  ASSUME NEW a \in Versions, NEW b \in Versions, NEW c \in Versions
  PROVE  /\ Leads(a, a)
         /\ Leads(a, b) /\ Leads(b, c) => Leads(a, c)
         /\ Numbered(b) => Leads(NoVersion, b)
         /\ b.version > 0 => Leads(NoVersion, b)
  BY DEF Leads, Versions, Numbered, NoVersion

(* All that a runner holds are versions.                                     *)
LEMMA HeldVersions ==
  ASSUME BundlesOK
  PROVE  Held \subseteq Versions /\ mem \in Held
  <1>1. mem \in Versions
    BY DEF BundlesOK, RunnerOK, Numbered
  <1>2. apply.at # "idle" => Has(apply) \in Versions
    BY HasVersion DEF BundlesOK, RunnerOK
  <1>3. \A i \in DOMAIN wire : Has(wire[i]) \in Versions
    <2> SUFFICES ASSUME NEW i \in DOMAIN wire PROVE Has(wire[i]) \in Versions
      OBVIOUS
    <2>1. wire[i] \in [content : Contents, version : Nat \ {0}]
      <3>1. wire \in Seq([content : Contents, version : Nat \ {0}]) /\ DOMAIN wire = 1 .. Len(wire)
        BY LenProperties DEF BundlesOK, GatewayOK
      <3> QED
        BY <3>1, ElementOfSeq
    <2> QED
      BY <2>1, HasVersion
  <1> QED
    BY <1>1, <1>2, <1>3 DEF Held

(* A gateway that is connected, or at a push, has had a connection.          *)
LEMMA EngagedLinks ==
  ASSUME BundlesOK, Engaged
  PROVE  links \in Links /\ conn[links] \in Versions /\ Numbered(conn[links])
  <1>1. link # 0 => links \in Links
    BY BundlesAssumption DEF BundlesOK, GatewayOK, Links
  <1>2. (\E p \in Pushers : pusher[p].at # "idle") => links \in Links
    BY BundlesAssumption DEF BundlesOK, GatewayOK, PusherOK, Links
  <1> QED
    BY <1>1, <1>2 DEF Engaged, BundlesOK, GatewayOK, Numbered

(* A step that adds nothing to what the runner holds and leaves the gateway  *)
(* as it is keeps what is ahead of it.                                       *)
LEMMA HeldShrinks ==
  ASSUME BundlesOK, BundlesOK', ~crossed, ~crossed', VersionsOrdered,
         Held' \subseteq Held \cup {NoVersion}, HeldInOrder',
         UNCHANGED <<latest, conn, pusher, links>>, Engaged' => Engaged
  PROVE  VersionsOrdered'
  <1>1. OnePush'
    BY DEF VersionsOrdered, OnePush
  <1>2. Ahead'
    <2>2. ASSUME NEW h \in Held', Engaged' PROVE Leads(h, conn[links])
      <3>1. Numbered(conn[links]) /\ conn[links] \in Versions
        BY <2>2, EngagedLinks
      <3>2. Leads(NoVersion, conn[links])
        BY <3>1, LeadsOrder
      <3> QED
        BY <2>2, <3>2 DEF VersionsOrdered, Ahead
    <2>3. ASSUME NEW h \in Held', latest.version > 0 PROVE Leads(h, latest)
      <3>1. Leads(NoVersion, latest)
        BY <2>3, LeadsOrder DEF BundlesOK, GatewayOK
      <3> QED
        BY <2>3, <3>1 DEF VersionsOrdered, Ahead
    <2> QED
      BY <2>2, <2>3 DEF VersionsOrdered, Ahead
  <1> QED
    BY <1>1, <1>2 DEF VersionsOrdered

(* The decision follows what the pusher's connection is taken to have.       *)
LEMMA DecisionLeads ==
  ASSUME GatewayOK, NEW p \in Pushers, pusher[p].at = "decide",
         latest.version > 0 => Leads(conn[pusher[p].on], latest)
  PROVE  LET d == [version |-> NextVersion(p), digest |-> DigestOf(pusher[p].content)] IN
         Leads(conn[pusher[p].on], d) /\ d.version > 0 /\ d \in Versions
  <1> DEFINE c == conn[pusher[p].on]
             g == DigestOf(pusher[p].content)
  <1>1. /\ NextVersion(p) \in Nat \ {0} /\ g \in {DigestOf(k) : k \in Contents}
        /\ c.version \in Nat /\ latest.version \in Nat
    BY NextVersionNumber DEF Numbered, Versions
  <1>2. /\ c.digest = g => NextVersion(p) >= c.version
        /\ c.digest # g /\ latest.digest = g /\ latest.version > 0 => NextVersion(p) = latest.version
        /\ c.digest # g /\ ~(latest.digest = g /\ latest.version > 0) => NextVersion(p) > c.version
    BY <1>1 DEF NextVersion, RunnerHas, Base, Higher
  <1> HIDE DEF c, g
  <1>3. latest.version > 0 => Leads(c, latest)
    BY DEF c
  <1>4. CASE c.digest = g
    BY <1>1, <1>2, <1>4 DEF Leads, Versions, c, g
  <1>5. CASE c.digest # g /\ latest.digest = g /\ latest.version > 0
    BY <1>1, <1>2, <1>3, <1>5 DEF Leads, Versions, c, g
  <1>6. CASE c.digest # g /\ ~(latest.digest = g /\ latest.version > 0)
    BY <1>1, <1>2, <1>6 DEF Leads, Versions, c, g
  <1> QED
    BY <1>4, <1>5, <1>6

(* The runner's side of the connection: what it holds moves along.           *)
LEMMA RunnerOrdered ==
  ASSUME BundlesOK, BundlesOK', VersionsOrdered, ~crossed', ~crossed,
         \/ Applies \/ ApplyFails
         \/ \E s \in BundleSkills : MakeSkill(s)
         \/ \E wiped \in BOOLEAN : RestartsRunner(wiped)
  PROVE  VersionsOrdered'
  <1>0. HeldInOrder /\ Held \subseteq Versions /\ mem \in Held /\ mem \in Versions
    BY HeldVersions DEF VersionsOrdered
  <1>1. CASE Stage
    <2>1. /\ wire # <<>> /\ wire \in Seq([content : Contents, version : Nat \ {0}])
          /\ apply.at = "idle" /\ apply'.at = "skills" /\ wire' = Tail(wire)
          /\ apply'.content = Head(wire).content /\ apply'.version = Head(wire).version
          /\ UNCHANGED <<mem, latest, conn, pusher, links, link>>
      BY <1>1 DEF Stage, BundlesOK, GatewayOK, bundleGateway
    <2>2. /\ Head(wire) = wire[1] /\ 1 \in DOMAIN wire
          /\ \A i \in DOMAIN wire' : i + 1 \in DOMAIN wire /\ wire'[i] = wire[i + 1] /\ i \in Nat \ {0}
      BY <2>1, HeadTailProperties, LenProperties
    <2>3. Has(apply)' = Has(wire[1])
      BY <2>1, <2>2 DEF Has
    <2>4. Held' \subseteq Held
      BY <2>1, <2>2, <2>3 DEF Held
    <2>5. HeldInOrder'
      <3>1. \A h \in Held' : Leads(mem', h)
        BY <1>0, <2>1, <2>4 DEF HeldInOrder
      <3>2. \A i \in DOMAIN wire' : Leads(Has(wire[1]), Has(wire'[i]))
        BY <1>0, <2>2 DEF HeldInOrder
      <3>3. \A i, j \in DOMAIN wire' : i < j => Leads(Has(wire'[i]), Has(wire'[j]))
        BY <1>0, <2>2 DEF HeldInOrder
      <3> QED
        BY <2>3, <3>1, <3>2, <3>3 DEF HeldInOrder
    <2>6. Engaged' => Engaged
      BY <2>1 DEF Engaged
    <2> QED
      BY <2>1, <2>4, <2>5, <2>6, HeldShrinks
  <1>2. CASE PrepareState \/ Rotate
    <2>1. /\ apply.at # "idle" /\ apply'.at # "idle" /\ Has(apply)' = Has(apply)
          /\ UNCHANGED <<mem, wire, latest, conn, pusher, links, link>>
      BY <1>2 DEF PrepareState, Rotate, Reaches, Recording, RecordsFirst, Has,
                  BundlesOK, RunnerOK, bundleGateway
    <2>2. Held' = Held
      BY <2>1 DEF Held, Has
    <2>3. HeldInOrder'
      BY <1>0, <2>1, <2>2 DEF HeldInOrder, Has
    <2>4. Engaged' => Engaged
      BY <2>1 DEF Engaged
    <2> QED
      BY <2>1, <2>2, <2>3, <2>4, HeldShrinks
  <1>3. CASE Install
    <2>1. /\ apply.at # "idle" /\ apply'.at = "idle" /\ mem' = Has(apply)
          /\ UNCHANGED <<wire, latest, conn, pusher, links, link>>
      BY <1>3 DEF Install, Recording, Has, NoApply, bundleGateway
    <2>2. Held' \subseteq Held
      BY <2>1 DEF Held, Has
    <2>3. HeldInOrder'
      <3>1. Leads(mem', mem')
        BY LeadsOrder DEF BundlesOK, RunnerOK, Numbered
      <3> QED
        BY <1>0, <2>1, <3>1 DEF HeldInOrder, Held, Has
    <2>4. Engaged' => Engaged
      BY <2>1 DEF Engaged
    <2> QED
      BY <2>1, <2>2, <2>3, <2>4, HeldShrinks
  <1>4. CASE ApplyFails
    <2>1. /\ apply'.at = "idle"
          /\ UNCHANGED <<mem, wire, latest, conn, pusher, links, link>>
      BY <1>4 DEF ApplyFails, NoApply, bundleGateway
    <2>2. Held' \subseteq Held
      BY <2>1 DEF Held, Has
    <2>3. HeldInOrder'
      BY <1>0, <2>1, <2>2 DEF HeldInOrder, Has
    <2>4. Engaged' => Engaged
      BY <2>1 DEF Engaged
    <2> QED
      BY <2>1, <2>2, <2>3, <2>4, HeldShrinks
  <1>5. ASSUME NEW s \in BundleSkills, MakeSkill(s) PROVE VersionsOrdered'
    <2>1. UNCHANGED <<mem, apply, wire, latest, conn, pusher, links, link, crossed>>
      BY <1>5 DEF MakeSkill, bundleGateway, bundleNotes
    <2> QED
      BY <2>1 DEF VersionsOrdered, HeldInOrder, Ahead, OnePush, Held, Has, Engaged
  <1>6. ASSUME NEW wiped \in BOOLEAN, RestartsRunner(wiped) PROVE VersionsOrdered'
    <2>1. /\ apply'.at = "idle" /\ mem' = NoVersion /\ wire' = <<>> /\ link' = 0
          /\ UNCHANGED <<latest, conn, pusher, links>>
      BY <1>6 DEF RestartsRunner, NoApply, bundleGateway
    <2>2. Held' = {NoVersion}
      BY <2>1 DEF Held
    <2>3. HeldInOrder'
      <3>1. NoVersion \in Versions
        BY DEF NoVersion, Versions
      <3>2. Leads(NoVersion, NoVersion)
        BY <3>1, LeadsOrder
      <3> QED
        BY <2>1, <2>2, <3>2 DEF HeldInOrder
    <2>4. Engaged' => Engaged
      BY <2>1 DEF Engaged
    <2> QED
      BY <2>1, <2>2, <2>3, <2>4, HeldShrinks
  <1> QED
    BY <1>1, <1>2, <1>3, <1>4, <1>5, <1>6 DEF Applies

(* A connection starts with what the runner reports, which is behind every   *)
(* decision that is under way.                                               *)
LEMMA LinkUpOrdered ==
  ASSUME BundlesOK, BundlesOK', VersionsOrdered, ~crossed, LinkUp
  PROVE  VersionsOrdered'
  <1>1. /\ Held \subseteq Versions /\ mem \in Held /\ mem \in Versions
        /\ HeldInOrder /\ Ahead /\ OnePush
    BY HeldVersions DEF VersionsOrdered
  <1>2. /\ links \in Nat /\ links' = links + 1 /\ links' \in Links /\ links' \in Pushers
        /\ conn'[links'] = mem /\ \A l \in 1 .. links : conn'[l] = conn[l]
        /\ pusher'[links'].at = "build"
        /\ \A q \in Pushers \ {links'} : pusher'[q] = pusher[q]
        /\ UNCHANGED <<mem, apply, latest, wire>>
    <2>1. links \in Nat /\ links + 1 \in Links /\ 1 .. links \subseteq Links
      BY BundlesAssumption DEF LinkUp, BundlesOK, GatewayOK, Links
    <2> QED
      BY <2>1 DEF LinkUp, BundlesOK, GatewayOK, NoPush, Pushers, bundleRunner
  <1>3. wire = <<>> /\ apply.at = "idle" /\ Held = {mem}
    BY DEF LinkUp, BundlesOK, GatewayOK, Held
  <1>4. Held' = Held
    BY <1>2, <1>3 DEF Held
  <1>5. Leads(mem, mem)
    BY <1>1, LeadsOrder
  <1>6. HeldInOrder'
    BY <1>2, <1>3, <1>4, <1>5 DEF HeldInOrder
  <1>7. Ahead'
    BY <1>1, <1>2, <1>3, <1>4, <1>5 DEF Ahead
  <1>8. OnePush'
    <2>1. ASSUME NEW p \in Pushers, pusher'[p].at \in InFlight
          PROVE  p # links' /\ pusher'[p] = pusher[p]
      BY <1>2, <2>1 DEF InFlight
    <2>2. ASSUME NEW p \in Pushers, pusher'[p].at = "decide"
          PROVE  /\ Leads(conn'[links'], conn'[pusher'[p].on])
                 /\ latest'.version > 0 => Leads(conn'[pusher'[p].on], latest')
      <3>1. pusher'[p] = pusher[p] /\ pusher[p].on \in 1 .. links /\ pusher[p].on \in Links
        BY <2>1, <2>2, BundlesAssumption DEF InFlight, BundlesOK, GatewayOK, PusherOK, Links
      <3>2. Engaged
        BY <2>2, <3>1 DEF Engaged
      <3>3. Leads(mem, conn[links]) /\ Leads(conn[links], conn[pusher[p].on])
        BY <1>1, <2>2, <3>1, <3>2 DEF Ahead, OnePush
      <3>4. conn[links] \in Versions /\ conn[pusher[p].on] \in Versions
        BY <3>1, <3>2, EngagedLinks DEF BundlesOK, GatewayOK, Numbered
      <3>5. Leads(mem, conn[pusher[p].on])
        BY <1>1, <3>3, <3>4, LeadsOrder
      <3> QED
        BY <1>1, <1>2, <2>2, <3>1, <3>5 DEF OnePush
    <2> QED
      BY <1>1, <1>2, <2>1, <2>2 DEF OnePush, InFlight, Has
  <1> QED
    BY <1>6, <1>7, <1>8 DEF VersionsOrdered

(* A push is decided on the newest connection, or behind what the newest is  *)
(* taken to have, and what is decided follows it.                            *)
LEMMA PusherOrdered ==
  ASSUME BundlesOK, BundlesOK', VersionsOrdered, ~crossed, ~crossed',
         NEW p \in Pushers, Build(p) \/ Decide(p)
  PROVE  VersionsOrdered'
  <1>1. /\ Held \subseteq Versions /\ mem \in Held /\ mem \in Versions
        /\ HeldInOrder /\ Ahead /\ OnePush
    BY HeldVersions DEF VersionsOrdered
  <1>2. /\ UNCHANGED <<mem, apply, wire, conn, links, link>>
        /\ \A q \in Pushers \ {p} : pusher'[q] = pusher[q]
        /\ pusher[p].at # "idle" /\ pusher'[p].at # "idle" /\ pusher'[p].on = pusher[p].on
        /\ pusher[p].on \in 1 .. links /\ pusher[p].on \in Links
    <2>1. /\ PusherOK(pusher[p]) /\ DOMAIN pusher = Pushers
          /\ links \in 0 .. MaxLinks /\ pusher[p].at # "idle"
      BY DEF Build, Decide, BundlesOK, GatewayOK
    <2>2. pusher[p].on \in 1 .. links /\ pusher[p].on \in Links
      BY <2>1, BundlesAssumption DEF PusherOK, Links
    <2>3. CASE Build(p)
      BY <2>1, <2>2, <2>3 DEF Build, PusherOK, bundleRunner
    <2>4. CASE Decide(p)
      <3>1. UNCHANGED <<mem, apply, wire, conn, links, link>>
        BY <2>4 DEF Decide, bundleRunner
      <3>2. pusher' = [pusher EXCEPT ![p].at = IF RunnerHas(p) THEN "skip" ELSE "send",
                                     ![p].version = NextVersion(p)]
        BY <2>4 DEF Decide
      <3>3. (IF RunnerHas(p) THEN "skip" ELSE "send") # "idle"
        OBVIOUS
      <3> QED
        BY <2>1, <2>2, <3>1, <3>2, <3>3 DEF PusherOK
    <2> QED
      BY <2>3, <2>4
  <1>3. Held' = Held /\ Engaged
    BY <1>2 DEF Held, Has, Engaged
  <1>4. /\ HeldInOrder' /\ conn[links] \in Versions /\ links \in Links
    BY <1>1, <1>2, <1>3, EngagedLinks DEF HeldInOrder, Has
  <1>5. CASE Build(p)
    <2>1. /\ UNCHANGED latest /\ pusher'[p].at = "decide" /\ pusher[p].on = links
          /\ \A q \in Pushers : pusher[q].at \notin InFlight
      BY <1>5 DEF Build, InFlight, BundlesOK, GatewayOK, PusherOK
    <2>2. Ahead'
      BY <1>1, <1>2, <1>3, <2>1 DEF Ahead
    <2>3. Leads(conn[links], conn[links])
      BY <1>4, LeadsOrder
    <2>4. OnePush'
      BY <1>1, <1>2, <1>3, <2>1, <2>3 DEF OnePush, Ahead, InFlight
    <2> QED
      BY <1>4, <2>2, <2>4 DEF VersionsOrdered
  <1>6. CASE Decide(p)
    <2> DEFINE d == [version |-> NextVersion(p), digest |-> DigestOf(pusher[p].content)]
    <2>1. /\ latest' = d /\ pusher[p].at = "decide" /\ pusher'[p].at \in {"skip", "send"}
          /\ Has(pusher[p])' = d
      BY <1>6 DEF Decide, Has, BundlesOK, GatewayOK, PusherOK
    <2>2. /\ Leads(conn[links], conn[pusher[p].on])
          /\ latest.version > 0 => Leads(conn[pusher[p].on], latest)
      BY <1>1, <2>1 DEF OnePush
    <2>3. Leads(conn[pusher[p].on], d) /\ d.version > 0 /\ d \in Versions
      BY <2>1, <2>2, DecisionLeads DEF BundlesOK
    <2> HIDE DEF d
    <2>4. Leads(conn[links], d)
      <3>1. conn[pusher[p].on] \in Versions
        BY <1>2 DEF BundlesOK, GatewayOK, Numbered
      <3> QED
        BY <1>4, <2>2, <2>3, <3>1, LeadsOrder
    <2>5. ASSUME NEW h \in Held PROVE Leads(h, conn[links]) /\ Leads(h, d)
      <3>1. Leads(h, conn[links]) /\ h \in Versions
        BY <1>1, <1>3 DEF Ahead
      <3> QED
        BY <1>4, <2>3, <2>4, <3>1, LeadsOrder
    <2>6. Ahead'
      BY <1>2, <1>3, <2>1, <2>4, <2>5 DEF Ahead
    <2>7. \A q \in Pushers : q # p => pusher[q].at \notin InFlight
      BY <1>1, <2>1 DEF OnePush, InFlight
    <2>8. OnePush'
      BY <1>2, <2>1, <2>3, <2>7 DEF OnePush, InFlight
    <2> QED
      BY <1>4, <2>6, <2>8 DEF VersionsOrdered
  <1> QED
    BY <1>5, <1>6

(* What is sent is the last decision, which follows all that the runner holds.*)
LEMMA SendOrdered ==
  ASSUME BundlesOK, BundlesOK', VersionsOrdered, ~crossed, NEW p \in Pushers, SendPush(p)
  PROVE  VersionsOrdered'
  <1> DEFINE q == pusher[p]
  <1>1. /\ Held \subseteq Versions /\ mem \in Held /\ mem \in Versions
        /\ HeldInOrder /\ Ahead /\ OnePush
    BY HeldVersions DEF VersionsOrdered
  <1>2. /\ q.at \in {"skip", "send"} /\ q.on \in Links
        /\ UNCHANGED <<mem, apply, latest, links, link>>
        /\ \A r \in Pushers \ {p} : pusher'[r] = pusher[r]
        /\ pusher'[p].at = "idle"
    BY BundlesAssumption
    DEF SendPush, BundlesOK, GatewayOK, PusherOK, NoPush, bundleRunner, Links, InFlight
  <1>3. latest = Has(q) /\ latest.version > 0 /\ latest \in Versions
    BY <1>1, <1>2 DEF OnePush, BundlesOK, GatewayOK
  <1>4. Engaged /\ links \in Links /\ conn[links] \in Versions
    <2>1. Engaged
      BY <1>2 DEF Engaged
    <2> QED
      BY <2>1, EngagedLinks
  <1>5. /\ \A h \in Held : Leads(h, latest)
        /\ \A h \in Held : Leads(h, conn[links])
        /\ Leads(conn[links], latest) /\ Leads(latest, latest)
    BY <1>1, <1>3, <1>4, LeadsOrder DEF Ahead
  <1>6. /\ conn' = conn \/ conn' = [conn EXCEPT ![q.on] = latest]
        /\ conn'[links] \in {conn[links], latest}
    <2>1. conn' = conn \/ conn' = [conn EXCEPT ![q.on] = latest]
      BY <1>3 DEF SendPush, Has
    <2> QED
      BY <1>2, <1>4, <2>1 DEF BundlesOK, GatewayOK
  <1>7. OnePush'
    <2>1. \A r \in Pushers : pusher'[r].at \notin InFlight
      BY <1>1, <1>2 DEF OnePush, InFlight
    <2> QED
      BY <2>1 DEF OnePush, InFlight
  <1>8. CASE wire' = wire
    <2>1. Held' = Held
      BY <1>2, <1>8 DEF Held, Has
    <2>2. HeldInOrder'
      BY <1>1, <1>2, <1>8, <2>1 DEF HeldInOrder, Has
    <2>3. Ahead'
      BY <1>2, <1>5, <1>6, <2>1 DEF Ahead
    <2> QED
      BY <1>7, <2>2, <2>3 DEF VersionsOrdered
  <1>9. CASE wire' # wire
    <2> DEFINE m == [content |-> q.content, version |-> q.version]
    <2>1. wire' = Append(wire, m) /\ q.at = "send" /\ q.on = link /\ link = links
      BY <1>2, <1>9, BundlesAssumption DEF SendPush, BundlesOK, GatewayOK, Links
    <2>2. conn'[links] = latest
      BY <1>2, <1>3, <1>4, <2>1 DEF SendPush, Has, BundlesOK, GatewayOK
    <2>3. /\ Has(m) = latest /\ m \in [content : Contents, version : Nat \ {0}]
      BY <1>2, <1>3 DEF Has, BundlesOK, GatewayOK, PusherOK, InFlight
    <2> HIDE DEF m
    <2>4. /\ Len(wire) \in Nat /\ DOMAIN wire = 1 .. Len(wire)
          /\ DOMAIN wire' = 1 .. Len(wire) + 1 /\ wire'[Len(wire) + 1] = m
          /\ \A i \in 1 .. Len(wire) : wire'[i] = wire[i]
      <3>1. wire \in Seq([content : Contents, version : Nat \ {0}])
        BY DEF BundlesOK, GatewayOK
      <3>2. /\ Append(wire, m) \in Seq([content : Contents, version : Nat \ {0}])
            /\ Len(Append(wire, m)) = Len(wire) + 1
            /\ \A i \in 1 .. Len(wire) : Append(wire, m)[i] = wire[i]
            /\ Append(wire, m)[Len(wire) + 1] = m
        BY <2>3, <3>1, AppendProperties
      <3> QED
        BY <2>1, <3>1, <3>2, LenProperties
    <2>5. \A i \in DOMAIN wire' : (i \in DOMAIN wire /\ wire'[i] = wire[i]) \/ (i = Len(wire) + 1 /\ wire'[i] = m)
      BY <2>4
    <2>6. Held' \subseteq Held \cup {latest}
      BY <1>2, <2>3, <2>5 DEF Held, Has
    <2>7. ASSUME NEW i \in DOMAIN wire PROVE Leads(Has(wire[i]), latest)
      BY <1>5 DEF Held
    <2>8. ASSUME apply.at # "idle" PROVE Leads(Has(apply), latest)
      BY <1>5, <2>8 DEF Held
    <2>9. HeldInOrder'
      <3>1. \A h \in Held' : Leads(mem', h)
        BY <1>1, <1>2, <1>5, <2>6 DEF HeldInOrder
      <3>2. apply'.at # "idle" => \A i \in DOMAIN wire' : Leads(Has(apply'), Has(wire'[i]))
        BY <1>1, <1>2, <2>3, <2>5, <2>8 DEF HeldInOrder
      <3>3. ASSUME NEW i \in DOMAIN wire', NEW j \in DOMAIN wire', i < j
            PROVE  Leads(Has(wire'[i]), Has(wire'[j]))
        <4>1. i \in DOMAIN wire /\ wire'[i] = wire[i]
          BY <2>4, <3>3
        <4>2. CASE j \in DOMAIN wire /\ wire'[j] = wire[j]
          BY <1>1, <3>3, <4>1, <4>2 DEF HeldInOrder
        <4>3. CASE wire'[j] = m
          BY <2>3, <2>7, <4>1, <4>3
        <4> QED
          BY <2>5, <4>2, <4>3
      <3> QED
        BY <3>1, <3>2, <3>3 DEF HeldInOrder, Has
    <2>10. Ahead'
      BY <1>2, <1>5, <2>2, <2>6 DEF Ahead
    <2> QED
      BY <1>7, <2>9, <2>10 DEF VersionsOrdered
  <1> QED
    BY <1>8, <1>9

(* Every step keeps the order.                                               *)
LEMMA VersionsNextOrdered ==
  BundlesOK /\ BundlesOK' /\ VersionsOrdered /\ [BundlesNext]_bundleVars => VersionsOrdered'
  <1> SUFFICES ASSUME BundlesOK, BundlesOK', VersionsOrdered, [BundlesNext]_bundleVars, ~crossed'
               PROVE  VersionsOrdered'
    BY DEF VersionsOrdered
  <1>0. ~crossed
    BY DEF BundlesNext, Pushes, Applies, bundleVars, bundleNotes, LinkUp, Edit, Build, Decide,
           SendPush, BuildFails, Stage, PrepareState, Rotate, Install, ApplyFails, MakeSkill,
           LinkLost, RestartGateway, RestartsRunner
  <1>1. HeldInOrder /\ Ahead /\ OnePush
    BY <1>0 DEF VersionsOrdered
  <1>2. CASE UNCHANGED bundleVars
    BY <1>1, <1>2
    DEF bundleVars, bundleGateway, bundleRunner, VersionsOrdered, HeldInOrder, Ahead, OnePush,
        Held, Has, Engaged
  <1>3. CASE LinkUp
    BY <1>0, <1>3, LinkUpOrdered
  <1>4. ASSUME NEW c \in Contents, Edit(c) PROVE VersionsOrdered'
    <2>1. /\ UNCHANGED <<mem, apply, wire, latest, conn, links, link>>
          /\ \A q \in Pushers : pusher'[q] = pusher[q]
               \/ (link # 0 /\ pusher'[q].at = "build")
      BY <1>4 DEF Edit, bundleRunner, BundlesOK, GatewayOK, NoPush
    <2>2. Held' = Held /\ (Engaged' => Engaged)
      BY <2>1 DEF Held, Has, Engaged
    <2>3. HeldInOrder' /\ Ahead'
      BY <1>1, <2>1, <2>2 DEF HeldInOrder, Ahead, Has
    <2>4. OnePush'
      BY <1>1, <2>1 DEF OnePush, InFlight, Has
    <2> QED
      BY <2>3, <2>4 DEF VersionsOrdered
  <1>5. ASSUME NEW p \in Pushers, Pushes(p) PROVE VersionsOrdered'
    BY <1>0, <1>5, PusherOrdered, SendOrdered DEF Pushes
  <1>6. ASSUME NEW p \in Pushers, BuildFails(p) PROVE VersionsOrdered'
    <2>1. /\ UNCHANGED <<mem, apply, wire, latest, conn, links, link>>
          /\ \A q \in Pushers : pusher'[q] = pusher[q] \/ pusher'[q].at = "idle"
      BY <1>6 DEF BuildFails, bundleRunner, BundlesOK, GatewayOK, NoPush
    <2>2. Held' = Held /\ (Engaged' => Engaged)
      BY <2>1 DEF Held, Has, Engaged
    <2>3. HeldInOrder' /\ Ahead'
      BY <1>1, <2>1, <2>2 DEF HeldInOrder, Ahead, Has
    <2>4. OnePush'
      BY <1>1, <2>1 DEF OnePush, InFlight, Has
    <2> QED
      BY <2>3, <2>4 DEF VersionsOrdered
  <1>7. CASE \/ Applies \/ ApplyFails
             \/ \E s \in BundleSkills : MakeSkill(s)
             \/ \E wiped \in BOOLEAN : RestartsRunner(wiped)
    BY <1>0, <1>7, RunnerOrdered
  <1>8. CASE LinkLost
    <2>1. /\ UNCHANGED <<mem, apply, latest, conn, pusher, links, crossed>>
          /\ wire' = <<>> /\ link' = 0
      BY <1>8 DEF LinkLost, bundleGateway, bundleRunner, bundleNotes
    <2>2. Held' \subseteq Held /\ (Engaged' => Engaged)
      BY <2>1 DEF Held, Has, Engaged
    <2>3. HeldInOrder'
      BY <1>1, <2>1, <2>2 DEF HeldInOrder, Has
    <2> QED
      BY <1>0, <2>1, <2>2, <2>3, HeldShrinks
  <1>9. CASE RestartGateway
    <2>1. /\ UNCHANGED <<mem, apply>> /\ wire' = <<>> /\ link' = 0 /\ latest' = NoVersion
          /\ \A p \in Pushers : pusher'[p].at = "idle"
      BY <1>9 DEF RestartGateway, bundleRunner, NoPush
    <2>2. Held' \subseteq Held /\ ~Engaged'
      BY <2>1 DEF Held, Has, Engaged
    <2>3. HeldInOrder'
      BY <1>1, <2>1, <2>2 DEF HeldInOrder, Has
    <2>4. Ahead' /\ OnePush'
      BY <2>1, <2>2 DEF Ahead, OnePush, NoVersion, InFlight
    <2> QED
      BY <2>3, <2>4 DEF VersionsOrdered
  <1> QED
    BY <1>2, <1>3, <1>4, <1>5, <1>6, <1>7, <1>8, <1>9 DEF BundlesNext

(* The order holds at the start.                                             *)
LEMMA VersionsInitOrdered == BundlesInit => VersionsOrdered
  <1> SUFFICES ASSUME BundlesInit PROVE HeldInOrder /\ Ahead /\ OnePush
    BY DEF VersionsOrdered
  <1>1. /\ mem = NoVersion /\ wire = <<>> /\ apply.at = "idle" /\ link = 0 /\ latest = NoVersion
        /\ \A p \in Pushers : pusher[p].at = "idle"
    BY DEF BundlesInit, NoApply, NoPush
  <1>2. Held = {NoVersion} /\ ~Engaged
    BY <1>1 DEF Held, Engaged
  <1>3. NoVersion \in Versions
    BY DEF NoVersion, Versions
  <1>4. Leads(NoVersion, NoVersion)
    BY <1>3, LeadsOrder
  <1> QED
    BY <1>1, <1>2, <1>4 DEF HeldInOrder, Ahead, OnePush, NoVersion, InFlight

(* As long as pushes are not crossed, a running runner never goes back to an *)
(* earlier version and never sees a version twice with two contents          *)
(* (pushBundle, applyBundle).                                                *)
THEOREM VersionsGrowCorrect == BundlesSpec => VersionsGrow
  <1>1. ASSUME BundlesOK, VersionsOrdered, [BundlesNext]_bundleVars, mem # NoVersion, mem' # NoVersion
        PROVE  \/ crossed'
               \/ mem'.version > mem.version
               \/ mem'.version = mem.version /\ mem'.digest = mem.digest
    <2>1. CASE mem' = mem
      BY <2>1
    <2>2. CASE Install
      <3>1. UNCHANGED crossed /\ mem' = Has(apply) /\ apply.at # "idle"
        BY <2>2 DEF Install, Recording, Has, bundleNotes
      <3>2. CASE crossed
        BY <3>1, <3>2
      <3>3. CASE ~crossed
        <4>1. Has(apply) \in Held
          BY <3>1 DEF Held
        <4>2. Leads(mem, mem')
          BY <1>1, <3>1, <3>3, <4>1 DEF VersionsOrdered, HeldInOrder
        <4>3. mem \in Versions /\ mem' \in Versions
          BY <1>1, <3>1, HasVersion DEF BundlesOK, RunnerOK, Numbered
        <4> QED
          BY <4>2, <4>3 DEF Leads, Versions
      <3> QED
        BY <3>2, <3>3
    <2>3. CASE mem' # mem /\ ~Install
      BY <1>1, <2>3
      DEF BundlesNext, Pushes, Applies, bundleVars, bundleRunner, LinkUp, Edit, Build, Decide,
          SendPush, BuildFails, Stage, PrepareState, RecordsFirst, Recording, Rotate, ApplyFails,
          MakeSkill, LinkLost, RestartGateway, RestartsRunner
    <2> QED
      BY <2>1, <2>2, <2>3
  <1>2. BundlesInit => VersionsOrdered
    BY VersionsInitOrdered
  <1>3. BundlesOK /\ BundlesOK' /\ VersionsOrdered /\ [BundlesNext]_bundleVars => VersionsOrdered'
    BY VersionsNextOrdered
  <1> QED
    BY <1>1, <1>2, <1>3, BundlesCorrect, PTL DEF BundlesSpec, VersionsGrow

-----------------------------------------------------------------------------
(* Blobs: files arrive whole                                                 *)

FrameKinds == {"begin", "chunk", "end", "bad end", "message"}
Frames     == [t : FrameKinds, file : Files, n : Nat, atts : Seq(Files)]

\* What is queued, and what is yet to be, names the message's attachments.
RelayOK ==
  /\ nameOf \in [Files -> FileNames]
  /\ out \in Seq(Frames)
  /\ relay.at \in {"idle", "begin", "chunk", "end", "message"}
  /\ relay.chunk \in Nat /\ relay.done \in Seq(Files) /\ stored \in Seq(Files)
  /\ DOMAIN relay = {"at", "on", "file", "chunk", "done"}
  /\ relay.at \in {"begin", "chunk", "end"} => relay.file \in Files

\* A transfer b of a file of which the disk holds text: as long as nothing else has
\* its name, what is written is what is hashed.
Alone(f) == \A g \in Files \ {f} : nameOf[g] # nameOf[f]
TransferOK(b, text, alone) ==
  /\ DOMAIN b = {"state", "hash"}
  /\ b.state = "open" /\ alone => text = b.hash
  /\ b.state = "complete" /\ alone => text = Whole
DiskOK ==
  /\ DOMAIN blob = Files /\ DOMAIN onDisk = FileNames
  /\ \A f \in Files : TransferOK(blob[f], onDisk[nameOf[f]], Alone(f))
  /\ taking \in Seq(Files)

BlobsOK == RelayOK /\ DiskOK /\ Intact

(* A frame that comes in is one of the queue's.                              *)
LEMMA FrameArrives ==
  ASSUME RelayOK, NEW t, Arrives(t)
  PROVE  Head(out) \in Frames /\ out' \in Seq(Frames)
  BY HeadTailProperties DEF RelayOK, Arrives

(* A step for one file alters the transfer and the text of that file, and of *)
(* none that is alone with its name.                                         *)
LEMMA FileStep ==
  ASSUME RelayOK, DiskOK, NEW f \in Files, NEW b, NEW text,
         SetBlob(f, b), WritesTo(f, text), UNCHANGED <<nameOf, taking>>,
         TransferOK(b, text, Alone(f))
  PROVE  DiskOK'
  <1>1. /\ DOMAIN blob' = Files /\ DOMAIN onDisk' = FileNames
        /\ blob'[f] = b /\ \A g \in Files \ {f} : blob'[g] = blob[g]
        /\ onDisk'[nameOf[f]] = text
        /\ \A x \in FileNames \ {nameOf[f]} : onDisk'[x] = onDisk[x]
        /\ \A g \in Files : nameOf[g] \in FileNames
    BY DEF RelayOK, DiskOK, SetBlob, WritesTo
  <1>2. ASSUME NEW g \in Files PROVE TransferOK(blob[g], onDisk[nameOf[g]], Alone(g))'
    <2>1. TransferOK(blob[g], onDisk[nameOf[g]], Alone(g)) /\ (Alone(g)' <=> Alone(g))
      BY DEF DiskOK, Alone
    <2>2. CASE g = f
      BY <1>1, <2>1, <2>2 DEF TransferOK
    <2>3. CASE g # f /\ Alone(g)
      BY <1>1, <2>1, <2>3 DEF TransferOK, Alone
    <2>4. CASE g # f /\ ~Alone(g)
      BY <1>1, <2>1, <2>4 DEF TransferOK
    <2> QED
      BY <2>2, <2>3, <2>4
  <1> QED
    BY <1>1, <1>2 DEF DiskOK

(* A step that only gives a transfer up, or finds it complete.               *)
LEMMA BlobStep ==
  ASSUME RelayOK, DiskOK, NEW f \in Files, NEW b, SetBlob(f, b), UNCHANGED <<nameOf, onDisk>>,
         taking' \in Seq(Files), TransferOK(b, onDisk[nameOf[f]], Alone(f))
  PROVE  DiskOK'
  <1>1. /\ DOMAIN blob' = Files
        /\ blob'[f] = b /\ \A g \in Files \ {f} : blob'[g] = blob[g]
    BY DEF DiskOK, SetBlob
  <1>2. ASSUME NEW g \in Files PROVE TransferOK(blob[g], onDisk[nameOf[g]], Alone(g))'
    <2>1. TransferOK(blob[g], onDisk[nameOf[g]], Alone(g)) /\ (Alone(g)' <=> Alone(g))
      BY DEF DiskOK, Alone
    <2>2. CASE g = f
      BY <1>1, <2>1, <2>2 DEF TransferOK
    <2>3. CASE g # f
      BY <1>1, <2>1, <2>3 DEF TransferOK
    <2> QED
      BY <2>2, <2>3
  <1> QED
    BY <1>1, <1>2 DEF DiskOK

(* Nothing of a transfer needs nothing of the disk.                          *)
LEMMA NoBlobOK == \A text, alone : TransferOK(NoBlob, text, alone)
  BY DEF TransferOK, NoBlob

(* What makes a frame.                                                       *)
LEMMA FrameKind ==
  ASSUME NEW t \in FrameKinds, NEW f \in Files, NEW n \in Nat, NEW atts \in Seq(Files)
  PROVE  /\ Frame(t, f, n) \in Frames
         /\ [Frame(t, f, n) EXCEPT !.atts = atts] \in Frames
  <1>1. <<>> \in Seq(Files)
    OBVIOUS
  <1> QED
    BY <1>1 DEF Frame, Frames

(* The gateway queues frames that name the message's attachments.            *)
LEMMA RelayStepsOK ==
  ASSUME BlobsOK, RelayFrame \/ RelayFails \/ RelayMessage
  PROVE  RelayOK'
  <1>0. RelayOK /\ 1 \in Files
    BY BlobsAssumption DEF BlobsOK, Files
  <1>1. ASSUME NEW f \in Frames, out' = out \/ out' = <<>> \/ out' = Append(out, f)
        PROVE  out' \in Seq(Frames)
    <2>1. out \in Seq(Frames) /\ <<>> \in Seq(Frames)
      BY <1>0 DEF RelayOK
    <2>2. Append(out, f) \in Seq(Frames)
      BY <2>1, AppendProperties
    <2> QED
      BY <1>1, <2>1, <2>2
  <1>2. CASE RelayFrame
    <2> DEFINE f == Frame(relay.at, relay.file, relay.chunk)
    <2>1. f \in Frames
      BY <1>0, <1>2, FrameKind DEF RelayFrame, FrameKinds, RelayOK
    <2>2. out' \in Seq(Frames)
      <3>1. out' = out \/ out' = <<>> \/ out' = Append(out, f)
        BY <1>2 DEF RelayFrame, Queues, Refuses, NextFrame
      <3> HIDE DEF f
      <3> QED
        BY <2>1, <3>1, <1>1
    <2>3. /\ relay' = AfterFrame \/ relay' = [relay EXCEPT !.at = "message"]
          /\ UNCHANGED <<nameOf, stored>>
      BY <1>2 DEF RelayFrame
    <2>4. CASE relay' = [relay EXCEPT !.at = "message"]
      BY <1>0, <2>2, <2>3, <2>4 DEF RelayOK
    <2>5. CASE relay' = AfterFrame /\ relay.at = "begin"
      BY <1>0, <2>2, <2>3, <2>5 DEF RelayOK, AfterFrame
    <2>6. CASE relay' = AfterFrame /\ relay.at = "chunk"
      <3> DEFINE at == IF relay.chunk = FileChunks THEN "end" ELSE "chunk"
      <3>1. relay' = [relay EXCEPT !.at = at, !.chunk = relay.chunk + 1] /\ at \in {"end", "chunk"}
        BY <2>6 DEF AfterFrame
      <3> HIDE DEF at
      <3> QED
        BY <1>0, <2>2, <2>3, <2>6, <3>1 DEF RelayOK
    <2>7. CASE relay' = AfterFrame /\ relay.at = "end"
      <3> DEFINE at == IF relay.file = MaxFiles THEN "message" ELSE "begin"
                 done == Append(relay.done, relay.file)
      <3>1. relay.file \in Files /\ (relay.file # MaxFiles => relay.file + 1 \in Files)
        BY <1>0, <2>7, BlobsAssumption DEF RelayOK, Files
      <3>2. done \in Seq(Files)
        BY <1>0, <3>1, AppendProperties DEF RelayOK
      <3>3. relay' = [relay EXCEPT !.at = at, !.file = relay.file + 1, !.chunk = 1, !.done = done]
        BY <2>7 DEF AfterFrame
      <3>4. at \in {"message", "begin"} /\ (at = "begin" => relay.file + 1 \in Files)
        BY <3>1
      <3> HIDE DEF at, done
      <3> QED
        BY <1>0, <2>2, <2>3, <3>2, <3>3, <3>4 DEF RelayOK
    <2> QED
      BY <1>2, <2>3, <2>4, <2>5, <2>6, <2>7 DEF RelayFrame, RelayOK
  <1>3. CASE RelayFails
    <2> DEFINE f == Frame("bad end", relay.file, 0)
    <2>1. f \in Frames
      BY <1>0, <1>3, FrameKind DEF RelayFails, FrameKinds, RelayOK
    <2>2. out' \in Seq(Frames)
      <3>1. out' = out \/ out' = <<>> \/ out' = Append(out, f)
        BY <1>3 DEF RelayFails, Queues, Refuses
      <3> HIDE DEF f
      <3> QED
        BY <2>1, <3>1, <1>1
    <2> QED
      BY <1>0, <1>3, <2>2 DEF RelayFails, RelayOK
  <1>4. CASE RelayMessage
    <2> DEFINE atts == stored \o relay.done
               f == [Frame("message", 1, 0) EXCEPT !.atts = atts]
    <2>1. atts \in Seq(Files)
      BY <1>0, ConcatProperties DEF RelayOK
    <2>2. f \in Frames
      <3> HIDE DEF atts
      <3> QED
        BY <1>0, <2>1, FrameKind DEF FrameKinds
    <2>3. out' \in Seq(Frames)
      <3>1. out' = out \/ out' = <<>> \/ out' = Append(out, f)
        BY <1>4 DEF RelayMessage, Queues, Refuses
      <3> HIDE DEF f
      <3> QED
        BY <2>2, <3>1, <1>1
    <2>4. /\ stored' = stored \/ stored' = atts
          /\ relay' = NoRelay /\ UNCHANGED nameOf
      BY <1>4 DEF RelayMessage
    <2> HIDE DEF atts
    <2> QED
      BY <1>0, <2>1, <2>3, <2>4 DEF RelayOK, NoRelay
  <1> QED
    BY <1>2, <1>3, <1>4

(* A frame at the runner: what is written is hashed, and what is verified is *)
(* whole.                                                                    *)
LEMMA ReceiveOK ==
  ASSUME BlobsOK, \/ BlobBegin \/ BlobBeginFails \/ BlobChunk \/ BlobChunkFails \/ BlobEnd
                  \/ HandleMessage
  PROVE  RelayOK' /\ DiskOK'
  <1>0. RelayOK /\ DiskOK
    BY DEF BlobsOK
  <1> DEFINE f == Head(out).file
             text == onDisk[nameOf[f]]
  <1>1. /\ Head(out) \in Frames /\ out' \in Seq(Frames)
        /\ UNCHANGED <<nameOf, relay, stored>>
    BY <1>0, FrameArrives
    DEF BlobBegin, BlobBeginFails, BlobChunk, BlobChunkFails, BlobEnd, HandleMessage, relaySide
  <1>2. RelayOK'
    BY <1>0, <1>1 DEF RelayOK
  <1>3. f \in Files /\ Head(out).atts \in Seq(Files)
    BY <1>1 DEF Frames
  <1>4. TransferOK(blob[f], text, Alone(f))
    BY <1>0, <1>3 DEF DiskOK
  <1> HIDE DEF text
  <1>5. CASE BlobBegin
    <2> DEFINE b == [state |-> "open", hash |-> <<>>]
    <2>1. SetBlob(f, b) /\ WritesTo(f, <<>>) /\ UNCHANGED <<nameOf, taking>>
      BY <1>5 DEF BlobBegin
    <2>2. TransferOK(b, <<>>, Alone(f))
      BY DEF TransferOK
    <2> HIDE DEF b, f
    <2> QED
      BY <1>0, <1>2, <1>3, <2>1, <2>2, FileStep
  <1>6. CASE BlobChunk
    <2>1. CASE blob[f].state = "open"
      <3> DEFINE b == [blob[f] EXCEPT !.hash = Append(@, Head(out).n)]
                 more == Append(text, Head(out).n)
      <3>1. SetBlob(f, b) /\ WritesTo(f, more) /\ UNCHANGED <<nameOf, taking>>
        BY <1>6, <2>1 DEF BlobChunk, text
      <3>2. TransferOK(b, more, Alone(f))
        BY <1>4, <2>1 DEF TransferOK
      <3> HIDE DEF b, more, f
      <3> QED
        BY <1>0, <1>2, <1>3, <3>1, <3>2, FileStep
    <2>2. CASE blob[f].state # "open"
      BY <1>0, <1>2, <1>6, <2>2 DEF BlobChunk, DiskOK, Alone
    <2> QED
      BY <2>1, <2>2
  <1>7. CASE BlobChunkFails
    <2> DEFINE b == [blob[f] EXCEPT !.state = "failed"]
    <2>1. SetBlob(f, b) /\ UNCHANGED <<nameOf, taking, onDisk>> /\ taking' \in Seq(Files)
      BY <1>0, <1>7 DEF BlobChunkFails, DiskOK
    <2>2. TransferOK(b, text, Alone(f))
      BY <1>4 DEF TransferOK
    <2> HIDE DEF b, f
    <2> QED
      BY <1>0, <1>2, <1>3, <2>1, <2>2, BlobStep DEF text
  <1>8. CASE BlobEnd
    <2>0. UNCHANGED <<nameOf, taking>> /\ taking' \in Seq(Files)
      BY <1>0, <1>8 DEF BlobEnd, DiskOK
    <2>1. CASE UNCHANGED <<blob, onDisk>>
      BY <1>0, <1>2, <2>0, <2>1 DEF DiskOK, Alone
    <2>2. CASE /\ blob[f].state = "open" /\ blob[f].hash = Whole
               /\ SetBlob(f, [blob[f] EXCEPT !.state = "complete"]) /\ UNCHANGED onDisk
      <3> DEFINE b == [blob[f] EXCEPT !.state = "complete"]
      <3>1. TransferOK(b, text, Alone(f))
        BY <1>4, <2>2 DEF TransferOK
      <3>2. SetBlob(f, b) /\ UNCHANGED onDisk
        BY <2>2
      <3> HIDE DEF b, f
      <3> QED
        BY <1>0, <1>2, <1>3, <2>0, <3>1, <3>2, BlobStep DEF text
    <2>3. CASE SetBlob(f, NoBlob) /\ WritesTo(f, <<>>)
      <3> HIDE DEF f
      <3> QED
        BY <1>0, <1>2, <1>3, <2>0, <2>3, NoBlobOK, FileStep
    <2> QED
      BY <1>8, <2>1, <2>2, <2>3 DEF BlobEnd
  <1>9. CASE BlobBeginFails \/ HandleMessage
    BY <1>0, <1>2, <1>3, <1>9 DEF BlobBeginFails, HandleMessage, diskSide, DiskOK, Alone
  <1> QED
    BY <1>2, <1>5, <1>6, <1>7, <1>8, <1>9

(* Every step keeps all of it.                                               *)
LEMMA BlobsNextOK == BlobsOK /\ [BlobsNext]_blobVars => BlobsOK'
  <1> SUFFICES ASSUME BlobsOK, [BlobsNext]_blobVars PROVE BlobsOK'
    OBVIOUS
  <1>0. RelayOK /\ DiskOK /\ Intact
    BY DEF BlobsOK
  <1>1. CASE Dials \/ Drops \/ SendFile \/ SendFileFails \/ SpoolBegin \/ SpoolChunk \/ SpoolFails
             \/ UNCHANGED blobVars
    <2>1. /\ UNCHANGED <<nameOf, relay, stored, blob, onDisk, taking, handed, uploaded>>
          /\ out' = out \/ out' = <<>>
      BY <1>1
      DEF Dials, Drops, Lost, SendFile, SendFileFails, SpoolBegin, SpoolChunk, SpoolFails,
          blobVars, blobLink, diskSide, relaySide, upSide
    <2>2. <<>> \in Seq(Frames)
      OBVIOUS
    <2> QED
      BY <1>0, <2>1, <2>2 DEF BlobsOK, RelayOK, DiskOK, Intact, Alone
  <1>2. CASE SpoolEnd
    <2>1. UNCHANGED <<nameOf, relay, stored, out, blob, onDisk, taking, handed>>
      BY <1>2 DEF SpoolEnd, blobLink, diskSide, relaySide
    <2>2. uploaded' \subseteq {Whole}
      BY <1>0, <1>2 DEF SpoolEnd, Intact
    <2> QED
      BY <1>0, <2>1, <2>2 DEF BlobsOK, RelayOK, DiskOK, Intact, Alone
  <1>3. CASE DispatchFiles \/ DrainFiles
    <2>1. UNCHANGED <<nameOf, stored, out, blob, onDisk, taking, handed, uploaded>>
      BY <1>3 DEF DispatchFiles, DrainFiles, blobLink, diskSide, upSide
    <2>2. \/ relay' = relay
          \/ \E at \in {"begin", "message"} : relay' = [NoRelay EXCEPT !.at = at, !.on = socket]
      BY <1>3 DEF DispatchFiles, DrainFiles
    <2>3. 1 \in Files /\ <<>> \in Seq(Files)
      BY BlobsAssumption DEF Files
    <2>4. RelayOK'
      <3>1. CASE relay' = relay
        BY <1>0, <2>1, <3>1 DEF RelayOK
      <3>2. ASSUME NEW at \in {"begin", "message"},
                   relay' = [NoRelay EXCEPT !.at = at, !.on = socket]
            PROVE  RelayOK'
        BY <1>0, <2>1, <2>3, <3>2 DEF RelayOK, NoRelay
      <3> QED
        BY <2>2, <3>1, <3>2
    <2> QED
      BY <1>0, <2>1, <2>4 DEF BlobsOK, DiskOK, Intact, Alone
  <1>4. CASE RelayFrame \/ RelayFails \/ RelayMessage
    <2>1. UNCHANGED <<nameOf, blob, onDisk, taking, handed, uploaded>>
      BY <1>4 DEF RelayFrame, RelayFails, RelayMessage, diskSide
    <2> QED
      BY <1>0, <1>4, <2>1, RelayStepsOK DEF BlobsOK, DiskOK, Intact, Alone
  <1>5. CASE \/ BlobBegin \/ BlobBeginFails \/ BlobChunk \/ BlobChunkFails \/ BlobEnd
             \/ HandleMessage
    <2>1. UNCHANGED <<nameOf, handed, uploaded>>
      BY <1>5 DEF BlobBegin, BlobBeginFails, BlobChunk, BlobChunkFails, BlobEnd, HandleMessage,
                  diskSide, upSide
    <2> QED
      BY <1>0, <1>5, <2>1, ReceiveOK DEF BlobsOK, Intact
  <1>6. CASE TakeBlob
    <2> DEFINE f == Head(taking)
    <2>1. /\ f \in Files /\ taking' \in Seq(Files)
          /\ UNCHANGED <<nameOf, relay, stored, out, onDisk, uploaded>>
      BY <1>0, <1>6, HeadTailProperties DEF TakeBlob, DiskOK, blobLink, relaySide, upSide
    <2>2. RelayOK'
      BY <1>0, <2>1 DEF RelayOK
    <2>3. CASE blob[f].state = "complete"
      <3>1. /\ SetBlob(f, NoBlob)
            /\ handed' = handed \cup {[file |-> f, content |-> onDisk[nameOf[f]]]}
        BY <1>6, <2>3 DEF TakeBlob, Claimable
      <3>2. onDisk[nameOf[f]] = Whole \/ ~Alone(f)
        BY <1>0, <2>1, <2>3 DEF DiskOK, TransferOK
      <3>3. Intact'
        BY <1>0, <2>1, <3>1, <3>2 DEF Intact, Alone
      <3>4. DiskOK'
        <4> HIDE DEF f
        <4> QED
          BY <1>0, <2>1, <3>1, NoBlobOK, BlobStep
      <3> QED
        BY <2>2, <3>3, <3>4 DEF BlobsOK
    <2>4. CASE blob[f].state # "complete"
      <3>1. UNCHANGED <<blob, handed>>
        BY <1>6, <2>4 DEF TakeBlob, Claimable
      <3> QED
        BY <1>0, <2>1, <2>2, <3>1 DEF BlobsOK, DiskOK, Intact, Alone
    <2> QED
      BY <2>3, <2>4
  <1>7. CASE RunnerRestarts
    <2>1. <<>> \in Seq(Frames) /\ <<>> \in Seq(Files)
      OBVIOUS
    <2>2. /\ UNCHANGED <<nameOf, relay, stored, onDisk, handed, uploaded>>
          /\ out' = <<>> /\ taking' = <<>> /\ blob' = [f \in Files |-> NoBlob]
      BY <1>7 DEF RunnerRestarts, Lost, relaySide
    <2> QED
      BY <1>0, <2>1, <2>2, NoBlobOK DEF BlobsOK, RelayOK, DiskOK, Intact, Alone
  <1> QED
    BY <1>1, <1>2, <1>3, <1>4, <1>5, <1>6, <1>7 DEF BlobsNext

(* A file is whole when the harness or the surface is given it, however the  *)
(* connection, the runner or a read failed while it was on its way, unless   *)
(* an attachment shares its name (takeBlob, onBlobEnd).                      *)
THEOREM IntactCorrect == BlobsSpec => []Intact
  <1>1. BlobsInit => BlobsOK
    <2> SUFFICES ASSUME BlobsInit PROVE BlobsOK
      OBVIOUS
    <2>1. <<>> \in Seq(Frames) /\ <<>> \in Seq(Files) /\ 1 \in Files
      BY BlobsAssumption DEF Files
    <2>2. RelayOK
      BY <2>1 DEF BlobsInit, RelayOK, NoRelay
    <2>3. DiskOK
      BY <2>1, NoBlobOK DEF BlobsInit, DiskOK
    <2> QED
      BY <2>2, <2>3 DEF BlobsInit, BlobsOK, Intact
  <1>2. BlobsOK => Intact
    BY DEF BlobsOK
  <1> QED
    BY <1>1, <1>2, BlobsNextOK, PTL DEF BlobsSpec

=============================================================================
