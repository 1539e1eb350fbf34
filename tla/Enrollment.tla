----------------------------- MODULE Enrollment -----------------------------
(***************************************************************************)
(* A runner gets in: the handshake, the secret it is checked against, and  *)
(* the configuration that admits it.                                       *)
(*                                                                         *)
(* The runner's token is looked up in the secrets directory, then in the   *)
(* parameter store, which is cached, misses included.  A lookup reads the  *)
(* cache and the store under no common lock, so another handshake, a       *)
(* reload or the operator may act in between.  Tokens are numbered in the  *)
(* order they were issued; 0 is a secret that does not exist.              *)
(***************************************************************************)
EXTENDS Naturals, FiniteSets

CONSTANTS
  Handshakes,    \* handshakes of the runner that may overlap
  Peers,         \* major protocol versions that the runner may have
  MaxTokens,     \* bound: tokens issued
  MaxReloads,    \* bound: reloads
  MaxApiErrors   \* bound: failed requests to the parameter store, lost connections

ASSUME EnrollmentAssumption ==
  /\ Peers \subseteq Nat
  /\ MaxTokens \in Nat \ {0} /\ MaxReloads \in Nat /\ MaxApiErrors \in Nat

Missing == 0
Ours    == 1  \* the major version of the gateway

VARIABLES
  peer,       \* the runner's major protocol version
  held,       \* the token that the runner presents
  param,      \* the token in the parameter store
  tokenFile,  \* the token in the secrets directory
  cache,      \* the cached value, as a set: empty when there is none
  listed,     \* the gateway's configuration has the runner
  reload,     \* where the reload is, and whether the new configuration has it
  shake,      \* handshake -> where it is, what it presents and has looked up
  hubConn,    \* the registered connection, as a set
  reloads,
  apiErrors

secretSide     == <<held, param, tokenFile, cache>>
configSide     == <<listed, reload, reloads>>
enrollmentVars == <<peer, secretSide, configSide, shake, hubConn, apiErrors>>

NoShake == [at |-> "idle", token |-> 0, want |-> 0]

EnrollmentInit ==
  /\ peer \in Peers
  /\ held = 1 /\ param = Missing /\ tokenFile = Missing
  /\ cache = {}
  /\ listed = TRUE /\ reload = [at |-> "idle", has |-> TRUE]
  /\ shake = [h \in Handshakes |-> NoShake]
  /\ hubConn = {}
  /\ reloads = 0 /\ apiErrors = 0

\* Negotiate: the same major, any minor.
Compatible(v) == v = Ours

At(h, at) == shake[h].at = at
GoesTo(h, at) == shake' = [shake EXCEPT ![h].at = at]

-----------------------------------------------------------------------------
(* handshake and authenticate *)

\* The runner dials, again and again.
Dial(h) ==
  /\ At(h, "idle") /\ hubConn = {}
  /\ shake' = [shake EXCEPT ![h] = [NoShake EXCEPT !.at = "hello", !.token = held]]
  /\ UNCHANGED <<peer, secretSide, configSide, hubConn, apiErrors>>
\* The runner's configuration is read once.
Hello(h) ==
  /\ At(h, "hello")
  /\ GoesTo(h, IF Compatible(peer) /\ listed THEN "lookup" ELSE "idle")
  /\ UNCHANGED <<peer, secretSide, configSide, hubConn, apiErrors>>

\* Chain.Get: the directory's file wins over the parameter store.
LookUp(h) ==
  /\ At(h, "lookup")
  /\ shake' = [shake EXCEPT ![h] =
       IF tokenFile # Missing THEN [@ EXCEPT !.at = "compare", !.want = tokenFile]
       ELSE IF cache # {} THEN [@ EXCEPT !.at = "compare", !.want = CHOOSE v \in cache : TRUE]
       ELSE [@ EXCEPT !.at = "fetch"]]
  /\ UNCHANGED <<peer, secretSide, configSide, hubConn, apiErrors>>
Fetch(h) ==
  /\ At(h, "fetch")
  /\ shake' = [shake EXCEPT ![h] = [@ EXCEPT !.at = "store", !.want = param]]
  /\ UNCHANGED <<peer, secretSide, configSide, hubConn, apiErrors>>
StoreSecret(h) ==
  /\ At(h, "store")
  /\ cache' = {shake[h].want}
  /\ GoesTo(h, "compare")
  /\ UNCHANGED <<peer, held, param, tokenFile, configSide, hubConn, apiErrors>>

KeepsSecret(c) == c  \* mutant: the cached value stays
Invalidated(c) == {}
FetchFails(h) ==
  /\ At(h, "fetch")
  /\ apiErrors < MaxApiErrors /\ apiErrors' = apiErrors + 1
  /\ cache' = Invalidated(cache)
  /\ GoesTo(h, "idle")
  /\ UNCHANGED <<peer, held, param, tokenFile, configSide, hubConn>>
Compare(h) ==
  /\ At(h, "compare")
  /\ IF shake[h].want # Missing /\ shake[h].want = shake[h].token
     THEN GoesTo(h, "register") /\ UNCHANGED cache
     ELSE GoesTo(h, "idle") /\ cache' = Invalidated(cache)
  /\ UNCHANGED <<peer, held, param, tokenFile, configSide, hubConn, apiErrors>>
\* Register displaces what was registered.
Register(h) ==
  /\ At(h, "register")
  /\ hubConn' = {h}
  /\ shake' = [g \in Handshakes |-> IF g = h THEN [NoShake EXCEPT !.at = "serving"]
                                    ELSE IF g \in hubConn THEN NoShake ELSE shake[g]]
  /\ UNCHANGED <<peer, secretSide, configSide, apiErrors>>
Disconnects(h) ==
  /\ At(h, "serving")
  /\ apiErrors < MaxApiErrors /\ apiErrors' = apiErrors + 1
  /\ hubConn' = hubConn \ {h}
  /\ GoesTo(h, "idle")
  /\ UNCHANGED <<peer, secretSide, configSide>>

-----------------------------------------------------------------------------
(* Reload, and the operator *)

\* invalidateRunnerSecrets, of a runner that is added or removed, comes before
\* the new configuration is in force.
ReloadStarts(has) ==
  /\ reload.at = "idle" /\ reloads < MaxReloads
  /\ reloads' = reloads + 1
  /\ reload' = [at |-> "apply", has |-> has]
  /\ cache' = IF has # listed THEN Invalidated(cache) ELSE cache
  /\ UNCHANGED <<peer, held, param, tokenFile, listed, shake, hubConn, apiErrors>>
ReloadApplies ==
  /\ reload.at = "apply"
  /\ listed' = reload.has
  /\ reload' = [reload EXCEPT !.at = "close"]
  /\ UNCHANGED <<peer, secretSide, reloads, shake, hubConn, apiErrors>>
ReloadCloses ==
  /\ reload.at = "close"
  /\ reload' = [reload EXCEPT !.at = "idle"]
  /\ IF listed THEN UNCHANGED <<shake, hubConn>>
     ELSE /\ hubConn' = {}
          /\ shake' = [h \in Handshakes |-> IF h \in hubConn THEN NoShake ELSE shake[h]]
  /\ UNCHANGED <<peer, secretSide, listed, reloads, apiErrors>>

WriteParam ==
  /\ param < MaxTokens /\ param' = param + 1
  /\ UNCHANGED <<peer, held, tokenFile, cache, configSide, shake, hubConn, apiErrors>>
WriteTokenFile ==
  /\ tokenFile = Missing /\ tokenFile' = held
  /\ UNCHANGED <<peer, held, param, cache, configSide, shake, hubConn, apiErrors>>
RemoveTokenFile ==
  /\ tokenFile # Missing /\ tokenFile' = Missing
  /\ UNCHANGED <<peer, held, param, cache, configSide, shake, hubConn, apiErrors>>
Rekey ==
  /\ held < MaxTokens /\ held' = held + 1
  /\ UNCHANGED <<peer, param, tokenFile, cache, configSide, shake, hubConn, apiErrors>>
\* The cached value is older than CacheTTL.
CacheExpires ==
  /\ cache # {} /\ cache' = {}
  /\ UNCHANGED <<peer, held, param, tokenFile, configSide, shake, hubConn, apiErrors>>

-----------------------------------------------------------------------------
Shakes(h) ==
  \/ Hello(h)
  \/ LookUp(h)
  \/ Fetch(h)
  \/ FetchFails(h)
  \/ StoreSecret(h)
  \/ Compare(h)
  \/ Register(h)
Operates ==
  \/ WriteParam
  \/ WriteTokenFile
  \/ RemoveTokenFile
  \/ Rekey
  \/ CacheExpires
EnrollmentNext ==
  \/ \E h \in Handshakes : Dial(h) \/ Shakes(h) \/ Disconnects(h)
  \/ \E has \in BOOLEAN : ReloadStarts(has)
  \/ ReloadApplies
  \/ ReloadCloses
  \/ Operates

\* A runner redials for ever, and a handshake has a timeout.  Nothing is asked of
\* the cache's age: it may keep a value for as long as it likes.
EnrollmentFairness ==
  \A h \in Handshakes : WF_enrollmentVars(Dial(h)) /\ WF_enrollmentVars(Shakes(h))
EnrollmentSpec == EnrollmentInit /\ [][EnrollmentNext]_enrollmentVars /\ EnrollmentFairness

-----------------------------------------------------------------------------
(* Properties *)

TokenInForce == IF tokenFile # Missing THEN tokenFile ELSE param

\* A configured runner that presents the token in force gets in without waiting
\* for the cache to expire, also when it first dialled before its secret existed
\* or before a rotation (authenticate, Get).
Enrolled ==
  []<>(hubConn # {} \/ ~listed \/ ~Compatible(peer) \/ held # TokenInForce)
=============================================================================
