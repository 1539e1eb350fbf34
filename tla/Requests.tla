------------------------------ MODULE Requests ------------------------------
(***************************************************************************)
(* What a runner's local helpers ask of the gateway: a git credential for  *)
(* a repository, or a tool of a server that the gateway calls for them.    *)
(*                                                                         *)
(* The runner registers a waiter, writes the frame to the connection it    *)
(* then has, and waits for a reply, for the loss of the connection or for  *)
(* its own deadline.  The gateway handles each request beside the others   *)
(* and reads its configuration more than once while it does, so that a     *)
(* reload may fall between; tokens are kept until shortly before they      *)
(* expire, one for each repository and access.                             *)
(***************************************************************************)
EXTENDS Naturals, FiniteSets

CONSTANTS
  Helpers,     \* local helpers, one request each
  Repos,       \* repositories
  Servers,     \* proxied servers, each with a tool
  MaxSockets,  \* bound: connections
  MaxPolicies  \* bound: reloads

ASSUME RequestsAssumption ==
  Repos \cap Servers = {} /\ MaxSockets \in Nat /\ MaxPolicies \in Nat

Nothing   == "none"
NoSocket  == 0
Policies  == [writes : SUBSET Repos, reads : SUBSET Repos, calls : SUBSET Servers]

VARIABLES
  policy,    \* the gateway's configuration: what the runner may write, read and call
  policies,
  line,      \* the runner's connection, whether it still works, the waiters to be failed
  asker,     \* helper -> where it is, what it asks for, the connection it writes to
  waiter,    \* helpers registered in pending
  inbox,     \* helper -> what was put in its channel
  carried,   \* helper -> its request on its way: where, on which connection, with which reply
  minted,    \* forge: the tokens that are kept
  entitled   \* helper -> what the policy gave it at some time since it asked

gatewaySide  == <<policy, policies, minted>>
requestVars  == <<gatewaySide, line, asker, waiter, inbox, carried, entitled>>

NotAsking == [at |-> "idle", for |-> Nothing, ws |-> NoSocket]
NoRequest == [at |-> "none", for |-> Nothing, on |-> NoSocket, reply |-> Nothing]

\* What a configuration c gives of a target.
Rights(c, for) ==
  (IF for \in c.writes THEN {"read-write"} ELSE {}) \cup
  (IF for \in c.reads THEN {"read-only"} ELSE {}) \cup
  (IF for \in c.calls THEN {"called"} ELSE {})

RequestsInit ==
  /\ policy = [writes |-> Repos, reads |-> {}, calls |-> Servers]
  /\ policies = 0
  /\ line = [socket |-> 1, works |-> TRUE, dropped |-> FALSE, last |-> 1]
  /\ asker = [h \in Helpers |-> NotAsking]
  /\ waiter = {} /\ inbox = [h \in Helpers |-> Nothing]
  /\ carried = [h \in Helpers |-> NoRequest]
  /\ minted = {} /\ entitled = [h \in Helpers |-> {}]

-----------------------------------------------------------------------------
(* The runner *)

\* requestVia, until the frame is to be sent.
Request(h, for) ==
  /\ asker[h].at = "idle"
  /\ asker' = [asker EXCEPT ![h] = [@ EXCEPT !.at = "send", !.for = for]]
  /\ waiter' = waiter \cup {h}
  /\ entitled' = [entitled EXCEPT ![h] = Rights(policy, for)]
  /\ UNCHANGED <<gatewaySide, line, inbox, carried>>
\* write reads the connection, and then writes to it.
PicksSocket(h) ==
  /\ asker[h].at = "send" /\ line.socket # NoSocket
  /\ asker' = [asker EXCEPT ![h] = [@ EXCEPT !.at = "write", !.ws = line.socket]]
  /\ UNCHANGED <<gatewaySide, line, waiter, inbox, carried, entitled>>
Leaves(h) ==
  /\ asker' = [asker EXCEPT ![h] = [NotAsking EXCEPT !.at = "done"]]
  /\ waiter' = waiter \ {h}
  /\ inbox' = [inbox EXCEPT ![h] = Nothing] /\ entitled' = [entitled EXCEPT ![h] = {}]
  /\ UNCHANGED <<gatewaySide, line, carried>>
NotConnected(h) ==
  asker[h].at = "send" /\ line.socket = NoSocket /\ Leaves(h)
Writes(h) ==
  /\ asker[h].at = "write"
  /\ asker' = [asker EXCEPT ![h].at = "wait"]
  /\ carried' = [carried EXCEPT ![h] =
       IF asker[h].ws = line.last /\ line.works
       THEN [at |-> "up", for |-> asker[h].for, on |-> asker[h].ws, reply |-> Nothing]
       ELSE NoRequest]
  /\ UNCHANGED <<gatewaySide, line, waiter, inbox, entitled>>
WriteFails(h) ==
  asker[h].at = "write" /\ ~(asker[h].ws = line.last /\ line.works) /\ Leaves(h)

Returned(h) == asker[h].at = "wait" /\ inbox[h] # Nothing /\ Leaves(h)
\* Nineteen minutes, or however long the helper waits.
TimesOut(h) == asker[h].at = "wait" /\ inbox[h] = Nothing /\ Leaves(h)

\* resolvePending.
Resolve(h) ==
  /\ carried[h].at = "down" /\ line.socket = carried[h].on
  /\ carried' = [carried EXCEPT ![h] = NoRequest]
  /\ waiter' = waiter \ {h}
  /\ inbox' = IF h \in waiter THEN [inbox EXCEPT ![h] = carried[h].reply] ELSE inbox
  /\ UNCHANGED <<gatewaySide, line, asker, entitled>>

-----------------------------------------------------------------------------
(* The connection *)

\* What is on its way is lost; what the gateway is at goes on.
CutOff ==
  /\ line.works
  /\ line' = [line EXCEPT !.works = FALSE]
  /\ carried' = [h \in Helpers |-> IF carried[h].at \in {"up", "down"} THEN NoRequest ELSE carried[h]]
  /\ UNCHANGED <<gatewaySide, asker, waiter, inbox, entitled>>
\* connectOnce returns: the connection is cleared, and then failPending.
DropSocket ==
  /\ ~line.works /\ line.socket # NoSocket
  /\ line' = [line EXCEPT !.socket = NoSocket, !.dropped = TRUE]
  /\ UNCHANGED <<gatewaySide, asker, waiter, inbox, carried, entitled>>
NobodyTold == waiter' = waiter /\ inbox' = inbox  \* mutant: waiters are left to their deadlines
TellsWaiters ==
  /\ waiter' = {}
  /\ inbox' = [h \in Helpers |-> IF h \in waiter /\ inbox[h] = Nothing THEN "lost" ELSE inbox[h]]
FailPending ==
  /\ line.dropped
  /\ line' = [line EXCEPT !.dropped = FALSE]
  /\ TellsWaiters
  /\ UNCHANGED <<gatewaySide, asker, carried, entitled>>
ConnectOnce ==
  /\ line.socket = NoSocket /\ ~line.dropped /\ line.last < MaxSockets
  /\ line' = [line EXCEPT !.socket = line.last + 1, !.works = TRUE, !.last = line.last + 1]
  /\ UNCHANGED <<gatewaySide, asker, waiter, inbox, carried, entitled>>

-----------------------------------------------------------------------------
(* The gateway *)

Proceeds(h, at) == carried' = [carried EXCEPT ![h].at = at]
\* A reply to a connection that is gone is lost.
Replies(h, reply) ==
  carried' = [carried EXCEPT ![h] = IF line.works /\ line.last = @.on
                                    THEN [@ EXCEPT !.at = "down", !.reply = reply] ELSE NoRequest]

\* onCredentialRequest: the runner's own repositories, then its marketplaces.
RepoAllowed(h) ==
  /\ carried[h].at = "up" /\ carried[h].for \in Repos
  /\ Proceeds(h, IF carried[h].for \in policy.writes THEN "read-write" ELSE "marketplace")
  /\ UNCHANGED <<gatewaySide, line, asker, waiter, inbox, entitled>>
MarketplaceReadable(h) ==
  /\ carried[h].at = "marketplace"
  /\ IF carried[h].for \in policy.reads THEN Proceeds(h, "read-only") ELSE Replies(h, "denied")
  /\ UNCHANGED <<gatewaySide, line, asker, waiter, inbox, entitled>>

OfTheRepo(repo, access) == {m \in minted : m.repo = repo}  \* mutant: one token for a repository
Kept(repo, access) == {m \in minted : m.repo = repo /\ m.access = access}
\* Mint: a token that is kept, unless it is about to expire, or a new one, or none.
MintKept(h) ==
  /\ carried[h].at \in {"read-write", "read-only"}
  /\ \E m \in Kept(carried[h].for, carried[h].at) : Replies(h, m.access)
  /\ UNCHANGED <<gatewaySide, line, asker, waiter, inbox, entitled>>
MintCalls(h) ==
  /\ carried[h].at \in {"read-write", "read-only"}
  /\ carried' = [carried EXCEPT ![h] = [@ EXCEPT !.at = "mint", !.reply = carried[h].at]]
  /\ UNCHANGED <<gatewaySide, line, asker, waiter, inbox, entitled>>
MintReturns(h) ==
  /\ carried[h].at = "mint"
  /\ Replies(h, carried[h].reply)
  /\ minted' = minted \cup {[repo |-> carried[h].for, access |-> carried[h].reply]}
  /\ UNCHANGED <<policy, policies, line, asker, waiter, inbox, entitled>>
MintFails(h) ==
  /\ carried[h].at = "mint"
  /\ Replies(h, "denied")
  /\ UNCHANGED <<gatewaySide, line, asker, waiter, inbox, entitled>>

\* onMCPCall: the server is looked up, and looked up again with its deny list to be
\* called; the second look decides.
Call(h) ==
  /\ carried[h].at = "up" /\ carried[h].for \in Servers
  /\ IF carried[h].for \in policy.calls THEN Proceeds(h, "called") ELSE Replies(h, "denied")
  /\ UNCHANGED <<gatewaySide, line, asker, waiter, inbox, entitled>>
CallReturns(h) ==
  /\ carried[h].at = "called"
  /\ Replies(h, "called")
  /\ UNCHANGED <<gatewaySide, line, asker, waiter, inbox, entitled>>

\* applyConfig.  The proxy has its servers a little later than the rest is in force,
\* which no request can tell: none looks at both.
ApplyConfig ==
  /\ policies < MaxPolicies /\ policies' = policies + 1
  /\ policy' \in Policies
  /\ policy' # policy
  /\ entitled' = [h \in Helpers |-> entitled[h] \cup Rights(policy', asker[h].for)]
  /\ UNCHANGED <<minted, line, asker, waiter, inbox, carried>>

-----------------------------------------------------------------------------
Helper(h) ==
  \/ \E for \in Repos \cup Servers : Request(h, for)
  \/ PicksSocket(h)
  \/ NotConnected(h)
  \/ Writes(h)
  \/ WriteFails(h)
  \/ Returned(h)
  \/ TimesOut(h)
  \/ Resolve(h)
Serves(h) ==
  \/ RepoAllowed(h)
  \/ MarketplaceReadable(h)
  \/ MintKept(h)
  \/ MintCalls(h)
  \/ MintReturns(h)
  \/ MintFails(h)
  \/ Call(h)
  \/ CallReturns(h)
RequestsNext ==
  \/ \E h \in Helpers : Helper(h) \/ Serves(h)
  \/ CutOff
  \/ DropSocket
  \/ FailPending
  \/ ConnectOnce
  \/ ApplyConfig
RequestsSpec == RequestsInit /\ [][RequestsNext]_requestVars

-----------------------------------------------------------------------------
(* Properties *)

\* A helper gets a token that can write, one that can only read, or a tool's
\* result only if the policy gave it that while it waited: not for a token that
\* is still kept from before (onCredentialRequest, Mint, onMCPCall).
WithinPolicy ==
  \A h \in Helpers :
    inbox[h] \in {"read-write", "read-only", "called"} => inbox[h] \in entitled[h]

\* A helper that waits will hear: something is in its channel, its request or the
\* reply is on a connection that works, or the waiters of a lost one are yet to be
\* told (request, failPending).
NoneForgotten ==
  \A h \in Helpers : asker[h].at = "wait" =>
    \/ inbox[h] # Nothing
    \/ carried[h].at # "none" /\ carried[h].on = line.last /\ line.works
    \/ line.dropped
    \/ line.socket # NoSocket /\ ~line.works
=============================================================================
