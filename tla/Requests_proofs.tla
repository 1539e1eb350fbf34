---------------------------- MODULE Requests_proofs ----------------------------
(***************************************************************************)
(* What a helper is told and that it is told, for any number of helpers,   *)
(* connections and reloads, and every configuration.                       *)
(***************************************************************************)
EXTENDS Requests, TLAPS

-----------------------------------------------------------------------------
(* The inductive invariant, of one helper                                    *)
(*                                                                           *)
(* It is stated of the parts of the state a helper has: h is the helper, w   *)
(* the waiters, a what it asks, i what is in its channel, c its request on   *)
(* the way, e what it was entitled to, ln the connection.                    *)

Asking  == {"send", "write", "wait"}
Granted == {"read-write", "read-only", "called"}
Targets == Repos \cup Servers \cup {Nothing}

Shaped(a, i, c) ==
  /\ a \in [at : Asking \cup {"idle", "done"}, for : Targets, ws : Nat]
  /\ c \in [at : {"none", "up", "down", "marketplace", "mint"} \cup Granted, for : Targets,
            on : Nat, reply : {Nothing, "denied"} \cup Granted]
  /\ i \in {Nothing, "lost", "denied"} \cup Granted

\* The policy's rights are among those it was entitled to while it asks, and each
\* step of the gateway hands on one of them.  Its channel is read once: a reply
\* finds it waiting or not at all.
Entitled(h, w, a, i, c, e, pol) ==
  /\ a.at \in Asking => Rights(pol, a.for) \subseteq e
  /\ h \in w => a.at \in Asking
  /\ a.at \in {"idle", "send", "write"} => c.at = "none"
  /\ a.at # "wait" => i \in {Nothing, "lost"}
  /\ a.at = "wait" =>
       /\ i \in {Nothing, "lost", "denied"} \cup e
       /\ c.at # "none" => c.for = a.for
       /\ c.at \in Granted => c.at \in e
       /\ c.at = "mint" => c.reply \in e
       /\ c.at = "down" => c.reply \in {"denied"} \cup e

\* It hears of the loss of the connection it writes to, as long as nothing is in
\* its channel it is registered, and replies are not empty.
Hears(h, w, a, i, c, ln) ==
  /\ c.at = "mint" => c.reply \in Granted
  /\ c.at = "down" => c.reply # Nothing
  /\ a.at \in Asking /\ i = Nothing => h \in w
  /\ a.at = "write" =>
       i # Nothing \/ (a.ws = ln.last /\ (ln.socket = ln.last \/ ln.dropped))
  /\ a.at = "wait" =>
       \/ i # Nothing
       \/ c.at # "none" /\ c.on = ln.last /\ ln.works
       \/ ln.dropped
       \/ ln.socket # NoSocket /\ ~ln.works

HelperOK(h, w, a, i, c, e, pol, ln) ==
  Shaped(a, i, c) /\ Entitled(h, w, a, i, c, e, pol) /\ Hears(h, w, a, i, c, ln)

LineOK ==
  /\ line \in [socket : Nat, works : BOOLEAN, dropped : BOOLEAN, last : Nat \ {NoSocket}]
  /\ line.socket \in {NoSocket, line.last}
  /\ line.works => line.socket = line.last
  /\ line.dropped => line.socket = NoSocket

RequestsInv ==
  /\ LineOK
  /\ DOMAIN asker = Helpers /\ DOMAIN inbox = Helpers
  /\ DOMAIN carried = Helpers /\ DOMAIN entitled = Helpers
  /\ \A h \in Helpers :
       HelperOK(h, waiter, asker[h], inbox[h], carried[h], entitled[h], policy, line)

(* What the invariant says of one helper.                                    *)
LEMMA OfHelper ==
  ASSUME RequestsInv, NEW h \in Helpers
  PROVE  /\ Shaped(asker[h], inbox[h], carried[h])
         /\ Entitled(h, waiter, asker[h], inbox[h], carried[h], entitled[h], policy)
         /\ Hears(h, waiter, asker[h], inbox[h], carried[h], line)
         /\ LineOK
  BY DEF RequestsInv, HelperOK

\* g is f but for what it has at h, which is v.
Updated(g, f, h, v) ==
  DOMAIN g = DOMAIN f /\ g[h] = v /\ \A x \in DOMAIN f \ {h} : g[x] = f[x]

(* A step of one helper, or of the gateway for it, leaves the others alone:  *)
(* it keeps the invariant when it keeps it of that one.                      *)
LEMMA OneHelper ==
  ASSUME RequestsInv, NEW h \in Helpers, NEW a, NEW i, NEW c, NEW e,
         Updated(asker', asker, h, a), Updated(inbox', inbox, h, i),
         Updated(carried', carried, h, c), Updated(entitled', entitled, h, e),
         \A g \in Helpers \ {h} : g \in waiter' <=> g \in waiter,
         UNCHANGED <<line, policy>>,
         Shaped(a, i, c), Entitled(h, waiter', a, i, c, e, policy), Hears(h, waiter', a, i, c, line)
  PROVE  RequestsInv'
  <1>1. /\ DOMAIN asker' = Helpers /\ DOMAIN inbox' = Helpers
        /\ DOMAIN carried' = Helpers /\ DOMAIN entitled' = Helpers
        /\ asker'[h] = a /\ inbox'[h] = i /\ carried'[h] = c /\ entitled'[h] = e
    BY DEF RequestsInv, Updated
  <1>2. SUFFICES ASSUME NEW g \in Helpers
                 PROVE  HelperOK(g, waiter', asker'[g], inbox'[g], carried'[g], entitled'[g],
                                 policy', line')
    BY <1>1 DEF RequestsInv, LineOK
  <1>3. CASE g = h
    BY <1>1, <1>3 DEF HelperOK
  <1>4. CASE g # h
    <2>1. /\ asker'[g] = asker[g] /\ inbox'[g] = inbox[g] /\ carried'[g] = carried[g]
          /\ entitled'[g] = entitled[g] /\ (g \in waiter' <=> g \in waiter)
      BY <1>4 DEF RequestsInv, Updated
    <2> QED
      BY <2>1, OfHelper DEF HelperOK, Entitled, Hears
  <1> QED
    BY <1>3, <1>4

(* A step of the connection or of the policy keeps the invariant when it     *)
(* keeps it of every helper.                                                 *)
LEMMA AllHelpers ==
  ASSUME RequestsInv, LineOK',
         DOMAIN asker' = Helpers, DOMAIN inbox' = Helpers,
         DOMAIN carried' = Helpers, DOMAIN entitled' = Helpers,
         \A h \in Helpers :
           /\ Shaped(asker'[h], inbox'[h], carried'[h])
           /\ Entitled(h, waiter', asker'[h], inbox'[h], carried'[h], entitled'[h], policy')
           /\ Hears(h, waiter', asker'[h], inbox'[h], carried'[h], line')
  PROVE  RequestsInv'
  BY DEF RequestsInv, HelperOK

-----------------------------------------------------------------------------
(* The runner *)

(* A request that is made is entitled to what the policy gives.              *)
LEMMA RequestStep ==
  ASSUME RequestsInv, NEW h \in Helpers, NEW for \in Repos \cup Servers, Request(h, for)
  PROVE  RequestsInv'
  <1> DEFINE a == [asker[h] EXCEPT !.at = "send", !.for = for]
  <1>1. /\ Updated(asker', asker, h, a) /\ Updated(inbox', inbox, h, inbox[h])
        /\ Updated(carried', carried, h, carried[h])
        /\ Updated(entitled', entitled, h, Rights(policy, for))
    BY DEF Request, RequestsInv, Updated
  <1>2. /\ Shaped(asker[h], inbox[h], carried[h]) /\ carried[h].at = "none"
        /\ inbox[h] \in {Nothing, "lost"} /\ waiter' = waiter \cup {h}
        /\ UNCHANGED <<line, policy>>
    BY OfHelper DEF Request, Entitled, gatewaySide
  <1>3. /\ Shaped(a, inbox[h], carried[h]) /\ a.at = "send" /\ a.for = for
    BY <1>2 DEF Shaped, Targets, Asking
  <1> HIDE DEF a
  <1>4. Entitled(h, waiter', a, inbox[h], carried[h], Rights(policy, for), policy)
    BY <1>2, <1>3 DEF Entitled, Asking
  <1>5. Hears(h, waiter', a, inbox[h], carried[h], line)
    BY <1>2, <1>3 DEF Hears
  <1> QED
    BY <1>1, <1>2, <1>3, <1>4, <1>5, OneHelper

(* The connection a helper takes is the one that is up.                      *)
LEMMA PicksSocketStep ==
  ASSUME RequestsInv, NEW h \in Helpers, PicksSocket(h)
  PROVE  RequestsInv'
  <1> DEFINE a == [asker[h] EXCEPT !.at = "write", !.ws = line.socket]
  <1>1. /\ Updated(asker', asker, h, a) /\ Updated(inbox', inbox, h, inbox[h])
        /\ Updated(carried', carried, h, carried[h])
        /\ Updated(entitled', entitled, h, entitled[h])
    BY DEF PicksSocket, RequestsInv, Updated
  <1>2. /\ Shaped(asker[h], inbox[h], carried[h]) /\ asker[h].at = "send"
        /\ line.socket \in Nat /\ line.socket = line.last /\ line.socket # NoSocket
        /\ waiter' = waiter /\ UNCHANGED <<line, policy>>
        /\ Entitled(h, waiter, asker[h], inbox[h], carried[h], entitled[h], policy)
        /\ Hears(h, waiter, asker[h], inbox[h], carried[h], line)
    BY OfHelper DEF PicksSocket, LineOK, gatewaySide
  <1>3. /\ Shaped(a, inbox[h], carried[h])
        /\ a.at = "write" /\ a.for = asker[h].for /\ a.ws = line.socket
    BY <1>2 DEF Shaped, Asking
  <1> HIDE DEF a
  <1>4. Entitled(h, waiter', a, inbox[h], carried[h], entitled[h], policy)
    BY <1>2, <1>3 DEF Entitled, Asking
  <1>5. Hears(h, waiter', a, inbox[h], carried[h], line)
    BY <1>2, <1>3 DEF Hears, Asking
  <1> QED
    BY <1>1, <1>2, <1>3, <1>4, <1>5, OneHelper

(* A helper that leaves is told nothing more.                                *)
LEMMA LeavesStep ==
  ASSUME RequestsInv, NEW h \in Helpers, Leaves(h)
  PROVE  RequestsInv'
  <1> DEFINE a == [NotAsking EXCEPT !.at = "done"]
  <1>1. /\ Updated(asker', asker, h, a) /\ Updated(inbox', inbox, h, Nothing)
        /\ Updated(carried', carried, h, carried[h])
        /\ Updated(entitled', entitled, h, {})
    BY DEF Leaves, RequestsInv, Updated
  <1>2. /\ Shaped(asker[h], inbox[h], carried[h])
        /\ waiter' = waiter \ {h} /\ UNCHANGED <<line, policy>>
        /\ Hears(h, waiter, asker[h], inbox[h], carried[h], line)
    BY OfHelper DEF Leaves, gatewaySide
  <1>3. Shaped(a, Nothing, carried[h]) /\ a.at = "done"
    BY <1>2 DEF Shaped, NotAsking, Targets, Nothing, NoSocket
  <1> HIDE DEF a
  <1>4. Entitled(h, waiter', a, Nothing, carried[h], {}, policy)
    BY <1>2, <1>3 DEF Entitled, Asking
  <1>5. Hears(h, waiter', a, Nothing, carried[h], line)
    BY <1>2, <1>3 DEF Hears, Asking
  <1> QED
    BY <1>1, <1>2, <1>3, <1>4, <1>5, OneHelper

(* A frame that is written to the connection that is up is on its way; one   *)
(* that is written to another is lost, and its helper told.                  *)
LEMMA WritesStep ==
  ASSUME RequestsInv, NEW h \in Helpers, Writes(h)
  PROVE  RequestsInv'
  <1> DEFINE a  == [asker[h] EXCEPT !.at = "wait"]
             up == [at |-> "up", for |-> asker[h].for, on |-> asker[h].ws, reply |-> Nothing]
             c  == IF asker[h].ws = line.last /\ line.works THEN up ELSE NoRequest
  <1>1. /\ Updated(asker', asker, h, a) /\ Updated(inbox', inbox, h, inbox[h])
        /\ Updated(carried', carried, h, c)
        /\ Updated(entitled', entitled, h, entitled[h])
    BY DEF Writes, RequestsInv, Updated
  <1>2. /\ Shaped(asker[h], inbox[h], carried[h]) /\ asker[h].at = "write"
        /\ waiter' = waiter /\ UNCHANGED <<line, policy>> /\ LineOK
        /\ Entitled(h, waiter, asker[h], inbox[h], carried[h], entitled[h], policy)
        /\ Hears(h, waiter, asker[h], inbox[h], carried[h], line)
    BY OfHelper DEF Writes, gatewaySide
  <1>3. /\ a \in [at : Asking \cup {"idle", "done"}, for : Targets, ws : Nat]
        /\ a.at = "wait" /\ a.for = asker[h].for /\ a.ws = asker[h].ws
    BY <1>2 DEF Shaped, Asking
  <1>4. \/ /\ c = up /\ c.at = "up" /\ c.for = asker[h].for /\ c.on = line.last /\ line.works
        \/ c = NoRequest /\ c.at = "none" /\ ~(asker[h].ws = line.last /\ line.works)
    BY DEF NoRequest
  <1>5. Shaped(a, inbox[h], c)
    BY <1>2, <1>3, <1>4 DEF Shaped, NoRequest, Targets, Nothing, NoSocket
  <1> HIDE DEF a, c, up
  <1>6. Entitled(h, waiter', a, inbox[h], c, entitled[h], policy)
    BY <1>2, <1>3, <1>4 DEF Entitled, Asking, Granted
  <1>7. Hears(h, waiter', a, inbox[h], c, line)
    BY <1>2, <1>3, <1>4 DEF Hears, Asking, LineOK
  <1> QED
    BY <1>1, <1>2, <1>5, <1>6, <1>7, OneHelper

(* A reply goes to the helper that waits for it, if it does.                 *)
LEMMA ResolveStep ==
  ASSUME RequestsInv, NEW h \in Helpers, Resolve(h)
  PROVE  RequestsInv'
  <1> DEFINE i == IF h \in waiter THEN carried[h].reply ELSE inbox[h]
  <1>1. /\ Updated(asker', asker, h, asker[h]) /\ Updated(inbox', inbox, h, i)
        /\ Updated(carried', carried, h, NoRequest)
        /\ Updated(entitled', entitled, h, entitled[h])
    BY DEF Resolve, RequestsInv, Updated
  <1>2. /\ Shaped(asker[h], inbox[h], carried[h]) /\ carried[h].at = "down"
        /\ waiter' = waiter \ {h} /\ UNCHANGED <<line, policy>>
        /\ Entitled(h, waiter, asker[h], inbox[h], carried[h], entitled[h], policy)
        /\ Hears(h, waiter, asker[h], inbox[h], carried[h], line)
    BY OfHelper DEF Resolve, gatewaySide
  <1>3. NoRequest.at = "none"
    BY DEF NoRequest
  <1>4. Shaped(asker[h], i, NoRequest)
    BY <1>2 DEF Shaped, NoRequest, Targets, Nothing, NoSocket
  <1>5. h \in waiter => asker[h].at = "wait" /\ i = carried[h].reply /\ i # Nothing
    BY <1>2 DEF Entitled, Hears, Asking
  <1>6. h \notin waiter => i = inbox[h]
    OBVIOUS
  <1> HIDE DEF i
  <1>7. Entitled(h, waiter', asker[h], i, NoRequest, entitled[h], policy)
    BY <1>2, <1>3, <1>5, <1>6 DEF Entitled, Asking, Granted
  <1>8. Hears(h, waiter', asker[h], i, NoRequest, line)
    BY <1>2, <1>3, <1>5, <1>6 DEF Hears, Entitled, Asking
  <1> QED
    BY <1>1, <1>2, <1>4, <1>7, <1>8, OneHelper

-----------------------------------------------------------------------------
(* The connection *)

(* A connection that stops working is yet to be dropped.                     *)
LEMMA CutOffStep ==
  ASSUME RequestsInv, CutOff
  PROVE  RequestsInv'
  <1>1. /\ line' \in [socket : Nat, works : BOOLEAN, dropped : BOOLEAN, last : Nat \ {NoSocket}]
        /\ line'.socket = line.socket /\ line'.last = line.last /\ ~line'.works
        /\ line'.dropped = line.dropped
        /\ line.socket = line.last /\ line.last # NoSocket /\ LineOK
    BY DEF CutOff, RequestsInv, LineOK
  <1>2. LineOK'
    BY <1>1 DEF LineOK
  <1>3. ASSUME NEW h \in Helpers
        PROVE  /\ Shaped(asker'[h], inbox'[h], carried'[h])
               /\ Entitled(h, waiter', asker'[h], inbox'[h], carried'[h], entitled'[h], policy')
               /\ Hears(h, waiter', asker'[h], inbox'[h], carried'[h], line')
    <2>1. /\ carried'[h] = carried[h] \/ carried'[h] = NoRequest
          /\ asker'[h] = asker[h] /\ inbox'[h] = inbox[h] /\ entitled'[h] = entitled[h]
          /\ waiter' = waiter /\ policy' = policy
      BY DEF CutOff, gatewaySide
    <2>2. NoRequest.at = "none" /\ Shaped(asker[h], inbox[h], NoRequest)
      BY OfHelper DEF Shaped, NoRequest, Targets, Nothing, NoSocket
    <2> QED
      BY <1>1, <2>1, <2>2, OfHelper DEF Entitled, Hears, Granted
  <1>4. /\ DOMAIN asker' = Helpers /\ DOMAIN inbox' = Helpers
        /\ DOMAIN carried' = Helpers /\ DOMAIN entitled' = Helpers
    BY DEF CutOff, RequestsInv
  <1> QED
    BY <1>2, <1>3, <1>4, AllHelpers

(* It is dropped before its waiters are told, and a new one made after.      *)
LEMMA LineStep ==
  ASSUME RequestsInv, DropSocket \/ ConnectOnce
  PROVE  RequestsInv'
  <1>1. /\ line \in [socket : Nat, works : BOOLEAN, dropped : BOOLEAN, last : Nat \ {NoSocket}]
        /\ ~line.works
    BY DEF DropSocket, ConnectOnce, RequestsInv, LineOK, NoSocket
  <1>2. \/ /\ line'.dropped /\ line'.socket = NoSocket /\ line'.last = line.last /\ ~line'.works
           /\ line' \in [socket : Nat, works : BOOLEAN, dropped : BOOLEAN, last : Nat \ {NoSocket}]
           /\ line.socket # NoSocket
        \/ /\ ~line.dropped /\ line.socket = NoSocket /\ ~line'.dropped
           /\ line'.socket = line'.last /\ line'.works
           /\ line' \in [socket : Nat, works : BOOLEAN, dropped : BOOLEAN, last : Nat \ {NoSocket}]
    <2>1. CASE DropSocket
      BY <1>1, <2>1 DEF DropSocket, NoSocket
    <2>2. CASE ConnectOnce
      <3>1. line.last + 1 \in Nat \ {NoSocket}
        BY <1>1 DEF NoSocket
      <3> QED
        BY <1>1, <2>2, <3>1 DEF ConnectOnce, NoSocket
    <2> QED
      BY <2>1, <2>2
  <1>3. LineOK'
    BY <1>2 DEF LineOK, NoSocket
  <1>4. UNCHANGED <<asker, waiter, inbox, carried, entitled, policy>>
    BY DEF DropSocket, ConnectOnce, gatewaySide
  <1>5. ASSUME NEW h \in Helpers
        PROVE  /\ Shaped(asker'[h], inbox'[h], carried'[h])
               /\ Entitled(h, waiter', asker'[h], inbox'[h], carried'[h], entitled'[h], policy')
               /\ Hears(h, waiter', asker'[h], inbox'[h], carried'[h], line')
    BY <1>1, <1>2, <1>4, OfHelper DEF Hears, LineOK
  <1> QED
    BY <1>3, <1>4, <1>5, AllHelpers DEF RequestsInv

(* Every waiter is told, and nothing is left to be on its way to it.         *)
LEMMA FailPendingStep ==
  ASSUME RequestsInv, FailPending
  PROVE  RequestsInv'
  <1>1. /\ line' \in [socket : Nat, works : BOOLEAN, dropped : BOOLEAN, last : Nat \ {NoSocket}]
        /\ line'.socket = line.socket /\ line'.last = line.last /\ line'.works = line.works
        /\ ~line'.dropped /\ LineOK
    BY DEF FailPending, RequestsInv, LineOK
  <1>2. LineOK'
    BY <1>1 DEF LineOK
  <1>3. UNCHANGED <<asker, carried, entitled, policy>> /\ waiter' = {} /\ DOMAIN inbox' = Helpers
    BY DEF FailPending, TellsWaiters, gatewaySide
  <1>4. ASSUME NEW h \in Helpers
        PROVE  /\ Shaped(asker'[h], inbox'[h], carried'[h])
               /\ Entitled(h, waiter', asker'[h], inbox'[h], carried'[h], entitled'[h], policy')
               /\ Hears(h, waiter', asker'[h], inbox'[h], carried'[h], line')
    <2>1. inbox'[h] = IF h \in waiter /\ inbox[h] = Nothing THEN "lost" ELSE inbox[h]
      BY DEF FailPending, TellsWaiters
    <2>2. asker[h].at \in Asking => inbox'[h] # Nothing
      BY <2>1, OfHelper DEF Hears, Nothing
    <2>3. Shaped(asker[h], inbox'[h], carried[h])
      BY <2>1, OfHelper DEF Shaped
    <2>4. Entitled(h, {}, asker[h], inbox'[h], carried[h], entitled[h], policy)
      BY <2>1, OfHelper DEF Entitled
    <2>5. /\ carried[h].at = "mint" => carried[h].reply \in Granted
          /\ carried[h].at = "down" => carried[h].reply # Nothing
      BY OfHelper DEF Hears
    <2>6. Hears(h, {}, asker[h], inbox'[h], carried[h], line')
      BY <2>2, <2>5 DEF Hears, Asking
    <2> QED
      BY <1>3, <2>3, <2>4, <2>6
  <1> QED
    BY <1>2, <1>3, <1>4, AllHelpers DEF RequestsInv

-----------------------------------------------------------------------------
(* The gateway *)

(* The new policy's rights are added to what each helper is entitled to.     *)
LEMMA ApplyConfigStep ==
  ASSUME RequestsInv, ApplyConfig
  PROVE  RequestsInv'
  <1>1. UNCHANGED <<asker, waiter, inbox, carried, line>> /\ DOMAIN entitled' = Helpers
    BY DEF ApplyConfig
  <1>2. ASSUME NEW h \in Helpers
        PROVE  /\ Shaped(asker'[h], inbox'[h], carried'[h])
               /\ Entitled(h, waiter', asker'[h], inbox'[h], carried'[h], entitled'[h], policy')
               /\ Hears(h, waiter', asker'[h], inbox'[h], carried'[h], line')
    <2>1. entitled'[h] = entitled[h] \cup Rights(policy', asker[h].for)
      BY DEF ApplyConfig
    <2> QED
      BY <1>1, <2>1, OfHelper DEF Entitled
  <1> QED
    BY <1>1, <1>2, AllHelpers DEF RequestsInv, LineOK

(* A step of the gateway moves the request of one helper on, with a right    *)
(* it has, to the connection it came from, or answers it, or finds that      *)
(* connection gone.                                                          *)
LEMMA ServesOn ==
  ASSUME RequestsInv, NEW h \in Helpers, NEW c,
         Updated(carried', carried, h, c), UNCHANGED <<asker, waiter, inbox, entitled, line, policy>>,
         carried[h].at # "none",
         Shaped(asker[h], inbox[h], c),
         c.at # "none" => c.on = carried[h].on /\ c.for = carried[h].for,
         c.at = "none" => ~(line.works /\ line.last = carried[h].on),
         c.at = "mint" => c.reply \in Granted,
         c.at = "down" => c.reply # Nothing,
         asker[h].at = "wait" =>
           /\ c.at \in Granted => c.at \in entitled[h]
           /\ c.at = "mint" => c.reply \in entitled[h]
           /\ c.at = "down" => c.reply \in {"denied"} \cup entitled[h]
  PROVE  RequestsInv'
  <1>1. /\ Updated(asker', asker, h, asker[h]) /\ Updated(inbox', inbox, h, inbox[h])
        /\ Updated(entitled', entitled, h, entitled[h])
    BY DEF Updated, RequestsInv
  <1>2. Entitled(h, waiter', asker[h], inbox[h], c, entitled[h], policy)
    BY OfHelper DEF Entitled
  <1>3. Hears(h, waiter', asker[h], inbox[h], c, line)
    BY OfHelper DEF Hears
  <1> QED
    BY <1>1, <1>2, <1>3, OneHelper

(* A policy that gives a right to what a waiting helper asks for is one it   *)
(* is entitled to.                                                           *)
LEMMA PolicyEntitles ==
  ASSUME RequestsInv, NEW h \in Helpers, asker[h].at = "wait", carried[h].at # "none"
  PROVE  Rights(policy, carried[h].for) \subseteq entitled[h]
  BY OfHelper DEF Entitled, Asking

(* A request that is handed on with a right is one that is moved on.         *)
LEMMA ProceedsStep ==
  ASSUME RequestsInv, NEW h \in Helpers, NEW at \in Granted \cup {"marketplace"},
         Proceeds(h, at), UNCHANGED <<gatewaySide, line, asker, waiter, inbox, entitled>>,
         carried[h].at # "none",
         at \in Granted => at \in Rights(policy, carried[h].for)
  PROVE  RequestsInv'
  <1> DEFINE c == [carried[h] EXCEPT !.at = at]
  <1>1. Updated(carried', carried, h, c)
    BY DEF Proceeds, Updated, RequestsInv
  <1>2. Shaped(asker[h], inbox[h], carried[h])
    BY OfHelper
  <1>3. /\ Shaped(asker[h], inbox[h], c) /\ c.at = at
        /\ c.on = carried[h].on /\ c.for = carried[h].for
    BY <1>2 DEF Shaped, Granted
  <1> HIDE DEF c
  <1>4. asker[h].at = "wait" /\ at \in Granted => at \in entitled[h]
    BY PolicyEntitles
  <1> QED
    BY <1>1, <1>3, <1>4, ServesOn DEF gatewaySide, Granted

(* A reply is a right the helper has, or says that there is none.            *)
LEMMA RepliesStep ==
  ASSUME RequestsInv, NEW h \in Helpers, NEW reply \in Granted \cup {"denied"},
         Replies(h, reply), UNCHANGED <<policy, line, asker, waiter, inbox, entitled>>,
         carried[h].at # "none",
         asker[h].at = "wait" => reply \in {"denied"} \cup entitled[h]
  PROVE  RequestsInv'
  <1> DEFINE down == [carried[h] EXCEPT !.at = "down", !.reply = reply]
             c    == IF line.works /\ line.last = carried[h].on THEN down ELSE NoRequest
  <1>1. Updated(carried', carried, h, c)
    BY DEF Replies, Updated, RequestsInv
  <1>2. Shaped(asker[h], inbox[h], carried[h])
    BY OfHelper
  <1>3. /\ Shaped(asker[h], inbox[h], down) /\ down.at = "down" /\ down.reply = reply
        /\ down.on = carried[h].on /\ down.for = carried[h].for
    BY <1>2 DEF Shaped
  <1>4. Shaped(asker[h], inbox[h], NoRequest) /\ NoRequest.at = "none"
    BY <1>2 DEF Shaped, NoRequest, Targets, Nothing, NoSocket
  <1>5. Shaped(asker[h], inbox[h], c)
        /\ (c = down \/ (c = NoRequest /\ ~(line.works /\ line.last = carried[h].on)))
    BY <1>3, <1>4
  <1>6. reply # Nothing
    BY DEF Granted, Nothing
  <1> HIDE DEF c, down
  <1> QED
    BY <1>1, <1>3, <1>4, <1>5, <1>6, ServesOn DEF Granted

(* Each step the gateway takes for a helper keeps the invariant.             *)
LEMMA ServesStep ==
  ASSUME RequestsInv, NEW h \in Helpers, Serves(h)
  PROVE  RequestsInv'
  <1>1. CASE RepoAllowed(h)
    BY <1>1, ProceedsStep DEF RepoAllowed, Rights, Granted
  <1>2. CASE MarketplaceReadable(h)
    BY <1>2, ProceedsStep, RepliesStep DEF MarketplaceReadable, Rights, Granted, gatewaySide
  <1>3. CASE MintKept(h)
    <2>1. /\ Replies(h, carried[h].at) /\ carried[h].at \in Granted
      BY <1>3 DEF MintKept, Kept, Granted
    <2>2. asker[h].at = "wait" => carried[h].at \in entitled[h]
      BY <2>1, OfHelper DEF Entitled
    <2> QED
      BY <1>3, <2>1, <2>2, RepliesStep DEF MintKept, gatewaySide
  <1>4. CASE MintCalls(h)
    <2> DEFINE c == [carried[h] EXCEPT !.at = "mint", !.reply = carried[h].at]
    <2>1. carried[h].at \in Granted /\ Updated(carried', carried, h, c)
      BY <1>4 DEF MintCalls, Granted, RequestsInv, Updated
    <2>2. Shaped(asker[h], inbox[h], carried[h])
      BY OfHelper
    <2>3. /\ Shaped(asker[h], inbox[h], c) /\ c.at = "mint" /\ c.reply = carried[h].at
          /\ c.on = carried[h].on /\ c.for = carried[h].for
      BY <2>1, <2>2 DEF Shaped
    <2>4. asker[h].at = "wait" => carried[h].at \in entitled[h]
      BY <2>1, OfHelper DEF Entitled
    <2> HIDE DEF c
    <2> QED
      BY <1>4, <2>1, <2>3, <2>4, ServesOn DEF MintCalls, gatewaySide, Granted
  <1>5. CASE MintReturns(h)
    <2>1. carried[h].at = "mint" /\ Replies(h, carried[h].reply) /\ carried[h].reply \in Granted
      BY <1>5, OfHelper DEF MintReturns, Hears
    <2>2. asker[h].at = "wait" => carried[h].reply \in entitled[h]
      BY <2>1, OfHelper DEF Entitled
    <2> QED
      BY <1>5, <2>1, <2>2, RepliesStep DEF MintReturns
  <1>6. CASE MintFails(h)
    BY <1>6, RepliesStep DEF MintFails, gatewaySide
  <1>7. CASE Call(h)
    BY <1>7, ProceedsStep, RepliesStep DEF Call, Rights, Granted, gatewaySide
  <1>8. CASE CallReturns(h)
    <2>1. asker[h].at = "wait" => "called" \in entitled[h]
      BY <1>8, OfHelper DEF CallReturns, Entitled, Granted
    <2> QED
      BY <1>8, <2>1, RepliesStep DEF CallReturns, gatewaySide, Granted
  <1> QED
    BY <1>1, <1>2, <1>3, <1>4, <1>5, <1>6, <1>7, <1>8 DEF Serves

-----------------------------------------------------------------------------
(* The theorems *)

(* The invariant holds before anything is asked.                             *)
LEMMA InitInv == RequestsInit => RequestsInv
  <1> SUFFICES ASSUME RequestsInit PROVE RequestsInv
    OBVIOUS
  <1>1. LineOK
    BY DEF RequestsInit, LineOK, NoSocket
  <1>2. Shaped(NotAsking, Nothing, NoRequest)
    BY DEF Shaped, NotAsking, NoRequest, Targets, Nothing, NoSocket
  <1>3. ASSUME NEW h
        PROVE  /\ Entitled(h, {}, NotAsking, Nothing, NoRequest, {}, policy)
               /\ Hears(h, {}, NotAsking, Nothing, NoRequest, line)
    BY DEF Entitled, Hears, NotAsking, NoRequest, Asking
  <1> QED
    BY <1>1, <1>2, <1>3 DEF RequestsInit, RequestsInv, HelperOK

(* Every step keeps it.                                                      *)
LEMMA NextInv == RequestsInv /\ [RequestsNext]_requestVars => RequestsInv'
  <1> SUFFICES ASSUME RequestsInv, [RequestsNext]_requestVars PROVE RequestsInv'
    OBVIOUS
  <1>1. ASSUME NEW h \in Helpers, Helper(h) PROVE RequestsInv'
    <2>1. NotConnected(h) \/ WriteFails(h) \/ Returned(h) \/ TimesOut(h) => Leaves(h)
      BY DEF NotConnected, WriteFails, Returned, TimesOut
    <2> QED
      BY <1>1, <2>1, RequestStep, PicksSocketStep, LeavesStep, WritesStep, ResolveStep DEF Helper
  <1>2. ASSUME NEW h \in Helpers, Serves(h) PROVE RequestsInv'
    BY <1>2, ServesStep
  <1>3. CASE CutOff
    BY <1>3, CutOffStep
  <1>4. CASE DropSocket \/ ConnectOnce
    BY <1>4, LineStep
  <1>5. CASE FailPending
    BY <1>5, FailPendingStep
  <1>6. CASE ApplyConfig
    BY <1>6, ApplyConfigStep
  <1>7. CASE UNCHANGED requestVars
    BY <1>7 DEF RequestsInv, LineOK, requestVars, gatewaySide
  <1> QED
    BY <1>1, <1>2, <1>3, <1>4, <1>5, <1>6, <1>7 DEF RequestsNext

(* In every reachable state.                                                 *)
LEMMA InvCorrect == RequestsSpec => []RequestsInv
  BY InitInv, NextInv, PTL DEF RequestsSpec

(* What a helper is given is something its policy gave while it waited,      *)
(* whatever is reloaded in between and whichever tokens are kept             *)
(* (onCredentialRequest, Mint, onMCPCall).                                   *)
THEOREM WithinPolicyCorrect == RequestsSpec => []WithinPolicy
  <1>1. RequestsInv => WithinPolicy
    <2> SUFFICES ASSUME RequestsInv, NEW h \in Helpers, inbox[h] \in Granted
                 PROVE  inbox[h] \in entitled[h]
      BY DEF WithinPolicy, Granted
    <2> QED
      BY OfHelper DEF Entitled, Granted, Nothing
  <1> QED
    BY <1>1, InvCorrect, PTL

(* A helper that waits has been told, or its request is on a connection that *)
(* works, or the loss of that one is yet to be told (request, failPending).  *)
THEOREM NoneForgottenCorrect == RequestsSpec => []NoneForgotten
  <1>1. RequestsInv => NoneForgotten
    BY OfHelper DEF NoneForgotten, Hears
  <1> QED
    BY <1>1, InvCorrect, PTL

=============================================================================
