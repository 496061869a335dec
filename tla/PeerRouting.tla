---------------------------- MODULE PeerRouting ----------------------------
(***************************************************************************)
(* Route resolution for inbound peer connections: MeshNode.ensurePeerRoute *)
(* (src/internal/peer/ssh.go), called from the goroutine that              *)
(* HandleIncomingSSH's accept loop starts for each inbound connection.     *)
(* The accept loop runs until its ctx is cancelled; the listener may fail  *)
(* (be closed) before that.  Calls for different peers run concurrently with    *)
(* each other and with changes in the coordinator's directory.             *)
(*                                                                         *)
(* ListPeers is an HTTP request: it answers with the directory as it was  *)
(* when served, and the call applies that answer later, after other calls  *)
(* and directory changes may have run.  The directory (registration and   *)
(* deregistration with unique mesh IPs), the router's AddRoute and the     *)
(* mesh-IP cache are not in the repository and are modelled from the       *)
(* description: a map mesh_ip -> peer name and a map peer -> last known    *)
(* mesh IP.                                                                *)
(***************************************************************************)
EXTENDS Naturals

CONSTANTS
  Peers,            \* peer names with an inbound connection to resolve
  IPs,              \* mesh IPs the directory may assign
  NoIP,             \* "" as a mesh IP: not found
  NoPeer,           \* no route for a mesh IP
  MaxRetries,       \* maxRetries in ensurePeerRoute (5 in the code)
  HasClient,        \* m.client != nil
  DirectoryMayFail, \* ListPeers may fail (coordinator unreachable, 5xx)
  MaxDirChanges     \* bound on registrations and deregistrations

ASSUME NoIP \notin IPs /\ NoPeer \notin Peers
ASSUME MaxRetries \in Nat \ {0} /\ MaxDirChanges \in Nat
ASSUME HasClient \in BOOLEAN /\ DirectoryMayFail \in BOOLEAN

VARIABLES
  dir,        \* the directory: each peer's mesh IP, NoIP when not registered
  dirChanges, \* number of directory changes so far
  routes,     \* the router: mesh IP -> peer name
  cache,      \* the mesh-IP cache: peer -> last known mesh IP
  authorized, \* peers whose public key the SSH transport accepts
  call,       \* the ensurePeerRoute call of each peer's inbound connection
  accepting,  \* HandleIncomingSSH's loop is running
  ctxDone,    \* the node's ctx has been cancelled
  listenerUp  \* the transport listener still accepts connections

vars == <<dir, dirChanges, routes, cache, authorized, call, accepting, ctxDone,
          listenerUp>>
acceptVars == <<accepting, ctxDone, listenerUp>>

CallStates == {"idle", "accepted", "fetch", "apply", "fallback", "done"}

TypeOK ==
  /\ dir \in [Peers -> IPs \cup {NoIP}]
  /\ dirChanges \in 0..MaxDirChanges
  /\ routes \in [IPs -> Peers \cup {NoPeer}]
  /\ cache \in [Peers -> IPs \cup {NoIP}]
  /\ authorized \subseteq Peers
  /\ call \in [Peers -> [pc : CallStates, attempt : 1..MaxRetries,
                         fails : 0..MaxRetries, listed : IPs \cup {NoIP},
                         notFound : BOOLEAN, ret : IPs \cup {NoIP}]]
  /\ accepting \in BOOLEAN /\ ctxDone \in BOOLEAN /\ listenerUp \in BOOLEAN

(* The directory never gives one mesh IP to two peers.                     *)
Unique(d) == \A p, q \in Peers : p /= q /\ d[p] /= NoIP => d[p] /= d[q]

(* The program is running: the directory holds some registrations, the     *)
(* cache remembers some of them from earlier connections, no call is in    *)
(* progress, no connection is accepted yet.  Routes start empty.           *)
Init ==
  /\ dir \in {d \in [Peers -> IPs \cup {NoIP}] : Unique(d)}
  /\ dirChanges = 0
  /\ routes = [ip \in IPs |-> NoPeer]
  /\ cache \in {c \in [Peers -> IPs \cup {NoIP}] :
                  \A p \in Peers : c[p] \in {dir[p], NoIP}}
  /\ authorized = {}
  /\ call = [p \in Peers |-> [pc |-> "idle", attempt |-> 1, fails |-> 0,
                               listed |-> NoIP, notFound |-> FALSE,
                               ret |-> NoIP]]
  /\ accepting = TRUE /\ ctxDone = FALSE /\ listenerUp = TRUE

-----------------------------------------------------------------------------
(* Directory (coordinator)                                                 *)

Register(p, ip) ==
  /\ dirChanges < MaxDirChanges
  /\ dir[p] = NoIP
  /\ \A q \in Peers : dir[q] /= ip
  /\ dir' = [dir EXCEPT ![p] = ip]
  /\ dirChanges' = dirChanges + 1
  /\ UNCHANGED <<routes, cache, authorized, call, acceptVars>>

Deregister(p) ==
  /\ dirChanges < MaxDirChanges
  /\ dir[p] /= NoIP
  /\ dir' = [dir EXCEPT ![p] = NoIP]
  /\ dirChanges' = dirChanges + 1
  /\ UNCHANGED <<routes, cache, authorized, call, acceptVars>>

-----------------------------------------------------------------------------
(* HandleIncomingSSH                                                       *)

(* listener.Accept(ctx) returns p's inbound connection, and a goroutine    *)
(* starts handling it.                                                     *)
Accept(p) ==
  /\ accepting /\ listenerUp /\ ~ctxDone
  /\ call[p].pc = "idle"
  /\ call' = [call EXCEPT ![p].pc = "accepted"]
  /\ UNCHANGED <<dir, dirChanges, routes, cache, authorized, acceptVars>>

(* Variant of AcceptFails that logs and continues whatever ctx says.       *)
AcceptFailsIgnoringCtx ==
  /\ accepting
  /\ ctxDone \/ ~listenerUp
  /\ UNCHANGED vars

(* listener.Accept(ctx) fails, as it does once ctx is cancelled or the     *)
(* listener is closed: return if ctx.Err() != nil, else log and go round   *)
(* the loop again at once.                                                 *)
AcceptFails ==
  /\ accepting
  /\ ctxDone \/ ~listenerUp
  /\ accepting' = ~ctxDone
  /\ UNCHANGED <<dir, dirChanges, routes, cache, authorized, call, ctxDone,
                 listenerUp>>

(* The node shuts down: its ctx is cancelled.                              *)
CancelCtx ==
  /\ ~ctxDone
  /\ ctxDone' = TRUE
  /\ UNCHANGED <<dir, dirChanges, routes, cache, authorized, call, accepting,
                 listenerUp>>

(* The transport listener is closed or fails.                              *)
ListenerFails ==
  /\ listenerUp
  /\ listenerUp' = FALSE
  /\ UNCHANGED <<dir, dirChanges, routes, cache, authorized, call, accepting,
                 ctxDone>>

-----------------------------------------------------------------------------
(* ensurePeerRoute(p)                                                      *)

(* Entry: with no coordinator client only the cache is consulted; else    *)
(* the retry loop starts at attempt 1.                                     *)
Start(p) ==
  /\ call[p].pc = "accepted"
  /\ call' = [call EXCEPT ![p].pc = IF HasClient THEN "fetch" ELSE "fallback"]
  /\ UNCHANGED <<dir, dirChanges, routes, cache, authorized, acceptVars>>

(* Variant of ListPeersFails whose loop runs one attempt too many.         *)
ListPeersFailsExtraAttempt(p) ==
  /\ DirectoryMayFail
  /\ call[p].pc = "fetch"
  /\ call' = [call EXCEPT
                ![p].fails = @ + 1,
                ![p].attempt = IF @ <= MaxRetries THEN @ + 1 ELSE @,
                ![p].pc = IF call[p].attempt <= MaxRetries
                          THEN "fetch" ELSE "fallback"]
  /\ UNCHANGED <<dir, dirChanges, routes, cache, authorized, acceptVars>>

(* Variant of ListPeersFails that leaves the loop one attempt early.       *)
ListPeersFailsEarly(p) ==
  /\ DirectoryMayFail
  /\ call[p].pc = "fetch"
  /\ call' = [call EXCEPT
                ![p].fails = @ + 1,
                ![p].attempt = IF @ < MaxRetries - 1 THEN @ + 1 ELSE @,
                ![p].pc = IF call[p].attempt < MaxRetries - 1
                          THEN "fetch" ELSE "fallback"]
  /\ UNCHANGED <<dir, dirChanges, routes, cache, authorized, acceptVars>>

(* ListPeers returns an error: remember it, sleep the backoff unless this  *)
(* was the last attempt, and go round the loop again; after maxRetries     *)
(* failed attempts the loop ends.                                          *)
ListPeersFails(p) ==
  /\ DirectoryMayFail
  /\ call[p].pc = "fetch"
  /\ call' = [call EXCEPT
                ![p].fails = @ + 1,
                ![p].attempt = IF @ < MaxRetries THEN @ + 1 ELSE @,
                ![p].pc = IF call[p].attempt < MaxRetries
                          THEN "fetch" ELSE "fallback"]
  /\ UNCHANGED <<dir, dirChanges, routes, cache, authorized, acceptVars>>

(* ListPeers answers with the directory as it is now.                      *)
ListPeersReturns(p) ==
  /\ call[p].pc = "fetch"
  /\ call' = [call EXCEPT ![p].listed = dir[p], ![p].pc = "apply"]
  /\ UNCHANGED <<dir, dirChanges, routes, cache, authorized, acceptVars>>

(* Variant of ApplyPeers that asks again after a not-found answer without *)
(* counting an attempt.                                                    *)
ApplyPeersRetryNotFound(p) ==
  /\ call[p].pc = "apply"
  /\ LET ip == call[p].listed IN
       IF ip /= NoIP
       THEN /\ routes' = [routes EXCEPT ![ip] = p]
            /\ cache' = [cache EXCEPT ![p] = ip]
            /\ authorized' \in {authorized, authorized \cup {p}}
            /\ call' = [call EXCEPT ![p].ret = ip, ![p].pc = "done"]
       ELSE /\ call' = [call EXCEPT ![p].pc = "fetch"]
            /\ UNCHANGED <<routes, cache, authorized>>
  /\ UNCHANGED <<dir, dirChanges, acceptVars>>

(* The answer is scanned for p.  Found: AddRoute, CachePeerMeshIP, and     *)
(* AddAuthorizedKey when the key is present and decodes; return its IP.    *)
(* Not found: break out of the loop without retrying.                      *)
ApplyPeers(p) ==
  /\ call[p].pc = "apply"
  /\ LET ip == call[p].listed IN
       IF ip /= NoIP
       THEN /\ routes' = [routes EXCEPT ![ip] = p]
            /\ cache' = [cache EXCEPT ![p] = ip]
            /\ authorized' \in {authorized, authorized \cup {p}}
            /\ call' = [call EXCEPT ![p].ret = ip, ![p].pc = "done"]
       ELSE /\ call' = [call EXCEPT ![p].notFound = TRUE, ![p].pc = "fallback"]
            /\ UNCHANGED <<routes, cache, authorized>>
  /\ UNCHANGED <<dir, dirChanges, acceptVars>>

(* After the loop (retries exhausted or peer not found), or with no        *)
(* client: a cached mesh IP is routed and returned, else "" is returned.   *)
Fallback(p) ==
  /\ call[p].pc = "fallback"
  /\ LET ip == cache[p] IN
       /\ routes' = IF ip /= NoIP THEN [routes EXCEPT ![ip] = p] ELSE routes
       /\ call' = [call EXCEPT ![p].ret = ip, ![p].pc = "done"]
  /\ UNCHANGED <<dir, dirChanges, cache, authorized, acceptVars>>

(* The accept loop has returned and every accepted connection has been     *)
(* resolved.                                                               *)
AllResolved ==
  /\ ~accepting
  /\ \A p \in Peers : call[p].pc \in {"idle", "done"}
  /\ UNCHANGED vars

CallStep(p) ==
  \/ Start(p) \/ ListPeersFails(p) \/ ListPeersReturns(p)
  \/ ApplyPeers(p) \/ Fallback(p)

Next ==
  \/ \E p \in Peers, ip \in IPs : Register(p, ip)
  \/ \E p \in Peers : Deregister(p)
  \/ \E p \in Peers : CallStep(p)
  \/ \E p \in Peers : Accept(p)
  \/ AcceptFails \/ CancelCtx \/ ListenerFails
  \/ AllResolved

(* Each connection's goroutine keeps running; each HTTP request returns.   *)
(* The accept loop's goroutine keeps running, and Accept(ctx) returns once *)
(* ctx is cancelled.  Connections arriving, shutdown and listener failure  *)
(* come from outside and are not forced.                                   *)
Spec == Init /\ [][Next]_vars /\ \A p \in Peers : WF_vars(CallStep(p))
        /\ WF_vars(AcceptFails)

-----------------------------------------------------------------------------
(* PROPERTIES                                                              *)

(* The retry budget: a call that has a coordinator client only falls back  *)
(* to the cache (or to "") after maxRetries failed ListPeers calls, or     *)
(* after the directory said the peer does not exist.                       *)
FallbackOnlyAfterBudget ==
  \A p \in Peers :
    (HasClient /\ call[p].pc \in {"fallback", "done"}
       /\ call[p].listed = NoIP)
      => (call[p].fails = MaxRetries \/ call[p].notFound)

(* Every goroutine on the inbound path returns: each ensurePeerRoute call, *)
(* whose loop is bounded by maxRetries and exits on the first answer, and  *)
(* HandleIncomingSSH once the node's ctx is cancelled, even when the       *)
(* listener failed first and the loop has been going round on its errors.  *)
CallsTerminate ==
  /\ \A p \in Peers : call[p].pc = "accepted" ~> call[p].pc = "done"
  /\ ctxDone ~> ~accepting

(* Missing-peer is not retried and the cache is for an unreachable         *)
(* directory: a peer the directory says does not exist gets no route.      *)
(* ensurePeerRoute consults the cache after a not-found answer as well and *)
(* routes the peer's old mesh IP, which the directory may have given to    *)
(* another peer.                                                           *)
NoRouteAfterNotFound ==
  \A p \in Peers : (call[p].pc = "done" /\ call[p].notFound) => call[p].ret = NoIP

=============================================================================
