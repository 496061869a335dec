--------------------------- MODULE AdminDNSCache ---------------------------
(***************************************************************************)
(* The coordinator's WireGuard client endpoints (src/internal/coord/       *)
(* admin.go): handleWGClientCreate and the DELETE branch of                *)
(* handleWGClientByID, and what they do to the client store and to the     *)
(* DNS cache.  net/http runs each request on its own goroutine, so several *)
(* handlers interleave.  The store (wireguard.Store) is not in the         *)
(* repository: each of its calls is modelled as one atomic step that       *)
(* assigns a fresh ID and a free mesh IP and, when UniqueNames holds,      *)
(* refuses a name already in use.  The DNS name of a client is a function  *)
(* of its name, so names stand for DNS names.                              *)
(***************************************************************************)
EXTENDS Naturals, FiniteSets

CONSTANTS
  Handlers,    \* request goroutines that may run at the same time
  Names,       \* CreateClientRequest.Name values (valid names)
  Ids,         \* client IDs the store may hand out
  IPs,         \* mesh IPs the store may hand out
  NoIP,        \* no DNS record for a name
  NoId,        \* no client
  UniqueNames, \* the store refuses a name that is in use
  MaxRequests  \* bound on the number of requests served

ASSUME NoIP \notin IPs /\ NoId \notin Ids
ASSUME UniqueNames \in BOOLEAN /\ MaxRequests \in Nat

VARIABLES
  clients,   \* the store: the set of [id, name, ip] records
  usedIds,   \* IDs the store has handed out
  dnsCache,  \* s.dnsCache: DNS name -> mesh IP
  handler,   \* each goroutine's request in progress
  requests   \* requests served so far

vars == <<clients, usedIds, dnsCache, handler, requests>>

Client == [id : Ids, name : Names, ip : IPs]
NoClient == [id |-> NoId, name |-> CHOOSE n \in Names : TRUE, ip |-> NoIP]

TypeOK ==
  /\ clients \subseteq Client
  /\ usedIds \subseteq Ids
  /\ dnsCache \in [Names -> IPs \cup {NoIP}]
  /\ handler \in [Handlers -> [pc : {"idle", "createDNS", "deleteStore",
                                     "deleteDNS"},
                               client : Client \cup {NoClient}]]
  /\ requests \in 0..MaxRequests

Init ==
  /\ clients = {}
  /\ usedIds = {}
  /\ dnsCache = [n \in Names |-> NoIP]
  /\ handler = [h \in Handlers |-> [pc |-> "idle", client |-> NoClient]]
  /\ requests = 0

(* The goroutine h returns its response and is free for the next request.  *)
Respond(h) == handler' = [handler EXCEPT ![h] = [pc |-> "idle", client |-> NoClient]]

(* A new request reaches the idle goroutine h.                             *)
Accept(h) ==
  /\ handler[h].pc = "idle"
  /\ requests < MaxRequests
  /\ requests' = requests + 1

-----------------------------------------------------------------------------
(* POST /admin/api/wireguard/clients                                       *)

(* wgStore.CreateWithPrivateKey(req.Name): a fresh ID and a free mesh IP;  *)
(* an error (no free IP, or a name in use) answers 500.                    *)
CreateInStore(h, name) ==
  /\ Accept(h)
  /\ LET freeIPs == {ip \in IPs : \A c \in clients : c.ip /= ip}
         nameTaken == \E c \in clients : c.name = name
     IN  IF \/ freeIPs = {}
            \/ Ids \ usedIds = {}
            \/ UniqueNames /\ nameTaken
         THEN /\ Respond(h)
              /\ UNCHANGED <<clients, usedIds>>
         ELSE \E id \in Ids \ usedIds, ip \in freeIPs :
                LET c == [id |-> id, name |-> name, ip |-> ip] IN
                /\ clients' = clients \cup {c}
                /\ usedIds' = usedIds \cup {id}
                /\ handler' = [handler EXCEPT ![h] = [pc |-> "createDNS",
                                                      client |-> c]]
  /\ UNCHANGED dnsCache

(* Under peersMu: dnsCache[client.DNSName] = client.MeshIP; then the       *)
(* config and QR code are built and 201 is returned.                       *)
CreateDNS(h) ==
  /\ handler[h].pc = "createDNS"
  /\ dnsCache' = [dnsCache EXCEPT ![handler[h].client.name] = handler[h].client.ip]
  /\ Respond(h)
  /\ UNCHANGED <<clients, usedIds, requests>>

-----------------------------------------------------------------------------
(* GET /admin/api/wireguard/clients and GET, PATCH on .../clients/{id}     *)

(* wgStore.List(), sorted by mesh IP and encoded: the store and the cache  *)
(* are only read.                                                          *)
ListClients(h) ==
  /\ Accept(h)
  /\ Respond(h)
  /\ UNCHANGED <<clients, usedIds, dnsCache>>

(* wgStore.Get(id): the client, or 404; nothing changes.                   *)
GetClient(h) ==
  /\ Accept(h)
  /\ Respond(h)
  /\ UNCHANGED <<clients, usedIds, dnsCache>>

(* wgStore.Update(id, &req): 400 on a bad body, 404 for an unknown client, *)
(* else the client with the requested change.  UpdateClientRequest is not  *)
(* in the repository; the handler does not touch the DNS cache, so the     *)
(* model takes Update to keep the ID, name and mesh IP it tracks.          *)
UpdateClient(h) ==
  /\ Accept(h)
  /\ Respond(h)
  /\ UNCHANGED <<clients, usedIds, dnsCache>>

-----------------------------------------------------------------------------
(* DELETE /admin/api/wireguard/clients/{id}                                *)

(* wgStore.Get(id), to learn the DNS name to remove: 404 if absent.        *)
DeleteGet(h, id) ==
  /\ Accept(h)
  /\ IF \E c \in clients : c.id = id
     THEN handler' = [handler EXCEPT ![h] = [pc |-> "deleteStore",
                        client |-> CHOOSE c \in clients : c.id = id]]
     ELSE Respond(h)
  /\ UNCHANGED <<clients, usedIds, dnsCache>>

(* wgStore.Delete(id): 500 if the client is gone by now.                   *)
DeleteInStore(h) ==
  /\ handler[h].pc = "deleteStore"
  /\ IF handler[h].client \in clients
     THEN /\ clients' = clients \ {handler[h].client}
          /\ handler' = [handler EXCEPT ![h].pc = "deleteDNS"]
     ELSE /\ Respond(h)
          /\ UNCHANGED clients
  /\ UNCHANGED <<usedIds, dnsCache, requests>>

(* Under peersMu: delete(dnsCache, client.DNSName); 200.                   *)
DeleteDNS(h) ==
  /\ handler[h].pc = "deleteDNS"
  /\ dnsCache' = [dnsCache EXCEPT ![handler[h].client.name] = NoIP]
  /\ Respond(h)
  /\ UNCHANGED <<clients, usedIds, requests>>

-----------------------------------------------------------------------------
(* No request is left to serve and every goroutine is idle.                *)
Quiet == \A h \in Handlers : handler[h].pc = "idle"

Served ==
  /\ requests = MaxRequests
  /\ Quiet
  /\ UNCHANGED vars

Next ==
  \/ \E h \in Handlers, n \in Names : CreateInStore(h, n)
  \/ \E h \in Handlers : CreateDNS(h) \/ ListClients(h)
  \/ \E h \in Handlers : GetClient(h) \/ UpdateClient(h)
  \/ \E h \in Handlers, id \in Ids : DeleteGet(h, id)
  \/ \E h \in Handlers : DeleteInStore(h) \/ DeleteDNS(h)
  \/ Served

Spec == Init /\ [][Next]_vars

-----------------------------------------------------------------------------
(* PROPERTIES                                                              *)

(* Once every request has been answered, the DNS cache holds exactly the   *)
(* stored clients: each stored client's name resolves to its mesh IP and   *)
(* the name of no deleted client resolves at all.  Create and delete each  *)
(* update the store and then, separately, the cache under peersMu.         *)
DNSMatchesStore ==
  Quiet =>
    \A n \in Names :
      dnsCache[n] = IF \E c \in clients : c.name = n
                    THEN (CHOOSE c \in clients : c.name = n).ip
                    ELSE NoIP

=============================================================================
