------------------------------ MODULE RelayHub ------------------------------
(***************************************************************************)
(* The relay server the persistent-relay tests run against                 *)
(* (mockRelayServer, src/internal/metrics/handler.go): one handler         *)
(* goroutine per websocket connection, a map from peer name to connection  *)
(* guarded by mu, and a buffered channel `received` that every routed      *)
(* frame is copied to.  Its clients are the PersistentRelay of the peer    *)
(* (not in the repository; modelled from the description and the tests):  *)
(* they dial with a bearer token, send SendPacket and heartbeat frames,    *)
(* read RecvPacket frames and close.                                        *)
(*                                                                         *)
(* A frame is abstracted to its type, its target and a sequence number;   *)
(* payloads are left out.  A websocket connection is a model value of      *)
(* Conns, used at most once.                                               *)
(***************************************************************************)
EXTENDS Naturals, Sequences, FiniteSets, TLC

CONSTANTS
  Peers,     \* peer names, taken from the bearer token
  Conns,     \* websocket connections that may be dialled
  NoConn,    \* no entry in m.connections
  NoPeer,    \* a connection not yet dialled
  Cap,       \* capacity of m.received (10 in the code)
  MaxFrames  \* bound on the frames the clients send

ASSUME NoConn \notin Conns /\ NoPeer \notin Peers
ASSUME Cap \in Nat \ {0} /\ MaxFrames \in Nat

VARIABLES
  conn,        \* per connection: its peer, the client's and the handler's state
  out,         \* per connection: frames written by the client, not yet read
  in,          \* per connection: RecvPacket frames written to it by the server
  connections, \* m.connections: peer name -> connection
  received,    \* m.received: the buffered channel of routed frames
  sent         \* frames sent so far (the next frame's sequence number)

vars == <<conn, out, in, connections, received, sent>>

Frame == [type : {"send"}, target : Peers, seq : 1..MaxFrames]
         \cup [type : {"other"}]
Handlers == {"none", "rejected", "register", "read", "enqueue", "lookup", "write", "done"}
NoFrame == [type |-> "other"]

TypeOK ==
  /\ conn \in [Conns -> [peer : Peers \cup {NoPeer},
                         client : {"unused", "open", "closed"},
                         handler : Handlers,
                         frame : Frame,
                         target : Conns \cup {NoConn}]]
  /\ out \in [Conns -> Seq(Frame)]
  /\ in \in [Conns -> Seq([src : Peers, seq : 1..MaxFrames])]
  /\ connections \in [Peers -> Conns \cup {NoConn}]
  /\ received \in Seq([source : Peers, target : Peers, seq : 1..MaxFrames])
  /\ Len(received) <= Cap
  /\ sent \in 0..MaxFrames

(* newMockRelayServer: an empty map and an empty channel.                  *)
Init ==
  /\ conn = [c \in Conns |-> [peer |-> NoPeer, client |-> "unused",
                              handler |-> "none", frame |-> NoFrame,
                              target |-> NoConn]]
  /\ out = [c \in Conns |-> <<>>]
  /\ in = [c \in Conns |-> <<>>]
  /\ connections = [p \in Peers |-> NoConn]
  /\ received = <<>>
  /\ sent = 0

(* The handler goroutine of c moves on to `to`.                            *)
Goto(c, to) == conn' = [conn EXCEPT ![c].handler = to]

-----------------------------------------------------------------------------
(* handlePersistentRelay                                                   *)

(* The client p dials c; with no "Bearer " header the handler answers 401; *)
(* otherwise testUpgrader.Upgrade completes the handshake, and the client  *)
(* sees an open connection before the handler has registered it.           *)
Dial(c, p, bearer) ==
  /\ conn[c].client = "unused"
  /\ conn' = [conn EXCEPT ![c].peer = p,
                          ![c].client = IF bearer THEN "open" ELSE "closed",
                          ![c].handler = IF bearer THEN "register" ELSE "rejected"]
  /\ UNCHANGED <<out, in, connections, received, sent>>

(* Under mu: connections[peerName] = conn, replacing any earlier           *)
(* connection of the peer without closing it; then the read loop starts.   *)
Register(c) ==
  /\ conn[c].handler = "register"
  /\ connections' = [connections EXCEPT ![conn[c].peer] = c]
  /\ Goto(c, "read")
  /\ UNCHANGED <<out, in, received, sent>>

(* conn.ReadMessage returns a frame.  A frame that is not SendPacket (or   *)
(* too short to be one) is skipped; a SendPacket frame is routed.          *)
ReadFrame(c) ==
  /\ conn[c].handler = "read"
  /\ out[c] /= <<>>
  /\ LET f == Head(out[c]) IN
       conn' = [conn EXCEPT ![c].handler = IF f.type = "send" THEN "enqueue"
                                                              ELSE "read",
                            ![c].frame = f]
  /\ out' = [out EXCEPT ![c] = Tail(@)]
  /\ UNCHANGED <<in, connections, received, sent>>

(* conn.ReadMessage fails once the client has closed and every frame it   *)
(* wrote has been read.  The deferred function deletes connections[peerName]*)
(* under mu, whichever connection it holds now, and closes conn.          *)
ReadError(c) ==
  /\ conn[c].handler = "read"
  /\ out[c] = <<>>
  /\ conn[c].client = "closed"
  /\ Goto(c, "done")
  /\ connections' = [connections EXCEPT ![conn[c].peer] = NoConn]
  /\ UNCHANGED <<out, in, received, sent>>

Enqueue(c) ==
  /\ conn[c].handler = "enqueue"
  /\ Len(received) < Cap
  /\ received' = Append(received, [source |-> conn[c].peer,
                                   target |-> conn[c].frame.target,
                                   seq |-> conn[c].frame.seq])
  /\ Goto(c, "lookup")
  /\ UNCHANGED <<out, in, connections, sent>>

(* Under mu: targetConn, ok := m.connections[targetPeer]; the lock is      *)
(* released before the write.  No target: the frame is dropped.           *)
Lookup(c) ==
  /\ conn[c].handler = "lookup"
  /\ LET t == connections[conn[c].frame.target] IN
       conn' = [conn EXCEPT ![c].handler = IF t = NoConn THEN "read" ELSE "write",
                            ![c].target = t]
  /\ UNCHANGED <<out, in, connections, received, sent>>

(* targetConn.WriteMessage(RecvPacket | peerName | data); the error of a   *)
(* write to a connection the server has closed is ignored.                 *)
WriteRecv(c) ==
  /\ conn[c].handler = "write"
  /\ LET t == conn[c].target IN
       in' = IF conn[t].handler /= "done"
             THEN [in EXCEPT ![t] = Append(@, [src |-> conn[c].peer,
                                                seq |-> conn[c].frame.seq])]
             ELSE in
  /\ Goto(c, "read")
  /\ UNCHANGED <<out, connections, received, sent>>

-----------------------------------------------------------------------------
(* The clients and the test                                                *)

(* SendTo(target, data) on a connected client: a SendPacket frame.         *)
SendTo(c, t) ==
  /\ conn[c].client = "open"
  /\ sent < MaxFrames
  /\ sent' = sent + 1
  /\ out' = [out EXCEPT ![c] = Append(@, [type |-> "send", target |-> t,
                                          seq |-> sent + 1])]
  /\ UNCHANGED <<conn, in, connections, received>>

(* A heartbeat frame, which the server does not route.                     *)
SendHeartbeat(c) ==
  /\ conn[c].client = "open"
  /\ sent < MaxFrames
  /\ sent' = sent + 1
  /\ out' = [out EXCEPT ![c] = Append(@, NoFrame)]
  /\ UNCHANGED <<conn, in, connections, received>>

(* Close(): the client closes its websocket.                               *)
Close(c) ==
  /\ conn[c].client = "open"
  /\ conn' = [conn EXCEPT ![c].client = "closed"]
  /\ UNCHANGED <<out, in, connections, received, sent>>

(* The test reads one relayMessage from server.received.                   *)
TestReceive ==
  /\ received /= <<>>
  /\ received' = Tail(received)
  /\ UNCHANGED <<conn, out, in, connections, sent>>

Handler(c) ==
  \/ Register(c) \/ ReadFrame(c) \/ ReadError(c) \/ Enqueue(c) \/ Lookup(c) \/ WriteRecv(c)

(* Every connection has been dialled and its handler has returned.        *)
Finished ==
  /\ \A c \in Conns : conn[c].handler \in {"rejected", "done"}
  /\ UNCHANGED vars

Next ==
  \/ Finished
  \/ \E c \in Conns, p \in Peers, b \in BOOLEAN : Dial(c, p, b)
  \/ \E c \in Conns, t \in Peers : SendTo(c, t)
  \/ \E c \in Conns : SendHeartbeat(c) \/ Close(c) \/ Handler(c)
  \/ TestReceive

Spec == Init /\ [][Next]_vars

(* Peers and connections are interchangeable model values: no action       *)
(* compares or orders them.                                                *)
Symmetry == Permutations(Peers) \cup Permutations(Conns)

=============================================================================
