---------------------------- MODULE PeerDaemon -----------------------------
(***************************************************************************)
(* The peer daemon of `tunnelmesh join` (src/unnamed/part_003): runJoin,   *)
(* heartbeatLoop and syncDNS, for several peers against one coordinator.   *)
(* Each daemon has two threads: the main goroutine of runJoin (register,   *)
(* first DNS sync, wait for SIGINT/SIGTERM, deregister, stop the resolver, *)
(* cancel the context) and the heartbeat goroutine (every 30 s a           *)
(* heartbeat, and after a successful one a DNS sync).                      *)
(*                                                                         *)
(* The coordinator's directory is not in the repository and is modelled    *)
(* from the description: an in-memory map name -> mesh IP, lost when the   *)
(* coordinator restarts; register gives a new name a free mesh IP;         *)
(* heartbeat answers 404 for an unknown name; deregister frees the IP; the *)
(* DNS view lists every registered name with its IP.  Every HTTP call is   *)
(* one atomic step at the coordinator and may instead fail in transit.     *)
(***************************************************************************)
EXTENDS Naturals

CONSTANTS
  Peers,       \* the daemons, by cfg.Name
  IPs,         \* mesh IPs the directory may assign
  NoIP,        \* no record for a name
  EnabledSet,  \* daemons whose config file sets dns.enabled: true
  ListenSet,   \* daemons whose config file sets dns.listen
  MaxFaults,   \* bound on HTTP calls that fail in transit
  MaxRestarts, \* bound on coordinator restarts
  MaxLeaves    \* bound on `tunnelmesh leave` runs

ASSUME NoIP \notin IPs /\ EnabledSet \subseteq Peers /\ ListenSet \subseteq Peers
ASSUME MaxFaults \in Nat /\ MaxRestarts \in Nat /\ MaxLeaves \in Nat

VARIABLES
  dir,       \* the coordinator's directory: name -> mesh IP, NoIP if absent
  main,      \* where each daemon's runJoin is
  hb,        \* where each daemon's heartbeat goroutine is
  cancelled, \* each daemon's ctx has been cancelled
  records,   \* each daemon's resolver records: hostname -> mesh IP
  faults,    \* HTTP calls failed so far
  restarts,  \* coordinator restarts so far
  leaves     \* `tunnelmesh leave` runs so far

vars == <<dir, main, hb, cancelled, records, faults, restarts, leaves>>

MainStates == {"register", "initialSync", "waiting", "shutdown", "exited", "failed"}
HbStates == {"off", "ticking", "syncing", "stopped"}
Records == [Peers -> IPs \cup {NoIP}]

TypeOK ==
  /\ dir \in Records
  /\ main \in [Peers -> MainStates]
  /\ hb \in [Peers -> HbStates]
  /\ cancelled \in [Peers -> BOOLEAN]
  /\ records \in [Peers -> Records]
  /\ faults \in 0..MaxFaults
  /\ restarts \in 0..MaxRestarts
  /\ leaves \in 0..MaxLeaves

NoRecords == [p \in Peers |-> NoIP]

-----------------------------------------------------------------------------
(* Configuration (src/internal/config/config.go)                          *)

DefaultListen == "127.0.0.53:5353"

(* The dns section of d's config file, as YAML decodes it: an absent      *)
(* enabled is false, an absent listen is empty.                            *)
ConfigFile(d) ==
  [enabled |-> d \in EnabledSet,
   listen |-> IF d \in ListenSet THEN "other" ELSE ""]

(* LoadPeerConfig's defaults for the dns section: an empty listen becomes  *)
(* DefaultListen, and a config that is not enabled but listens on          *)
(* DefaultListen is enabled ("DNS enabled by default").  The other         *)
(* defaults (SSH port, TUN name and MTU, cache TTL) play no part here.     *)
LoadPeerConfig(f) ==
  LET listen == IF f.listen = "" THEN DefaultListen ELSE f.listen
  IN  [enabled |-> f.enabled \/ listen = DefaultListen, listen |-> listen]

(* runJoin's `if cfg.DNS.Enabled`: whether d runs a resolver.             *)
DNSEnabled(d) == LoadPeerConfig(ConfigFile(d)).enabled

(* Every daemon has loaded its configuration and generated its keys; the   *)
(* coordinator has just started.                                           *)
Init ==
  /\ dir = NoRecords
  /\ main = [d \in Peers |-> "register"]
  /\ hb = [d \in Peers |-> "off"]
  /\ cancelled = [d \in Peers |-> FALSE]
  /\ records = [d \in Peers |-> NoRecords]
  /\ faults = 0
  /\ restarts = 0
  /\ leaves = 0

(* An HTTP call fails in transit (connection refused, 5xx).                *)
Fault == faults < MaxFaults /\ faults' = faults + 1

-----------------------------------------------------------------------------
(* Directory (coordinator), modelled from the description                  *)

(* register(name): an existing name keeps its mesh IP; a new one gets a    *)
(* free one.  The daemon only registers once, so the IP is always new.     *)
DirRegister(d) ==
  \E ip \in {i \in IPs : \A p \in Peers : dir[p] /= i} :
    dir' = [dir EXCEPT ![d] = IF dir[d] = NoIP THEN ip ELSE dir[d]]

(* deregister(name): the record and its mesh IP are released.              *)
DirDeregister(d) == dir' = [dir EXCEPT ![d] = NoIP]

(* The coordinator process restarts: the in-memory directory is empty.     *)
CoordinatorRestart ==
  /\ restarts < MaxRestarts
  /\ restarts' = restarts + 1
  /\ dir' = NoRecords
  /\ UNCHANGED <<main, hb, cancelled, records, faults, leaves>>

(* runLeave, `tunnelmesh leave` run by hand for the name d: one Deregister *)
(* while the daemon may still be running; its error is returned.           *)
Leave(d) ==
  /\ leaves < MaxLeaves
  /\ leaves' = leaves + 1
  /\ \/ DirDeregister(d) /\ UNCHANGED faults
     \/ Fault /\ UNCHANGED dir
  /\ UNCHANGED <<main, hb, cancelled, records, restarts>>

-----------------------------------------------------------------------------
(* runJoin(d)                                                              *)

(* client.Register succeeds; with DNS enabled the resolver is created and  *)
(* synced first, else the heartbeat goroutine starts at once.  The IP pool *)
(* may be exhausted, in which case register answers an error.              *)
Register(d) ==
  /\ main[d] = "register"
  /\ IF \E i \in IPs : \A p \in Peers : dir[p] /= i
     THEN /\ DirRegister(d)
          /\ main' = [main EXCEPT ![d] = IF DNSEnabled(d) THEN "initialSync" ELSE "waiting"]
          /\ hb' = [hb EXCEPT ![d] = IF DNSEnabled(d) THEN "off" ELSE "ticking"]
     ELSE /\ main' = [main EXCEPT ![d] = "failed"]
          /\ UNCHANGED <<dir, hb>>
  /\ UNCHANGED <<cancelled, records, faults, restarts, leaves>>

(* runJoin returns an error before joining and the process exits: the     *)
(* configuration cannot be loaded or lacks server, token or name, the keys *)
(* cannot be loaded, or client.Register fails, which is not retried.       *)
RegisterFails(d) ==
  /\ main[d] = "register"
  /\ Fault
  /\ main' = [main EXCEPT ![d] = "failed"]
  /\ UNCHANGED <<dir, hb, cancelled, records, restarts, leaves>>

(* Variant that swaps the key and the value of recordMap.                  *)
SyncDNSSwapped(d) ==
  \/ records' = [records EXCEPT ![d] =
                   [i \in IPs |-> IF \E p \in Peers : dir[p] = i
                                  THEN CHOOSE p \in Peers : dir[p] = i
                                  ELSE NoIP]]
     /\ UNCHANGED faults
  \/ Fault /\ UNCHANGED records

(* syncDNS: GetDNSRecords, then resolver.UpdateRecords(recordMap), which   *)
(* replaces the resolver's records; on an error the records are kept.      *)
SyncDNS(d) ==
  \/ records' = [records EXCEPT ![d] = dir] /\ UNCHANGED faults
  \/ Fault /\ UNCHANGED records

(* The first syncDNS (its error is only logged), then the resolver is      *)
(* served and the heartbeat goroutine started.                             *)
InitialSync(d) ==
  /\ main[d] = "initialSync"
  /\ SyncDNS(d)
  /\ main' = [main EXCEPT ![d] = "waiting"]
  /\ hb' = [hb EXCEPT ![d] = "ticking"]
  /\ UNCHANGED <<dir, cancelled, restarts, leaves>>

(* SIGINT or SIGTERM arrives.                                              *)
Signal(d) ==
  /\ main[d] = "waiting"
  /\ main' = [main EXCEPT ![d] = "shutdown"]
  /\ UNCHANGED <<dir, hb, cancelled, records, faults, restarts, leaves>>

(* client.Deregister (its error is only logged), resolver.Shutdown, and    *)
(* runJoin returns, running its deferred cancel().                         *)
Shutdown(d) ==
  /\ main[d] = "shutdown"
  /\ \/ DirDeregister(d) /\ UNCHANGED faults
     \/ Fault /\ UNCHANGED dir
  /\ main' = [main EXCEPT ![d] = "exited"]
  /\ cancelled' = [cancelled EXCEPT ![d] = TRUE]
  /\ UNCHANGED <<hb, records, restarts, leaves>>

-----------------------------------------------------------------------------
(* heartbeatLoop(d)                                                        *)

(* Variant of Heartbeat that never goes on to the DNS sync.               *)
HeartbeatSkipSync(d) ==
  /\ hb[d] = "ticking"
  /\ \/ dir[d] /= NoIP /\ UNCHANGED <<hb, faults>>
     \/ dir[d] = NoIP /\ UNCHANGED <<hb, faults>>
     \/ Fault /\ UNCHANGED hb
  /\ UNCHANGED <<dir, main, cancelled, records, restarts, leaves>>

(* The ticker fires: client.Heartbeat.  The coordinator answers 404 for an *)
(* unknown name; on any error the loop continues without a DNS sync.       *)
Heartbeat(d) ==
  /\ hb[d] = "ticking"
  /\ \/ dir[d] /= NoIP
        /\ hb' = [hb EXCEPT ![d] = IF DNSEnabled(d) THEN "syncing" ELSE "ticking"]
        /\ UNCHANGED faults
     \/ dir[d] = NoIP /\ UNCHANGED <<hb, faults>>
     \/ Fault /\ UNCHANGED hb
  /\ UNCHANGED <<dir, main, cancelled, records, restarts, leaves>>

(* After a successful heartbeat: syncDNS, its error only logged.           *)
HeartbeatSync(d) ==
  /\ hb[d] = "syncing"
  /\ SyncDNS(d)
  /\ hb' = [hb EXCEPT ![d] = "ticking"]
  /\ UNCHANGED <<dir, main, cancelled, restarts, leaves>>

(* ctx.Done() is selected: the goroutine returns.                          *)
HeartbeatStop(d) ==
  /\ hb[d] = "ticking"
  /\ cancelled[d]
  /\ hb' = [hb EXCEPT ![d] = "stopped"]
  /\ UNCHANGED <<dir, main, cancelled, records, faults, restarts, leaves>>

-----------------------------------------------------------------------------
(* Every daemon has ended.                                                 *)
AllEnded ==
  /\ \A d \in Peers : main[d] \in {"exited", "failed"} /\ hb[d] \in {"off", "stopped"}
  /\ UNCHANGED vars

(* The steps a daemon's goroutines take by themselves.                     *)
MainStep(d) == Register(d) \/ InitialSync(d) \/ Shutdown(d)
HbStep(d) == Heartbeat(d) \/ HeartbeatSync(d) \/ HeartbeatStop(d)

Next ==
  \/ \E d \in Peers : MainStep(d) \/ RegisterFails(d) \/ Signal(d) \/ HbStep(d)
  \/ \E d \in Peers : Leave(d)
  \/ CoordinatorRestart
  \/ AllEnded

(* Goroutines are scheduled and the ticker keeps firing; signals,          *)
(* failures in transit and restarts come from outside and are not fair.    *)
Spec == Init /\ [][Next]_vars
        /\ \A d \in Peers : WF_vars(MainStep(d)) /\ WF_vars(HbStep(d))

-----------------------------------------------------------------------------
(* PROPERTIES                                                              *)

(* Once the directory stops changing, the resolver of every running       *)
(* daemon with DNS enabled that the directory knows comes to hold exactly  *)
(* the directory's DNS view: each ticker firing heartbeats and then        *)
(* re-syncs DNS.  (A daemon the directory has lost, after a restart or a   *)
(* leave, is Rejoined's case.)                                             *)
ResolverConverges ==
  \A d \in Peers :
    DNSEnabled(d) =>
      <>[](main[d] = "waiting" /\ dir[d] /= NoIP => records[d] = dir)

(* The directory is not persisted and is rebuilt from peer                 *)
(* re-registration: a running daemon that the directory no longer knows    *)
(* registers again.  heartbeatLoop only logs the 404 and continues.        *)
Rejoined ==
  \A d \in Peers :
    (main[d] = "waiting" /\ dir[d] = NoIP)
      ~> (dir[d] /= NoIP \/ main[d] /= "waiting")

=============================================================================
