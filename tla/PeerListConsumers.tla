------------------------- MODULE PeerListConsumers -------------------------
(***************************************************************************)
(* The two services that poll the coordinator's peer list: the Prometheus  *)
(* service-discovery generator (main and generateTargets, the second       *)
(* program in src/unnamed/part_003) and the benchmarker                    *)
(* (src/cmd/tunnelmesh-benchmarker/main.go).  Both run next to a           *)
(* directory whose peers come, go, and go on- and offline.                 *)
(*                                                                         *)
(* The SD generator writes its targets to a temporary file and renames it  *)
(* over the output file that Prometheus reads; its container may be killed *)
(* at any point and restarted.  The benchmarker benchmarks up to two       *)
(* randomly chosen peers per tick and saves the successful results.  Its   *)
(* ticker channel holds one tick; further ticks are dropped while a round  *)
(* runs.  Time itself is left out: sleeps and intervals are steps.         *)
(*                                                                         *)
(* GET /api/v1/peers answers a JSON array or, in the other accepted shape, *)
(* an object {peers: [...]}.  The shape is fixed for a coordinator         *)
(* (Shapes); the SD generator decodes only the object, the benchmarker     *)
(* only the array.  A file's contents are abstracted to the set of peers   *)
(* it lists.                                                               *)
(***************************************************************************)
EXTENDS Naturals, FiniteSets, Sequences, Functions

CONSTANTS
  Peers,         \* peer names the directory may hold
  Self,          \* the mesh peer the benchmarker runs on
  LocalPeerEnv,  \* the LOCAL_PEER environment variable, NoEnv when unset
  NoEnv,         \* an unset (or empty) environment variable
  DefaultLocalPeer, \* configFromEnv's default LocalPeer, "benchmarker"
  Shapes,        \* shapes the coordinator may answer the peer list in
  MaxDirChanges, \* bound on directory changes
  MaxFaults,     \* bound on failed HTTP requests and failed benchmarks
  MaxCrashes,    \* bound on SD generator crashes
  NoFile,        \* the file does not exist
  Partial        \* the file holds a partly written list

ASSUME Self \in Peers /\ Shapes \subseteq {"array", "object"}
ASSUME MaxDirChanges \in Nat /\ MaxFaults \in Nat /\ MaxCrashes \in Nat

VARIABLES
  dir,        \* each peer's state in the directory
  dirChanges, \* directory changes so far
  shape,      \* the shape this coordinator answers in
  faults,     \* failures so far
  sdpc,       \* where the SD generator is
  sdTargets,  \* the targets generateTargets is writing
  tmpFile,    \* contents of outputFile + ".tmp"
  outFile,    \* contents of outputFile
  crashes,    \* SD generator crashes so far
  bpc,        \* where the benchmarker is
  tick,       \* the benchmarker's ticker channel holds a tick
  selected,   \* peers still to benchmark in this round
  benched     \* every peer the benchmarker has benchmarked (history)

dirVars == <<dir, dirChanges, shape, faults>>
sdVars == <<sdpc, sdTargets, tmpFile, outFile, crashes>>
bVars == <<bpc, tick, selected, benched>>
vars == <<dirVars, sdVars, bVars>>

(* configFromEnv: cfg.LocalPeer is "benchmarker" unless LOCAL_PEER is set  *)
(* to a non-empty name.                                                    *)
LocalPeer == IF LocalPeerEnv = NoEnv THEN DefaultLocalPeer ELSE LocalPeerEnv

PeerStates == {"absent", "online", "offline"}
FileContents == SUBSET Peers \cup {NoFile, Partial}

TypeOK ==
  /\ dir \in [Peers -> PeerStates]
  /\ dirChanges \in 0..MaxDirChanges
  /\ shape \in Shapes
  /\ faults \in 0..MaxFaults
  /\ sdpc \in {"generate", "writeTmp", "tmpWritten", "idle"}
  /\ sdTargets \in SUBSET Peers
  /\ tmpFile \in FileContents /\ outFile \in FileContents
  /\ crashes \in 0..MaxCrashes
  /\ bpc \in {"sleep", "fetch", "round", "wait"}
  /\ tick \in BOOLEAN
  /\ selected \in Seq(Peers \ {LocalPeer})
  /\ benched \subseteq Peers

(* Both services have just started; the directory holds some peers.        *)
Init ==
  /\ dir \in [Peers -> PeerStates]
  /\ dirChanges = 0
  /\ shape \in Shapes
  /\ faults = 0
  /\ sdpc = "generate"
  /\ sdTargets = {}
  /\ tmpFile = NoFile /\ outFile = NoFile
  /\ crashes = 0
  /\ bpc = "sleep"
  /\ tick = FALSE
  /\ selected = <<>>
  /\ benched = {}

(* A request or a benchmark fails (connection error, timeout, non-200).    *)
Fault == faults < MaxFaults /\ faults' = faults + 1

(* Peers register, deregister, heartbeat or miss their heartbeats.         *)
DirChange(p, s) ==
  /\ dirChanges < MaxDirChanges
  /\ dir[p] /= s
  /\ dir' = [dir EXCEPT ![p] = s]
  /\ dirChanges' = dirChanges + 1
  /\ UNCHANGED <<shape, faults, sdVars, bVars>>

-----------------------------------------------------------------------------
(* SD generator                                                            *)

(* generateTargets up to the write: GET /api/v1/peers, decode it as        *)
(* PeersResponse, and keep the online peers that have a mesh IP (every     *)
(* registered peer has one).  A request or decode error ends the call.     *)
(* Variant of SDGenerate that keeps every registered peer, online or not.   *)
SDGenerateAll ==
  /\ sdpc = "generate"
  /\ \/ /\ shape = "object"
        /\ sdTargets' = {p \in Peers : dir[p] /= "absent"}
        /\ sdpc' = "writeTmp"
        /\ UNCHANGED faults
     \/ /\ shape = "array"
        /\ sdpc' = "idle"
        /\ UNCHANGED <<faults, sdTargets>>
     \/ /\ Fault
        /\ sdpc' = "idle"
        /\ UNCHANGED sdTargets
  /\ UNCHANGED <<dir, dirChanges, shape, tmpFile, outFile, crashes, bVars>>

SDGenerate ==
  /\ sdpc = "generate"
  /\ \/ /\ shape = "object"
        /\ sdTargets' = {p \in Peers : dir[p] = "online"}
        /\ sdpc' = "writeTmp"
        /\ UNCHANGED faults
     \/ /\ shape = "array"
        /\ sdpc' = "idle"
        /\ UNCHANGED <<faults, sdTargets>>
     \/ /\ Fault
        /\ sdpc' = "idle"
        /\ UNCHANGED sdTargets
  /\ UNCHANGED <<dir, dirChanges, shape, tmpFile, outFile, crashes, bVars>>

(* Variant of SDWriteTmp that writes the output file in place.             *)
SDWriteInPlace ==
  /\ sdpc = "writeTmp"
  /\ outFile' = Partial
  /\ sdpc' = "tmpWritten"
  /\ UNCHANGED <<dirVars, sdTargets, tmpFile, crashes, bVars>>

(* os.WriteFile(tmpFile): the file is truncated and written; until the     *)
(* write completes it holds part of the list.                              *)
SDWriteTmp ==
  /\ sdpc = "writeTmp"
  /\ tmpFile' = Partial
  /\ sdpc' = "tmpWritten"
  /\ UNCHANGED <<dirVars, sdTargets, outFile, crashes, bVars>>

(* The write completes and os.Rename(tmpFile, outputFile) replaces the     *)
(* output file in one step; or the write or the rename fails and the call  *)
(* returns its error, the output file untouched.                           *)
SDRename ==
  /\ sdpc = "tmpWritten"
  /\ \/ /\ outFile' = sdTargets
        /\ tmpFile' = NoFile
        /\ UNCHANGED faults
     \/ Fault /\ UNCHANGED <<outFile, tmpFile>>
  /\ sdpc' = "idle"
  /\ UNCHANGED <<dir, dirChanges, shape, sdTargets, crashes, bVars>>

(* for range ticker.C: the next poll.                                      *)
SDTick ==
  /\ sdpc = "idle"
  /\ sdpc' = "generate"
  /\ UNCHANGED <<dirVars, sdTargets, tmpFile, outFile, crashes, bVars>>

(* The container is killed wherever the generator is, and main runs again  *)
(* from the start, which generates at once.  Files stay as they are.       *)
SDCrash ==
  /\ crashes < MaxCrashes
  /\ crashes' = crashes + 1
  /\ sdpc' = "generate"
  /\ UNCHANGED <<dirVars, sdTargets, tmpFile, outFile, bVars>>

-----------------------------------------------------------------------------
(* Benchmarker                                                             *)

(* Variant of FetchedPeers that keeps the benchmarker's own entry.         *)
FetchedPeersWithSelf == {p \in Peers : dir[p] /= "absent"}

(* The peers fetchPeers returns: the decoded array without LocalPeer; the  *)
(* online flag is not looked at.                                           *)
FetchedPeers == {p \in Peers : dir[p] /= "absent" /\ p /= LocalPeer}

(* selectRandomPeers(peers, n): all of them in the order given when there  *)
(* are at most n, else the first n of a shuffle: in both cases a sequence  *)
(* of distinct peers of length min(|peers|, n).                            *)
SelectRandomPeers(S, n) ==
  LET k == IF Cardinality(S) <= n THEN Cardinality(S) ELSE n
  IN  {f \in [1..k -> S] : IsInjective(f)}

(* main: the 30 s settling sleep ends and the first round starts.          *)
BStart ==
  /\ bpc = "sleep"
  /\ bpc' = "fetch"
  /\ UNCHANGED <<dirVars, sdVars, tick, selected, benched>>

(* runBenchmarks: fetchPeers; on an error, or with no peer left, the round *)
(* ends; else up to two peers are selected.                                *)
BFetch ==
  /\ bpc = "fetch"
  /\ \/ /\ shape = "array"
        /\ IF FetchedPeers = {}
           THEN bpc' = "wait" /\ UNCHANGED selected
           ELSE \E s \in SelectRandomPeers(FetchedPeers, 2) :
                  selected' = s /\ bpc' = "round"
        /\ UNCHANGED faults
     \/ /\ shape = "object"
        /\ bpc' = "wait"
        /\ UNCHANGED <<faults, selected>>
     \/ /\ Fault
        /\ bpc' = "wait"
        /\ UNCHANGED selected
  /\ UNCHANGED <<dir, dirChanges, shape, sdVars, tick, benched>>

(* runBenchmark for the next selected peer: an upload through Client.Run   *)
(* with a 120 s timeout; an offline peer does not answer.  saveResult      *)
(* writes the result of a successful run.                                  *)
BRun ==
  /\ bpc = "round"
  /\ selected /= <<>>
  /\ benched' = benched \cup {Head(selected)}
  /\ selected' = Tail(selected)
  /\ \/ dir[Head(selected)] = "online" /\ UNCHANGED faults
     \/ Fault
     \/ dir[Head(selected)] /= "online" /\ UNCHANGED faults
  /\ UNCHANGED <<dir, dirChanges, shape, sdVars, bpc, tick>>

(* The round is over; main goes back to the ticker.                        *)
BRoundEnd ==
  /\ bpc = "round"
  /\ selected = <<>>
  /\ bpc' = "wait"
  /\ UNCHANGED <<dirVars, sdVars, tick, selected, benched>>

(* The ticker fires; when its one-slot channel is full the tick is lost.   *)
BTick ==
  /\ ~tick
  /\ tick' = TRUE
  /\ UNCHANGED <<dirVars, sdVars, bpc, selected, benched>>

(* for range ticker.C receives a tick: the next round.                     *)
BNext ==
  /\ bpc = "wait"
  /\ tick
  /\ tick' = FALSE
  /\ bpc' = "fetch"
  /\ UNCHANGED <<dirVars, sdVars, selected, benched>>

-----------------------------------------------------------------------------
Next ==
  \/ \E p \in Peers, s \in PeerStates : DirChange(p, s)
  \/ SDGenerate \/ SDWriteTmp \/ SDRename \/ SDTick \/ SDCrash
  \/ BStart \/ BFetch \/ BRun \/ BRoundEnd \/ BTick \/ BNext

(* The generator's own steps.                                             *)
SDStep == SDGenerate \/ SDWriteTmp \/ SDRename \/ SDTick

(* The SD generator's goroutine runs and its ticker keeps firing;          *)
(* directory changes, failures and crashes come from outside.  The         *)
(* benchmarker is left without fairness: no property is about its          *)
(* progress.                                                               *)
Spec == Init /\ [][Next]_vars /\ WF_vars(SDStep)

-----------------------------------------------------------------------------
(* PROPERTIES                                                              *)

(* The SD generator implements its contract with Prometheus (TargetsFile): *)
(* the output file only ever changes to the whole list of the latest poll, *)
(* and a poll takes the peers online at that moment, whenever the          *)
(* container is killed and whatever write or rename fails.  sdTargets is   *)
(* the snapshot; the temporary file, the generator's position and its      *)
(* failures have no counterpart.                                           *)
Contract == INSTANCE TargetsFile WITH polled <- sdTargets, file <- outFile

TargetsFileRefinement == Contract!Spec

(* Once the directory stops changing and failures and crashes stop, the    *)
(* output file comes to list exactly the online peers, whatever state a    *)
(* crash or a failed write or rename left it in: every tick generates the  *)
(* list again and replaces the file.  (For a coordinator answering in the  *)
(* array shape the generator never gets past its decode.)                  *)
TargetsCatchUp ==
  shape = "object" => <>[](outFile = {p \in Peers : dir[p] = "online"})

=============================================================================
