---------------------------- MODULE ChaosWriter ----------------------------
(***************************************************************************)
(* The chaos writer of the benchmark engine (src/unnamed/part_006) and the *)
(* token bucket it paces writes with.  One caller issues Write(p) calls    *)
(* one after another, as runUpload does (src/internal/benchmark/client.go).*)
(*                                                                         *)
(* Time is discrete.  When a bandwidth limit is configured, one tick is    *)
(* 1/BandwidthBps seconds, so the bucket refills exactly one token per     *)
(* tick, its size (one second of tokens) is BandwidthBps, and a deficit of *)
(* d tokens is a wait of d ticks: the arithmetic of Take is exact.         *)
(* Latency and Jitter are given in ticks.  The random draws of the code    *)
(* (loss draw, jitter draw) are nondeterministic choices.                  *)
(***************************************************************************)
EXTENDS Integers

CONSTANTS
  BandwidthBps, \* ChaosConfig.BandwidthBps: bytes per second, 0 = unlimited
  LossPct,      \* ChaosConfig.PacketLossPercent, 0..100
  Latency,      \* ChaosConfig.Latency, in ticks
  Jitter,       \* ChaosConfig.Jitter, in ticks
  WriteSizes,   \* the lengths len(p) the caller passes to Write
  MaxWrites,    \* bound on the number of Write calls
  MaxTime       \* bound on the clock

ASSUME BandwidthBps \in Nat /\ LossPct \in 0..100
ASSUME Latency \in Nat /\ Jitter \in Nat
ASSUME WriteSizes \subseteq Nat \ {0} /\ MaxWrites \in Nat /\ MaxTime \in Nat

VARIABLES
  now,        \* the clock, in ticks
  tokens,     \* TokenBucket.tokens
  lastUpdate, \* TokenBucket.lastUpdate
  stats,      \* ChaosWriter.stats (ChaosWriterStats)
  pc,         \* where the caller's Write call is: idle, pacing or delaying
  len,        \* len(p) of the Write call in progress
  wake,       \* the time the current time.Sleep ends
  lastWait,   \* the duration returned by the most recent TokenBucket.Take
  writes      \* number of Write calls so far (bounded by MaxWrites)

vars == <<now, tokens, lastUpdate, stats, pc, len, wake, lastWait, writes>>

HasBucket == BandwidthBps > 0

TypeOK ==
  /\ now \in 0..MaxTime
  /\ tokens \in 0..BandwidthBps
  /\ lastUpdate \in 0..MaxTime
  /\ stats \in [TotalWrites : Nat, DroppedWrites : Nat,
                TotalBytes : Nat, ActualBytes : Nat]
  /\ pc \in {"idle", "pacing", "delaying"}
  /\ len \in WriteSizes \cup {0}
  /\ wake \in Nat
  /\ lastWait \in Nat
  /\ writes \in 0..MaxWrites

(* NewChaosWriterWithRng with NewTokenBucket: zero statistics and, when a  *)
(* bandwidth is configured, a full bucket stamped with the creation time.  *)
Init ==
  /\ now = 0
  /\ tokens = BandwidthBps
  /\ lastUpdate = 0
  /\ stats = [TotalWrites |-> 0, DroppedWrites |-> 0,
              TotalBytes |-> 0, ActualBytes |-> 0]
  /\ pc = "idle"
  /\ len = 0
  /\ wake = 0
  /\ lastWait = 0
  /\ writes = 0

(* Variant of Take that refills without clamping to the bucket size.       *)
TakeNoClamp(n) ==
  LET refilled == tokens + (now - lastUpdate)
  IN  IF refilled >= n
      THEN [tokens |-> refilled - n, wait |-> 0]
      ELSE [tokens |-> 0, wait |-> n - refilled]

(* TokenBucket.Take(n) at the current time: refill by the elapsed ticks,   *)
(* clamp to the bucket size, then either take n tokens and return no wait, *)
(* or return the deficit as the wait and set the tokens to zero.           *)
Take(n) ==
  LET refilled == IF tokens + (now - lastUpdate) > BandwidthBps
                  THEN BandwidthBps ELSE tokens + (now - lastUpdate)
  IN  IF refilled >= n
      THEN [tokens |-> refilled - n, wait |-> 0]
      ELSE [tokens |-> 0, wait |-> n - refilled]

(* The outcomes of the loss draw rng.Float64()*100 < PacketLossPercent.    *)
DropOutcomes ==
  IF LossPct = 0 THEN {FALSE}
  ELSE IF LossPct = 100 THEN {TRUE} ELSE {TRUE, FALSE}

(* The latency + jitter delay: Latency + (Int63n(2*Jitter) - Jitter),      *)
(* clamped at zero; just Latency when no jitter is configured.             *)
Delays ==
  IF Jitter > 0
  THEN {IF Latency + o < 0 THEN 0 ELSE Latency + o : o \in -Jitter..(Jitter - 1)}
  ELSE {Latency}

(* ChaosWriter.Write(p), up to its first sleep: count the call, then       *)
(* either drop it (count it as dropped and return len(p) without writing), *)
(* or take len(p) tokens from the bucket and start sleeping the wait.      *)
Write(n) ==
  /\ pc = "idle"
  /\ writes < MaxWrites
  /\ writes' = writes + 1
  /\ LET counted == [stats EXCEPT !.TotalWrites = @ + 1, !.TotalBytes = @ + n]
     IN  \E drop \in DropOutcomes :
           IF drop
           THEN /\ stats' = [counted EXCEPT !.DroppedWrites = @ + 1]
                /\ UNCHANGED <<tokens, lastUpdate, pc, len, wake, lastWait>>
           ELSE /\ stats' = counted
                /\ pc' = "pacing"
                /\ len' = n
                /\ IF HasBucket
                   THEN LET r == Take(n) IN
                          /\ tokens' = r.tokens
                          /\ lastUpdate' = now
                          /\ lastWait' = r.wait
                          /\ wake' = now + r.wait
                   ELSE /\ wake' = now
                        /\ UNCHANGED <<tokens, lastUpdate, lastWait>>
  /\ UNCHANGED now

(* Variant of Pace that does not sleep the bucket's wait.                  *)
PaceNoSleep ==
  /\ pc = "pacing"
  /\ \E d \in Delays : wake' = now + d
  /\ pc' = "delaying"
  /\ UNCHANGED <<now, tokens, lastUpdate, stats, len, lastWait, writes>>

(* The bandwidth sleep is over: draw the jitter and sleep the delay.       *)
Pace ==
  /\ pc = "pacing"
  /\ now >= wake
  /\ \E d \in Delays : wake' = now + d
  /\ pc' = "delaying"
  /\ UNCHANGED <<now, tokens, lastUpdate, stats, len, lastWait, writes>>

(* The delay is over: write p to the underlying connection and add what   *)
(* it reports written to ActualBytes (all of p, or nothing on an error).   *)
Deliver ==
  /\ pc = "delaying"
  /\ now >= wake
  /\ \E n \in {0, len} :
       stats' = [stats EXCEPT !.ActualBytes = @ + n]
  /\ pc' = "idle"
  /\ len' = 0
  /\ UNCHANGED <<now, tokens, lastUpdate, wake, lastWait, writes>>

(* Time passes, while the caller sleeps or does other work.               *)
Tick ==
  /\ now < MaxTime
  /\ now' = now + 1
  /\ UNCHANGED <<tokens, lastUpdate, stats, pc, len, wake, lastWait, writes>>

(* The clock bound is reached: the model stops here.                       *)
Horizon ==
  /\ now = MaxTime
  /\ UNCHANGED vars

Next ==
  \/ \E n \in WriteSizes : Write(n)
  \/ Pace
  \/ Deliver
  \/ Tick
  \/ Horizon

Spec == Init /\ [][Next]_vars

-----------------------------------------------------------------------------
(* PROPERTIES                                                              *)

(* The bandwidth limit as the configuration promises it: by time t the     *)
(* writer has passed at most one bucket (one second) of burst plus         *)
(* BandwidthBps bytes per second to the connection.  TokenBucket.Take sets *)
(* tokens to 0 on a deficit although its comment says it goes "into        *)
(* deficit", so the ticks slept to pay a deficit are refilled once more.   *)
BandwidthBound ==
  HasBucket => stats.ActualBytes <= BandwidthBps + now

(* What the pacing does guarantee: never more than one burst plus twice    *)
(* the configured rate.  A write that skipped its bucket sleep breaks it.  *)
BandwidthWithinDouble ==
  HasBucket => stats.ActualBytes <= BandwidthBps + 2 * now

=============================================================================
