---------------------------- MODULE TargetsFile ----------------------------
(***************************************************************************)
(* What the Prometheus service-discovery generator promises the Prometheus *)
(* server that reads its output file, stated without temporary files,      *)
(* crashes or failed requests.  The generator now and then takes a         *)
(* snapshot of the peers online in the directory (Poll), and now and then  *)
(* publishes its latest snapshot as the whole content of the output file   *)
(* (Publish).  Between the two the directory may change (Change).  The     *)
(* file never holds anything but a snapshot that was taken: no partial     *)
(* list and no list of peers that were never online together.             *)
(***************************************************************************)
CONSTANTS
  Peers,      \* peer names the directory may hold
  PeerStates, \* the states a peer has in the directory
  NoFile      \* the output file does not exist yet

VARIABLES
  dir,    \* each peer's state in the directory
  polled, \* the generator's latest snapshot of the online peers
  file    \* the content of the output file

avars == <<dir, polled, file>>

Online == {p \in Peers : dir[p] = "online"}

Init ==
  /\ dir \in [Peers -> PeerStates]
  /\ polled = {}
  /\ file = NoFile

Poll ==
  /\ polled' = Online
  /\ UNCHANGED <<dir, file>>

Publish ==
  /\ file' = polled
  /\ UNCHANGED <<dir, polled>>

Change ==
  /\ dir' \in [Peers -> PeerStates]
  /\ UNCHANGED <<polled, file>>

Next == Poll \/ Publish \/ Change

Spec == Init /\ [][Next]_avars

=============================================================================
