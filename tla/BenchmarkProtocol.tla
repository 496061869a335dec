------------------------- MODULE BenchmarkProtocol -------------------------
(***************************************************************************)
(* One benchmark session over one TCP connection: the client of           *)
(* src/internal/benchmark/client.go (Run, runUpload, runDownload,          *)
(* measureLatency) against the benchmark server.  The server's source is   *)
(* not in the repository; its per-connection handler is modelled from the  *)
(* protocol description (upload: consume Data, answer Ping with Pong,      *)
(* answer Complete with Complete; download: stream chunks then Complete).  *)
(*                                                                         *)
(* The connection is two byte streams (TCP keeps order and does not lose  *)
(* bytes; what one side wrote before closing can still be read): each      *)
(* side writes frames with WriteMessage and reads them with ReadMessage    *)
(* and Decode (BenchmarkWire).  Sizes are counted in abstract units (one   *)
(* byte on the wire) of which a chunk holds                                *)
(* ChunkSize.  Read deadlines are modelled by a read that may fail while   *)
(* nothing has arrived, once a deadline has been set on the connection.   *)
(***************************************************************************)
EXTENDS Integers, Sequences

CONSTANTS
  ChunkSize,    \* ChunkSize (64 KiB in the code), in abstract units
  PingInterval, \* a latency ping every PingInterval chunks (10 in the code)
  Sizes,        \* the Config.Size values the caller may pass
  Directions,   \* the Config.Direction values the caller may pass
  LossOptions   \* whether the chaos writer may drop frames (PacketLossPercent > 0)

ASSUME ChunkSize \in Nat \ {0} /\ PingInterval \in Nat \ {0}
ASSUME Sizes \subseteq Nat /\ LossOptions \subseteq BOOLEAN

Upload == "upload"
Download == "download"

VARIABLES
  cfg,          \* the Config passed to Run: [dir, size, lossy]
  cpc,          \* the client's position in Run
  sent,         \* runUpload's sent
  seqNum,       \* runUpload's seqNum
  received,     \* runDownload's received
  mlSeq,        \* seqNum argument of the measureLatency call in progress
  mlRet,        \* where the measureLatency call in progress returns to
  deadlineSet,  \* a read deadline has been set on the client's conn
  latencies,    \* latency samples, as <<ping seq, pong seq>> pairs
  cancelled,    \* ctx has been cancelled
  result,       \* the outcome of Run: none (nil Result), fail or ok
  spc,          \* the server handler's position
  sdir,         \* the direction the server accepted
  ssize,        \* the size the server accepted
  sreceived,    \* bytes the upload server has received
  ssent,        \* bytes the download server has sent
  c2s,          \* frames written by the client, not yet read by the server
  s2c,          \* frames written by the server, not yet read by the client
  clientClosed, \* the client has closed the conn (deferred conn.Close)
  serverClosed, \* the server has closed the conn
  dropped,      \* bytes of Data frames dropped by the chaos writer
  faulted       \* an environment fault occurred (dial error, ctx cancel,
                \* a read deadline expiring)

clientVars == <<cpc, sent, seqNum, received, mlSeq, mlRet, deadlineSet,
                latencies, cancelled, result>>
serverVars == <<spc, sdir, ssize, sreceived, ssent>>
netVars == <<c2s, s2c, clientClosed, serverClosed, dropped, faulted>>
vars == <<cfg, clientVars, serverVars, netVars>>

Wire == INSTANCE BenchmarkWire

(* WriteMessage of m onto the stream ch; ReadMessage can return a frame;   *)
(* the decoded first frame; the stream after it.                           *)
Put(ch, m) == ch \o Wire!WriteMessage(m)
Ready(ch) == Wire!HasFrame(ch)
Got(ch) == Wire!ReadMessage(ch)
Rest(ch) == Wire!AfterFrame(ch)

Msg(t, s, n) == [type |-> t, seq |-> s, n |-> n, dir |-> ""]
StartMsg(size, d) == [type |-> "Start", seq |-> 0, n |-> size, dir |-> d]
MaxSize == CHOOSE m \in Sizes : \A s \in Sizes : s <= m
MaxSeq == MaxSize \div ChunkSize + 2
ClientPCs == {"dial", "awaitAck", "ping", "pong", "uploadLoop", "uploadWrite",
              "sendComplete", "awaitComplete", "downloadLoop", "downloadRead",
              "done"}

TypeOK ==
  /\ cfg \in [dir : Directions, size : Sizes, lossy : LossOptions]
  /\ cpc \in ClientPCs
  /\ sent \in 0..MaxSize /\ received \in 0..MaxSize
  /\ seqNum \in 0..MaxSeq /\ mlSeq \in 0..MaxSeq
  /\ mlRet \in ClientPCs
  /\ deadlineSet \in BOOLEAN /\ cancelled \in BOOLEAN
  /\ latencies \in Seq((0..MaxSeq) \X (0..MaxSeq))
  /\ result \in [outcome : {"pending", "none", "fail", "ok"},
                 transferred : 0..MaxSize]
  /\ spc \in {"idle", "awaitStart", Upload, Download, "closed"}
  /\ sreceived \in 0..MaxSize /\ ssent \in 0..MaxSize
  /\ c2s \in Seq(0..255) /\ s2c \in Seq(0..255)
  /\ clientClosed \in BOOLEAN /\ serverClosed \in BOOLEAN
  /\ dropped \in 0..MaxSize /\ faulted \in BOOLEAN

(* Config.WithDefaults: an empty direction means upload.                   *)
DefaultDirection(d) == IF d = "" THEN Upload ELSE d

(* Config.Validate after WithDefaults (PeerName is always given).          *)
ValidConfig(c) ==
  /\ c.size > 0
  /\ DefaultDirection(c.dir) \in {Upload, Download}

Init ==
  /\ cfg \in [dir : Directions, size : Sizes, lossy : LossOptions]
  /\ cpc = "dial"
  /\ sent = 0 /\ seqNum = 0 /\ received = 0
  /\ mlSeq = 0 /\ mlRet = "dial"
  /\ deadlineSet = FALSE /\ cancelled = FALSE
  /\ latencies = <<>>
  /\ result = [outcome |-> "pending", transferred |-> 0]
  /\ spc = "idle" /\ sdir = Upload /\ ssize = 0
  /\ sreceived = 0 /\ ssent = 0
  /\ c2s = <<>> /\ s2c = <<>>
  /\ clientClosed = FALSE /\ serverClosed = FALSE
  /\ dropped = 0 /\ faulted = FALSE

-----------------------------------------------------------------------------
(* Client                                                                  *)

(* Run returns: the deferred conn.Close runs and the Result is final.      *)
Finish(outcome, n) ==
  /\ cpc' = "done"
  /\ result' = [outcome |-> outcome, transferred |-> n]
  /\ clientClosed' = TRUE

(* A call of measureLatency(conn, seq) that returns to ret.                *)
CallMeasureLatency(seq, ret) ==
  /\ cpc' = "ping" /\ mlSeq' = seq /\ mlRet' = ret

(* Run with a configuration that Validate rejects: no connection.          *)
RunInvalid ==
  /\ cpc = "dial"
  /\ ~ValidConfig(cfg)
  /\ cpc' = "done"
  /\ result' = [outcome |-> "none", transferred |-> 0]
  /\ UNCHANGED <<cfg, sent, seqNum, received, mlSeq, mlRet, deadlineSet,
                 latencies, cancelled, serverVars, netVars>>

(* DialContext fails (refused, 10 s dial timeout, or ctx cancelled).       *)
DialFails ==
  /\ cpc = "dial"
  /\ ValidConfig(cfg)
  /\ cpc' = "done"
  /\ result' = [outcome |-> "none", transferred |-> 0]
  /\ faulted' = TRUE
  /\ UNCHANGED <<cfg, sent, seqNum, received, mlSeq, mlRet, deadlineSet,
                 latencies, cancelled, serverVars, c2s, s2c, clientClosed,
                 serverClosed, dropped>>

(* Dial succeeds (the server's accept loop takes the connection) and the   *)
(* client writes Start{Size, Direction} with the defaulted direction.      *)
DialAndStart ==
  /\ cpc = "dial"
  /\ ValidConfig(cfg)
  /\ spc' = "awaitStart"
  /\ c2s' = Put(<<>>, StartMsg(cfg.size, DefaultDirection(cfg.dir)))
  /\ cpc' = "awaitAck"
  /\ UNCHANGED <<cfg, sent, seqNum, received, mlSeq, mlRet, deadlineSet,
                 latencies, cancelled, result, sdir, ssize, sreceived, ssent,
                 s2c, clientClosed, serverClosed, dropped, faulted>>

(* Read the Ack (no read deadline is set): an accepted Ack starts the run  *)
(* of the direction, which begins with measureLatency(conn, 0); anything   *)
(* else ends Run with a nil Result.                                        *)
ReadAck ==
  /\ cpc = "awaitAck"
  /\ Ready(s2c)
  /\ s2c' = Rest(s2c)
  /\ LET m == Got(s2c) IN
       IF m.type = "Ack" /\ m.ok /\ m.n = 1
       THEN /\ CallMeasureLatency(0, IF DefaultDirection(cfg.dir) = Upload
                                     THEN "uploadLoop" ELSE "downloadLoop")
            /\ UNCHANGED <<result, clientClosed>>
       ELSE /\ Finish("none", 0)
            /\ UNCHANGED <<mlSeq, mlRet>>
  /\ UNCHANGED <<cfg, sent, seqNum, received, deadlineSet, latencies,
                 cancelled, serverVars, c2s, serverClosed, dropped, faulted>>

(* measureLatency, first half: write Ping{seq} and set the 5 s deadline.   *)
(* A failed write returns the error, which every caller ignores.           *)
SendPing ==
  /\ cpc = "ping"
  /\ \/ /\ c2s' = Put(c2s, Msg("Ping", mlSeq, 0))
        /\ cpc' = "pong"
        /\ deadlineSet' = TRUE
     \/ /\ serverClosed
        /\ cpc' = mlRet
        /\ UNCHANGED <<c2s, deadlineSet>>
  /\ UNCHANGED <<cfg, sent, seqNum, received, mlSeq, mlRet, latencies,
                 cancelled, result, serverVars, s2c, clientClosed,
                 serverClosed, dropped, faulted>>

(* measureLatency, second half: read one frame.  A Pong yields a sample;   *)
(* its SeqNum is decoded but never compared with the Ping's.  Any other    *)
(* frame is consumed and reported as an error that the caller ignores.     *)
ReadPong ==
  /\ cpc = "pong"
  /\ Ready(s2c)
  /\ s2c' = Rest(s2c)
  /\ cpc' = mlRet
  /\ latencies' = IF Got(s2c).type = "Pong" /\ Got(s2c).ok
                  THEN Append(latencies, <<mlSeq, Got(s2c).seq>>)
                  ELSE latencies
  /\ UNCHANGED <<cfg, sent, seqNum, received, mlSeq, mlRet, deadlineSet,
                 cancelled, result, serverVars, c2s, clientClosed,
                 serverClosed, dropped, faulted>>

(* runUpload, loop top with sent < Size and ctx cancelled: return ctx.Err. *)
UploadCancelled ==
  /\ cpc = "uploadLoop"
  /\ sent < cfg.size
  /\ cancelled
  /\ Finish("fail", 0)
  /\ UNCHANGED <<cfg, sent, seqNum, received, mlSeq, mlRet, deadlineSet,
                 latencies, cancelled, serverVars, c2s, s2c, serverClosed,
                 dropped, faulted>>

(* Variant of UploadProceed without the select on ctx.Done().              *)
UploadProceedIgnoringCancel ==
  /\ cpc = "uploadLoop"
  /\ sent < cfg.size
  /\ cpc' = "uploadWrite"
  /\ UNCHANGED <<cfg, sent, seqNum, received, mlSeq, mlRet, deadlineSet,
                 latencies, cancelled, result, serverVars, netVars>>

(* runUpload, loop top with sent < Size and ctx not cancelled: the select *)
(* takes its default branch and the iteration goes on to the write.        *)
UploadProceed ==
  /\ cpc = "uploadLoop"
  /\ sent < cfg.size
  /\ ~cancelled
  /\ cpc' = "uploadWrite"
  /\ UNCHANGED <<cfg, sent, seqNum, received, mlSeq, mlRet, deadlineSet,
                 latencies, cancelled, result, serverVars, netVars>>

(* Variant of UploadData that sends a whole chunk even when less remains.  *)
UploadDataUnclamped ==
  /\ cpc = "uploadWrite"
  /\ \E drop \in IF cfg.lossy THEN BOOLEAN ELSE {FALSE} :
       /\ c2s' = IF drop THEN c2s ELSE Put(c2s, Msg("Data", seqNum, ChunkSize))
       /\ dropped' = IF drop THEN dropped + ChunkSize ELSE dropped
  /\ sent' = sent + ChunkSize
  /\ seqNum' = seqNum + 1
  /\ IF (seqNum + 1) % PingInterval = 0
     THEN CallMeasureLatency(seqNum + 1, "uploadLoop")
     ELSE cpc' = "uploadLoop" /\ UNCHANGED <<mlSeq, mlRet>>
  /\ UNCHANGED <<cfg, received, deadlineSet, latencies, cancelled, result,
                 serverVars, s2c, clientClosed, serverClosed, faulted>>

(* runUpload, rest of the iteration: write Data{seqNum, min(ChunkSize,     *)
(* remaining)} through the chaos writer, which may drop it and still       *)
(* report success; count it as sent; every PingInterval-th chunk measure   *)
(* latency.  A write error on a conn the server has closed ends the run.   *)
(* The write does not look at ctx: a cancel from here on is only seen at   *)
(* the next loop top.                                                      *)
UploadData ==
  /\ cpc = "uploadWrite"
  /\ LET dataSize == IF cfg.size - sent < ChunkSize
                     THEN cfg.size - sent ELSE ChunkSize
     IN  \E drop \in IF cfg.lossy THEN BOOLEAN ELSE {FALSE} :
           \/ /\ c2s' = IF drop THEN c2s
                        ELSE Put(c2s, Msg("Data", seqNum, dataSize))
              /\ dropped' = IF drop THEN dropped + dataSize ELSE dropped
              /\ sent' = sent + dataSize
              /\ seqNum' = seqNum + 1
              /\ IF (seqNum + 1) % PingInterval = 0
                 THEN CallMeasureLatency(seqNum + 1, "uploadLoop")
                 ELSE cpc' = "uploadLoop" /\ UNCHANGED <<mlSeq, mlRet>>
              /\ UNCHANGED <<result, clientClosed>>
           \/ /\ ~drop
              /\ serverClosed
              /\ Finish("fail", 0)
              /\ UNCHANGED <<c2s, dropped, sent, seqNum, mlSeq, mlRet>>
  /\ UNCHANGED <<cfg, received, deadlineSet, latencies, cancelled,
                 serverVars, s2c, serverClosed, faulted>>

(* runUpload, loop exit (sent >= Size): the final measureLatency(seqNum+1). *)
UploadLoopExit ==
  /\ cpc = "uploadLoop"
  /\ sent >= cfg.size
  /\ CallMeasureLatency(seqNum + 1, "sendComplete")
  /\ UNCHANGED <<cfg, sent, seqNum, received, deadlineSet, latencies,
                 cancelled, result, serverVars, netVars>>

(* Variant of SendComplete that never writes the client's Complete.        *)
SendCompleteSkipped ==
  /\ cpc = "sendComplete"
  /\ cpc' = "awaitComplete"
  /\ UNCHANGED <<cfg, sent, seqNum, received, mlSeq, mlRet, deadlineSet,
                 latencies, cancelled, result, serverVars, netVars>>

(* runUpload: write Complete{BytesTransferred: sent}.                      *)
SendComplete ==
  /\ cpc = "sendComplete"
  /\ \/ /\ c2s' = Put(c2s, Msg("Complete", 0, sent))
        /\ cpc' = "awaitComplete"
        /\ UNCHANGED <<result, clientClosed>>
     \/ /\ serverClosed
        /\ Finish("fail", 0)
        /\ UNCHANGED c2s
  /\ UNCHANGED <<cfg, sent, seqNum, received, mlSeq, mlRet, deadlineSet,
                 latencies, cancelled, serverVars, s2c, serverClosed,
                 dropped, faulted>>

(* Variant of ReadServerComplete that accepts any frame as the Complete.   *)
ReadServerCompleteAnyType ==
  /\ cpc = "awaitComplete"
  /\ Ready(s2c)
  /\ s2c' = Rest(s2c)
  /\ Finish("ok", sent)
  /\ UNCHANGED <<cfg, sent, seqNum, received, mlSeq, mlRet, deadlineSet,
                 latencies, cancelled, serverVars, c2s, serverClosed,
                 dropped, faulted>>

(* runUpload: read the server's reply, under whatever deadline the last    *)
(* ping left; it must be a Complete.  TransferredSize is the client's own  *)
(* sent; the server's count is decoded and ignored.                        *)
ReadServerComplete ==
  /\ cpc = "awaitComplete"
  /\ Ready(s2c)
  /\ s2c' = Rest(s2c)
  /\ IF Got(s2c).type = "Complete" /\ Got(s2c).ok
     THEN Finish("ok", sent)
     ELSE Finish("fail", 0)
  /\ UNCHANGED <<cfg, sent, seqNum, received, mlSeq, mlRet, deadlineSet,
                 latencies, cancelled, serverVars, c2s, serverClosed,
                 dropped, faulted>>

(* runDownload, loop top with ctx cancelled: return ctx.Err().             *)
DownloadCancelled ==
  /\ cpc = "downloadLoop"
  /\ cancelled
  /\ Finish("fail", 0)
  /\ UNCHANGED <<cfg, sent, seqNum, received, mlSeq, mlRet, deadlineSet,
                 latencies, cancelled, serverVars, c2s, s2c, serverClosed,
                 dropped, faulted>>

(* runDownload, loop top with ctx not cancelled: set the 30 s deadline    *)
(* and go on to the read.                                                  *)
DownloadProceed ==
  /\ cpc = "downloadLoop"
  /\ ~cancelled
  /\ cpc' = "downloadRead"
  /\ deadlineSet' = TRUE
  /\ UNCHANGED <<cfg, sent, seqNum, received, mlSeq, mlRet, latencies,
                 cancelled, result, serverVars, netVars>>

(* runDownload, the blocking read, which does not look at ctx.  Data adds  *)
(* its length to received; Complete ends the run with TransferredSize =    *)
(* received; any other frame is logged and skipped.                        *)
DownloadRead ==
  /\ cpc = "downloadRead"
  /\ Ready(s2c)
  /\ s2c' = Rest(s2c)
  /\ LET m == Got(s2c) IN
       CASE m.type = "Data" ->
              IF m.ok
              THEN /\ received' = received + m.n
                   /\ cpc' = "downloadLoop"
                   /\ UNCHANGED <<result, clientClosed>>
              ELSE /\ Finish("fail", 0)
                   /\ UNCHANGED received
         [] m.type = "Complete" ->
              /\ Finish(IF m.ok THEN "ok" ELSE "fail", IF m.ok THEN received ELSE 0)
              /\ UNCHANGED received
         [] OTHER ->
              /\ cpc' = "downloadLoop"
              /\ UNCHANGED <<received, result, clientClosed>>
  /\ UNCHANGED <<cfg, sent, seqNum, mlSeq, mlRet, deadlineSet, latencies,
                 cancelled, serverVars, c2s, serverClosed, dropped, faulted>>

(* The client is blocked in a ReadMessage.                                 *)
Reading == cpc \in {"awaitAck", "pong", "awaitComplete", "downloadRead"}

(* A failed ReadMessage: inside measureLatency the error is returned to a  *)
(* caller that ignores it; elsewhere Run ends (nil Result before the Ack). *)
ReadFailed ==
  IF cpc = "pong"
  THEN /\ cpc' = mlRet
       /\ UNCHANGED <<result, clientClosed>>
  ELSE Finish(IF cpc = "awaitAck" THEN "none" ELSE "fail", 0)

(* The read finds the conn closed by the server with nothing left: EOF.    *)
ClientReadEOF ==
  /\ Reading
  /\ ~Ready(s2c)
  /\ serverClosed
  /\ ReadFailed
  /\ UNCHANGED <<cfg, sent, seqNum, received, mlSeq, mlRet, deadlineSet,
                 latencies, cancelled, serverVars, c2s, s2c, serverClosed,
                 dropped, faulted>>

(* The read deadline expires before a frame arrives.  The Ack read has no  *)
(* deadline unless one is set; runDownload sets one before every read.     *)
ClientReadTimeout ==
  /\ Reading
  /\ ~Ready(s2c)
  /\ deadlineSet
  /\ ReadFailed
  /\ faulted' = TRUE
  /\ UNCHANGED <<cfg, sent, seqNum, received, mlSeq, mlRet, deadlineSet,
                 latencies, cancelled, serverVars, c2s, s2c, serverClosed,
                 dropped>>

(* The caller cancels ctx.                                                 *)
Cancel ==
  /\ cpc \notin {"dial", "done"}
  /\ ~cancelled
  /\ cancelled' = TRUE
  /\ faulted' = TRUE
  /\ UNCHANGED <<cfg, cpc, sent, seqNum, received, mlSeq, mlRet, deadlineSet,
                 latencies, result, serverVars, c2s, s2c, clientClosed,
                 serverClosed, dropped>>

-----------------------------------------------------------------------------
(* Server (the per-connection benchmark handler)                           *)

(* Read Start: accept a valid direction with Ack{accepted: true}, or       *)
(* reject with Ack{accepted: false} and close.                             *)
ServerReadStart ==
  /\ spc = "awaitStart"
  /\ Ready(c2s)
  /\ c2s' = Rest(c2s)
  /\ LET m == Got(c2s) IN
       IF m.type = "Start" /\ m.ok /\ m.dir \in {Upload, Download}
       THEN /\ s2c' = Put(s2c, Msg("Ack", 0, 1))
            /\ spc' = m.dir /\ sdir' = m.dir /\ ssize' = m.n
            /\ UNCHANGED serverClosed
       ELSE /\ s2c' = Put(s2c, Msg("Ack", 0, 0))
            /\ spc' = "closed" /\ serverClosed' = TRUE
            /\ UNCHANGED <<sdir, ssize>>
  /\ UNCHANGED <<cfg, clientVars, sreceived, ssent, clientClosed, dropped,
                 faulted>>

(* Upload: Data adds to the received count, Ping is answered at once by a  *)
(* Pong echoing its seq, Complete is answered by Complete{received} and    *)
(* ends the session.                                                       *)
ServerUploadRead ==
  /\ spc = Upload
  /\ Ready(c2s)
  /\ c2s' = Rest(c2s)
  /\ LET m == Got(c2s) IN
       CASE m.type = "Data" /\ m.ok ->
              /\ sreceived' = sreceived + m.n
              /\ UNCHANGED <<spc, s2c, serverClosed>>
         [] m.type = "Ping" /\ m.ok ->
              /\ s2c' = Put(s2c, Msg("Pong", m.seq, 0))
              /\ UNCHANGED <<spc, sreceived, serverClosed>>
         [] m.type = "Complete" /\ m.ok ->
              /\ s2c' = Put(s2c, Msg("Complete", 0, sreceived))
              /\ spc' = "closed" /\ serverClosed' = TRUE
              /\ UNCHANGED sreceived
         [] OTHER -> UNCHANGED <<spc, sreceived, s2c, serverClosed>>
  /\ UNCHANGED <<cfg, clientVars, sdir, ssize, ssent, clientClosed, dropped,
                 faulted>>

(* A Ping has arrived and is the next frame on the client's stream.       *)
PingWaiting == Ready(c2s) /\ Got(c2s).type = "Ping" /\ Got(c2s).ok

(* Download, between chunks: the server polls the connection for a Ping    *)
(* (a read under the 100 ms PingCheckTimeout) and answers one with a Pong  *)
(* echoing its seq.                                                        *)
ServerDownloadPing ==
  /\ spc = Download
  /\ PingWaiting
  /\ c2s' = Rest(c2s)
  /\ s2c' = Put(s2c, Msg("Pong", Got(c2s).seq, 0))
  /\ UNCHANGED <<cfg, clientVars, spc, sdir, ssize, sreceived, ssent,
                 clientClosed, serverClosed, dropped, faulted>>

(* Download: the poll finds no Ping within PingCheckTimeout (none has      *)
(* arrived yet), so stream the next chunk of at most ChunkSize.            *)
ServerSendChunk ==
  /\ spc = Download
  /\ ~PingWaiting
  /\ ssent < ssize
  /\ LET n == IF ssize - ssent < ChunkSize THEN ssize - ssent ELSE ChunkSize
     IN  /\ s2c' = Put(s2c, Msg("Data", ssent \div ChunkSize, n))
         /\ ssent' = ssent + n
  /\ UNCHANGED <<cfg, clientVars, spc, sdir, ssize, sreceived, c2s,
                 clientClosed, serverClosed, dropped, faulted>>

(* Download: all of size is sent; send Complete{sent} and close.           *)
ServerSendComplete ==
  /\ spc = Download
  /\ ~PingWaiting
  /\ ssent >= ssize
  /\ s2c' = Put(s2c, Msg("Complete", 0, ssent))
  /\ spc' = "closed" /\ serverClosed' = TRUE
  /\ UNCHANGED <<cfg, clientVars, sdir, ssize, sreceived, ssent, c2s,
                 clientClosed, dropped, faulted>>

(* A server read finds the client gone (EOF), or its 30 s deadline expires. *)
ServerReadEOF ==
  /\ spc \in {"awaitStart", Upload}
  /\ ~Ready(c2s)
  /\ clientClosed
  /\ spc' = "closed" /\ serverClosed' = TRUE
  /\ UNCHANGED <<cfg, clientVars, sdir, ssize, sreceived, ssent, c2s, s2c,
                 clientClosed, dropped, faulted>>

ServerReadTimeout ==
  /\ spc \in {"awaitStart", Upload}
  /\ ~Ready(c2s)
  /\ ~clientClosed
  /\ spc' = "closed" /\ serverClosed' = TRUE /\ faulted' = TRUE
  /\ UNCHANGED <<cfg, clientVars, sdir, ssize, sreceived, ssent, c2s, s2c,
                 clientClosed, dropped>>

(* Both ends are finished.                                                 *)
SessionOver ==
  /\ cpc = "done"
  /\ spc \in {"idle", "closed"}
  /\ UNCHANGED vars

-----------------------------------------------------------------------------
(* The steps each side takes on its own, without an environment fault.     *)
ClientStep ==
  \/ RunInvalid \/ DialAndStart \/ ReadAck \/ SendPing \/ ReadPong
  \/ UploadCancelled \/ UploadProceed \/ UploadData \/ UploadLoopExit
  \/ SendComplete \/ ReadServerComplete \/ DownloadCancelled
  \/ DownloadProceed \/ DownloadRead \/ ClientReadEOF

ServerStep ==
  \/ ServerReadStart \/ ServerUploadRead \/ ServerDownloadPing
  \/ ServerSendChunk \/ ServerSendComplete \/ ServerReadEOF

(* Environment faults: dial errors, deadlines expiring, ctx cancellation.  *)
Fault ==
  \/ DialFails \/ ClientReadTimeout \/ ServerReadTimeout \/ Cancel

Next == ClientStep \/ ServerStep \/ Fault \/ SessionOver

(* Every step that can run keeps running: goroutines are scheduled and TCP *)
(* delivers what was written.  Faults are not forced.                      *)
Fairness == WF_vars(ClientStep) /\ WF_vars(ServerStep)

Spec == Init /\ [][Next]_vars /\ Fairness

(* The peer at the other end is another process: a listener whose accept  *)
(* loop has stopped still completes the TCP handshake from the kernel's    *)
(* backlog and takes the Start into its buffer, and then nothing answers.  *)
(* Here the server makes no promise at all; the client's own steps and its *)
(* read deadlines, which the runtime's timers fire, are still fair.        *)
SpecUnresponsivePeer ==
  Init /\ [][Next]_vars /\ WF_vars(ClientStep) /\ WF_vars(ClientReadTimeout)

-----------------------------------------------------------------------------
(* PROPERTIES                                                              *)

(* The stream ch cut into the frames a reader takes off it in turn (a     *)
(* trailing piece that is not a whole frame is kept as it is).             *)
RECURSIVE Frames(_)
Frames(ch) ==
  IF ch = << >> THEN << >>
  ELSE IF ~Wire!HasFrame(ch) THEN <<ch>>
  ELSE <<SubSeq(ch, 1, Wire!FrameEnd(ch))>> \o Frames(Wire!AfterFrame(ch))

(* The codec round trip on the connection: each stream is a sequence of    *)
(* whole frames, and every one of them decodes without error into a        *)
(* message whose WriteMessage is that very frame, so the reader takes off  *)
(* what the writer put on, field for field.  Encode and Decode of each     *)
(* type are written separately (field widths, signedness, the u16 string   *)
(* length); a mismatch makes the other side read the wrong fields or lose  *)
(* frame alignment.                                                        *)
WireRoundTrip ==
  \A ch \in {c2s, s2c} :
    LET fs == Frames(ch) IN
      \A i \in 1..Len(fs) :
        /\ Wire!HasFrame(fs[i])
        /\ Wire!ReadMessage(fs[i]).ok
        /\ Wire!WriteMessage(Wire!ReadMessage(fs[i])) = fs[i]

UploadRequested == ValidConfig(cfg) /\ DefaultDirection(cfg.dir) = Upload

(* A successful upload reports exactly the requested size, and every byte  *)
(* the client counted reached the server unless the chaos writer dropped   *)
(* it: runUpload may only return nil after the server's Complete, which    *)
(* the server sends after it has read every frame written before.          *)
UploadAccounting ==
  (UploadRequested /\ result.outcome = "ok") =>
     /\ result.transferred = cfg.size
     /\ sreceived + dropped = cfg.size

(* Without environment faults an upload ends in success: the client's      *)
(* Complete, the server's reply and every Ping's Pong arrive in turn.      *)
UploadSucceeds ==
  <>(faulted \/ ~UploadRequested \/ result.outcome = "ok")

(* The client will still pass a ctx check before it can finish: it waits *)
(* for the Ack, is at the top of runDownload's loop (also inside a        *)
(* measureLatency that returns there), or is in runUpload's loop with      *)
(* data left after the chunk in hand.  A client blocked in the download    *)
(* read, or writing the last chunk, checks ctx no more.                    *)
ObservesCancel ==
  \/ cpc \in {"awaitAck", "downloadLoop"}
  \/ cpc \in {"ping", "pong"} /\ mlRet = "downloadLoop"
  \/ /\ sent < cfg.size
     /\ \/ cpc = "uploadLoop"
        \/ cpc \in {"ping", "pong"} /\ mlRet = "uploadLoop"
  \/ cpc = "uploadWrite" /\ sent + ChunkSize < cfg.size

(* A run cancelled while it will still check ctx never reports success:   *)
(* the selects at the top of the upload and download loops are the only    *)
(* places ctx is read, and every path to a successful return from such a   *)
(* state passes one of them.                                               *)
CancelStopsTransfer ==
  [](cancelled /\ ObservesCancel => [](result.outcome /= "ok"))

(* A cancelled benchmark returns: once the caller cancels ctx, Run ends,  *)
(* whatever the peer does, since every blocking read either watches ctx   *)
(* or runs under a deadline.  Run reads the Ack with no deadline set and   *)
(* without a select on ctx, so against a peer that never answers it        *)
(* blocks for ever after the cancel.                                       *)
CancelReturns == cancelled ~> cpc = "done"

(* Each latency sample measures the round trip of its own Ping: the Pong   *)
(* read by measureLatency echoes the Ping's seq.  measureLatency never     *)
(* checks it, so a Pong that arrives after its 5 s deadline is taken as    *)
(* the reply to the next Ping.                                             *)
LatencySampleFresh ==
  \A i \in 1..Len(latencies) : latencies[i][1] = latencies[i][2]

=============================================================================
