----------------------------- MODULE PcapRecorder -----------------------------
(***************************************************************************)
(* The capture recorder (util/pcap_recorder.py): taps around the sockets   *)
(* frame what passes and queue it under a lock; one writer thread takes    *)
(* the queue in batches and writes them without the lock; close() stops    *)
(* the writer, writes what is left and closes the file.                    *)
(*                                                                         *)
(* The bytes the host sends on the control socket are numbered from 1.     *)
(* A record [seq, from, to] holds the bytes from..to as the TCP segment    *)
(* that starts at sequence number seq; [udp] is a datagram.                *)
(***************************************************************************)
EXTENDS Integers, Sequences

CONSTANTS
  MaxBytes,     (* bound: units of the host's byte stream                     *)
  MaxDatagrams, (* bound: datagrams                                           *)
  Idle          (* a tap that records nothing at the moment                   *)

PcapAssumption == MaxBytes \in Nat /\ MaxDatagrams \in Nat

VARIABLES
  consumed,   (* bytes of the stream that recv() took off the socket          *)
  tap,        (* what the tap of the control socket read and will record      *)
  tcpSeq,     (* _tcp_seq of the host's direction                             *)
  queue,      (* _pending                                                     *)
  batch,      (* the writer's batch                                           *)
  file,       (* records in the file                                          *)
  halt,       (* _stop                                                        *)
  writerPc,   (* place of the writer: "wait", "write", "ended"                *)
  endPc,      (* place of close(): "open", "join", "drain", "closed"          *)
  impatient,  (* history: the join timed out                                  *)
  recorded,   (* history: every record that was queued                        *)
  datagrams,  (* history: datagrams seen                                      *)
  peeks       (* history: peeks of the handshake so far                       *)

pcapVars == <<consumed, tap, tcpSeq, queue, batch, file, halt, writerPc, endPc,
              impatient, recorded, datagrams, peeks>>
writerVars == <<batch, file, writerPc>>
endVars == <<halt, endPc, impatient>>

-----------------------------------------------------------------------------
(* Taps *)

(* _TcpTap.recv reads the wrapped socket first ... *)
Recv ==
  /\ tap = Idle
  /\ \E n \in consumed + 1 .. MaxBytes :
       tap' = [from |-> consumed + 1, to |-> n] /\ consumed' = n
  /\ UNCHANGED <<tcpSeq, queue, writerVars, endVars, recorded, datagrams, peeks>>

(* ... also when the caller only peeks (_peek_ss_prompt and                *)
(* _peek_ss_console_user, before anything else of the prompt is read),     *)
(* which takes nothing off the socket ...                                  *)
RecvPeek ==
  /\ tap = Idle /\ consumed = 0 /\ MaxBytes > 0
  /\ peeks < 2 /\ peeks' = peeks + 1
  /\ tap' = [from |-> 1, to |-> 1]
  /\ UNCHANGED <<consumed, tcpSeq, queue, writerVars, endVars, recorded, datagrams>>

(* ... and then records what it got, unless the file is closed. *)
RecordTcp ==
  /\ tap # Idle /\ tap' = Idle
  /\ IF endPc = "closed" THEN UNCHANGED <<tcpSeq, queue, recorded>>
     ELSE LET r == [seq |-> tcpSeq, from |-> tap.from, to |-> tap.to]
          IN  /\ tcpSeq' = tcpSeq + (tap.to - tap.from + 1)
              /\ queue' = Append(queue, r) /\ recorded' = Append(recorded, r)
  /\ UNCHANGED <<consumed, writerVars, endVars, datagrams, peeks>>

(* A datagram of either direction, from any thread. *)
RecordUdp ==
  /\ datagrams < MaxDatagrams /\ datagrams' = datagrams + 1
  /\ IF endPc = "closed" THEN UNCHANGED <<queue, recorded>>
     ELSE LET r == [udp |-> datagrams']
          IN  queue' = Append(queue, r) /\ recorded' = Append(recorded, r)
  /\ UNCHANGED <<consumed, tap, tcpSeq, writerVars, endVars, peeks>>

-----------------------------------------------------------------------------
(* The writer *)

WriterTake ==
  /\ writerPc = "wait"
  /\ IF queue = <<>>
     THEN /\ halt /\ writerPc' = "ended" /\ UNCHANGED <<batch, queue>>
     ELSE /\ batch' = queue /\ queue' = <<>> /\ writerPc' = "write"
  /\ UNCHANGED <<consumed, tap, tcpSeq, file, endVars, recorded, datagrams, peeks>>

(* A write to the closed file raises and ends the thread. *)
WriterWrite ==
  /\ writerPc = "write"
  /\ IF endPc = "closed"
     THEN batch' = <<>> /\ writerPc' = "ended" /\ UNCHANGED file
     ELSE /\ file' = Append(file, Head(batch)) /\ batch' = Tail(batch)
          /\ writerPc' = IF batch' = <<>> THEN "wait" ELSE "write"
  /\ UNCHANGED <<consumed, tap, tcpSeq, queue, endVars, recorded, datagrams, peeks>>

-----------------------------------------------------------------------------
(* close *)

Halt ==
  /\ endPc = "open" /\ halt' = TRUE /\ endPc' = "join"
  /\ UNCHANGED <<consumed, tap, tcpSeq, queue, writerVars, impatient, recorded, datagrams, peeks>>

(* Slip: the straggler drain without the join. *)
JoinSlip ==
  /\ endPc = "join" /\ endPc' = "drain"
  /\ UNCHANGED <<consumed, tap, tcpSeq, queue, writerVars, halt, impatient, recorded, datagrams, peeks>>

(* The join lasts two seconds at most. *)
Join ==
  /\ endPc = "join" /\ endPc' = "drain"
  /\ impatient' = (writerPc # "ended")
  /\ UNCHANGED <<consumed, tap, tcpSeq, queue, writerVars, halt, recorded, datagrams, peeks>>

(* Under the lock: what is queued is written and the file closed. *)
DrainAndClose ==
  /\ endPc = "drain" /\ endPc' = "closed"
  /\ file' = file \o queue /\ queue' = <<>>
  /\ UNCHANGED <<consumed, tap, tcpSeq, batch, writerPc, halt, impatient, recorded, datagrams, peeks>>

-----------------------------------------------------------------------------

PcapInit ==
  /\ consumed = 0 /\ tap = Idle /\ tcpSeq = 1
  /\ queue = <<>> /\ batch = <<>> /\ file = <<>>
  /\ halt = FALSE /\ writerPc = "wait" /\ endPc = "open" /\ impatient = FALSE
  /\ recorded = <<>> /\ datagrams = 0 /\ peeks = 0

PcapNext ==
  \/ Recv \/ RecvPeek \/ RecordTcp \/ RecordUdp
  \/ WriterTake \/ WriterWrite
  \/ Halt \/ Join \/ DrainAndClose

-----------------------------------------------------------------------------

PcapTypeOK ==
  /\ consumed \in 0 .. MaxBytes /\ datagrams \in 0 .. MaxDatagrams
  /\ peeks \in 0 .. 2
  /\ tap = Idle \/ tap.from \in 1 .. tap.to
  /\ writerPc \in {"wait", "write", "ended"} /\ (writerPc = "write" <=> batch # <<>>)
  /\ endPc \in {"open", "join", "drain", "closed"} /\ (halt <=> endPc # "open")

(* Nothing that was queued is lost, doubled or reordered on its way to the *)
(* file, wherever close() meets the writer and the taps (_writer_loop,     *)
(* close), as long as the join did not time out.                           *)
FileInOrder == ~impatient => file \o batch \o queue = recorded
=============================================================================
