------------------------------- MODULE Clipboard -------------------------------
(***************************************************************************)
(* Clipboard sync: a poller reads the local clipboard and sends new text   *)
(* (session.py, _spawn_outbound_clipboard_poller), tcp-rx fetches and      *)
(* pushes what the host copied (_handle_tcp_msg, _handle_clipboard_send),  *)
(* the host answers over two FIFO byte streams.                            *)
(*                                                                         *)
(* A text stands for all that _norm makes equal.  The host (external)      *)
(* reports every change of its pasteboard, also one the client made; it    *)
(* sends a text as two records in a row.                                   *)
(***************************************************************************)
EXTENDS Integers, Sequences

CONSTANTS
  Texts,        (* texts that are copied                                      *)
  MaxCopies,    (* bound: copies by the users of either side                  *)
  NoText

ClipboardAssumption == MaxCopies \in Nat /\ NoText \notin Texts

VARIABLES
  local, remote,    (* the two clipboards                                     *)
  lastSeen,         (* last_seen of the poller, NoText before it started      *)
  lastReceived,     (* _last_received_clipboard_text                          *)
  pollPc, cur,      (* place of the poller, the text it read                  *)
  pushing,          (* text tcp-rx is about to push, or NoText                *)
  partial,          (* text whose first record the reassembler holds          *)
  toHost, toClient, (* the two directions of the control channel              *)
  copies,           (* history: copies so far                                 *)
  pushed, curPushed,(* history: local, or cur, was pushed by tcp-rx           *)
  unseen            (* history: a text was pushed since the poller's last read*)

clipVars == <<local, remote, lastSeen, lastReceived, pollPc, cur, pushing, partial,
              toHost, toClient, copies, pushed, curPushed, unseen>>
pollVars == <<lastSeen, pollPc, cur, curPushed>>
rxVars == <<lastReceived, pushing, partial>>

Fetch == [kind |-> "fetch"]
Changed == [kind |-> "changed"]
Text(t) == [kind |-> "text", text |-> t]
Rest(t) == [kind |-> "rest", text |-> t]

-----------------------------------------------------------------------------
(* The users and the host *)

(* What is copied locally before the poller noted its first text is not    *)
(* sent; nobody copies in that moment.                                     *)
CopyLocal(t) ==
  /\ pollPc # "start" /\ copies < MaxCopies /\ copies' = copies + 1
  /\ local' = t /\ pushed' = FALSE
  /\ UNCHANGED <<remote, pollVars, rxVars, toHost, toClient, unseen>>

CopyRemote(t) ==
  /\ copies < MaxCopies /\ copies' = copies + 1
  /\ remote' = t /\ toClient' = Append(toClient, Changed)
  /\ UNCHANGED <<local, pollVars, rxVars, toHost, pushed, unseen>>

HostServes ==
  /\ toHost # <<>> /\ toHost' = Tail(toHost)
  /\ IF Head(toHost) = Fetch
     THEN toClient' = toClient \o <<Text(remote), Rest(remote)>> /\ UNCHANGED remote
     ELSE remote' = Head(toHost).text /\ toClient' = Append(toClient, Changed)
  /\ UNCHANGED <<local, pollVars, rxVars, copies, pushed, unseen>>

-----------------------------------------------------------------------------
(* The poller *)

(* It starts with what is on the clipboard, which is not sent. *)
PollStart ==
  /\ pollPc = "start" /\ pollPc' = "read"
  /\ lastSeen' = local /\ unseen' = FALSE
  /\ UNCHANGED <<cur, curPushed, local, remote, rxVars, toHost, toClient, copies, pushed>>

PollRead ==
  /\ pollPc = "read" /\ local # lastSeen
  /\ cur' = local /\ curPushed' = pushed /\ lastSeen' = local
  /\ pollPc' = "compare" /\ unseen' = FALSE
  /\ UNCHANGED <<local, remote, rxVars, toHost, toClient, copies, pushed>>

(* Slip: no echo guard. *)
PollCompareSlip ==
  /\ pollPc = "compare" /\ pollPc' = "read"
  /\ toHost' = Append(toHost, Text(cur))
  /\ UNCHANGED <<local, remote, lastSeen, cur, curPushed, rxVars, toClient, copies, pushed, unseen>>

(* The echo guard: a text that came from the host is not sent. *)
PollCompare ==
  /\ pollPc = "compare" /\ pollPc' = "read"
  /\ toHost' = IF cur = lastReceived THEN toHost ELSE Append(toHost, Text(cur))
  /\ UNCHANGED <<local, remote, lastSeen, cur, curPushed, rxVars, toClient, copies, pushed, unseen>>

-----------------------------------------------------------------------------
(* tcp-rx *)

Take(m) ==
  /\ pushing = NoText /\ toClient # <<>> /\ Head(toClient) = m
  /\ toClient' = Tail(toClient)

(* 0x14 with cmd 2: fetch *)
RxChanged ==
  /\ Take(Changed) /\ toHost' = Append(toHost, Fetch)
  /\ UNCHANGED <<local, remote, pollVars, rxVars, copies, pushed, unseen>>

(* 0x1f: the first record stays with the reassembler, which takes every    *)
(* record after it until the text is complete.                             *)
RxFirst(t) ==
  /\ partial = NoText /\ Take(Text(t)) /\ partial' = t
  /\ UNCHANGED <<local, remote, pollVars, lastReceived, pushing, toHost, copies, pushed, unseen>>

(* _handle_clipboard_send notes the text for the guard first ... *)
RxComplete(t) ==
  /\ partial = t /\ Take(Rest(t)) /\ partial' = NoText
  /\ lastReceived' = t /\ pushing' = t
  /\ UNCHANGED <<local, remote, pollVars, toHost, copies, pushed, unseen>>

(* ... and pushes it on the local clipboard then. *)
RxPush ==
  /\ pushing # NoText
  /\ local' = pushing /\ pushing' = NoText
  /\ pushed' = TRUE /\ unseen' = TRUE
  /\ UNCHANGED <<remote, pollVars, lastReceived, partial, toHost, toClient, copies>>

-----------------------------------------------------------------------------

(* The session starts with a fetch in flight; the guard may hold a text of *)
(* the session before.                                                     *)
ClipInit ==
  /\ local \in Texts /\ remote \in Texts
  /\ lastSeen = NoText /\ lastReceived \in Texts \cup {NoText}
  /\ pollPc = "start" /\ cur = NoText
  /\ pushing = NoText /\ partial = NoText
  /\ toHost = <<Fetch>> /\ toClient = <<>>
  /\ copies = 0 /\ pushed = FALSE /\ curPushed = FALSE /\ unseen = FALSE

Poller == PollStart \/ PollRead \/ PollCompare
TcpRx == RxChanged \/ RxPush \/ \E t \in Texts : RxFirst(t) \/ RxComplete(t)

ClipNext ==
  \/ \E t \in Texts : CopyLocal(t) \/ CopyRemote(t)
  \/ HostServes \/ Poller \/ TcpRx

-----------------------------------------------------------------------------

ClipTypeOK ==
  /\ local \in Texts /\ remote \in Texts
  /\ {lastSeen, lastReceived, cur, pushing, partial} \subseteq Texts \cup {NoText}
  /\ copies \in 0 .. MaxCopies /\ {pushed, curPushed, unseen} \subseteq BOOLEAN
  /\ partial # NoText => toClient # <<>> /\ Head(toClient) = Rest(partial)

(* The guard is missed: a text that tcp-rx pushed is sent, because another *)
(* one was noted between the push and the comparison.                      *)
Echo ==
  /\ pollPc = "compare" /\ pollPc' = "read"
  /\ curPushed /\ cur # lastReceived

(* A user copied again, within one period of the poller, the text that     *)
(* tcp-rx had replaced: for the poller nothing changed.                    *)
Missed == unseen /\ ~pushed /\ local = lastSeen

(* Whenever all is worked off, the two clipboards hold the same text or    *)
(* the last copy was missed - also after an echo, which only delays it     *)
(* (_handle_clipboard_send notes a text before it pushes it).              *)
RestAgrees ==
  toHost = <<>> /\ toClient = <<>> /\ pushing = NoText
  /\ pollPc = "read" /\ local = lastSeen
    => local = remote \/ Missed

(* Once both users stop copying, the two clipboards hold the same text and *)
(* nothing bounces between them any more, not even the client's own text   *)
(* that it fetches back - unless the poller's comparison falls between two *)
(* texts of the host for ever, or the last copy was missed.                *)
ClipboardsAgree ==
  <>[][~Echo]_clipVars => 
    <>[]((local = remote \/ Missed) /\ toHost = <<>> /\ toClient = <<>>)
=============================================================================
