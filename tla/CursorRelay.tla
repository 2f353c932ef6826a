------------------------------ MODULE CursorRelay ------------------------------
(***************************************************************************)
(* The host's cursor on its way through a session (proxy/session.py): the  *)
(* host sends a shape under an id, and later the id alone; tcp-rx keeps    *)
(* the shapes it was sent, and hands each change to the callback of the    *)
(* frontend; a frontend that registers late is handed the last one.  The   *)
(* host sends when it was asked since: the sender's ticks ask, and a       *)
(* change of layout does.                                                  *)
(*                                                                         *)
(* A shape is <<id, n>>, the n-th the host drew.                           *)
(***************************************************************************)
EXTENDS Integers, Sequences, SequencesExt

CONSTANTS
  CacheIds,       (* cache ids                                                *)
  CacheSize,      (* 64                                                       *)
  MaxDrawn        (* bound: cursor changes on the host                        *)

CursorAssumption == CacheSize \in Nat \ {0} /\ MaxDrawn \in Nat

NoCursor == <<>>  (* no shape: None                                           *)

VARIABLES
  hostCursor,     (* what the host shows                                      *)
  unsent,         (* ... and has not sent                                     *)
  hostTold,       (* the shape it last sent for each id                       *)
  cursorWire,     (* <<id, shape>>: a new shape, one that cannot be read, or  *)
                  (* the id alone                                             *)
  armed,          (* the host was asked since it last sent                    *)
  cursorCache,    (* _cursor_cache, the oldest entry first                    *)
  lastNotified,   (* _last_cursor_notified                                    *)
  registered,     (* _cursor_callback is set                                  *)
  rxPc, rxImage,  (* tcp-rx between the memory and the callback               *)
  regPc, regImage,       (* the main thread, registering                      *)
  handed,         (* what the frontend was handed last                        *)
  drawnCount,
  unknownNow,     (* history: the last change was to a cursor not known,      *)
  sentId, lateReplay,    (* the id sent last, the replay gave an older shape, *)
  unread          (* the last shape could not be read                         *)

host == <<hostCursor, unsent, hostTold, drawnCount>>
reg == <<registered, regPc, regImage>>
notes == <<unknownNow, sentId, lateReplay, unread>>
cursorVars == <<host, cursorWire, armed, cursorCache, lastNotified, rxPc, rxImage,
                reg, handed, notes>>

AtRest == rxPc = "idle"
Cached(id) == \E i \in DOMAIN cursorCache : cursorCache[i][1] = id

-----------------------------------------------------------------------------
(* The host (external) *)

(* Its cursor changes: to another id, or to a new shape under the same.    *)
HostDraws(id) ==
  /\ drawnCount < MaxDrawn /\ drawnCount' = drawnCount + 1 /\ unsent' = TRUE
  /\ \/ hostTold[id] # NoCursor /\ hostCursor' = hostTold[id]
     \/ hostCursor' = <<id, drawnCount'>>
  /\ UNCHANGED <<hostTold, cursorWire, armed, cursorCache, lastNotified, rxPc, rxImage, reg,
                 handed, notes>>

(* It sends what it shows: the id alone if it believes the viewer has the  *)
(* shape - which may be wrong.                                             *)
HostSends ==
  /\ armed /\ unsent /\ armed' = FALSE /\ unsent' = FALSE
  /\ LET id == hostCursor[1] IN
       /\ \/ /\ hostTold[id] # hostCursor
             /\ \E readable \in BOOLEAN :
                  cursorWire' = Append(cursorWire, [id |-> id, hit |-> FALSE,
                                  shape |-> IF readable THEN hostCursor ELSE NoCursor])
          \/ /\ hostTold[id] \in {hostCursor, NoCursor}
             /\ cursorWire' = Append(cursorWire, [id |-> id, hit |-> TRUE, shape |-> NoCursor])
       /\ hostTold' = [hostTold EXCEPT ![id] = hostCursor]
       /\ sentId' = id
  /\ UNCHANGED <<hostCursor, drawnCount, cursorCache, lastNotified, rxPc, rxImage, reg,
                 handed, unknownNow, lateReplay, unread>>

-----------------------------------------------------------------------------
(* The session *)

(* _maybe_poll_cursor, every tick, and _send_cursor_rearm at a layout.     *)
Ask ==
  /\ ~armed /\ armed' = TRUE
  /\ UNCHANGED <<host, cursorWire, cursorCache, lastNotified, rxPc, rxImage, reg, handed, notes>>

(* A shape under a known id takes its place; else the oldest may go.       *)
Remember(id, shape) ==
  IF Cached(id)
  THEN [i \in DOMAIN cursorCache |->
          IF cursorCache[i][1] = id THEN <<id, shape>> ELSE cursorCache[i]]
  ELSE LET more == Append(cursorCache, <<id, shape>>)
       IN  IF Len(more) > CacheSize THEN Tail(more) ELSE more

(* _notify_cursor: a shape is remembered, no shape is not. *)
Notify(image) ==
  /\ rxPc' = "call" /\ rxImage' = image /\ unknownNow' = (image = NoCursor)
  /\ lastNotified' = IF image = NoCursor THEN lastNotified ELSE image

(* Slip: an id that is not cached is skipped. *)
CursorHitSlip ==
  /\ AtRest /\ cursorWire # <<>> /\ Head(cursorWire).hit
  /\ cursorWire' = Tail(cursorWire) /\ unread' = FALSE
  /\ IF Cached(Head(cursorWire).id)
     THEN \E i \in DOMAIN cursorCache :
            cursorCache[i][1] = Head(cursorWire).id /\ Notify(cursorCache[i][2])
     ELSE UNCHANGED <<rxPc, rxImage, lastNotified, unknownNow>>
  /\ UNCHANGED <<host, armed, cursorCache, reg, handed, sentId, lateReplay>>

(* _handle_cursor_rect: the id alone. *)
CursorHit ==
  /\ AtRest /\ cursorWire # <<>> /\ Head(cursorWire).hit
  /\ cursorWire' = Tail(cursorWire) /\ unread' = FALSE
  /\ IF Cached(Head(cursorWire).id)
     THEN \E i \in DOMAIN cursorCache :
            cursorCache[i][1] = Head(cursorWire).id /\ Notify(cursorCache[i][2])
     ELSE Notify(NoCursor)
  /\ UNCHANGED <<host, armed, cursorCache, reg, handed, sentId, lateReplay>>

(* ... a new shape; one that does not decompress, or has another size than *)
(* it says, is skipped.                                                    *)
CursorShape ==
  /\ AtRest /\ cursorWire # <<>> /\ ~Head(cursorWire).hit
  /\ cursorWire' = Tail(cursorWire)
  /\ LET m == Head(cursorWire) IN
       IF m.shape = NoCursor
       THEN unread' = TRUE /\ UNCHANGED <<cursorCache, rxPc, rxImage, lastNotified, unknownNow>>
       ELSE /\ cursorCache' = Remember(m.id, m.shape)
            /\ Notify(m.shape) /\ unread' = FALSE
  /\ UNCHANGED <<host, armed, reg, handed, sentId, lateReplay>>

(* The callback runs on tcp-rx, once it is set. *)
CallBack ==
  /\ rxPc = "call" /\ rxPc' = "idle" /\ rxImage' = NoCursor
  /\ IF registered THEN handed' = rxImage /\ lateReplay' = FALSE
     ELSE UNCHANGED <<handed, lateReplay>>
  /\ UNCHANGED <<host, cursorWire, armed, cursorCache, lastNotified, reg, unknownNow, sentId, unread>>

(* set_cursor_callback: set, read the last shape, hand it on. *)
Register ==
  /\ regPc = "start" /\ registered' = TRUE
  /\ regImage' = lastNotified
  /\ regPc' = IF lastNotified = NoCursor THEN "done" ELSE "replay"
  /\ UNCHANGED <<host, cursorWire, armed, cursorCache, lastNotified, rxPc, rxImage, handed, notes>>

Replay ==
  /\ regPc = "replay" /\ regPc' = "done" /\ handed' = regImage /\ UNCHANGED regImage
  /\ lateReplay' = (unknownNow \/ lastNotified # regImage)
  /\ UNCHANGED <<host, cursorWire, armed, cursorCache, lastNotified, registered, rxPc, rxImage,
                 unknownNow, sentId, unread>>

-----------------------------------------------------------------------------

CursorInit ==
  /\ hostCursor = NoCursor /\ unsent = FALSE /\ hostTold = [id \in CacheIds |-> NoCursor] /\ drawnCount = 0
  /\ cursorWire = <<>> /\ armed = FALSE /\ cursorCache = <<>> /\ lastNotified = NoCursor
  /\ registered = FALSE /\ rxPc = "idle" /\ rxImage = NoCursor
  /\ regPc = "start" /\ regImage = NoCursor /\ handed = NoCursor
  /\ unknownNow = FALSE /\ sentId = NoCursor /\ lateReplay = FALSE /\ unread = FALSE

CursorNext ==
  \/ \E id \in CacheIds : HostDraws(id)
  \/ HostSends \/ Ask \/ CursorHit \/ CursorShape \/ CallBack \/ Register \/ Replay

-----------------------------------------------------------------------------

CursorTypeOK ==
  /\ Len(cursorCache) <= CacheSize /\ IsInjective([i \in DOMAIN cursorCache |-> cursorCache[i][1]])
  /\ {armed, registered, lateReplay, unread} \subseteq BOOLEAN

(* Once what the host sent has been worked off, the frontend has no        *)
(* cursor but the one the host named last - none, when that is not known - *)
(* unless its shape could not be read, or the shape replayed at            *)
(* registration was not the last change any more.                          *)
CursorAgrees ==
  AtRest /\ cursorWire = <<>> /\ regPc = "done" /\ ~unread /\ ~lateReplay =>
    /\ handed # NoCursor => handed[1] = sentId
    /\ handed # NoCursor => handed = lastNotified
=============================================================================
