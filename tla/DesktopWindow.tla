----------------------------- MODULE DesktopWindow -----------------------------
(***************************************************************************)
(* The desktop frontend (frontend/desktop/app.py): one loop on the main    *)
(* thread polls the window system, asks the host for the size the window   *)
(* has, follows the canvas and the display layout the session holds,       *)
(* uploads tiles and draws them with the host's cursor on top.  tcp-rx     *)
(* changes the session's layout and the slot of the pending cursor         *)
(* meanwhile, and the user the window.                                     *)
(*                                                                         *)
(* Sizes, canvases and rectangles are widths; a rectangle is <<x, w>>.     *)
(* The session writes the two sides of its canvas one after the other; a   *)
(* loop that reads between them rebuilds twice.                            *)
(***************************************************************************)
EXTENDS Integers, Sequences

CONSTANTS
  WinSizes,       (* widths the window can have                               *)
  FirstSize,      (* the one it opens with                                    *)
  Cap,            (* largest width the host is asked for                      *)
  MaxResizes,     (* bound: resizes by the user                               *)
  MaxLayouts,     (* bound: layouts the host sends on its own                 *)
  MaxShapes,      (* bound: cursor shapes the host sends, numbered            *)
  Unset           (* no rectangle, no size, no position                       *)

DesktopAssumption ==
  /\ WinSizes \subseteq Nat \ {0} /\ FirstSize \in WinSizes
  /\ Cap \in Nat \ {0}
  /\ {MaxResizes, MaxLayouts, MaxShapes} \subseteq Nat
  /\ Unset \notin Int \cup (Nat \X Nat) \cup [canvas : Nat, rects : Seq(Nat \X Nat)]

NoShape == 0
NoChange == -1    (* _NO_PENDING                                              *)
Revert == -2      (* None: a cache miss, the host's cursor is unknown         *)

VARIABLES
  (* the session *)
  rects, runtime, negotiated, (* _display_rects, _runtime_canvas, and before it*)
  laying,                     (* layout between the two assignments           *)
  cursorSlot,                 (* _pending_cursor                              *)
  (* the window and the loop *)
  mode, dynamic,              (* display_all, --display N or neither; _dynamic*)
  winSize, guard, pendSize,   (* cur_adv, pending_size                        *)
  canvas, source, viewCrop, autoGap, spawned, views, cropApplied,
  shape, overlay, hidden, dirty, drawn, (* _last_cursor_img, the renderer's    *)
                              (* cursor, _os_cursor_hidden, _cursor_dirty     *)
  pointer, firstSeen,
  deskPc,
  (* the host and the user *)
  toServer, toViewer, resizes, onOwn, shapes,
  (* history *)
  askedFor, resynced, staleCrop

sessionSide == <<rects, runtime, negotiated, laying>>
sizeVars == <<guard, pendSize>>
cropVars == <<source, viewCrop, autoGap, spawned, views, cropApplied>>
cursorVars == <<shape, overlay, hidden, dirty, drawn, pointer>>
outside == <<toServer, toViewer, resizes, onOwn, shapes>>
history == <<askedFor, resynced, staleCrop>>
deskVars == <<sessionSide, cursorSlot, mode, dynamic, winSize, sizeVars, canvas,
              cropVars, cursorVars, firstSeen, deskPc, outside, history>>

Least(a, b) == IF a < b THEN a ELSE b

(* _resolve_hidpi_request *)
Request(size) == Least(size, Cap)

(* send_dynamic_resolution *)
SendDynamicResolution(size) ==
  toServer' = Append(toServer, Request(size)) /\ askedFor' = Request(size)

(* canvas_dims *)
CanvasDims == IF runtime # 0 THEN runtime ELSE negotiated

(* A layout has one display, or two side by side; one may leave a gap.     *)
LayoutsOf(c) ==
  {[canvas |-> c, rects |-> r] :
     r \in {<< <<0, c>> >>, << <<0, 1>> >>} \cup
           (IF c > 1 THEN {<< <<0, 1>>, <<1, c - 1>> >>} ELSE {})}

(* display_content_rect: the bounds of the displays, unless they cover     *)
(* the canvas.                                                             *)
ContentRect ==
  IF rects = <<>> THEN Unset
  ELSE LET right == Least(CanvasDims, rects[Len(rects)][1] + rects[Len(rects)][2])
       IN  IF right = CanvasDims THEN Unset ELSE <<0, right>>

-----------------------------------------------------------------------------
(* The user and the host (external) *)

UserResizes(s) ==
  /\ resizes < MaxResizes /\ s # winSize
  /\ resizes' = resizes + 1 /\ winSize' = s
  /\ UNCHANGED <<sessionSide, cursorSlot, mode, dynamic, sizeVars, canvas, cropVars,
                 cursorVars, firstSeen, deskPc, toServer, toViewer,
                 onOwn, shapes, history>>

(* The host answers a request, or changes its layout by itself.            *)
HostLays(l) ==
  /\ \/ /\ toServer # <<>> /\ l \in LayoutsOf(Head(toServer))
        /\ toServer' = Tail(toServer) /\ UNCHANGED onOwn
     \/ onOwn < MaxLayouts /\ onOwn' = onOwn + 1 /\ UNCHANGED toServer
  /\ toViewer' = Append(toViewer, l)
  /\ UNCHANGED <<sessionSide, cursorSlot, mode, dynamic, winSize, sizeVars, canvas, cropVars,
                 cursorVars, firstSeen, deskPc, resizes, shapes, history>>

-----------------------------------------------------------------------------
(* tcp-rx *)

(* _handle_fbu with 0x451: the displays first ...                          *)
LayoutRects ==
  /\ laying = Unset /\ toViewer # <<>>
  /\ laying' = Head(toViewer) /\ toViewer' = Tail(toViewer)
  /\ rects' = Head(toViewer).rects
  /\ UNCHANGED <<runtime, negotiated, cursorSlot, mode, dynamic, winSize, sizeVars, canvas,
                 cropVars, cursorVars, firstSeen, deskPc, toServer,
                 resizes, onOwn, shapes, history>>

(* ... then the canvas; when it changed, the media is offered again.       *)
LayoutCanvas ==
  /\ laying # Unset /\ laying' = Unset
  /\ runtime' = laying.canvas
  /\ staleCrop' = (staleCrop \/ (spawned /\ laying.canvas = canvas))
  /\ UNCHANGED <<rects, negotiated, cursorSlot, mode, dynamic, winSize, sizeVars, canvas,
                 cropVars, cursorVars, firstSeen, deskPc, toServer, toViewer, 
                 resizes, onOwn, shapes, askedFor, resynced>>

(* _on_cursor: the slot holds one change, the last.                        *)
OnCursor ==
  /\ shapes < MaxShapes /\ shapes' = shapes + 1
  /\ cursorSlot' \in {shapes', Revert}
  /\ UNCHANGED <<sessionSide, mode, dynamic, winSize, sizeVars, canvas, cropVars, cursorVars,
                 firstSeen, deskPc, toServer, toViewer, resizes, onOwn,
                 history>>

-----------------------------------------------------------------------------
(* The loop, one section after another *)

At(place, next) == deskPc = place /\ deskPc' = next

(* The rectangle the pointer is mapped through: that of the window it is   *)
(* over while a button drags it across windows, else the primary's own.    *)
PointerRects(drag) ==
  IF drag /\ views # {} THEN views
  ELSE {IF viewCrop # Unset THEN viewCrop
        ELSE IF source # Unset THEN source ELSE <<0, canvas>>}

(* to_canvas at the left edge, the middle or the right edge of the window  *)
ToCanvas(half, r) ==
  Least(canvas - 1, r[1] + Least(r[2] - 1, (half * r[2]) \div 2))

(* poll_events, with a pointer move or without; then _apply_pending_cursor, *)
(* which keeps the shape it has when the host's is unknown.  The local      *)
(* pointer is hidden once the overlay can be drawn, and never shown again.  *)
PollEvents ==
  /\ At("top", "resize")
  /\ \/ UNCHANGED pointer
     \/ \E drag \in BOOLEAN, half \in {0, 2} : \E r \in PointerRects(drag) :
          pointer' = ToCanvas(half, r)
  /\ cursorSlot' = NoChange
  /\ IF cursorSlot \in {NoChange, Revert}
     THEN UNCHANGED <<shape, overlay, dirty>>
     ELSE shape' = cursorSlot /\ overlay' = cursorSlot /\ dirty' = TRUE
  /\ hidden' = (hidden \/ (shape' # NoShape /\ pointer' # Unset))
  /\ UNCHANGED <<sessionSide, mode, dynamic, winSize, sizeVars, canvas, cropVars, drawn,
                 firstSeen, outside, history>>

(* The window was closed, the device or the connection lost.               *)
Leave ==
  /\ At("resize", "closed")
  /\ UNCHANGED <<sessionSide, cursorSlot, mode, dynamic, winSize, sizeVars, canvas, cropVars,
                 cursorVars, firstSeen, outside, history>>

(* _poll_resize: a size that differs from the one acted on last must hold  *)
(* for the debounce time before it is asked for.                           *)
PollResize ==
  /\ At("resize", "canvas")
  /\ \/ /\ dynamic /\ winSize # guard /\ pendSize = winSize
        /\ SendDynamicResolution(winSize) /\ resynced' = FALSE
        /\ guard' = winSize /\ pendSize' = Unset
     \/ /\ pendSize' = IF dynamic /\ winSize # guard THEN winSize
                       ELSE IF dynamic THEN Unset ELSE pendSize
        /\ UNCHANGED <<toServer, askedFor, resynced, guard>>
  /\ UNCHANGED <<sessionSide, cursorSlot, mode, dynamic, winSize, canvas, cropVars, cursorVars,
                 firstSeen, toViewer, resizes, onOwn, shapes, staleCrop>>

(* Slip: the new renderer starts without the cursor.                       *)
ApplyNewCanvasSlip ==
  /\ At("canvas", "windows") /\ CanvasDims # canvas
  /\ canvas' = CanvasDims /\ firstSeen' = FALSE
  /\ autoGap' = (autoGap \/ (mode = "all" /\ spawned /\ views = {} /\ ContentRect # Unset))
  /\ viewCrop' = IF autoGap' THEN ContentRect ELSE viewCrop
  /\ source' = IF autoGap' THEN viewCrop' ELSE Unset
  /\ overlay' = NoShape
  /\ resynced' = (resynced \/ (dynamic /\ guard # winSize))
  /\ guard' = winSize /\ staleCrop' = FALSE
  /\ UNCHANGED <<sessionSide, cursorSlot, mode, dynamic, winSize, pendSize, spawned, views,
                 cropApplied, shape, hidden, dirty, drawn, pointer, outside,
                 askedFor>>

(* _apply_new_canvas: a new renderer, with the cursor and the corrective   *)
(* crop but without that of --display; and the size acted on is now the    *)
(* one the window has, whether it was asked for or not.                    *)
ApplyNewCanvas ==
  /\ At("canvas", "windows") /\ CanvasDims # canvas
  /\ canvas' = CanvasDims /\ firstSeen' = FALSE
  /\ autoGap' = (autoGap \/ (mode = "all" /\ spawned /\ views = {} /\ ContentRect # Unset))
  /\ viewCrop' = IF autoGap' THEN ContentRect ELSE viewCrop
  /\ source' = IF autoGap' THEN viewCrop' ELSE Unset
  /\ overlay' = shape
  /\ resynced' = (resynced \/ (dynamic /\ guard # winSize))
  /\ guard' = winSize /\ staleCrop' = FALSE
  /\ UNCHANGED <<sessionSide, cursorSlot, mode, dynamic, winSize, pendSize, spawned, views,
                 cropApplied, shape, hidden, dirty, drawn, pointer, outside,
                 askedFor>>

SameCanvas ==
  /\ At("canvas", "windows") /\ CanvasDims = canvas
  /\ UNCHANGED <<sessionSide, cursorSlot, mode, dynamic, winSize, sizeVars, canvas, cropVars,
                 cursorVars, firstSeen, outside, history>>

(* _spawn_secondary: each window keeps the rectangle it was given. *)
SpawnViews == {rects[i] : i \in DOMAIN rects}

(* The first layout: a window for each display, which ends the following   *)
(* of the window's size; or one window, cropped when the display is        *)
(* smaller than the canvas.                                                *)
SpawnWindows ==
  /\ At("windows", "tiles") /\ mode = "all" /\ ~spawned /\ rects # <<>>
  /\ spawned' = TRUE
  /\ \/ /\ Len(rects) > 1
        /\ dynamic' = FALSE /\ viewCrop' = rects[1]
        /\ views' = SpawnViews
        /\ UNCHANGED <<autoGap, source>>
     \/ /\ Len(rects) = 1 /\ ContentRect # Unset
        /\ viewCrop' = ContentRect /\ source' = ContentRect /\ autoGap' = TRUE
        /\ UNCHANGED <<dynamic, views>>
     \/ /\ Len(rects) = 1 /\ ContentRect = Unset
        /\ UNCHANGED <<dynamic, viewCrop, views, autoGap, source>>
  /\ UNCHANGED <<sessionSide, cursorSlot, mode, winSize, sizeVars, canvas, cropApplied,
                 cursorVars, firstSeen, outside, history>>

(* A window of another display that the user closed leaves the registry.   *)
ReapWindows ==
  /\ At("windows", "tiles") /\ (mode = "all" /\ rects # <<>> => spawned)
  /\ \/ UNCHANGED views
     \/ \E v \in views \ {viewCrop} : views' = views \ {v}
  /\ UNCHANGED <<sessionSide, cursorSlot, mode, dynamic, winSize, sizeVars, canvas, source,
                 viewCrop, autoGap, spawned, cropApplied, cursorVars, firstSeen, outside, history>>

(* The draw callback asserts the window's own crop, and that of --display  *)
(* once the layout is there - once.                                        *)
AssertCrop ==
  /\ cropApplied' = (cropApplied \/ rects # <<>>)
  /\ source' = IF viewCrop # Unset THEN viewCrop
               ELSE IF ~cropApplied /\ rects # <<>> THEN rects[1] ELSE source

(* What tiles arrived go to the renderer, and the loop presents when there *)
(* were some or the cursor changed.                                        *)
UploadAndPresent(tiles) ==
  /\ At("tiles", "top")
  /\ firstSeen' = (firstSeen \/ tiles)
  /\ IF firstSeen' /\ (tiles \/ dirty)
     THEN drawn' = overlay /\ dirty' = FALSE /\ AssertCrop
     ELSE UNCHANGED <<drawn, dirty, cropApplied, source>>
  /\ UNCHANGED <<sessionSide, cursorSlot, mode, dynamic, winSize, sizeVars, canvas, viewCrop,
                 autoGap, spawned, views, shape, overlay, hidden, pointer, toServer, toViewer,
                 resizes, onOwn, shapes, history>>

-----------------------------------------------------------------------------

DeskInit ==
  /\ mode \in {"all", "one", "whole"}
  /\ dynamic \in BOOLEAN /\ (mode = "one" => ~dynamic)
  /\ winSize = FirstSize
  /\ rects = <<>> /\ runtime = 0 /\ negotiated = Request(winSize) /\ laying = Unset
  /\ cursorSlot = NoChange
  /\ guard = winSize /\ pendSize = Unset
  /\ canvas = negotiated /\ source = Unset /\ viewCrop = Unset /\ autoGap = FALSE
  /\ spawned = FALSE /\ views = {} /\ cropApplied = (mode # "one")
  /\ shape = NoShape /\ overlay = NoShape /\ hidden = FALSE /\ dirty = FALSE
  /\ drawn = NoShape /\ pointer = Unset
  /\ firstSeen = FALSE /\ deskPc = "top"
  /\ toServer = <<>> /\ toViewer = <<>>
  /\ resizes = 0 /\ onOwn = 0 /\ shapes = 0
  /\ askedFor = negotiated /\ resynced = FALSE /\ staleCrop = FALSE

Loop ==
  \/ PollEvents \/ PollResize \/ ApplyNewCanvas \/ SameCanvas
  \/ SpawnWindows \/ ReapWindows \/ \E tiles \in BOOLEAN : UploadAndPresent(tiles)
Layout == LayoutRects \/ LayoutCanvas

DeskNext ==
  \/ \E s \in WinSizes : UserResizes(s)
  \/ \E c \in {Request(s) : s \in WinSizes} : \E l \in LayoutsOf(c) : HostLays(l)
  \/ Layout \/ OnCursor \/ Loop \/ Leave

-----------------------------------------------------------------------------

DeskTypeOK ==
  /\ winSize \in WinSizes /\ guard \in WinSizes /\ pendSize \in WinSizes \cup {Unset}
  /\ deskPc \in {"top", "resize", "canvas", "windows", "tiles", "closed"}
  /\ {dynamic, autoGap, spawned, cropApplied, hidden, dirty, firstSeen} \subseteq BOOLEAN
  /\ pointer = Unset \/ pointer \in 0 .. Cap - 1

(* The local pointer is hidden only while the overlay has the host's       *)
(* cursor to show instead - also right after the renderer was replaced,    *)
(* and when the host's cursor is unknown.                                  *)
PointerVisible == hidden => shape # NoShape /\ overlay = shape

(* The loop has caught up with the window, the session and the host. *)
AtRest ==
  /\ deskPc = "top" /\ toServer = <<>> /\ toViewer = <<>> /\ laying = Unset
  /\ cursorSlot = NoChange /\ ~dirty /\ firstSeen
  /\ canvas = CanvasDims /\ (dynamic => guard = winSize)

(* Once the loop has caught up: the host was asked for the size the window *)
(* has, unless a reply to an earlier request came within the debounce time *)
(* and took the new size for one that had been asked for; the cursor that  *)
(* is drawn is the last one taken; and one window shows just what the      *)
(* display covers, unless a layout changed that on a canvas of the same    *)
(* size.                                                                   *)
FollowsAtRest ==
  AtRest =>
    /\ dynamic => askedFor = Request(winSize) \/ resynced
    /\ drawn = shape
    /\ mode = "all" /\ spawned /\ views = {} => viewCrop = ContentRect \/ staleCrop
=============================================================================
