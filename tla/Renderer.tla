------------------------------ MODULE Renderer ------------------------------
(***************************************************************************)
(* Frames (src/renderer.c, and the part of pty/screensaver.c that drives   *)
(* it): a screensaver draws each frame into a buffer of cells, and only    *)
(* what differs from the frame presented before is sent to the terminal.   *)
(*                                                                         *)
(* The terminal may be resized at any moment, also while a frame is being  *)
(* drawn or sent.  What a terminal makes of its contents when it is        *)
(* resized is its own affair: every cell is then Lost until written again. *)
(* A cell is one column wide, whatever bytes it holds.                     *)
(*                                                                         *)
(* A definition whose comment begins "Mistake:" is used nowhere: it is a   *)
(* wrong version of the definition after it, which a property must catch.  *)
(***************************************************************************)
EXTENDS Integers

CONSTANTS
  Glyphs,         \* what a cell can hold
  Space,          \* STRANGE_SPACE_CHAR, padded
  Lost,           \* contents of a terminal cell nobody can tell
  TerminalSizes,  \* as [w, h]
  MaxGap,         \* STRANGE_RENDER_RUN_MAX_GAP
  Fallible        \* whether calls may fail

ASSUME RendererAssumption ==
  /\ Space \in Glyphs
  /\ Lost \notin Glyphs
  /\ TerminalSizes \subseteq [w : Nat \ {0}, h : Nat \ {0}]
  /\ MaxGap \in Nat \ {0}
  /\ Fallible \in BOOLEAN

VARIABLES
  stage,      \* the step the screensaver is in
  buffer,     \* context.buffer: the frame being drawn
  presented,  \* context.presented: the frame sent last
  whole,      \* redraw_everything
  row, x,     \* how far the present loop has come
  display,    \* the terminal's size and what its cells show
  disturbed   \* history: resized, and no frame has noticed

contextVars  == <<buffer, presented, whole, row, x>>
rendererVars == <<stage, contextVars, display, disturbed>>

(* "off": not showing; "between": between two frames; "failed": a call     *)
(* failed and the screensaver has yet to leave.                            *)
Phases == {"off", "between", "draw", "present", "failed", "done"}

Cells(size) == (0..(size.h - 1)) \X (0..(size.w - 1))

Filled(size, glyph) ==
  [w |-> size.w, h |-> size.h, cells |-> [c \in Cells(size) |-> glyph]]

(* A struct strange_screen_buffer before its init and after its free.      *)
NoBuffer == Filled([w |-> 0, h |-> 0], Space)

SameSize(a, b) == a.w = b.w /\ a.h = b.h

IsBuffer(b, contents) ==
  /\ b = [w |-> b.w, h |-> b.h, cells |-> b.cells]
  /\ b.w \in Nat /\ b.h \in Nat
  /\ b.cells \in [Cells(b) -> contents]

(* Types, and that two buffers compared cell by cell are of one size.      *)
RendererTypeOK ==
  /\ stage \in Phases
  /\ IsBuffer(buffer, Glyphs)
  /\ IsBuffer(presented, Glyphs)
  /\ IsBuffer(display, Glyphs \cup {Lost})
  /\ whole \in BOOLEAN /\ disturbed \in BOOLEAN
  /\ row \in 0..buffer.h /\ x \in 0..buffer.w
  /\ stage = "present" => SameSize(presented, buffer)
  /\ stage \in {"off", "done"} => buffer = NoBuffer /\ presented = NoBuffer

-----------------------------------------------------------------------------
(* strange_screensaver_enter: a context of the terminal's size, and a      *)
(* cleared screen.  If the screensaver fails to start, nothing remains.    *)
EnterScreensaver ==
  /\ stage = "off"
  /\ stage' = "between"
  /\ buffer' = Filled(display, Space)
  /\ display' = Filled(display, Space)
  /\ disturbed' = FALSE
  /\ UNCHANGED <<presented, whole, row, x>>

EnterFails ==
  /\ Fallible /\ stage = "off"
  /\ stage' = "failed"
  /\ UNCHANGED <<contextVars, display, disturbed>>

(* strange_screen_buffer_resize: the contents do not survive, whether or   *)
(* not the size is a new one.                                              *)
Resized(b, size) == Filled(size, Space)

(* strange_render_context_refresh_size and _begin_frame.                   *)
BeginFrame ==
  /\ stage = "between"
  /\ stage' = "draw"
  /\ buffer' = Resized(buffer, display)
  /\ row' = 0 /\ x' = 0
  /\ disturbed' = (disturbed /\ SameSize(presented, display))
  /\ UNCHANGED <<presented, whole, display>>

(* strange_screen_buffer_write: writes that fall outside are ignored.      *)
WriteCell(b, glyph, r, c) ==
  IF r < 0 \/ c < 0 \/ r >= b.h \/ c >= b.w THEN b
  ELSE [b EXCEPT !.cells[<<r, c>>] = glyph]

(* The screensaver, or the watermark, writes a cell.                       *)
Draw(glyph, r, c) ==
  /\ stage = "draw"
  /\ buffer' = WriteCell(buffer, glyph, r, c)
  /\ UNCHANGED <<stage, presented, whole, row, x, display, disturbed>>

(* The frame sent last still tells what the terminal shows.                *)
PresentedFits == presented # NoBuffer /\ SameSize(presented, buffer)

(* The start of strange_render_context_present.                            *)
BeginPresent ==
  /\ stage = "draw"
  /\ stage' = "present"
  /\ whole' = ~ PresentedFits
  /\ presented' = IF PresentedFits THEN presented ELSE Filled(buffer, Space)
  /\ UNCHANGED <<buffer, row, x, display, disturbed>>

(* Mistake: the last cell of a run is not sent.                            *)
SendShort(r, start, end) ==
  IF SameSize(display, buffer)
  THEN [display EXCEPT !.cells =
          [c \in Cells(display) |->
             IF c[1] = r /\ c[2] \in start..(end - 2) THEN buffer.cells[c]
                                                      ELSE display.cells[c]]]
  ELSE display

(* write_cells.  While the terminal has another size than the frame, the   *)
(* bytes land anywhere: its cells stay Lost, as the resize left them.      *)
Send(r, start, end) ==
  IF SameSize(display, buffer)
  THEN [display EXCEPT !.cells =
          [c \in Cells(display) |->
             IF c[1] = r /\ c[2] \in start..(end - 1) THEN buffer.cells[c]
                                                      ELSE display.cells[c]]]
  ELSE display

SendWholeRow ==
  /\ stage = "present" /\ row < buffer.h /\ whole
  /\ display' = Send(row, 0, buffer.w)
  /\ row' = row + 1
  /\ UNCHANGED <<stage, buffer, presented, whole, x, disturbed>>

Changed(r, c) == buffer.cells[<<r, c>>] # presented.cells[<<r, c>>]

(* write_changed_cells: where the next run of cells to send starts, ...    *)
NextRun ==
  {c \in x..(buffer.w - 1) :
     Changed(row, c) /\ \A d \in x..(c - 1) : ~ Changed(row, d)}

Quiet(r, end) ==
  \A c \in end..(end + MaxGap - 1) : c < buffer.w => ~ Changed(r, c)

(* ... and ends: after the first changed cell that no other follows within *)
(* MaxGap.  Shorter gaps are sent along.                                   *)
EndsRun(start, end) ==
  Quiet(row, end) /\ \A e \in (start + 1)..(end - 1) : ~ Quiet(row, e)

SendRun ==
  /\ stage = "present" /\ row < buffer.h /\ ~ whole
  /\ \E start \in NextRun : \E end \in (start + 1)..buffer.w :
       /\ EndsRun(start, end)
       /\ display' = Send(row, start, end)
       /\ x' = end
  /\ UNCHANGED <<stage, buffer, presented, whole, row, disturbed>>

EndRow ==
  /\ stage = "present" /\ row < buffer.h /\ ~ whole
  /\ \A c \in x..(buffer.w - 1) : ~ Changed(row, c)
  /\ row' = row + 1 /\ x' = 0
  /\ UNCHANGED <<stage, buffer, presented, whole, display, disturbed>>

(* The end of strange_render_context_present.                              *)
EndFrame ==
  /\ stage = "present" /\ row = buffer.h
  /\ presented' = buffer
  /\ stage' = "between"
  /\ UNCHANGED <<buffer, whole, row, x, display, disturbed>>

(* Finding out the size, allocating, drawing or writing failed.            *)
FrameFails ==
  /\ Fallible /\ stage \in {"between", "draw", "present"}
  /\ stage' = "failed"
  /\ UNCHANGED <<contextVars, display, disturbed>>

(* Mistake: the frame sent last is kept for the next time.                 *)
LeaveContext ==
  /\ buffer' = NoBuffer
  /\ row' = 0 /\ x' = 0
  /\ UNCHANGED <<presented, whole>>

(* strange_render_context_destroy                                          *)
DestroyContext ==
  /\ buffer' = NoBuffer /\ presented' = NoBuffer
  /\ row' = 0 /\ x' = 0
  /\ UNCHANGED whole

(* strange_screensaver_leave.  What the terminal shows next is not the     *)
(* screensaver's.  One that failed does not come back.                     *)
LeaveScreensaver ==
  /\ stage \in {"between", "failed"}
  /\ stage' = IF stage = "failed" THEN "done" ELSE "off"
  /\ DestroyContext
  /\ display' = Filled(display, Lost)
  /\ UNCHANGED disturbed

TerminalResized(size) ==
  /\ stage \notin {"off", "done"}
  /\ ~ SameSize(size, display)
  /\ display' = Filled(size, Lost)
  /\ disturbed' = TRUE
  /\ UNCHANGED <<stage, contextVars>>

Done == stage = "done" /\ UNCHANGED rendererVars

RendererNext ==
  \/ EnterScreensaver \/ EnterFails \/ BeginFrame
  \/ \E glyph \in Glyphs, r \in -1..buffer.h, c \in -1..buffer.w : Draw(glyph, r, c)
  \/ BeginPresent \/ SendWholeRow \/ SendRun \/ EndRow \/ EndFrame
  \/ FrameFails \/ LeaveScreensaver
  \/ \E size \in TerminalSizes : TerminalResized(size)
  \/ Done

RendererInit ==
  /\ stage = "off"
  /\ buffer = NoBuffer /\ presented = NoBuffer
  /\ whole = FALSE /\ row = 0 /\ x = 0
  /\ \E size \in TerminalSizes : display = Filled(size, Lost)
  /\ disturbed = FALSE

RendererSpec == RendererInit /\ [][RendererNext]_rendererVars

-----------------------------------------------------------------------------
(* Between two frames, once one was sent.                                  *)
Shown == stage = "between" /\ presented # NoBuffer

(* The terminal shows exactly the frame drawn last, although only the      *)
(* differences were sent: after a resize as soon as a frame has noticed a  *)
(* new size.  A resize that is taken back between two frames goes unseen.  *)
FrameShown == Shown /\ ~ disturbed => display = buffer

-----------------------------------------------------------------------------
(* The inductive invariant behind FrameShown.                              *)

Sent(c) == c[1] < row \/ (c[1] = row /\ c[2] < x)

(* What is known of the terminal as long as no resize went unnoticed.      *)
Agreement ==
  CASE stage = "between" -> presented # NoBuffer => display = presented
    [] stage = "draw"    -> /\ SameSize(display, buffer)
                            /\ PresentedFits => display = presented
    [] stage = "present" -> /\ SameSize(display, buffer)
                            /\ \A c \in Cells(buffer) :
                                 IF Sent(c)
                                 THEN display.cells[c] = buffer.cells[c]
                                 ELSE ~ whole => display.cells[c] = presented.cells[c]
    [] OTHER -> TRUE

FrameInv ==
  /\ RendererTypeOK
  /\ display.w > 0 /\ display.h > 0
  /\ stage \in {"draw", "present"} => buffer.w > 0 /\ buffer.h > 0
  /\ stage = "draw" => row = 0 /\ x = 0
  /\ stage = "present" /\ whole => x = 0
  /\ Shown => presented = buffer
  /\ ~ disturbed => Agreement
=============================================================================
