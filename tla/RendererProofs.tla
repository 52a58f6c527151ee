--------------------------- MODULE RendererProofs ---------------------------
(***************************************************************************)
(* Proofs about Renderer: whatever the terminal's sizes, the glyphs and    *)
(* the length of the gaps that are bridged, the terminal shows the frame   *)
(* that was drawn although only differences are sent.                      *)
(***************************************************************************)
EXTENDS Renderer, TLAPS

USE RendererAssumption

LEMMA FilledIsBuffer ==
  ASSUME NEW size, size.w \in Nat, size.h \in Nat, NEW S, NEW g \in S
  PROVE  /\ IsBuffer(Filled(size, g), S)
         /\ SameSize(Filled(size, g), size)
         /\ Filled(size, g).w = size.w /\ Filled(size, g).h = size.h
BY DEF Filled, IsBuffer, SameSize, Cells

LEMMA NoBufferIsBuffer ==
  IsBuffer(NoBuffer, Glyphs) /\ NoBuffer.w = 0 /\ NoBuffer.h = 0
BY FilledIsBuffer DEF NoBuffer

(* Two buffers with the same size and the same cells are the same.         *)
LEMMA BufferEqual ==
  ASSUME NEW S, NEW T, NEW a, NEW b, IsBuffer(a, S), IsBuffer(b, T),
         SameSize(a, b), \A c \in Cells(a) : a.cells[c] = b.cells[c]
  PROVE  a = b
<1>1. Cells(a) = Cells(b)
  BY DEF SameSize, Cells
<1>2. a.cells = b.cells
  BY <1>1 DEF IsBuffer
<1> QED BY <1>2 DEF IsBuffer, SameSize

LEMMA WriteIsBuffer ==
  ASSUME NEW b, IsBuffer(b, Glyphs), NEW g \in Glyphs, NEW r \in Int, NEW c \in Int
  PROVE  IsBuffer(WriteCell(b, g, r, c), Glyphs) /\ SameSize(WriteCell(b, g, r, c), b)
BY DEF IsBuffer, WriteCell, SameSize, Cells

LEMMA SendEffect ==
  ASSUME RendererTypeOK, NEW r, NEW start, NEW end
  PROVE  /\ IsBuffer(Send(r, start, end), Glyphs \cup {Lost})
         /\ SameSize(Send(r, start, end), display)
         /\ SameSize(display, buffer) =>
              \A c \in Cells(buffer) :
                Send(r, start, end).cells[c]
                  = IF c[1] = r /\ c[2] \in start..(end - 1)
                    THEN buffer.cells[c] ELSE display.cells[c]
<1>1. CASE ~ SameSize(display, buffer)
  BY <1>1 DEF Send, RendererTypeOK, SameSize
<1>2. CASE SameSize(display, buffer)
  <2>1. Cells(display) = Cells(buffer)
    BY <1>2 DEF SameSize, Cells
  <2>2. /\ buffer.cells \in [Cells(buffer) -> Glyphs]
        /\ IsBuffer(display, Glyphs \cup {Lost})
    BY DEF RendererTypeOK, IsBuffer
  <2>3. Send(r, start, end) = [w |-> display.w, h |-> display.h,
          cells |-> [c \in Cells(display) |->
             IF c[1] = r /\ c[2] \in start..(end - 1) THEN buffer.cells[c]
                                                      ELSE display.cells[c]]]
    BY <1>2, <2>2 DEF Send, IsBuffer
  <2> QED BY <2>1, <2>2, <2>3 DEF IsBuffer, SameSize, Cells
<1> QED BY <1>1, <1>2

LEMMA FrameInit == RendererInit => FrameInv
<1> SUFFICES ASSUME RendererInit PROVE FrameInv
  OBVIOUS
<1>1. PICK size \in TerminalSizes : display = Filled(size, Lost)
  BY DEF RendererInit
<1>2. size.w \in Nat \ {0} /\ size.h \in Nat \ {0}
  BY <1>1
<1>3. Lost \in Glyphs \cup {Lost}
  OBVIOUS
<1>4. IsBuffer(display, Glyphs \cup {Lost}) /\ display.w > 0 /\ display.h > 0
  <2>1. /\ IsBuffer(Filled(size, Lost), Glyphs \cup {Lost})
        /\ Filled(size, Lost).w = size.w /\ Filled(size, Lost).h = size.h
    BY <1>2, <1>3, FilledIsBuffer
  <2> QED BY <1>1, <1>2, <2>1
<1>5. RendererTypeOK
  <2>1. buffer = NoBuffer /\ presented = NoBuffer /\ row = 0 /\ x = 0
        /\ stage = "off" /\ whole = FALSE /\ disturbed = FALSE
    BY DEF RendererInit
  <2>2. row \in 0..buffer.h /\ x \in 0..buffer.w
    BY <2>1, NoBufferIsBuffer
  <2>3. IsBuffer(buffer, Glyphs) /\ IsBuffer(presented, Glyphs)
    BY <2>1, NoBufferIsBuffer
  <2> QED BY <1>4, <2>1, <2>2, <2>3 DEF RendererTypeOK, Phases
<1> QED BY <1>4, <1>5 DEF FrameInv, RendererInit, Agreement, Shown

(* What an invariant state says of its parts, for citing.                  *)
LEMMA Known ==
  ASSUME FrameInv
  PROVE  /\ stage \in Phases
         /\ IsBuffer(buffer, Glyphs) /\ IsBuffer(presented, Glyphs)
         /\ IsBuffer(display, Glyphs \cup {Lost})
         /\ buffer.w \in Nat /\ buffer.h \in Nat
         /\ presented.w \in Nat /\ presented.h \in Nat
         /\ display.w \in Nat \ {0} /\ display.h \in Nat \ {0}
         /\ row \in 0..buffer.h /\ x \in 0..buffer.w
         /\ Space \in Glyphs /\ Space \in Glyphs \cup {Lost}
         /\ Lost \in Glyphs \cup {Lost}
BY DEF FrameInv, RendererTypeOK, IsBuffer

(* Taking over the screen, giving it back, and failing.                    *)
LEMMA EnterStep == FrameInv /\ EnterScreensaver => FrameInv'
<1> SUFFICES ASSUME FrameInv, EnterScreensaver PROVE FrameInv'
  OBVIOUS
<1> USE Known
<1>1. buffer = NoBuffer /\ presented = NoBuffer /\ row = 0 /\ x = 0
  BY NoBufferIsBuffer DEF FrameInv, RendererTypeOK, EnterScreensaver
<1>2. /\ IsBuffer(Filled(display, Space), Glyphs)
      /\ IsBuffer(Filled(display, Space), Glyphs \cup {Lost})
      /\ Filled(display, Space).w = display.w
      /\ Filled(display, Space).h = display.h
  BY FilledIsBuffer
<1>3. /\ stage' = "between" /\ buffer' = Filled(display, Space)
      /\ display' = Filled(display, Space) /\ disturbed' = FALSE
      /\ presented' = NoBuffer /\ whole' = whole
      /\ row' = 0 /\ x' = 0
  BY <1>1 DEF EnterScreensaver
<1>4. /\ IsBuffer(buffer', Glyphs) /\ IsBuffer(presented', Glyphs)
      /\ IsBuffer(display', Glyphs \cup {Lost})
  BY <1>2, <1>3, NoBufferIsBuffer
<1>5. row' \in 0..buffer'.h /\ x' \in 0..buffer'.w
  BY <1>2, <1>3
<1>6. RendererTypeOK'
  BY <1>3, <1>4, <1>5 DEF RendererTypeOK, FrameInv, Phases
<1> QED BY <1>2, <1>3, <1>6 DEF FrameInv, Agreement, Shown

LEMMA FailStep == FrameInv /\ (EnterFails \/ FrameFails) => FrameInv'
<1> SUFFICES ASSUME FrameInv, EnterFails \/ FrameFails PROVE FrameInv'
  OBVIOUS
<1>1. /\ stage' = "failed"
      /\ UNCHANGED <<buffer, presented, whole, row, x, display, disturbed>>
  BY DEF EnterFails, FrameFails, contextVars
<1>2. RendererTypeOK'
  BY <1>1 DEF RendererTypeOK, FrameInv, Phases
<1> QED BY <1>1, <1>2 DEF FrameInv, Agreement, Shown

LEMMA LeaveStep == FrameInv /\ LeaveScreensaver => FrameInv'
<1> SUFFICES ASSUME FrameInv, LeaveScreensaver PROVE FrameInv'
  OBVIOUS
<1> USE Known
<1>1. /\ buffer' = NoBuffer /\ presented' = NoBuffer /\ row' = 0 /\ x' = 0
      /\ display' = Filled(display, Lost) /\ stage' \in {"off", "done"}
      /\ UNCHANGED <<whole, disturbed>>
  BY DEF LeaveScreensaver, DestroyContext
<1>2. /\ IsBuffer(Filled(display, Lost), Glyphs \cup {Lost})
      /\ Filled(display, Lost).w = display.w
      /\ Filled(display, Lost).h = display.h
  BY FilledIsBuffer
<1>3. row' \in 0..buffer'.h /\ x' \in 0..buffer'.w
  BY <1>1, NoBufferIsBuffer
<1>4. IsBuffer(buffer', Glyphs) /\ IsBuffer(presented', Glyphs)
      /\ IsBuffer(display', Glyphs \cup {Lost})
  BY <1>1, <1>2, NoBufferIsBuffer
<1>5. RendererTypeOK'
  BY <1>1, <1>3, <1>4 DEF RendererTypeOK, FrameInv, Phases
<1> QED BY <1>1, <1>2, <1>5 DEF FrameInv, Agreement, Shown

(* A resize disturbs whatever was known of the terminal.                   *)
LEMMA ResizeStep ==
  ASSUME FrameInv, NEW size \in TerminalSizes, TerminalResized(size)
  PROVE  FrameInv'
<1> USE Known
<1>1. size.w \in Nat \ {0} /\ size.h \in Nat \ {0}
  OBVIOUS
<1>2. /\ IsBuffer(Filled(size, Lost), Glyphs \cup {Lost})
      /\ Filled(size, Lost).w = size.w /\ Filled(size, Lost).h = size.h
  BY <1>1, FilledIsBuffer
<1>3. /\ display' = Filled(size, Lost) /\ disturbed' = TRUE
      /\ UNCHANGED <<stage, buffer, presented, whole, row, x>>
  BY DEF TerminalResized, contextVars
<1>4. RendererTypeOK'
  BY <1>2, <1>3 DEF RendererTypeOK, FrameInv, SameSize
<1> QED BY <1>1, <1>2, <1>3, <1>4 DEF FrameInv, Shown

(* A new frame takes the size the terminal has now.                        *)
LEMMA BeginFrameStep == FrameInv /\ BeginFrame => FrameInv'
<1> SUFFICES ASSUME FrameInv, BeginFrame PROVE FrameInv'
  OBVIOUS
<1> USE Known
<1>1. /\ IsBuffer(Filled(display, Space), Glyphs)
      /\ Filled(display, Space).w = display.w
      /\ Filled(display, Space).h = display.h
  BY FilledIsBuffer
<1>2. /\ stage = "between" /\ stage' = "draw" /\ buffer' = Filled(display, Space)
      /\ row' = 0 /\ x' = 0
      /\ disturbed' = (disturbed /\ SameSize(presented, display))
      /\ UNCHANGED <<presented, whole, display>>
  BY DEF BeginFrame, Resized
<1>3. RendererTypeOK'
  BY <1>1, <1>2 DEF RendererTypeOK, FrameInv, Phases
<1>4. ~ disturbed' => Agreement'
  <2> SUFFICES ASSUME ~ disturbed', PresentedFits' PROVE display' = presented'
    BY <1>1, <1>2 DEF Agreement, SameSize
  <2>1. presented # NoBuffer /\ SameSize(presented, display)
    BY <1>1, <1>2 DEF PresentedFits, SameSize
  <2>2. ~ disturbed
    BY <1>2, <2>1
  <2> QED BY <1>2, <2>1, <2>2 DEF FrameInv, Agreement
<1> QED BY <1>1, <1>2, <1>3, <1>4 DEF FrameInv, Shown

LEMMA DrawStep ==
  ASSUME FrameInv, NEW glyph \in Glyphs, NEW r \in Int, NEW c \in Int,
         Draw(glyph, r, c)
  PROVE  FrameInv'
<1> USE Known
<1>1. IsBuffer(WriteCell(buffer, glyph, r, c), Glyphs)
      /\ SameSize(WriteCell(buffer, glyph, r, c), buffer)
  BY WriteIsBuffer
<1>2. /\ buffer' = WriteCell(buffer, glyph, r, c) /\ stage = "draw" /\ stage' = "draw"
      /\ UNCHANGED <<presented, whole, row, x, display, disturbed>>
  BY DEF Draw
<1>3. buffer'.w = buffer.w /\ buffer'.h = buffer.h
  BY <1>1, <1>2 DEF SameSize
<1>4. RendererTypeOK'
  BY <1>1, <1>2, <1>3 DEF RendererTypeOK, FrameInv
<1>5. ~ disturbed => Agreement'
  BY <1>2, <1>3 DEF FrameInv, Agreement, PresentedFits, SameSize
<1> QED BY <1>2, <1>3, <1>4, <1>5 DEF FrameInv, Shown

(* Sending a frame.                                                        *)
LEMMA BeginPresentStep == FrameInv /\ BeginPresent => FrameInv'
<1> SUFFICES ASSUME FrameInv, BeginPresent PROVE FrameInv'
  OBVIOUS
<1> USE Known
<1>1. /\ IsBuffer(Filled(buffer, Space), Glyphs)
      /\ Filled(buffer, Space).w = buffer.w /\ Filled(buffer, Space).h = buffer.h
  BY FilledIsBuffer
<1>2. /\ stage = "draw" /\ stage' = "present" /\ whole' = ~ PresentedFits
      /\ presented' = IF PresentedFits THEN presented ELSE Filled(buffer, Space)
      /\ UNCHANGED <<buffer, row, x, display, disturbed>>
  BY DEF BeginPresent
<1>3. /\ buffer.w > 0 /\ buffer.h > 0 /\ row = 0 /\ x = 0
  BY <1>2 DEF FrameInv
<1>4. IsBuffer(presented', Glyphs) /\ SameSize(presented', buffer)
  BY <1>1, <1>2 DEF PresentedFits, SameSize
<1>5. whole' \in BOOLEAN
  BY <1>2 DEF PresentedFits
<1>6. RendererTypeOK'
  BY <1>2, <1>4, <1>5 DEF RendererTypeOK, FrameInv, Phases, SameSize
<1>7. ~ disturbed => Agreement'
  <2> SUFFICES ASSUME ~ disturbed PROVE Agreement'
    OBVIOUS
  <2>1. SameSize(display, buffer) /\ (PresentedFits => display = presented)
    BY <1>2 DEF FrameInv, Agreement
  <2>2. ASSUME NEW c \in Cells(buffer) PROVE ~ Sent(c)'
    BY <1>2, <1>3 DEF Sent, Cells
  <2>3. ~ whole' => display' = presented'
    BY <1>2, <2>1
  <2>4. Cells(buffer') = Cells(buffer)
    BY <1>2
  <2>5. SameSize(display', buffer')
    BY <1>2, <2>1
  <2> QED BY <1>2, <2>2, <2>3, <2>4, <2>5 DEF Agreement
<1> QED BY <1>2, <1>3, <1>6, <1>7 DEF FrameInv, Shown

LEMMA SendWholeRowStep == FrameInv /\ SendWholeRow => FrameInv'
<1> SUFFICES ASSUME FrameInv, SendWholeRow PROVE FrameInv'
  OBVIOUS
<1> USE Known
<1>1. /\ stage = "present" /\ row < buffer.h /\ whole /\ row' = row + 1
      /\ display' = Send(row, 0, buffer.w)
      /\ UNCHANGED <<stage, buffer, presented, whole, x, disturbed>>
  BY DEF SendWholeRow
<1>2. x = 0
  BY <1>1 DEF FrameInv
<1>3. RendererTypeOK
  BY DEF FrameInv
<1>4. /\ IsBuffer(display', Glyphs \cup {Lost}) /\ SameSize(display', display)
      /\ SameSize(display, buffer) =>
           \A c \in Cells(buffer) :
             display'.cells[c] = IF c[1] = row /\ c[2] \in 0..(buffer.w - 1)
                                  THEN buffer.cells[c] ELSE display.cells[c]
  <2>1. /\ IsBuffer(Send(row, 0, buffer.w), Glyphs \cup {Lost})
        /\ SameSize(Send(row, 0, buffer.w), display)
        /\ SameSize(display, buffer) =>
             \A c \in Cells(buffer) :
               Send(row, 0, buffer.w).cells[c]
                 = IF c[1] = row /\ c[2] \in 0..(buffer.w - 1)
                   THEN buffer.cells[c] ELSE display.cells[c]
    BY ONLY <1>3, SendEffect, Z3T(30)
  <2> QED BY <1>1, <2>1
<1>5. RendererTypeOK'
  BY <1>1, <1>3, <1>4 DEF RendererTypeOK, SameSize
<1>6. ~ disturbed => Agreement'
  <2> SUFFICES ASSUME ~ disturbed PROVE Agreement'
    OBVIOUS
  <2>1. /\ SameSize(display, buffer)
        /\ \A c \in Cells(buffer) : Sent(c) => display.cells[c] = buffer.cells[c]
    BY <1>1 DEF FrameInv, Agreement
  <2>2. ASSUME NEW c \in Cells(buffer), Sent(c)'
        PROVE  display'.cells[c] = buffer'.cells[c]
    <3>1. c[1] \in 0..(buffer.h - 1) /\ c[2] \in 0..(buffer.w - 1)
      BY DEF Cells
    <3>2. c[1] <= row
      BY <1>1, <1>2, <2>2, <3>1 DEF Sent
    <3>3. CASE c[1] = row
      BY <1>1, <1>4, <2>1, <3>1, <3>3
    <3>4. CASE c[1] < row
      BY <1>1, <1>4, <2>1, <3>1, <3>4 DEF Sent
    <3> QED BY <3>1, <3>2, <3>3, <3>4
  <2>3. SameSize(display', buffer')
    BY <1>1, <1>4, <2>1 DEF SameSize
  <2>4. Cells(buffer') = Cells(buffer)
    BY <1>1
  <2> QED BY <1>1, <2>2, <2>3, <2>4 DEF Agreement
<1> QED BY <1>1, <1>2, <1>4, <1>5, <1>6 DEF FrameInv, SameSize, Shown

(* The cells before a run are unchanged, so what the terminal shows of     *)
(* them is what the frame has there.                                       *)
LEMMA SendRunStep == FrameInv /\ SendRun => FrameInv'
<1> SUFFICES ASSUME FrameInv, SendRun PROVE FrameInv'
  OBVIOUS
<1> USE Known
<1>0. PICK start \in NextRun :
        \E end \in (start + 1)..buffer.w : display' = Send(row, start, end) /\ x' = end
  BY DEF SendRun
<1>1. PICK end \in (start + 1)..buffer.w : display' = Send(row, start, end) /\ x' = end
  BY <1>0
<1>2. /\ stage = "present" /\ row < buffer.h /\ ~ whole
      /\ UNCHANGED <<stage, buffer, presented, whole, row, disturbed>>
  BY DEF SendRun
<1>3. /\ start \in x..(buffer.w - 1)
      /\ \A d \in x..(start - 1) : buffer.cells[<<row, d>>] = presented.cells[<<row, d>>]
  BY <1>0 DEF NextRun, Changed
<1>4. end \in 0..buffer.w /\ start < end
  BY <1>1, <1>3
<1>5. RendererTypeOK
  BY DEF FrameInv
<1>6. /\ IsBuffer(display', Glyphs \cup {Lost}) /\ SameSize(display', display)
      /\ SameSize(display, buffer) =>
           \A c \in Cells(buffer) :
             display'.cells[c] = IF c[1] = row /\ c[2] \in start..(end - 1)
                                  THEN buffer.cells[c] ELSE display.cells[c]
  <2>1. /\ IsBuffer(Send(row, start, end), Glyphs \cup {Lost})
        /\ SameSize(Send(row, start, end), display)
        /\ SameSize(display, buffer) =>
             \A c \in Cells(buffer) :
               Send(row, start, end).cells[c]
                 = IF c[1] = row /\ c[2] \in start..(end - 1)
                   THEN buffer.cells[c] ELSE display.cells[c]
    BY ONLY <1>5, SendEffect, ZenonT(30)
  <2> QED BY <1>1, <2>1
<1>7. RendererTypeOK'
  BY <1>1, <1>2, <1>4, <1>5, <1>6 DEF RendererTypeOK, SameSize
<1>8. ~ disturbed => Agreement'
  <2> SUFFICES ASSUME ~ disturbed PROVE Agreement'
    OBVIOUS
  <2>1. /\ SameSize(display, buffer)
        /\ \A c \in Cells(buffer) :
             display.cells[c] = IF Sent(c) THEN buffer.cells[c]
                                            ELSE presented.cells[c]
    BY <1>2 DEF FrameInv, Agreement
  <2>2. ASSUME NEW c \in Cells(buffer)
        PROVE  display'.cells[c] = IF Sent(c)' THEN buffer.cells[c]
                                                ELSE presented.cells[c]
    <3>1. c[1] \in Int /\ c[2] \in 0..(buffer.w - 1) /\ c = <<c[1], c[2]>>
      BY DEF Cells
    <3>2. CASE c[1] = row /\ c[2] \in start..(end - 1)
      BY <1>1, <1>2, <1>6, <2>1, <3>1, <3>2 DEF Sent
    <3>3. CASE c[1] = row /\ c[2] \in x..(start - 1)
      <4>1. buffer.cells[c] = presented.cells[c]
        BY <1>3, <3>1, <3>3
      <4> QED BY <1>6, <2>1, <3>1, <3>3, <4>1
    <3>4. CASE c[1] # row \/ c[2] < x \/ c[2] >= end
      <4>1. display'.cells[c] = display.cells[c]
        BY <1>3, <1>6, <2>1, <3>1, <3>4
      <4>2. Sent(c)' <=> Sent(c)
        BY <1>1, <1>2, <1>3, <1>4, <3>1, <3>4 DEF Sent
      <4> QED BY <2>1, <4>1, <4>2
    <3> QED BY <1>3, <1>4, <3>1, <3>2, <3>3, <3>4
  <2>3. SameSize(display', buffer')
    BY <1>2, <1>6, <2>1 DEF SameSize
  <2>4. buffer' = buffer /\ presented' = presented
    BY <1>2
  <2>5. \A c \in Cells(buffer') :
          IF Sent(c)' THEN display'.cells[c] = buffer'.cells[c]
                      ELSE display'.cells[c] = presented'.cells[c]
    BY <2>2, <2>4
  <2> QED BY <1>2, <2>3, <2>5 DEF Agreement
<1> QED BY <1>2, <1>6, <1>7, <1>8 DEF FrameInv, SameSize, Shown

LEMMA EndRowStep == FrameInv /\ EndRow => FrameInv'
<1> SUFFICES ASSUME FrameInv, EndRow PROVE FrameInv'
  OBVIOUS
<1> USE Known
<1>1. /\ stage = "present" /\ row < buffer.h /\ ~ whole
      /\ \A n \in x..(buffer.w - 1) : ~ Changed(row, n)
      /\ row' = row + 1 /\ x' = 0
      /\ UNCHANGED <<stage, buffer, presented, whole, display, disturbed>>
  BY DEF EndRow
<1>2. RendererTypeOK'
  BY <1>1 DEF FrameInv, RendererTypeOK
<1>3. ~ disturbed => Agreement'
  <2> SUFFICES ASSUME ~ disturbed PROVE Agreement'
    OBVIOUS
  <2>1. /\ SameSize(display, buffer)
        /\ \A c \in Cells(buffer) :
             display.cells[c] = IF Sent(c) THEN buffer.cells[c]
                                            ELSE presented.cells[c]
    BY <1>1 DEF FrameInv, Agreement
  <2>2. ASSUME NEW c \in Cells(buffer)
        PROVE  display.cells[c] = IF Sent(c)' THEN buffer.cells[c]
                                               ELSE presented.cells[c]
    <3>1. c[1] \in Int /\ c[2] \in 0..(buffer.w - 1) /\ c = <<c[1], c[2]>>
      BY DEF Cells
    <3>2. CASE c[1] = row /\ c[2] >= x
      <4>1. buffer.cells[c] = presented.cells[c]
        BY <1>1, <3>1, <3>2 DEF Changed
      <4> QED BY <2>1, <4>1
    <3>3. CASE c[1] # row \/ c[2] < x
      BY <1>1, <2>1, <3>1, <3>3 DEF Sent
    <3> QED BY <3>1, <3>2, <3>3
  <2>3. \A c \in Cells(buffer') :
          IF Sent(c)' THEN display'.cells[c] = buffer'.cells[c]
                      ELSE display'.cells[c] = presented'.cells[c]
    BY <1>1, <2>2
  <2> QED BY <1>1, <2>1, <2>3 DEF Agreement
<1> QED BY <1>1, <1>2, <1>3 DEF FrameInv, Shown

(* Once every row is sent the terminal and the frame are the same.         *)
LEMMA EndFrameStep == FrameInv /\ EndFrame => FrameInv'
<1> SUFFICES ASSUME FrameInv, EndFrame PROVE FrameInv'
  OBVIOUS
<1> USE Known
<1>1. /\ stage = "present" /\ row = buffer.h /\ presented' = buffer /\ stage' = "between"
      /\ UNCHANGED <<buffer, whole, row, x, display, disturbed>>
  BY DEF EndFrame
<1>2. RendererTypeOK'
  BY <1>1 DEF FrameInv, RendererTypeOK, Phases
<1>3. ~ disturbed => display = buffer
  <2> SUFFICES ASSUME ~ disturbed PROVE display = buffer
    OBVIOUS
  <2>1. /\ SameSize(display, buffer)
        /\ \A c \in Cells(buffer) : Sent(c) => display.cells[c] = buffer.cells[c]
    BY <1>1 DEF FrameInv, Agreement
  <2>2. \A c \in Cells(buffer) : Sent(c)
    BY <1>1 DEF Cells, Sent
  <2>3. Cells(display) = Cells(buffer)
    BY <2>1 DEF SameSize, Cells
  <2> QED BY <2>1, <2>2, <2>3, BufferEqual
<1> QED BY <1>1, <1>2, <1>3 DEF FrameInv, Agreement, Shown

LEMMA FrameStep == FrameInv /\ [RendererNext]_rendererVars => FrameInv'
<1> SUFFICES ASSUME FrameInv, [RendererNext]_rendererVars PROVE FrameInv'
  OBVIOUS
<1>1. CASE EnterScreensaver
  BY <1>1, EnterStep
<1>2. CASE EnterFails \/ FrameFails
  BY <1>2, FailStep
<1>3. CASE BeginFrame
  BY <1>3, BeginFrameStep
<1>4. ASSUME NEW glyph \in Glyphs, NEW r \in -1..buffer.h, NEW c \in -1..buffer.w,
             Draw(glyph, r, c)
      PROVE  FrameInv'
  <2>1. r \in Int /\ c \in Int
    BY Known
  <2> QED BY <1>4, <2>1, DrawStep
<1>5. CASE BeginPresent
  BY <1>5, BeginPresentStep
<1>6. CASE SendWholeRow
  BY <1>6, SendWholeRowStep
<1>7. CASE SendRun
  BY <1>7, SendRunStep
<1>8. CASE EndRow
  BY <1>8, EndRowStep
<1>9. CASE EndFrame
  BY <1>9, EndFrameStep
<1>10. CASE LeaveScreensaver
  BY <1>10, LeaveStep
<1>11. ASSUME NEW size \in TerminalSizes, TerminalResized(size) PROVE FrameInv'
  BY <1>11, ResizeStep
<1>12. CASE UNCHANGED rendererVars
  BY <1>12 DEF rendererVars, contextVars, FrameInv, RendererTypeOK, Agreement, PresentedFits,
               Sent, Shown
<1> QED BY <1>1, <1>2, <1>3, <1>4, <1>5, <1>6, <1>7, <1>8, <1>9, <1>10, <1>11,
           <1>12 DEF RendererNext, Done

(* While a frame is sent, the cells passed show the frame and the others   *)
(* what was presented before, as long as no resize went unnoticed: the     *)
(* inductive invariant of the present loop.                                *)
THEOREM FrameInvariance == RendererSpec => []FrameInv
<1>1. RendererInit => FrameInv
  BY FrameInit
<1>2. FrameInv /\ [RendererNext]_rendererVars => FrameInv'
  BY FrameStep
<1> QED BY <1>1, <1>2, PTL DEF RendererSpec

(* Every cell the present loop compares lies in both buffers, and nothing  *)
(* of a context remains once the screensaver has left.                     *)
THEOREM RendererTyped == RendererSpec => []RendererTypeOK
<1>1. FrameInv => RendererTypeOK
  BY DEF FrameInv
<1> QED BY <1>1, FrameInvariance, PTL

(* Sending only differences shows the whole frame: once a frame was        *)
(* presented, the terminal shows exactly the frame that was drawn, unless  *)
(* a resize has yet to be noticed.                                         *)
THEOREM TerminalShowsFrame == RendererSpec => []FrameShown
<1>1. FrameInv => FrameShown
  BY DEF FrameInv, FrameShown, Shown, Agreement
<1> QED BY <1>1, FrameInvariance, PTL
=============================================================================
