----------------------------- MODULE DigitalRain -----------------------------
(***************************************************************************)
(* demos/digital_rain.c: one stream of the rain.  Its rows from            *)
(* start_visible up to end_visible show; both move down, the first only    *)
(* once a draw has shut the stream down.  Streams differ in column and     *)
(* speed and have nothing else to do with each other, so one stands for    *)
(* all.  The terminal may be resized between frames, and a screen larger   *)
(* than the arrays behind the streams ends the screensaver.                *)
(***************************************************************************)
EXTENDS Integers

CONSTANTS
  Heights,        \* of the buffer
  Rates,          \* of scrolling: frames for each row
  MinLength,      \* MIN_STREAM_LENGTH
  BufferSize      \* STREAM_BUFFER_SIZE

ASSUME RainAssumption ==
  /\ Heights \subseteq Nat \ {0} /\ Rates \subseteq Nat \ {0}
  /\ MinLength \in Nat /\ BufferSize \in Nat

VARIABLES
  h,              \* buffer->h
  start_visible,
  end_visible,
  scroll_rate,
  frame_count,    \* modulo scroll_rate, of which alone the stream takes note
  stopped         \* update has failed, so that no other frame follows

rainVars == <<h, start_visible, end_visible, scroll_rate, frame_count, stopped>>

RainInit ==
  /\ h \in Heights
  /\ start_visible = -1 /\ end_visible = -1
  /\ scroll_rate \in Rates
  /\ frame_count = 0 /\ stopped = FALSE

MinimumStreamLength == IF h \div 3 < MinLength THEN MinLength ELSE h \div 3

(* toggle_streams: what a draw decides, if it comes out true.              *)
Activates == end_visible = -1
ShutsDown == end_visible > MinimumStreamLength

(* Mistake: a row that has left the screen does not move on.               *)
TraceOnScreen(row) == IF row > -1 /\ row < h THEN row + 1 ELSE row

(* A visible edge of the stream moves down, as far as just past the screen. *)
Trace(row) == IF row > -1 /\ row <= h THEN row + 1 ELSE row

(* digital_rain_update: toggle_streams, then shift_visible_window.         *)
RainUpdate(draw) ==
  /\ ~ stopped
  /\ h <= BufferSize
  /\ LET moved(row) == IF frame_count = 0 THEN Trace(row) ELSE row
         end   == moved(IF Activates /\ draw THEN 0 ELSE end_visible)
         start == moved(IF ShutsDown /\ draw THEN start_visible + 1
                                             ELSE start_visible)
         gone  == start > h /\ end > h
     IN  /\ start_visible' = IF gone THEN -1 ELSE start
         /\ end_visible' = IF gone THEN -1 ELSE end
  /\ frame_count' = (frame_count + 1) % scroll_rate
  /\ UNCHANGED <<h, scroll_rate, stopped>>

(* The screen is too large for the streams' arrays.                        *)
RainFails ==
  /\ ~ stopped
  /\ h > BufferSize
  /\ stopped' = TRUE
  /\ UNCHANGED <<h, start_visible, end_visible, scroll_rate, frame_count>>

(* The buffer takes the terminal's new size before a frame.                *)
RainResize ==
  /\ h' \in Heights \ {h}
  /\ UNCHANGED <<start_visible, end_visible, scroll_rate, frame_count, stopped>>

RainFrame == RainFails \/ \E draw \in BOOLEAN : RainUpdate(draw)

RainNext == RainFrame \/ RainResize

(* A draw comes out true now and then.                                     *)
DrawTrue == (Activates \/ ShutsDown) /\ RainUpdate(TRUE)

RainSpec == RainInit /\ [][RainNext]_rainVars /\ WF_rainVars(RainFrame) /\ SF_rainVars(DrawTrue)

-----------------------------------------------------------------------------
(* Streams come and go for ever, on any screen at least MinLength high     *)
(* that keeps its size, however it was resized before.  (On a lower one a  *)
(* stream ends one row past the screen, never longer than MinLength, so it *)
(* is never shut down.)                                                    *)
StreamsComeAndGo ==
  (\E height \in Heights : <>[](h = height /\ h >= MinLength /\ ~ stopped))
    => []<>(end_visible = -1) /\ []<>(end_visible # -1)
=============================================================================
