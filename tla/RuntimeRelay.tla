---------------------------- MODULE RuntimeRelay ----------------------------
(***************************************************************************)
(* Runtime implements Relay.  A key is in flight wherever it is queued: in *)
(* the terminal, in strange's buffers or in the PTY; output likewise, in   *)
(* the PTY or held back.  Every phase of the loop that only moves keys or  *)
(* output from one queue to the next is invisible to Relay.                *)
(*                                                                         *)
(* What strange has read and dropped, as the clock failed, still counts as *)
(* in flight: keys until the terminal is given back, when Relay discards   *)
(* them, and output for ever.  As nothing overtakes in Relay, nothing that *)
(* came behind them ever arrives.                                          *)
(***************************************************************************)
EXTENDS Runtime

R == INSTANCE Relay WITH
       covered   <- view.visible,
       relaying  <- raw,
       broken    <- faulted,
       inFlight  <- ptyIn \o pending \o buffer \o tty,
       outFlight <- view.held \o dropped \o output,
       shown     <- view.shown

(* strange is the relay it promises to be, in every interleaving of user,  *)
(* shell, clock, signals and failing calls: nothing is shown over the      *)
(* screensaver, nothing overtakes, and keys and output are lost only where *)
(* Relay says so: as a key wakes it or is the reserved one, as the         *)
(* terminal fails, or in flight when the terminal is given back.           *)
ImplementsRelay == R!Spec
=============================================================================
