---------------------------- MODULE Screensaver ------------------------------
(***************************************************************************)
(* The life of a screensaver: what pty/screensaver.c, the registry's       *)
(* instance functions and the Lua adapter do between taking the screen and *)
(* handing it back, call by call into the screensaver itself.  Runtime     *)
(* takes each of these as one step that may fail.  The caller is either a  *)
(* session, which covers the screen again and again, or strange_preview    *)
(* (--now), whose loop is here in full.                                    *)
(*                                                                         *)
(* A screensaver may lack any of its callbacks, and each may fail; one in  *)
(* Lua may keep the buffer it is passed for as long as it likes.  What is  *)
(* drawn is left to Renderer.                                              *)
(***************************************************************************)
EXTENDS Integers, FiniteSets

CONSTANTS
  Callers,    \* among "session" and "preview"
  Languages,  \* among "lua" and "native"
  Faults,     \* what may fail apart from callbacks: "memory", "terminal",
              \* "handlers", "select", and "lookup" of a callback in Lua
  Handles,    \* of buffers in Lua; one more than the script ever keeps
  Nil

ASSUME ScreensaverAssumption ==
  /\ Callers \subseteq {"session", "preview"} /\ Languages \subseteq {"lua", "native"}
  /\ Nil \notin Handles

Callbacks == {"init", "update", "cleanup"}

VARIABLES
  caller, language, defined,  \* fixed: the callbacks that are defined
  phase,      \* the callback running, or what strange does next
  contextReady,  \* screensaver_context_ready
  instance,   \* screensaver_instance_ready
  visible,    \* screensaver_visible
  alternate,  \* history: the terminal shows the alternate screen
  raw,        \* raw_mode_enabled
  failed,     \* failed in strange_preview, or the session's is disabled
  error,      \* screensaver_error: the callback it is from, or Nil
  printed,    \* what was printed of it, or "nothing"
  reason,     \* history: what the callback said whose failure it is, or Nil
  reference,  \* loaded.state_reference: "noref", "refnil" or "ref"
  refs,       \* history: references to states the interpreter has
  alive,      \* history: init has succeeded and cleanup is still to come
  current,    \* *handle of the running call, or Nil
  usable,     \* handles whose pointer is set
  kept,       \* handles the script has kept
  key,        \* a key is waiting
  shutdown    \* shutdown_requested

fixed    == <<caller, language, defined>>
takeover == <<contextReady, instance, visible, alternate, raw>>
report   == <<failed, error, printed, reason>>
adapter  == <<reference, refs, alive>>
buffers  == <<current, usable, kept>>
user     == <<key, shutdown>>

screensaverVars == <<fixed, phase, takeover, report, adapter, buffers, user>>

ScreensaverInit ==
  /\ caller \in Callers /\ language \in Languages /\ defined \in SUBSET Callbacks
  /\ phase = IF caller = "preview" THEN "start" ELSE "idle"
  /\ contextReady = FALSE /\ instance = FALSE /\ visible = FALSE
  /\ alternate = FALSE /\ raw = (caller = "session")
  /\ failed = FALSE /\ error = Nil /\ printed = "nothing" /\ reason = Nil
  /\ reference = "noref" /\ refs = 0 /\ alive = FALSE
  /\ current = Nil /\ usable = {} /\ kept = {}
  /\ key = FALSE /\ shutdown = FALSE

-----------------------------------------------------------------------------
(* Calls into the screensaver.                                             *)

(* Pass a buffer, which in Lua is a new handle.                            *)
PassBuffer ==
  IF language = "lua"
  THEN \E h \in Handles \ kept :
         /\ current' = h /\ usable' = usable \cup {h}
         /\ UNCHANGED kept
  ELSE UNCHANGED buffers

(* Mistake: the handle is left as it is.                                   *)
LeaveBuffer == current' = Nil /\ UNCHANGED <<usable, kept>>

(* The call is over: *handle = NULL.                                       *)
TakeBuffer ==
  /\ usable' = usable \ {current}
  /\ current' = Nil
  /\ UNCHANGED kept

(* The script keeps its handle.                                            *)
KeepBuffer ==
  /\ current # Nil /\ Cardinality(kept \cup {current}) < Cardinality(Handles)
  /\ kept' = kept \cup {current}
  /\ UNCHANGED <<fixed, phase, takeover, report, adapter, current, usable, user>>

(* A callback fails: a Lua error is described, a -1 perhaps.               *)
Describe(callback) ==
  /\ error' \in IF language = "lua" THEN {callback} ELSE {callback, error}
  /\ reason' = error'

(* push_callback looks a callback up outside any protected call: if the    *)
(* lookup itself raises an error, as through a metatable's __index, the    *)
(* interpreter ends the process, in raw mode.                              *)
Panic(callback) ==
  /\ "lookup" \in Faults /\ language = "lua"
  /\ CASE callback = "init"   -> phase = "init_due"
       [] callback = "update" -> phase = "update_due"
       [] OTHER               -> phase = "leave" /\ visible
  /\ phase' = "aborted"
  /\ UNCHANGED <<fixed, takeover, report, adapter, buffers, user>>

-----------------------------------------------------------------------------
(* strange_screensaver_enter                                               *)

(* A failure turns the screensaver off; the screen is left, if it was      *)
(* taken.                                                                  *)
Fails == failed' = TRUE /\ phase' = "leave"

(* A takeover is due: in a session, while no failure has ended them.       *)
Enter ==
  /\ phase = "enter" \/ (phase = "idle" /\ ~ failed)
  /\ \/ /\ contextReady' = TRUE
        /\ phase' = "init_due"
        /\ error' = Nil
        /\ UNCHANGED <<failed, printed, reason>>
     \/ /\ "memory" \in Faults
        /\ Fails
        /\ UNCHANGED <<contextReady, error, printed, reason>>
  /\ UNCHANGED <<fixed, instance, visible, alternate, raw, adapter, buffers, user>>

(* The screen is taken; a frame follows, in a preview unless a signal has  *)
(* come.                                                                   *)
Entered ==
  /\ instance' = TRUE /\ visible' = TRUE /\ alternate' = TRUE
  /\ alive' = TRUE
  /\ phase' = IF caller = "preview" THEN "check" ELSE "frame"

InitCalled ==
  /\ phase = "init_due"
  /\ IF "init" \in defined
     THEN /\ phase' = "init"
          /\ PassBuffer
          /\ UNCHANGED <<takeover, alive>>
     ELSE /\ Entered
          /\ UNCHANGED <<contextReady, raw, buffers>>
  /\ UNCHANGED <<fixed, report, reference, refs, user>>

(* luaL_ref, of the state init returned.                                   *)
InitReturns ==
  /\ phase = "init"
  /\ TakeBuffer
  /\ Entered
  /\ IF language = "lua"
     THEN \/ reference' = "ref" /\ refs' = refs + 1
          \/ reference' = "refnil" /\ UNCHANGED refs
     ELSE UNCHANGED <<reference, refs>>
  /\ UNCHANGED <<fixed, contextReady, raw, report, user>>

(* Mistake: the screen counts as taken before init has been called.        *)
InitFailsVisible ==
  /\ phase = "init"
  /\ TakeBuffer
  /\ Describe("init")
  /\ visible' = TRUE
  /\ Fails
  /\ UNCHANGED <<fixed, contextReady, instance, alternate, raw, printed, adapter, user>>

InitFails ==
  /\ phase = "init"
  /\ TakeBuffer
  /\ Describe("init")
  /\ contextReady' = FALSE
  /\ Fails
  /\ UNCHANGED <<fixed, instance, visible, alternate, raw, printed, adapter, user>>

-----------------------------------------------------------------------------
(* strange_screensaver_render_frame                                        *)

(* Asking for the size may fail, and so may a buffer of a new size.        *)
Frame ==
  /\ phase = "frame"
  /\ \/ phase' = "update_due" /\ UNCHANGED failed
     \/ "memory" \in Faults /\ Fails
  /\ UNCHANGED <<fixed, takeover, error, printed, reason, adapter, buffers, user>>

UpdateCalled ==
  /\ phase = "update_due"
  /\ IF "update" \in defined
     THEN phase' = "update" /\ PassBuffer
     ELSE phase' = "present" /\ UNCHANGED buffers
  /\ UNCHANGED <<fixed, takeover, report, adapter, user>>

UpdateReturns ==
  /\ phase = "update"
  /\ TakeBuffer
  /\ phase' = "present"
  /\ UNCHANGED <<fixed, takeover, report, adapter, user>>

UpdateFails ==
  /\ phase = "update"
  /\ TakeBuffer
  /\ Describe("update")
  /\ Fails
  /\ UNCHANGED <<fixed, takeover, printed, adapter, user>>

Present ==
  /\ phase = "present"
  /\ \/ /\ phase' = IF caller = "preview" THEN "select" ELSE "covered"
        /\ UNCHANGED failed
     \/ "terminal" \in Faults /\ Fails
  /\ UNCHANGED <<fixed, takeover, error, printed, reason, adapter, buffers, user>>

-----------------------------------------------------------------------------
(* strange_screensaver_leave                                               *)

AfterLeave ==
  CASE caller = "preview"             -> "restore"
    [] caller = "session" /\ failed   -> "report"
    [] OTHER                          -> "idle"

(* Mistake: the reference is forgotten, and what it refers to kept.        *)
Forget == reference' = "noref" /\ alive' = FALSE /\ UNCHANGED refs

(* luaL_unref: the state is let go whether or not the script cleans up.    *)
Release ==
  /\ reference' = "noref"
  /\ refs' = IF reference = "ref" THEN refs - 1 ELSE refs
  /\ alive' = FALSE

(* The instance is gone, the screen handed back, the context destroyed.    *)
Left ==
  /\ instance' = FALSE /\ alternate' = FALSE /\ contextReady' = FALSE
  /\ phase' = AfterLeave

Leave ==
  /\ phase = "leave"
  /\ \/ /\ ~ visible
        /\ phase' = AfterLeave
        /\ UNCHANGED <<takeover, adapter>>
     \/ /\ visible /\ visible' = FALSE
        /\ "cleanup" \in defined
        /\ phase' = "cleanup"
        /\ UNCHANGED <<contextReady, instance, alternate, raw, adapter>>
     \/ /\ visible /\ visible' = FALSE
        /\ "cleanup" \notin defined
        /\ Release /\ Left
        /\ UNCHANGED raw
  /\ UNCHANGED <<fixed, report, buffers, user>>

CleanupReturns ==
  /\ phase = "cleanup"
  /\ Release /\ Left
  /\ UNCHANGED <<fixed, visible, raw, report, buffers, user>>

(* Of an error in cleanup nothing comes but its description: it does not   *)
(* count as a failure.  A native cleanup has no way to fail.               *)
CleanupFails ==
  /\ phase = "cleanup" /\ language = "lua"
  /\ error' = "cleanup"
  /\ Release /\ Left
  /\ UNCHANGED <<fixed, visible, raw, failed, printed, reason, buffers, user>>

-----------------------------------------------------------------------------
(* The session: keys, frames, failures.                                    *)

(* A frame is due, or something ends the cover.                            *)
Covered ==
  /\ phase = "covered"
  /\ phase' \in {"frame", "leave"}
  /\ UNCHANGED <<fixed, takeover, report, adapter, buffers, user>>

(* disable_failed_screensaver, after the screen was left.                  *)
Report ==
  /\ phase = "report"
  /\ printed' = error
  /\ phase' = "idle"
  /\ UNCHANGED <<fixed, takeover, failed, error, reason, adapter, buffers, user>>

(* The shell has ended, or a signal came.                                  *)
EndSession ==
  /\ phase = "idle"
  /\ phase' = "restore"
  /\ UNCHANGED <<fixed, takeover, report, adapter, buffers, user>>

-----------------------------------------------------------------------------
(* strange_preview                                                         *)

StartPreview ==
  /\ phase = "start"
  /\ \/ phase' = "enter" /\ raw' = TRUE /\ UNCHANGED failed
     \/ "handlers" \in Faults /\ phase' = "done" /\ failed' = TRUE /\ UNCHANGED raw
  /\ UNCHANGED <<fixed, contextReady, instance, visible, alternate, error, printed,
                 reason, adapter, buffers, user>>

(* The condition of the loop.                                              *)
CheckShutdown ==
  /\ phase = "check"
  /\ phase' = IF shutdown THEN "leave" ELSE "frame"
  /\ UNCHANGED <<fixed, takeover, report, adapter, buffers, user>>

(* Mistake: select waits for a key for as long as it takes.                *)
SelectForever ==
  /\ phase = "select" /\ key
  /\ phase' = "leave" /\ key' = FALSE
  /\ UNCHANGED <<fixed, takeover, report, adapter, buffers, shutdown>>

(* select: a key, or the time of the next frame.                           *)
Select ==
  /\ phase = "select"
  /\ phase' = IF key THEN "leave" ELSE "check"
  /\ key' = FALSE
  /\ UNCHANGED <<fixed, takeover, report, adapter, buffers, shutdown>>

SelectFails ==
  /\ phase = "select" /\ "select" \in Faults
  /\ Fails
  /\ UNCHANGED <<fixed, takeover, error, printed, reason, adapter, buffers, user>>

(* strange_terminal_disable_raw_mode; a preview then reports, too.         *)
Restore ==
  /\ phase = "restore"
  /\ raw' = FALSE
  /\ printed' = IF caller = "preview" /\ failed THEN error ELSE printed
  /\ phase' = "done"
  /\ UNCHANGED <<fixed, contextReady, instance, visible, alternate, failed, error,
                 reason, adapter, buffers, user>>

-----------------------------------------------------------------------------
Press ==
  /\ ~ key /\ key' = TRUE
  /\ UNCHANGED <<fixed, phase, takeover, report, adapter, buffers, shutdown>>

(* SIGTERM or SIGHUP, which interrupts select.                             *)
Signal ==
  /\ caller = "preview" /\ phase # "start"
  /\ ~ shutdown /\ shutdown' = TRUE
  /\ phase' = IF phase = "select" THEN "check" ELSE phase
  /\ UNCHANGED <<fixed, takeover, report, adapter, buffers, key>>

Callback ==
  \/ InitReturns \/ InitFails
  \/ UpdateReturns \/ UpdateFails
  \/ CleanupReturns \/ CleanupFails

StrangeGoesOn ==
  \/ Enter \/ InitCalled \/ Frame \/ UpdateCalled \/ Present \/ Leave
  \/ Covered \/ Report \/ EndSession
  \/ StartPreview \/ CheckShutdown \/ Select \/ Restore

ScreensaverNext ==
  \/ StrangeGoesOn \/ Callback \/ SelectFails
  \/ \E callback \in Callbacks : Panic(callback)
  \/ KeepBuffer \/ Press \/ Signal

ScreensaverSpec == ScreensaverInit /\ [][ScreensaverNext]_screensaverVars

(* strange goes on, and callbacks return.                                  *)
FairScreensaverSpec ==
  ScreensaverSpec /\ WF_screensaverVars(StrangeGoesOn \/ Callback)

-----------------------------------------------------------------------------
(* Properties.                                                             *)

(* A script's buffer is usable only during the call it was passed to, and  *)
(* while there are cells behind it, however the call ends and however long *)
(* the script keeps it.                                                    *)
BufferOnlyDuringItsCall ==
  usable # {} => /\ usable = {current} /\ phase \in {"init", "update"}
                 /\ contextReady

(* Nothing of a takeover outlives it, whichever step of it failed: no      *)
(* instance, context or reference to a script's state, and the terminal    *)
(* is handed back before strange returns.                                  *)
NothingKept ==
  phase \in {"idle", "report", "restore", "done"} =>
    /\ ~ visible /\ ~ instance /\ ~ contextReady /\ ~ alternate /\ ~ alive
    /\ refs = 0 /\ reference = "noref"
    /\ phase = "done" => ~ raw

(* A screensaver is initialised once before it is updated and cleaned up,  *)
(* cleaned up only if that succeeded, and not called again once init or    *)
(* update failed.  For an error in cleanup see OffOnceFailed.              *)
CallsInOrder ==
  [][ phase' # phase =>
        /\ phase' = "init" => ~ alive /\ ~ failed
        /\ phase' = "update" => alive /\ ~ failed
        /\ phase' = "cleanup" => alive ]_screensaverVars

(* A key or a signal ends a preview, a signal between the check and select *)
(* included, unless a script's table brings the interpreter down.          *)
PreviewEnds ==
  caller = "preview" /\ (key \/ shutdown) ~> phase \in {"done", "aborted"}

(* "turns the screensaver off for the rest of the session": none is begun  *)
(* after an error.  A Lua error in cleanup makes it false: it is described *)
(* and then dropped, so the next timeout starts the script again.          *)
OffOnceFailed ==
  [][ phase' = "init_due" /\ phase # "init_due" => error = Nil ]_screensaverVars

(* "prints the reason": what a callback said as it failed is what strange  *)
(* prints when it turns the screensaver off for it; and if no callback did *)
(* say anything, nothing one said at another time.                         *)
PrintsTheReason == printed # "nothing" => printed = reason

-----------------------------------------------------------------------------
(* The inductive invariant behind them: what of a takeover there is in     *)
(* which phase, so that leaving, from wherever it comes, finds all of it.  *)

Nothing == ~ instance /\ ~ contextReady /\ ~ alternate /\ ~ alive
             /\ refs = 0 /\ reference = "noref"

Everything == /\ instance /\ contextReady /\ alternate /\ alive
              /\ refs = IF reference = "ref" THEN 1 ELSE 0

Away      == {"start", "enter", "idle", "report", "restore", "done"}
Starting  == {"init_due", "init"}
Taken     == {"frame", "update_due", "update", "present", "covered", "check", "select"}

TakeoverInv ==
  /\ phase \in Away => ~ visible /\ Nothing
  /\ phase \in Starting => /\ ~ visible /\ ~ instance /\ ~ alternate /\ ~ alive
                           /\ contextReady /\ refs = 0 /\ reference = "noref" /\ ~ failed
  /\ phase \in Taken => visible /\ Everything /\ ~ failed
  /\ phase = "leave" => IF visible THEN Everything ELSE Nothing
  /\ phase = "cleanup" => ~ visible /\ Everything
  /\ phase \in {"start", "enter"} => ~ failed
  /\ phase \in {"start", "done"} => ~ raw

BufferInv ==
  /\ current # Nil => usable = {current} /\ phase \in {"init", "update"}
  /\ current = Nil => usable = {}

ScreensaverInv ==
  /\ phase \in Away \cup Starting \cup Taken \cup {"leave", "cleanup", "aborted"}
  /\ caller \in {"session", "preview"}
  /\ TakeoverInv /\ BufferInv
=============================================================================
