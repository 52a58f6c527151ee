# A verification of strange

`strange` wraps a shell in a PTY, relays keys and output, and covers the
terminal with a screensaver when nothing was typed for a while. This directory
holds TLA+ models of its logic, TLC configurations that check them on small
instances, and proofs checked by TLAPS. Paths below are relative to the
repository's root.

## Running it

    tlc -config RuntimeFaults.cfg MCRuntime.tla     # a run: see "Runs"
    tlapm RuntimeProofs.tla                          # a proof module

Seven runs are meant to end in a counterexample to something the documentation
says (`RuntimeWake`, `RuntimeExit`, `RuntimeSplit`, `WindowRepaint`,
`ScreensaverReason`, `ScreensaverRetry`, `SessionReuse`); all others end without an
error.

## The system

One process, one thread, and a child. Concurrency comes from outside: the user,
the shell, the terminal emulator, the kernel and signals act between any two
calls of the loop.

| Component | State | Operations | Hard because | Correct if |
|---|---|---|---|---|
| State machine, `pty/state_machine.c` | state, time of last activity, timeout | one event handler, `timeout_due` | timespec borrow; an event in every state | covers neither early nor late; a disabled screensaver never comes back |
| Runtime loop, `pty/runtime.c` | `pending_input`, `held_output`, `raw_mode_enabled`, next frame time | one turn: shutdown check, resize, timer or frame, `select`, flush, read keys, read output, poll the shell; cleanup | every call can fail; sizes computed before a flush are used after it; `continue` skips later phases; buffers fill up | keys and output are neither lost, doubled nor reordered; the screen is given back on every path |
| PTY and shell, `pty/pty.c` | master fd, shell pid, signal flags, last size told to the PTY | spawn, sync size, poll exit, cleanup | signals at any time, also before the handler is installed; the child sets the size in its own time; the last `waitpid` has no limit | no resize is lost; flags set by signals are acted on; the shell is reaped |
| Takeover, `pty/screensaver.c` | `screensaver_visible`, `on_alternate_screen`, `drew_over_child_screen`, render context, instance | enter, leave, render a frame | the shell's own modes decide how to cover and uncover; every callback may fail | leaving undoes exactly what entering did |
| Terminal modes, `pty/terminal_modes.c` | parser state, alternate screen, cursor | one byte at a time | sequences split between reads | believed modes are the terminal's |
| Renderer, `src/renderer.c` | buffer, presented buffer, frame count | begin frame, write a cell, present | only differences are sent; resizes come between and within frames | the terminal shows the frame drawn |
| Command line, `src/cli.c`, `main.c` | options | parse, resolve, list | order of options; every combination | agrees with the usage text |
| Registry and loader, `src/screensaver_registry.c`, `src/screensaver_loader.c` | the catalog | discover, find, load | readdir's order; the directory changes; the array grows | the order decides nothing; user screensavers take precedence |
| Preview, `strange_preview` in `pty/runtime.c` | – | loop of frames until a key | frames that fail; a signal between its check and `select` | it ends, and the terminal is given back |
| Lua adapter, `src/lua_screensaver.c` | interpreter, references, buffer handle, error | load, init, update, cleanup | a script may keep its buffer handle; errors in the midst of failure | no use of a stale handle; nothing leaks; the right reason is reported |
| Session, `src/session.c` | environment variables | export, compare | variables are inherited further than meant; names are used again | `--status` tells the truth |
| Keys, `src/keys.c`; watermark | – | parse and name a key; lay out a line | – | – |
| Built-in screensavers, `src/demos/` | streams of rain; scroll position | draw a frame | resizes between frames; conditions that depend on the height; negative division | streams come and go; helix and table agree |

Interactions: `main` resolves a screensaver (command line, registry, loader) and
calls `strange_run` or `strange_preview`; the loop feeds events to the state
machine, whose transitions enter and leave the takeover; the takeover owns the
render context and the instance, and calls the screensaver, through the Lua
adapter if it is a script; the terminal-modes follower says what the shell's
screen is like; the loop tells the PTY sizes through
`strange_pty_sync_window_size`, on purpose a wrong one when the screensaver drew
over a full-screen program, so that the true one makes the program repaint.

## Modules

| Module | What it models |
|---|---|
| `StateMachine` | `strange_state_machine_*` as operators, timespecs as seconds and nanoseconds |
| `InactivityTimer` | the state machine driven by a clock and events of every kind |
| `Runtime` | `strange_run` and what it calls in `pty/pty.c`, `pty/screensaver.c`, `pty/terminal_modes.c`; extends `StateMachine` |
| `Relay` | the abstract specification: what user and shell may rely on |
| `RuntimeRelay` | the refinement mapping from `Runtime` to `Relay`; extends `Runtime` |
| `WindowSize` | the resize flag, the size and the start of the shell, in single steps |
| `TerminalModes` | the parser of `pty/terminal_modes.c`, byte by byte, beside a terminal that reads whole sequences |
| `Screensaver` | callbacks, instance, Lua adapter and errors, under a session or `strange_preview` |
| `Renderer` | render context and frames, from entering the screensaver to leaving it |
| `CommandLine` | command lines, and the grammar of the usage text |
| `Launch` | `main`, the parser, the catalog, loading; extends `CommandLine` |
| `Session` | `STRANGE_TTY`, terminals and their names |
| `DigitalRain`, `Denabase` | the built-in screensavers' state: a stream; the sequence and its two views |
| `MCRuntime`, `MCLaunch` | small constants for TLC |
| `MCParts` | `InactivityTimer`, `TerminalModes`, `DigitalRain`, `Denabase`, `Session`, `WindowSize`, `Screensaver` and `Renderer`, one of which moves, with small constants |
| `RuntimeProofs`, `RelayProofs`, `RendererProofs`, `WindowSizeProofs`, `ScreensaverProofs`, `LaunchProofs` | theorems about the module of that name |
| `PartsProofs` | theorems about `InactivityTimer`, `Session`, `TerminalModes` and `Denabase` |
| `NumberLemmas` | lemmas about whole numbers that `LaunchProofs` and `PartsProofs` need |

`Runtime` takes as one step what `WindowSize`, `TerminalModes`, `Screensaver`,
`Renderer` and `InactivityTimer` take apart: a size is true or not there, a
control sequence one piece, a frame something that works or fails, a time the
number of ticks since the last activity.

Definitions marked "Mistake:" are wrong versions of the definition that follows
them. No specification uses them: replacing the right one by the wrong one is
how it was tested that the properties can fail.

### Runtime

`pc` is the phase of the loop. Each phase is one action and makes all its calls,
including the failure exits; between phases the environment acts.

| `pc` | action | code |
|---|---|---|
| `top` | `SyncResize` | resize flag, `sync_resize_if_needed` |
| `check` | `CheckShutdown`, `HoldTimer`, `StartScreensaver`, `NextFrame` ... | runtime.c:460-479 |
| `select` | `Select`, `SelectInterrupted` | runtime.c:481-512 |
| `flush` | `FlushPendingInput` | runtime.c:514-519 |
| `stdin`, `slice` | `WakeOnInput`, `ReadInput`, `ForwardInputSlice`, `DisableFromKey`, `EndOfInput`, `ClockFailsOnInput` | runtime.c:521-538, 235-336 |
| `output` | `HoldOutput`, `OutputOverflow`, `Forward`, `EndOfOutput`, `ClockFailsOnOutput` | runtime.c:540-567 |
| `poll` | `PollShellExit` | runtime.c:569-580 |
| `cleanup`, `hangup`, `reap` | `Cleanup`, `HangUp`, `Reap` | runtime.c:583-598, pty.c:355-395 |
| any up to `poll` | `WaitFails`: clock, `select`, a read or `waitpid` fails with nothing read | runtime.c:452, 510, 534, 563, 571 |

`view` gathers what is on the screen (`screen`, `shown`) and what strange knows
of it (`modes`, `visible`, `onAlt`, `drewOver`, `misreported`, `held`). A call
that writes to the terminal and may fail is an operator returning the set of its
outcomes. A key press and a piece of output are each used once, so that loss,
duplication and reordering can be seen; of a piece of output only its effect on
the modes matters. Time is the age of the last activity, up to the timeout;
`InactivityTimer` has the exact arithmetic. A window size is either the true one
or the one misreported. A read ends where the constants say: between sequences,
or, with the effects `head` and `tail`, inside one.

The clock is read again after each `read` (runtime.c:524, :544). If that fails,
strange ends with what it has just taken: keys stay in `buffer`, which nothing
empties any more, and output goes to `dropped`. The other side of the PTY is open
while the shell or a `job` of it holds it: a job outlives the shell, may go on
writing, and keeps the PTY from reaching its end.

### Relay

`Relay` knows two queues, keys in flight and output in flight, a cover, and
whether the terminal has failed. It says in which ways a key may go astray (it
wakes, it is the reserved one, the terminal is given back) and that nothing is
shown over the cover. A key of `Runtime` is in flight wherever it waits: in the
terminal, the buffer just read, `pending_input` or the PTY; output in the PTY or
in `held_output`. So a turn of the loop that only moves keys from queue to queue
is a stutter, and one that both releases held output and shows more is one step. What strange
has taken as the clock fails is in flight too, keys until the terminal is given
back and output for ever: it can be neither delivered nor overtaken.

### WindowSize

Clearing the flag, asking the terminal (`TIOCGWINSZ`) and telling the PTY
(`TIOCSWINSZ`) are three steps, and the terminal may be resized between any two.
`read_terminal_state`, the fork, the handler's installation and the child's
`apply_terminal_state` are steps too, the last in the child's own time. `late`
marks a resize the start of the shell cannot see; `due` a program that was drawn
over and has had no SIGWINCH since; `seen` is the height behind the last report to
the PTY, before the misreport. Only the height matters to the misreport.

### TerminalModes

`modes` is the code's struct. `terminal` obeys the same bytes when a sequence is
complete, by the standard's grammar: numbers are the digits between semicolons,
of any length. `plain` is lost with the first sequence that has more parameters
than the code keeps, or a `?` inside: what a terminal makes of those is its own.

### Screensaver

`phase` is what strange does next, or the callback that runs. A callback may be
missing, return, or fail; only a Lua one fails in `cleanup`, and the code does
not count that as a failure: `failed` is set by `init` and `update`. A buffer passed to
Lua is a handle; `usable` are those with a pointer, `kept` those the script has
stored. `Panic` is a lookup that raises an error outside a protected call
(lua_screensaver.c:118, where a metatable's `__index` runs): the interpreter ends
the process, and the terminal stays in raw mode (`phase` is `aborted`; what
`NothingKept` says of strange's return does not apply, as it never returns). The caller is a session, reduced
to covering and uncovering, or `strange_preview`, whose loop is there in full.

### Session, DigitalRain, Denabase

`Session` has terminals opened by windows and by strange, closed, and their names
given out again; a variable is inherited by windows and by servers that outlive
their shell (`retired` are the names of wrapped terminals that are gone). `DigitalRain` is one stream, as streams do not interact: its two
ends, and draws that come out true or not. `Denabase` is the scroll position and
the layout; rows of the screen are mapped to bases as `base_at_row` and
`draw_table` do, with C's division.

### Renderer

Cells hold one glyph. `display` is what the emulator shows; a resize leaves
nothing of it that strange could know (`Lost`). Bytes for a frame of another
size than the terminal's have no defined effect and leave it `Lost`. Present is
a loop of one action for each run of cells, so a resize may come within a frame.

### Launch

Arguments are tokens: options, numbers, keys, other names. There is an action
for each kind of argument, and `CommandLine` says independently, as a grammar
over the whole line, what a line means. Directory entries are known by the name
and kind their file name says; each is a regular file, something else, or one
`stat` fails for. `Edit` changes the directory while it is read and until the
screensaver is loaded; an entry that changed may be returned by `readdir`, or
not. `ReaddirFails` ends the reading at any entry, which the code cannot tell from
the end of the directory; `cut` records it. Memory may run out at any entry. `Readings` are all ways to cut a line into
options and what follows them; that there is at most one is part of what is
proved.

## Runs

| Run | Properties | Instance and why it is enough |
|---|---|---|
| `RuntimeRelay` | `OutputInOrder` `FullscreenNotCovered` `InputIntact` `DisableKeyHonoured` `OnlyKeysAreActivity` `ImplementsRelay` | four keys, one reserved, `pending_input` of two and a PTY of one: both fill up, partial writes, EAGAIN, the reserved key first, last and between others, covered or not; two pieces of output that switch to the alternate screen and back, held, released, overflowing, refused memory. Keys that are not reserved are symmetric |
| `RuntimeFaults` | `CoveredIffActive` `NothingLeftBehind` `ScreenHandedBack` `RestoredAtExit` `IInv` `OutputDoesNotWake` `ImplementsRelay` | one key, a full-screen program that also hides the cursor, covering it allowed; frames, terminal writes, ioctls and waits fail at every call, and the clock after each read; end of file, signals, resize, exit of the shell |
| `RuntimeLiveness` | `WakesOnKey` `IdleIsCovered` `InputMovesOn` `OutputIsRead` `ShutdownCompletes` `ShellExitCompletes` | two keys through buffers of one, a full-screen program, shutdown and exit, a job that outlives the shell and writes after it |
| `Parts`, the timer | `NeverLate` `NeverEarly` | seconds of three nanoseconds, every borrow |
| the modes | `ModesFollowed` | two parameters kept, three written, numbers past the cap |
| the rain | `StreamsComeAndGo` | screens from one below the minimum length of a stream to one above the arrays, any resize between frames |
| denabase | `HalvesAgree` `TableMovesUp` | screens with an odd and an even number of bases and rows, a loop that closes |
| the session | `SessionTold` | three terminals: one strange runs on, one it makes, one that inherits |
| the window | `SizeFollowed` `RepaintsOnWake` `SizeSettles` | heights 0 to 3, so that a misreport goes up, goes down, and equals a later height; three resizes: one each before, within and after a sync |
| the screensaver | `BufferOnlyDuringItsCall` `NothingKept` `CallsInOrder` `PreviewEnds` | both callers, both languages, every subset of callbacks, every fault; three handles, two of which a script keeps |
| the renderer | `FrameShown` `FrameInv` | two sizes, 4x1 and 2x2, gaps of up to two: runs that bridge, do not bridge, and touch the end of a row; resizes at every step; failures; leaving and entering again |
| `Launch` | `LaunchTypeOK` `ParsesAsDocumented` `DirectoryDecides` `UserFirst` `StartsWhatWasAsked` | all lines of up to four of thirteen arguments; script and library of a built-in's name, one more script, one other file, all contents, orders, single changes and failures of `readdir`; a catalog that grows twice |
| `RuntimeWake` | `AnyKeyWakes` | counterexample, see below |
| `RuntimeExit` | `AllOutputShown` | counterexample |
| `RuntimeSplit` | `ScreenHandedBack` | counterexample |
| `WindowRepaint` | `NoRepaintOwed` | counterexample |
| `ScreensaverReason` | `PrintsTheReason` | counterexample |
| `ScreensaverRetry` | `OffOnceFailed` | counterexample |
| `SessionReuse` | `StatusTellsTheTruth` | counterexample |

Bounds: each key is pressed and each piece of output written at most once;
`InputCap`, `PtyCap`, `ReadSize`, `HeldLimit`, `Timeout` are the code's sizes
made small; `MaxSeconds` stops the clock of `InactivityTimer`; `MaxArgs` and
`MaxEdits` bound `Launch`; `MaxResizes` bounds `WindowSize`; `MaxLength` the
bytes of a sequence; `MaxScroll` the scrolling on a screen too small to draw on.
What an option given twice means needs a fifth argument unless it is a flag; no
run covers that, but the proof of `ParserIsRight` does. Each property was also
tried on a model with one definition replaced by a plausible mistake, and fails
there.

### Fairness

`RuntimeLiveness` and `RuntimeWake` assume, all of it weak:

* `Strange`: the loop goes on. `select` has a time limit and nothing else blocks,
  except the last wait for the shell.
* `Tick`: time passes.
* `ShellExits`: a shell that was sent SIGHUP, or is already ending, ends. A shell
  that ignores SIGHUP keeps strange waiting at `reap`; the code has no limit there.

In `Parts`, of a window strange and the forked child go on; of a screensaver strange
goes on and callbacks return, as nothing stops a callback that does not; of the
rain frames are drawn again and again, and a random draw that
is made infinitely often comes out true in the end (strong fairness, of the draw
alone).

Nothing is assumed of the user, of when the shell reads or writes, or of a job:
it may keep the PTY open for ever.

## What the counterexamples show


* `RuntimeWake`: once the shell stops reading and `pending_input` is full, the
  terminal is not selected (runtime.c:485), so a key does not wake the
  screensaver. README.md:22-23: "Any key wakes it and restores the screen."
  `WakesOnKey` holds: with room for input a key does wake it.
* `RuntimeExit`: the exit of the shell ends the loop after one read of the PTY
  (runtime.c:570); output still in the PTY is not shown.
* `RuntimeSplit`: strange's own escapes (screensaver.c:137) may land inside a
  control sequence a read ended in; then the believed modes and the terminal's
  part ways. With whole sequences they never do (proved).
* `WindowRepaint`: a full-screen program on three rows is covered and told two; the
  terminal is resized to two rows and a key wakes strange before it has looked. It
  tells two on leaving, and two again for the resize flag: no change, no SIGWINCH,
  and nothing redraws what the screensaver drew over (pty.c:193). pty.c:178-180:
  the misreport is there "so that reporting the true size later is a change and
  makes a full-screen program repaint." `RepaintsOnWake` holds: without such a
  resize the program is told of a change.
* `ScreensaverReason`: `disable_failed_screensaver` leaves the screen, which calls
  `cleanup`, before it prints the reason (runtime.c:189-194). If `cleanup` of a
  script raises an error too, its message has replaced the first one
  (lua_screensaver.c:134), and is what is printed.
* `ScreensaverRetry`: an error raised by `cleanup` is described and then dropped
  (lua_screensaver.c:208): nothing is printed and the next timeout starts the
  script again. README.md:102-103: "a Lua error, turns the screensaver off for the
  rest of the session and prints the reason". `CallsInOrder` holds: after a failed
  `init` or `update` there is no next time.
* `SessionReuse`: a server started in a wrapped terminal outlives it and opens a
  window that gets the old terminal's name; `--status` says it is wrapped, and
  strange refuses to start there (session.c:32). README.md:43-44: it "says whether
  the current terminal is running under `strange`"; README.md:50. `SessionTold`
  holds: nothing but a name used again makes it wrong.

Three limits that no run shows as a counterexample, and are stated in the
properties: `present` compares sizes only (renderer.c:231), so a terminal resized
and resized back between two frames keeps what that left in cells that do not
change (`disturbed` in `FrameShown`); whether a key wakes or reaches the shell is
decided when it is read (runtime.c:306), so one typed just before the cover
appeared wakes it (`swallowed` in `InputIntact`); a `readdir` that fails before it has
returned the user's screensaver lets the built-in one of that name run
(screensaver_registry.c:283, `cut` in `UserFirst`).

## Proofs

TLAPS proves the theorems below for all values of the constants that satisfy the
named assumptions. Sizes and limits are natural numbers, mostly positive (`NsecPerSecAssumption`,
`TimerAssumption`, `RuntimeAssumption`, `RendererAssumption`,
`WindowAssumption`, `ModesAssumption`, `LaunchAssumption`). The reserved keys
are keys, and every piece of output has an effect (`RuntimeAssumption`); a mode
is a number below `ParameterCap` (`ModesAssumption`: 25, 47, 1047 and 1049 are
below 100000); there is a built-in screensaver (`LaunchAssumption`); no handle
and no name is called none (`ScreensaverAssumption`, `NoneAssumption`); a name
is no option, and none is spelled like the mark for a value not given
(`CommandLineAssumption`); a row of denabase's table is no longer than its
sequence (`DenabaseAssumption`: the kernel keeps a width in 16 bits, so a row
has at most 32764 bases of 100000).

| Module | Theorems |
|---|---|
| `RuntimeProofs` | `Invariance` (`IInv`), `TypeCorrect`, `CoverAgreement`, `NothingForgotten`, `OutputOrder`, `FullscreenKept`, `DisableKept`, `ScreenRestored` (if reads end between sequences), `ExitClean`, `OnlyKeysCount` (`OnlyKeysAreActivity`), `OutputLeavesItUp` (`OutputDoesNotWake`), `KeysArrive` (`InputIntact`) |
| `RelayProofs` | `RefinesRelay`: `Runtime` implements `Relay` (`ImplementsRelay`) |
| `LaunchProofs` | `LaunchInvariant` (`LaunchInv`), `LaunchTypeCorrect` (`LaunchTypeOK`), `ParserIsRight` (`ParsesAsDocumented`), `OrderDecidesNothing` (`DirectoryDecides`), `UserComesFirst` (`UserFirst`), `StartsTheRightOne` (`StartsWhatWasAsked`) |
| `RendererProofs` | `FrameInvariance` (`FrameInv`), `RendererTyped`, `TerminalShowsFrame` |
| `WindowSizeProofs` | `WindowInvariance` (`WindowInv`), `WindowTyped`, `NoResizeLost` (`SizeFollowed`), `WakeRepaints` (`RepaintsOnWake`) |
| `ScreensaverProofs` | `ScreensaverInvariance` (`ScreensaverInv`), `BufferIsDead` (`BufferOnlyDuringItsCall`), `NothingIsKept` (`NothingKept`), `CallsAreInOrder` (`CallsInOrder`) |
| `PartsProofs` | Timer: `ReachedExactly` (the borrow arithmetic equals plain subtraction of nanoseconds), `TimerInvariance`, `TimerNeverLate`, `TimerNeverEarly`. Session: `SessionInvariance` (`SessionInv`), `SessionIsTold` (`SessionTold`). Modes: `ModesAreFollowed` (`ModesFollowed`). Denabase: `HalvesAlwaysAgree` (`HalvesAgree`), `TableAlwaysMovesUp` (`TableMovesUp`) |

So every safety property that a run checks and that holds is proved.

**Runtime.** None of the safety properties is inductive alone. `IInv` adds three
parts. `Healthy` says, while no terminal call has failed, that the flags that
will undo the covering record exactly what was done: `misreported` iff `drewOver`
iff the shell is on its alternate screen; without it, leaving could not be shown
to restore the modes. `RoomInv` says that what `select` computed for
`input_capacity` plus what is pending never exceeds the buffer: the flush in
between only makes room. `HeldInv` and `ExitInv` tie held output to the cover and
raw mode to the phases of cleanup. The proof has a lemma for each operator that
returns outcomes (types, health, order of output), and one step for each action.

`OnlyKeysCount` needs one fact more, `RoomToRead`: a terminal that `select` found
readable is read with room for a key at least, so waking does take a key.

`KeysArrive` compares what was typed with `KeyFlow`, all there is between the
shell and the keyboard: the same keys but for the swallowed ones, in the same
order. `KeyInv` adds that a key is typed once, that only typed keys are
swallowed, and that the buffer of a read is empty outside the slicing of it, or else a failing call
has sent strange to its cleanup. Each of the six steps of the loop that touch keys moves a piece of the flow over
a border within it, or takes one out; that `forward_input_slice` takes none out
by accident is `RoomInv` again.

**Relay.** Each action is a step of `Relay` or changes nothing it speaks of. Two
facts are added to `IInv` (`RelayInv`): the buffer of a read is empty outside the
slicing of it, unless a failing call ended that, and raw mode lasts until cleanup.
Then every step is cutting and joining sequences: `Shown` says that output split
into shown, lost and still to come makes a `Show`, `TakenOut` that keys with a
piece taken out make a `Wake`. `RoomInv` comes back here: `forward_input_slice`
drops what does not fit, and it is the reason that there is nothing to drop.
`ExitShows` goes through every way of leaving the screensaver: what was held is
shown, or lost with a failing call.

**Launch.** `LaunchInv` has a part for the parser and one for the loader. The
parser looks at one argument at a time, the grammar at the whole line, so the
invariant speaks of all ways to read the line at once: what was accepted so far
are options that begin at some places (`OptionsBegin`), `options` are what these
say, and every reading of the whole line begins with them (`ReadSoFar`). It
starts true, as nothing was read. An option that is accepted extends every
reading, since a reading that ended before it would need a name there; one that
is refused leaves no reading. At the end exactly one reading is left, or none.
`Leads` is where a reading could have gone two ways: without it, options behind
a name are accepted, and the step that extends all readings fails.

`CatalogInv` says of a directory half read that the catalog is the built-in
screensavers in their order, then records of artifacts, and that each artifact
that was there all along is either listed or not yet read. While nobody edits,
what is listed is what is there without what is unread, so that at the end the order is forgotten; where `readdir` fails, what is listed
is still among what is there. `Asked` carries what was found to the moment it is started.
`GrownIsEnough` says that a doubling capacity gets past any number.

**Renderer.** `FrameInv` holds within the present loop: cells passed show the
frame, the others what was presented before, unless a resize has gone unnoticed.
The one hard step is `SendRun`: cells skipped before a run are unchanged, so what
the terminal shows there already is the frame's.

**Timer.** `ReachedExactly` reduces the two-part comparison to one number, for
any length of a second; the rest is an invariant on the remembered time.

**Window size.** `SyncInv` says of a sync in progress that what is about to be
told is right unless the flag is up again. `CoverInv` says that a program drawn
over has been told one row off the height last seen, and that this still is so
when the screensaver's leaving is about to tell the true one: so telling is a
change, unless the height asked for is not the one seen before. `StartInv` ties
the height read before the fork to the one that child will set.

**Screensaver.** `NothingKept` speaks of the phases after leaving, so it needs to
know that leaving finds either all of a takeover or nothing of it: `TakeoverInv`
says what there is in each phase, with one reference for a script that has
state. A failed `init` is undone before the screen is taken, a failed `update`
after it, which is why the two go to `leave` with different things to undo.
`BufferInv` ties the one usable handle to the call it was passed to; it holds
because every way out of a call, an error included, passes `TakeBuffer`.

**Session.** What a program has inherited, however, names a terminal that strange
wraps or once wrapped: `Known` is preserved because a name is retired exactly when
its wrapper goes.

**Modes.** The parser adds a digit to a number as it comes; the terminal reads a
whole sequence. `Follows` relates the struct to the bytes read so far: as many
semicolons as parameters behind, a `?` if there was one, and each parameter is
the number written, or both have reached the cap, past which the code keeps no
digits. As modes are below the cap, no mode is taken for another. The lemmas say
what one more byte does to each of these (`SemicolonsAppend`, `NumberAppend`,
`FollowsByte`), and that the byte that ends the sequence makes both do the same
(`FinishedAlike`).

**Denabase.** With the remainder characterised (`TheRest`, `NextRest`), C's
division corrected by `floor_divide` and `wrap` is the mathematical one also for
the rows before the start (`WrapIsRest`), and whole table rows close the loop
without a rest.

### How far the provers go

Induction over the naturals is used in one form: a set that holds 0 and with
each number its successor holds all (`Upward` in `NumberLemmas`, from the least
element of the set of exceptions). That is how a power of two exceeds its
exponent and how the recursive function in `Number` is shown to exist and to
depend on its text only.

Two definitions were changed in the course of it. Some CASE expressions had arms
whose conditions overlapped, where TLA+ leaves the choice open and TLC takes the
first: a proof cannot. They are now IFs, or have conditions that exclude one
another. And `InputIntact` and `Number` were stated with a filter and a sum over
a set, which no installed prover unfolds; they now say the same with order and
with a recursive function.

Only model-checked: liveness (`WakesOnKey`, `IdleIsCovered`, `InputMovesOn`,
`OutputIsRead`, `ShutdownCompletes`, `ShellExitCompletes`, `SizeSettles`,
`PreviewEnds`, `StreamsComeAndGo`), which rests on fairness and ENABLED, out of
the reach of these provers; and the seven counterexamples.

## Not modelled

* How the shell and its PTY are started apart from the size: the choice of the
  shell, descriptors, the login name. A failure there ends strange before anything
  was taken over.
* Loading a Lua script and checking a descriptor's fields: straight lines of
  checks. `Launch` has their result.
* The collector of the vendored interpreter: a handle is taken to live as long as
  the call that uses it, as it is an argument on the stack of `lua_pcall`. That
  C's pointer to it (lua_screensaver.c:157, :194) is used after the call, when the
  script may have dropped it, is not modelled: whether it is freed by then is the
  collector's matter.
* Strand columns of the helix, glyphs of the rain, the frame around the table.
* Key names, the watermark's layout, the example screensavers, texts and wording.
  They keep no state.
* A stream of rain on a screen lower than `MIN_STREAM_LENGTH` never ends: its end
  stops one row past the screen. Nothing says that it should, so it is a condition
  of `StreamsComeAndGo`.

## Plan

What is left is to be proved: that `TerminalModes`, `Screensaver`, `WindowSize`
and `Renderer` promise what `Runtime` takes of them as one step, each as a
refinement of a specification small enough to be put into `Runtime`; and the
safety half of the liveness properties: that what is waited for cannot be
undone, and what each step brings nearer.
