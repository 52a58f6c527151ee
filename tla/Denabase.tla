------------------------------ MODULE Denabase -------------------------------
(***************************************************************************)
(* demos/denabase.c: a helix scrolls up the right half of the screen while *)
(* a table on the left shows the stretch of the sequence it is passing.    *)
(* The state is how far it has scrolled; the layout, and so the length of  *)
(* the loop the sequence makes, follows the size of the screen, which may  *)
(* change between frames.  Where the strands run, and the frame around the *)
(* table, are left out: here are the bases, and the rows they fall on.     *)
(***************************************************************************)
EXTENDS Integers

CONSTANTS
  Sizes,          \* of the buffer, as records of w and h
  SequenceLength, \* SEQUENCE_LENGTH
  FramesPerRow,   \* FRAMES_PER_ROW
  MaxScroll       \* bound on scrolling while the screen is too small

RowsPerBase == 2

ASSUME DenabaseAssumption ==
  /\ Sizes \subseteq [w : Nat, h : Nat]
  /\ SequenceLength \in Nat /\ FramesPerRow \in Nat \ {0} /\ MaxScroll \in Nat
  /\ \A size \in Sizes : size.w \div 2 - 3 <= SequenceLength

VARIABLES
  size,           \* the buffer's w and h
  scroll,         \* denabase->scroll
  frame           \* frame_count % FRAMES_PER_ROW, as the next update finds it

denabaseVars == <<size, scroll, frame>>

-----------------------------------------------------------------------------
(* C's division, which rounds towards zero.                                *)
Divide(value, divisor) ==
  IF value < 0 THEN -((-value) \div divisor) ELSE value \div divisor

(* floor_divide and wrap, which C's operators have to be corrected to.     *)
FloorDivide(value, divisor) ==
  LET quotient  == Divide(value, divisor)
      remainder == value - quotient * divisor
  IN  IF remainder # 0 /\ value < 0 THEN quotient - 1 ELSE quotient

Wrap(value, modulus) ==
  LET remainder == value - Divide(value, modulus) * modulus
  IN  IF remainder < 0 THEN remainder + modulus ELSE remainder

(* compute_layout                                                          *)
BasesPerRow  == size.w \div 2 - 3
FocusRow     == size.h \div 2
SequenceRows == SequenceLength \div BasesPerRow
LargeEnough  == BasesPerRow >= 1 /\ size.h >= 7

(* The bases the loop is made of: those of whole table rows.               *)
Bases == SequenceRows * BasesPerRow

(* Mistake: one row of the screen to a base.                               *)
LoopOfBases == Bases

(* The rows of the screen the helix moves up until it starts again.        *)
Loop == Bases * RowsPerBase

(* base_at_row                                                             *)
BaseAtRow(y) == Wrap(FloorDivide(scroll + y - FocusRow, RowsPerBase), Bases)

(* draw_helix: the rows that have a base pair, and the one pointed at.     *)
HasPair(y) == Wrap(scroll + y - FocusRow, RowsPerBase) = 0
CurrentRow == FocusRow - Wrap(scroll, RowsPerBase)

(* draw_table: the current base, the sequence row in focus, and the        *)
(* sequence row shown on each row of the table but the two blank ones.     *)
CurrentBase == BaseAtRow(FocusRow)
FocusSequenceRow == CurrentBase \div BasesPerRow
TableRows == (2..(size.h - 2)) \ {FocusRow - 1, FocusRow + 1}
NextTableRow(y) == IF y + 1 \in TableRows THEN y + 1 ELSE y + 2
SequenceRow(y) ==
  LET offset == y - FocusRow
  IN  Wrap(FocusSequenceRow + (IF offset < 0 THEN offset + 1 ELSE 0)
                            + (IF offset > 0 THEN offset - 1 ELSE 0),
           SequenceRows)

-----------------------------------------------------------------------------
(* denabase_init: on any screen, and at any frame.                         *)
DenabaseInit ==
  /\ size \in Sizes /\ scroll = 0
  /\ frame \in 0..(FramesPerRow - 1)

(* denabase_update                                                         *)
DenabaseUpdate ==
  /\ LET moved == IF frame = 0 THEN scroll + 1 ELSE scroll
     IN  /\ LargeEnough \/ moved <= MaxScroll
         /\ scroll' = IF LargeEnough THEN moved % Loop ELSE moved
  /\ frame' = (frame + 1) % FramesPerRow
  /\ UNCHANGED size

DenabaseResize ==
  /\ size' \in Sizes \ {size}
  /\ UNCHANGED <<scroll, frame>>

DenabaseNext == DenabaseUpdate \/ DenabaseResize

DenabaseSpec == DenabaseInit /\ [][DenabaseNext]_denabaseVars

-----------------------------------------------------------------------------
(* After a frame was drawn; a resize may have come since.                  *)
Drawn == LargeEnough /\ scroll < Loop

(* The two halves read the same sequence and nothing beyond its end: the   *)
(* pair pointed at is the current base, the pairs follow one another as    *)
(* the bases do, and so do the rows of the table above and below the focus *)
(* row.  Also while the helix has yet to come up from below (the first     *)
(* rows are before the start of the sequence) and where the loop closes.   *)
HalvesAgree ==
  Drawn =>
    /\ HasPair(CurrentRow) /\ BaseAtRow(CurrentRow) = CurrentBase
    /\ \A y \in 0..(size.h - 1) :
         /\ BaseAtRow(y) \in 0..(SequenceLength - 1)
         /\ BaseAtRow(y + RowsPerBase) = (BaseAtRow(y) + 1) % Bases
    /\ \A y \in TableRows :
         /\ SequenceRow(y) \in 0..(SequenceRows - 1)
         /\ NextTableRow(y) \in TableRows =>
              SequenceRow(NextTableRow(y)) = (SequenceRow(y) + 1) % SequenceRows
    /\ SequenceRow(FocusRow) = FocusSequenceRow

(* The table moves up a row when the helix has gone through every base of  *)
(* the row in focus, and only then; also where the loop closes.            *)
TableMovesUp ==
  [][ Drawn /\ size' = size =>
        \/ CurrentBase' = CurrentBase
        \/ /\ CurrentBase' = (CurrentBase + 1) % Bases
           /\ FocusSequenceRow' # FocusSequenceRow /\ SequenceRows > 1 =>
                CurrentBase % BasesPerRow = BasesPerRow - 1 ]_denabaseVars
=============================================================================
