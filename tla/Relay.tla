------------------------------- MODULE Relay --------------------------------
(***************************************************************************)
(* What strange promises to somebody who types at the terminal and looks   *)
(* at it, without saying how: keys travel to the shell and output to the   *)
(* screen, each in order, and now and then the screen is covered.          *)
(*                                                                         *)
(* While it is covered nothing the shell writes reaches the screen.  A key *)
(* goes astray in three ways only: it uncovers the screen, it is the       *)
(* reserved key, or strange gives the terminal back before it arrives.     *)
(* Output goes astray if the terminal fails; what is still in flight when  *)
(* the terminal is given back is never shown.                              *)
(***************************************************************************)
EXTENDS Naturals, Sequences

CONSTANTS Keys, DisableKeys, Chunks

VARIABLES
  covered,    \* the screensaver is on the screen
  relaying,   \* FALSE once strange gives the terminal back
  broken,     \* a call on the terminal has failed
  inFlight,   \* keys typed and not yet read by the shell
  received,   \* keys the shell has read
  outFlight,  \* output written and not yet shown
  shown       \* output shown

input  == <<inFlight, received>>
output == <<outFlight, shown>>
mode   == <<covered, relaying, broken>>
vars   == <<mode, input, output>>

Init ==
  /\ covered = FALSE /\ relaying = TRUE /\ broken = FALSE
  /\ inFlight = <<>> /\ received = <<>> /\ outFlight = <<>> /\ shown = <<>>

(* The user types, the shell reads, the shell writes.                      *)
Type(k) ==
  /\ inFlight' = Append(inFlight, k)
  /\ UNCHANGED <<mode, received, output>>

Deliver ==
  /\ inFlight # <<>>
  /\ received' = Append(received, Head(inFlight))
  /\ inFlight' = Tail(inFlight)
  /\ UNCHANGED <<mode, output>>

Emit(c) ==
  /\ outFlight' = Append(outFlight, c)
  /\ UNCHANGED <<mode, input, shown>>

Cover ==
  /\ relaying /\ ~ covered
  /\ covered' = TRUE /\ (broken => broken')
  /\ UNCHANGED <<relaying, input, output>>

(* The next n pieces of output leave for an uncovered screen, or one that  *)
(* is uncovered first; the last of them may be lost to a broken terminal.  *)
Show ==
  /\ ~ covered' /\ (broken => broken')
  /\ \E n \in 0..Len(outFlight) : \E m \in 0..n :
       /\ m < n => broken'
       /\ outFlight' = SubSeq(outFlight, n + 1, Len(outFlight))
       /\ shown' = shown \o SubSeq(outFlight, 1, m)

(* Output is shown; the screensaver may end by itself.                     *)
ShowOutput == relaying /\ Show /\ UNCHANGED <<relaying, input>>

(* Keys uncover the screen: those from i + 1 to j.                         *)
Wake ==
  /\ relaying /\ covered
  /\ Show
  /\ \E j \in 0..Len(inFlight) : \E i \in 0..j :
       inFlight' = SubSeq(inFlight, 1, i) \o SubSeq(inFlight, j + 1, Len(inFlight))
  /\ UNCHANGED <<relaying, received>>

(* The reserved key never reaches the shell.                               *)
Reserve ==
  /\ relaying
  /\ \E i \in 1..Len(inFlight) :
       /\ inFlight[i] \in DisableKeys
       /\ inFlight' = SubSeq(inFlight, 1, i - 1)
                        \o SubSeq(inFlight, i + 1, Len(inFlight))
  /\ UNCHANGED <<mode, received, output>>

(* The terminal is given back.  Keys on the way to strange are discarded;  *)
(* those on the way from it to the shell are not.  Some output may be      *)
(* shown as the screen is uncovered; the rest stays in flight for ever.    *)
GiveBack ==
  /\ relaying /\ relaying' = FALSE
  /\ Show
  /\ \E i \in 0..Len(inFlight) : inFlight' = SubSeq(inFlight, 1, i)
  /\ UNCHANGED received

(* A call fails without anything being lost.                               *)
Break ==
  /\ broken' = TRUE
  /\ UNCHANGED <<covered, relaying, input, output>>

Next ==
  \/ \E k \in Keys : Type(k)
  \/ Deliver
  \/ \E c \in Chunks : Emit(c)
  \/ Cover \/ ShowOutput \/ Wake \/ Reserve \/ GiveBack \/ Break

Spec == Init /\ [][Next]_vars
=============================================================================
