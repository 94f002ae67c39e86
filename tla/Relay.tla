------------------------------- MODULE Relay -------------------------------
(***************************************************************************)
(* What the tether promises to those that write on it: a relay that loses  *)
(* nothing.                                                                *)
(*                                                                         *)
(* Whatever a writer puts in comes out, unit by unit, as long as somebody  *)
(* reads the output.  The relay ends when all writers have left and all is *)
(* out, or when nobody reads; it gives up what is inside only once its     *)
(* owner has gone and the relay has been told so.                          *)
(*                                                                         *)
(* Tether implements this with a pipe, a buffer and a thread.              *)
(***************************************************************************)
EXTENDS Naturals

CONSTANTS
  Writer,   \* those that may write
  Owner,    \* the writer that is waited for
  Room      \* how much there may be inside

VARIABLES
  writers,  \* those that may write still
  inside,   \* how much has been written and is not out
  outside,  \* how much is out and has not been read
  reader,   \* whether the output has a reader
  told,     \* whether the relay has been told that its owner has gone
  finish    \* why the relay has ended

relay == <<writers, inside, outside, reader, told, finish>>

Init ==
  /\ writers \subseteq Writer
  /\ inside = 0 /\ outside = 0 /\ reader = "open"
  /\ told = "no" /\ finish = "no"

Put ==
  /\ writers # {} /\ inside < Room
  /\ inside' = inside + 1
  /\ UNCHANGED <<writers, outside, reader, told, finish>>

Close(w) ==
  /\ w \in writers
  /\ writers' = writers \ {w}
  /\ UNCHANGED <<inside, outside, reader, told, finish>>

Forward ==
  /\ finish = "no" /\ reader = "open"
  /\ inside > 0 /\ outside = 0
  /\ inside' = inside - 1 /\ outside' = outside + 1
  /\ UNCHANGED <<writers, reader, told, finish>>

Take ==
  /\ outside > 0
  /\ outside' = outside - 1
  /\ UNCHANGED <<writers, inside, reader, told, finish>>

\* What is out and not read goes with the reader.
ReaderLeaves ==
  /\ reader = "open"
  /\ reader' = "closed" /\ outside' = 0
  /\ UNCHANGED <<writers, inside, told, finish>>

Tell ==
  /\ Owner \notin writers
  /\ told' = "yes"
  /\ UNCHANGED <<writers, inside, outside, reader, finish>>

Finish(why) ==
  /\ finish = "no"
  /\ \/ why = "empty"   /\ ((writers = {} /\ inside = 0) \/ reader = "closed")
     \/ why = "broken"  /\ reader = "closed"
     \/ why = "expired" /\ told = "yes"
  /\ finish' = why
  /\ UNCHANGED <<writers, inside, outside, reader, told>>

Next ==
  \/ Put \/ Forward \/ Take \/ ReaderLeaves \/ Tell
  \/ \E w \in Writer : Close(w)
  \/ \E why \in {"empty", "broken", "expired"} : Finish(why)

Spec == Init /\ [][Next]_relay
============================================================================
