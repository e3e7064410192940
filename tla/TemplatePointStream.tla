------------------------- MODULE TemplatePointStream -------------------------
(***************************************************************************)
(* TemplatePoint::write and TemplatePoint::read (src/MathLib/TemplatePoint.h*)
(* lines 79-88, used by operator<< and operator>>) on a text stream that   *)
(* holds the points a program wrote one after the other, possibly followed *)
(* by other text.  read copies istream_iterator<T>(is) up to the end of   *)
(* the stream into _x.begin(): every number left in the stream is stored, *)
(* the ones after the DIM-th into the memory that follows _x.  That       *)
(* memory is modelled as the cells DIM .. DIM + Spill - 1 of mem.          *)
(***************************************************************************)
EXTENDS Integers, SequencesExt

CONSTANTS
  DIM,        \* the template parameter
  Coords,     \* coordinate values
  MaxPoints,  \* bound on the points written into the stream
  Spill,      \* cells of memory after _x that are modelled
  Untouched,  \* model value: the content of memory nobody wrote
  Text        \* model value: a token that is not a number

ASSUME DIM \in Nat \ {0} /\ Spill \in Nat /\ MaxPoints \in Nat
ASSUME Untouched \notin Coords /\ Text \notin Coords

Dims == 0 .. DIM - 1
Cells == 0 .. DIM + Spill - 1
IsNumber(t) == t # Text

VARIABLES
  stream,    \* the tokens not yet extracted
  failed,    \* the stream's failbit
  written,   \* history: the points written, in order
  mem,       \* _x of the point read into, and the memory after it
  readOnce   \* history: a read has happened

vars == <<stream, failed, written, mem, readOnce>>

Init ==
  /\ stream = <<>>
  /\ failed = FALSE
  /\ written = <<>>
  /\ mem = [c \in Cells |-> IF c < DIM THEN 0 ELSE Untouched]   \* TemplatePoint()
  /\ readOnce = FALSE

(* The tokens write produces: std::copy of _x into ostream_iterator<T>(os, *)
(* " "); the blanks only separate tokens.                                  *)
Render(x) == [i \in 1 .. DIM |-> x[i - 1]]

Write(x) ==
  /\ Len(written) < MaxPoints
  /\ ~readOnce
  /\ stream' = stream \o Render(x)
  /\ written' = Append(written, x)
  /\ UNCHANGED <<failed, mem, readOnce>>

(* Other text written after the points (a name, a keyword).               *)
WriteText ==
  /\ ~readOnce
  /\ stream # <<>>
  /\ Last(stream) # Text
  /\ stream' = Append(stream, Text)
  /\ UNCHANGED <<failed, written, mem, readOnce>>

(* Mutant: extraction does not stop at a token that is not a number.     *)
NumbersAheadAll(s) == Len(s)

(* The leading numbers of the stream: what istream_iterator yields.       *)
NumbersAhead(s) ==
  LET stop == SelectInSeq(s, LAMBDA t : ~IsNumber(t))
  IN  IF stop = 0 THEN Len(s) ELSE stop - 1

(* Mutant: the last number before the end is not copied.                 *)
CopiedOneShort(s) == IF NumbersAhead(s) > 0 THEN NumbersAhead(s) - 1 ELSE 0

(* read copies until istream_iterator compares equal to the end iterator: *)
(* the end of the stream or a token that is not a number; both set the    *)
(* failbit.  Writes past the modelled memory are cut off.                  *)
Copied(s) == NumbersAhead(s)

read ==
  /\ LET k == IF failed THEN 0 ELSE Copied(stream)
         stored == IF k < DIM + Spill THEN k ELSE DIM + Spill
     IN  /\ mem' = [c \in Cells |-> IF c < stored THEN stream[c + 1] ELSE mem[c]]
         /\ stream' = SubSeq(stream, k + 1, Len(stream))
         /\ failed' = (failed \/ k = NumbersAhead(stream))
  /\ readOnce' = TRUE
  /\ UNCHANGED written

Next ==
  \/ \E x \in [Dims -> Coords] : Write(x)
  \/ WriteText
  \/ read

Spec == Init /\ [][Next]_vars

-----------------------------------------------------------------------------
TypeOK ==
  /\ stream \in Seq(Coords \cup {Text})
  /\ mem \in [Cells -> Coords \cup {Untouched}]
  /\ {failed, readOnce} \subseteq BOOLEAN

(* Reading the first of several written points gives that point: after   *)
(* the first read the coordinates are those the first write wrote.        *)
FirstReadGivesFirstPoint ==
  readOnce /\ written # <<>> => \A i \in Dims : mem[i] = written[1][i]

(* read never stores into memory after _x (a stream holding two points,   *)
(* as operator<< produces for a list of points, must not overrun).        *)
NoWritePastCoordinates == \A c \in Cells \ Dims : mem[c] = Untouched

=============================================================================
