----------------------------- MODULE BoxGeometry -----------------------------
(***************************************************************************)
(* One axis of a box, on its way between a person's workspace and its row. *)
(* The workspace and the training place it on the image, the row on the    *)
(* square that process_dataset() pads the image to.  A coordinate is a     *)
(* whole number of units: of 10^-8 in the code, where Side is 640 and Unit *)
(* 10^8 / 640.                                                             *)
(***************************************************************************)
EXTENDS Integers

CONSTANTS
  Side,    \* of the square
  Unit,    \* units in a pixel of the square: its side is a whole number of them
  MinBox   \* MIN_BOX of the workspace

ASSUME GeometryAssumption ==
  {Side, Unit, MinBox} \subseteq Nat \ {0} /\ Side <= 2 * MinBox

Scale == Side * Unit

-----------------------------------------------------------------------------
(* Rounding n / d *)

RoundEven(n, d) ==
  LET q == n \div d
      r == n % d
  IN  IF 2 * r < d \/ (2 * r = d /\ q % 2 = 0) THEN q ELSE q + 1

\* The columns are Numeric(9, 8).  Mutation: digits that do not fit are dropped.
CutHalf(n, d) == n \div d
RoundHalf(n, d) == (2 * n + d) \div (2 * d)

\* toFixed(8) of a double, which may be on either side of a tie
Fixed(n, d) == {q \in {n \div d, n \div d + 1} : 2 * q * d - 2 * n \in -d..d}

-----------------------------------------------------------------------------
(* _letterbox(): the pixels of the square that an image w by h takes, and those before *)

Content(w, h) ==
  LET longer == IF w > h THEN w ELSE h
      out == RoundEven(w * Side, longer)
  IN  IF longer <= Side THEN w ELSE IF out = 0 THEN 1 ELSE out

Padding(content) == (Side - content) \div 2

\* toBox(): what a workspace sends of a rectangle of quarters of units
ToBox(left, width) == Fixed(2 * left + width, 8) \X Fixed(width, 4)

\* AnnotationBoxInput.contained(), and the CHECK constraints of a row on its square: box
\* <<center, width>> is within its bounds.
Contained(box) == box[2] > 0 /\ 2 * box[1] - box[2] >= 0 /\ 2 * box[1] + box[2] <= 2 * Scale

\* _box_to_storage(), and the columns
ToStorage(box, content) ==
  <<Padding(content) * Unit + RoundHalf(box[1] * content, Side), RoundHalf(box[2] * content, Side)>>

\* The request is valid and the table takes the row, whose rounding may leave the square.
Saveable(box, content) == Contained(box) /\ Contained(ToStorage(box, content))

\* _box_response(), times content
FromStorage(row, content) ==
  <<(row[1] - Padding(content) * Unit) * Side, row[2] * Side>>

\* fromBox() and toBox(): what the workspace sends of a box it was shown and that nobody
\* has touched
SentAgain(row, content) ==
  LET shown == FromStorage(row, content)
  IN  Fixed(shown[1], content) \X Fixed(shown[2], content)

\* _training_box_coordinates() refuses a box that leaves the image.  Its divisions are
\* rounded, so that it may refuse one that reaches to a border, unless they are exact.
MayRefuse(row, content) ==
  LET shown == FromStorage(row, content)
      inside == IF content = Side THEN 0 ELSE 1
  IN  \/ 2 * shown[1] - shown[2] < inside
      \/ 2 * shown[1] + shown[2] > 2 * Scale * content - inside

=============================================================================
