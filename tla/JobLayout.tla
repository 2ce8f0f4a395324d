----------------------------- MODULE JobLayout -----------------------------
(***************************************************************************)
(* Where a label lands on the page, job.c.  Both axes are laid out alike:  *)
(* Axis is one of them, in dots.  Calibration moves a label; what would    *)
(* be off the page before its first dot is cut off (shift), what is behind *)
(* its last is not sent (len).  Left out: millimetres and floats (d is the *)
(* offset in dots), and the pixels of the test frame.                      *)
(***************************************************************************)
EXTENDS Integers

Least(a, b)   == IF a < b THEN a ELSE b
Greatest(a, b) == IF a > b THEN a ELSE b

Centre(page, src) == Greatest((page - src) \div 2, 0)

\* job_compute_layout: the offset d, then the correction adj.
Axis(page, src, d, adj) ==
    LET moved  == Centre(page, src) + d
        again  == Greatest(moved, 0) + adj
        origin == Least(Greatest(again, 0), page - 1)
    IN  [origin |-> origin,
         shift  |-> Least(moved, 0) + Least(again, 0),
         len    |-> Least(src, Greatest(page - origin, 1))]

\* print_height_adj makes the bitmap higher or lower.
Height(page, l, hadj) == Least(Greatest(l.len + hadj, 1), Greatest(page - l.origin, 1))

\* layout_and_build: the place on the page of dot sx of a label, and whether it
\* is sent; the buffer the bitmap is cropped into.
Place(l, sx) == l.origin + l.shift + sx
Sent(l, sx)  == sx + l.shift \in 0..(l.len - 1)
RowBytes(len) == (len + 7) \div 8

\* safe_clamp, of one axis of so many dots.
SafeClamp(dots, x0, x1) ==
    LET lo == Greatest(x0, 0)
        hi == Greatest(Least(x1, dots - 1), lo + 3)
    IN  IF hi >= dots THEN [x0 |-> dots - 4, x1 |-> dots - 1]
        ELSE [x0 |-> lo, x1 |-> hi]

----------------------------------------------------------------------------
(* What the layout promises *)

\* What is sent lies on the page, and there is something to send.
InsidePage(page, src, d, adj) ==
    LET l == Axis(page, src, d, adj)
    IN  l.origin >= 0 /\ l.shift <= 0 /\ l.len >= 1 /\ l.len <= src
        /\ l.origin + l.len <= page

\* A dot is printed where offset and correction put it, unless that is behind
\* the page: splitting the move into origin and shift moves nothing.
InPlace(page, src, d, adj) ==
    LET l == Axis(page, src, d, adj)
    IN  l.origin < page - 1 =>
            \A sx \in 0..(src - 1) : Place(l, sx) = Centre(page, src) + d + adj + sx

\* Every dot that belongs on the page is sent, unless an offset cuts the label at
\* the start of the page and the correction then moves it back: what the offset
\* has cut stays cut.
NothingLost(page, src, d, adj) ==
    LET l == Axis(page, src, d, adj)
        p == Centre(page, src) + d + adj
    IN  ~(Centre(page, src) + d < 0 /\ adj > 0) =>
            \A sx \in 0..(src - 1) : p + sx \in 0..(page - 1) => Sent(l, sx)

\* The cropped bitmap fits into its buffer, so that no label that was accepted is
\* refused for its place.
BitmapFits(page, rows, src, d, adj, y, hadj) ==
    \A bytes \in Nat :
        src <= 8 * bytes =>
            RowBytes(Axis(page, src, d, adj).len) * Height(rows, y, hadj) <= bytes * rows

\* Whatever is in the settings, the safe rectangle lies on the label and has room.
SafeInside(dots, x0, x1) ==
    LET s == SafeClamp(dots, x0, x1)
    IN  0 <= s.x0 /\ s.x0 + 3 <= s.x1 /\ s.x1 <= dots - 1
=============================================================================
