----------------------------- MODULE QuietCorner -----------------------------
(***************************************************************************)
(* Where the watermark goes (gallery/watermark_sat.py): the corner of the   *)
(* canvas whose pixels vary least, found with two summed-area tables over a *)
(* copy of the canvas that is scaled down, together with logo and margin,   *)
(* to at most MaxSide.                                                      *)
(***************************************************************************)
EXTENDS Integers, FiniteSets

CONSTANTS
    Canvas,         \* canvases: width, height, the logo's lw and lh, margin
    Luminance,      \* values a pixel may have
    MaxSide,        \* max_side
    MinPixels,      \* min_pixels
    Epsilon         \* tie_epsilon

ASSUME CornerAssumption ==
    /\ Canvas \subseteq [w : Nat, h : Nat, lw : Nat, lh : Nat, m : Nat]
    /\ Luminance \subseteq Nat /\ IsFiniteSet(Luminance)
    /\ MaxSide \in Nat \ {0} /\ MinPixels \in Nat /\ Epsilon \in Nat

VARIABLES
    canvas,     \* the one at hand
    pixel,      \* the luminance of its scaled copy
    s1, s2,     \* sums of the luminance and of its square
    at,         \* the pixel summed next: x, y, and its row's sums so far
    choice      \* the corner chosen

cornerVars == <<canvas, pixel, s1, s2, at, choice>>

Corners == {"TL", "TR", "BL", "BR"}
Undecided == "none"

Square(n) == n * n
AtLeast(a, b) == IF a > b THEN a ELSE b

(* int(round(...)): a half goes to the even side.                           *)
Rounded(a, b) ==
    LET q == a \div b
        twice == 2 * (a % b)
    IN  IF twice > b \/ (twice = b /\ q % 2 = 1) THEN q + 1 ELSE q

Longest(c) == AtLeast(c.w, c.h)
Scaled(c, n) == IF Longest(c) > MaxSide THEN Rounded(n * MaxSide, Longest(c)) ELSE n
Small(c) == [w |-> AtLeast(1, Scaled(c, c.w)), h |-> AtLeast(1, Scaled(c, c.h)),
             lw |-> AtLeast(1, Scaled(c, c.lw)), lh |-> AtLeast(1, Scaled(c, c.lh)),
             m |-> Scaled(c, c.m)]
Grid(c) == (1..Small(c).w) \X (1..Small(c).h)
Table(c) == (0..Small(c).w) \X (0..Small(c).h)

(* Top left of the logo in each corner.                                     *)
Position(c) ==
    LET right == AtLeast(c.m, c.w - c.lw - c.m)
        below == AtLeast(c.m, c.h - c.lh - c.m)
    IN  [TL |-> <<c.m, c.m>>, TR |-> <<right, c.m>>,
         BL |-> <<c.m, below>>, BR |-> <<right, below>>]

Fits(c) ==
    /\ c.lw > 0 /\ c.lh > 0
    /\ c.w >= c.lw + 2 * c.m /\ c.h >= c.lh + 2 * c.m
    /\ c.w * c.h >= MinPixels

CornerTypeOK ==
    /\ canvas \in Canvas
    /\ pixel \in [Grid(canvas) -> Luminance]
    /\ s1 \in [Table(canvas) -> Nat] /\ s2 \in [Table(canvas) -> Nat]
    /\ at.x \in 1..Small(canvas).w /\ at.y \in 1..(Small(canvas).h + 1)
    /\ choice \in Corners \cup {Undecided}

CornerInit ==
    /\ canvas \in Canvas
    /\ pixel \in [Grid(canvas) -> Luminance]
    /\ s1 = [p \in Table(canvas) |-> 0] /\ s2 = s1
    /\ at = [x |-> 1, y |-> 1, sum |-> 0, sumsq |-> 0]
    /\ choice = Undecided

Summed == at.y > Small(canvas).h

(* Mutant: the row's sum is not started afresh.                             *)
SumPixelOn ==
    LET lum == pixel[<<at.x, at.y>>]
        sum == at.sum + lum
        sumsq == at.sumsq + lum * lum
        ends == at.x = Small(canvas).w
    IN  /\ choice = Undecided /\ Fits(canvas) /\ ~Summed
        /\ s1' = [s1 EXCEPT ![<<at.x, at.y>>] = s1[<<at.x, at.y - 1>>] + sum]
        /\ s2' = [s2 EXCEPT ![<<at.x, at.y>>] = s2[<<at.x, at.y - 1>>] + sumsq]
        /\ at' = IF ends THEN [x |-> 1, y |-> at.y + 1, sum |-> sum, sumsq |-> sumsq]
                 ELSE [x |-> at.x + 1, y |-> at.y, sum |-> sum, sumsq |-> sumsq]
        /\ UNCHANGED <<canvas, pixel, choice>>

SumPixel ==
    LET lum == pixel[<<at.x, at.y>>]
        sum == at.sum + lum
        sumsq == at.sumsq + lum * lum
        ends == at.x = Small(canvas).w
    IN  /\ choice = Undecided /\ Fits(canvas) /\ ~Summed
        /\ s1' = [s1 EXCEPT ![<<at.x, at.y>>] = s1[<<at.x, at.y - 1>>] + sum]
        /\ s2' = [s2 EXCEPT ![<<at.x, at.y>>] = s2[<<at.x, at.y - 1>>] + sumsq]
        /\ at' = IF ends THEN [x |-> 1, y |-> at.y + 1, sum |-> 0, sumsq |-> 0]
                 ELSE [x |-> at.x + 1, y |-> at.y, sum |-> sum, sumsq |-> sumsq]
        /\ UNCHANGED <<canvas, pixel, choice>>

(* The logo is inside the scaled copy in this corner.                       *)
Inside(k) ==
    LET c == Small(canvas)
        p == Position(c)[k]
    IN  p[1] + c.lw <= c.w /\ p[2] + c.lh <= c.h
Scored == {k \in Corners : Inside(k)}

(* The variance of the logo's pixels there, times the square of their       *)
(* number: four reads of each table.                                        *)
Variance(k) ==
    LET c == Small(canvas)
        x0 == Position(c)[k][1]
        y0 == Position(c)[k][2]
        box(s) == s[<<x0 + c.lw, y0 + c.lh>>] - s[<<x0 + c.lw, y0>>]
                    - s[<<x0, y0 + c.lh>>] + s[<<x0, y0>>]
    IN  c.lw * c.lh * box(s2) - Square(box(s1))
Tie == Epsilon * Square(Small(canvas).lw * Small(canvas).lh)

SkipSearch ==
    /\ choice = Undecided /\ ~Fits(canvas)
    /\ choice' = "BR"
    /\ UNCHANGED <<canvas, pixel, s1, s2, at>>

(* The bottom right corner wins ties, and wins when all corners are nearly  *)
(* the same or none can be scored.                                          *)
Choose ==
    /\ choice = Undecided /\ Summed
    /\ LET quietest == {k \in Scored : \A j \in Scored : Variance(k) <= Variance(j)}
           nearBR == \E k \in quietest : "BR" \in Scored /\ Variance("BR") - Variance(k) <= Tie
           level == \A j, k \in Scored : Variance(j) - Variance(k) <= Tie
       IN  choice' \in IF Scored = {} \/ nearBR \/ level THEN {"BR"} ELSE quietest
    /\ UNCHANGED <<canvas, pixel, s1, s2, at>>

CornerNext == SumPixel \/ SkipSearch \/ Choose

CornerSpec == CornerInit /\ [][CornerNext]_cornerVars
-----------------------------------------------------------------------------
(* The pixels of the scaled copy the logo would cover, and what their       *)
(* variance is by its definition: the squared differences of all pairs.     *)
Covered(k) ==
    LET c == Small(canvas)
        p == Position(c)[k]
    IN  {q \in Grid(canvas) : /\ p[1] < q[1] /\ q[1] <= p[1] + c.lw
                              /\ p[2] < q[2] /\ q[2] <= p[2] + c.lh}
Level(k, lum) == Cardinality({q \in Covered(k) : pixel[q] = lum})
Spread(k) ==
    LET pairsOf == {p \in Luminance \X Luminance : p[1] < p[2]}
        total[S \in SUBSET pairsOf] ==
            IF S = {} THEN 0
            ELSE LET t == CHOOSE t \in S : TRUE
                 IN  Square(t[2] - t[1]) * Level(k, t[1]) * Level(k, t[2]) + total[S \ {t}]
    IN  total[pairsOf]

(* The logo is put inside the canvas, and away from the bottom right only   *)
(* for a corner that is quieter by more than the tolerance, none quieter    *)
(* still; a first corner is not kept because a sum was off by a row or an   *)
(* edge by a pixel (watermark_sat.py:34-157).                               *)
LogoInQuietCorner ==
    choice # Undecided =>
        LET p == Position(canvas)[choice]
        IN  /\ Fits(canvas) => p[1] + canvas.lw <= canvas.w /\ p[2] + canvas.lh <= canvas.h
            /\ choice # "BR" =>
                /\ \A k \in Scored : Spread(choice) <= Spread(k)
                /\ "BR" \in Scored => Spread("BR") > Spread(choice) + Tie
            /\ (choice = "BR" /\ Fits(canvas) /\ "BR" \in Scored) =>
                \/ \A k \in Scored : Spread("BR") <= Spread(k) + Tie
                \/ \A j, k \in Scored : Spread(j) <= Spread(k) + Tie
=============================================================================
