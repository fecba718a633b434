------------------------------- MODULE Screen -------------------------------
(***************************************************************************)
(* Where the game draws: game/draw.c and draw_string() of game/video.c.  A *)
(* frame is a sequence of strings, of which only the length matters, and a *)
(* string ends up as boxes of 8 by 8 pixels.  x counts rows, y columns, as *)
(* in the code.                                                            *)
(***************************************************************************)
EXTENDS Integers, Sequences

SCR_WIDTH == 320
SCR_HEIGHT == 200
SCR_SIZE == SCR_WIDTH * SCR_HEIGHT

\* A call of draw_string, or of draw_character with one character.
Text(len, x, y) == [len |-> len, x |-> x, y |-> y]

\* The box after this one: a new line begins at the left.
NextBox(box) ==
  IF box[2] + 8 >= SCR_WIDTH THEN <<box[1] + 8, 0>> ELSE <<box[1], box[2] + 8>>

\* The box of each character.
draw_string(text) ==
  LET boxes[k \in 1 .. text.len] ==
        IF k = 1 THEN <<text.x, text.y>> ELSE NextBox(boxes[k - 1])
  IN  boxes

-----------------------------------------------------------------------------

\* Mutant: the width of the string, without the division.
c_width_Whole(len) == len * 8

c_width(len) == (len \div 2) * 8

Centered(len, x) == Text(len, x, SCR_WIDTH \div 2 - c_width(len))

\* The column of letter i of the wrong ones.
skip(i) == 12 * i

\* "MISS:", the number, of that many digits, and the wrong letters.
draw_miss(miss, digits) ==
  << Text(5, SCR_HEIGHT - 18, 0), Text(digits, SCR_HEIGHT - 18, 5 * 8) >>
  \o [k \in 1 .. miss |-> Text(1, SCR_HEIGHT - 9, skip(k - 1))]

\* tip, the word, the score, the misses, "TIME:" and the time.
redraw_screen(word, score, miss, digits, time) ==
  << Centered(15, SCR_HEIGHT \div 4 - 8), Centered(word, SCR_HEIGHT \div 4 + 8),
     Text(score, 0, SCR_WIDTH - score * 8) >>
  \o draw_miss(miss, digits)
  \o << Text(5, 0, 0), Text(time, 0, 5 * 8) >>

\* draw_fail and draw_win: the message and end_tip.
draw_end(endword) ==
  << Centered(endword, SCR_HEIGHT \div 2 - 12), Centered(18, SCR_HEIGHT \div 2) >>

EndWords == {12, 36, 25}

-----------------------------------------------------------------------------
(* Properties, each of one frame.                                          *)

\* The assertion in draw_pixel, for the first and last pixel of every box, and
\* the place in vbuf that it is for.
OnScreen(frame) ==
  \A n \in DOMAIN frame :
    LET boxes == draw_string(frame[n])
    IN  \A k \in DOMAIN boxes :
          LET x == boxes[k][1]
              y == boxes[k][2]
          IN  /\ x >= 0 /\ y >= 0 /\ x + 7 < SCR_HEIGHT /\ y + 7 < SCR_WIDTH
              /\ 256 * (x + 7) + 64 * (x + 7) + y + 7 < SCR_SIZE

\* A string that stays in its line covers [x, x+8) by [y, y + 8 len); and no two
\* cover a pixel.
Legible(frame) ==
  \A n \in DOMAIN frame :
    LET a == frame[n]
    IN  /\ a.y + 8 * a.len <= SCR_WIDTH
        /\ \A m \in DOMAIN frame \ {n} :
             LET b == frame[m]
             IN  \/ a.x + 8 <= b.x \/ b.x + 8 <= a.x
                 \/ a.y + 8 * a.len <= b.y \/ b.y + 8 * b.len <= a.y

=============================================================================
