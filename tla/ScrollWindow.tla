---------------------------- MODULE ScrollWindow ----------------------------
(***************************************************************************)
(* A list in a window that scrolls and a line of text in a box narrower    *)
(* than it, as the displays of menuconfig.py have them.                    *)
(***************************************************************************)
EXTENDS Integers

----------------------------------------------------------------------------
(* A list.  The operators work on any record w with the fields n, the      *)
(* length of the list, rows, the height of the window, sel, the selected   *)
(* entry, and scroll, the entry on the top row; entries count from 0.      *)

SCROLL_OFFSET == 5
PG_JUMP == 6

least(a, b)    == IF a < b THEN a ELSE b
greatest(a, b) == IF a < b THEN b ELSE a

max_scroll(w) == greatest(0, w.n - w.rows)

\* A mutant: the window follows only a selection that has reached its last row.
select_next_LastRow(w) ==
    IF w.sel >= w.n - 1 THEN w
    ELSE [w EXCEPT !.sel = @ + 1,
                   !.scroll = IF w.sel >= @ + w.rows /\ @ < max_scroll(w) THEN @ + 1 ELSE @]

select_next(w) ==
    IF w.sel >= w.n - 1 THEN w
    ELSE [w EXCEPT !.sel = @ + 1,
                   !.scroll = IF w.sel + 1 >= @ + w.rows - SCROLL_OFFSET /\ @ < max_scroll(w)
                              THEN @ + 1 ELSE @]

select_prev(w) ==
    IF w.sel <= 0 THEN w
    ELSE [w EXCEPT !.sel = @ - 1,
                   !.scroll = IF w.sel - 1 < @ + SCROLL_OFFSET THEN greatest(@ - 1, 0) ELSE @]

\* The search display has its own, which go on counting while nothing matches.
select_next_match(w) ==
    IF w.sel = w.n - 1 THEN w
    ELSE [w EXCEPT !.sel = @ + 1,
                   !.scroll = IF w.sel + 1 >= @ + w.rows - SCROLL_OFFSET /\ @ < max_scroll(w)
                              THEN @ + 1 ELSE @]

select_prev_match(w) ==
    IF w.sel = 0 THEN w
    ELSE [w EXCEPT !.sel = @ - 1,
                   !.scroll = IF w.sel - 1 < @ + SCROLL_OFFSET THEN greatest(@ - 1, 0) ELSE @]

\* A page is six single steps.
Paged(Step(_), w) == Step(Step(Step(Step(Step(Step(w))))))

select_last(w)  == [w EXCEPT !.sel = w.n - 1, !.scroll = max_scroll(w)]
select_first(w) == [w EXCEPT !.sel = 0, !.scroll = 0]

\* The window gets another height; it follows the selected entry down, never up.
resized(w, rows) ==
    [w EXCEPT !.rows = rows, !.scroll = IF w.sel - @ >= rows THEN w.sel - rows + 1 ELSE @]

\* The selected entry is put in the middle, if the ends of the list allow.
center_vertically(w) ==
    [w EXCEPT !.scroll = least(greatest(w.sel - (w.rows \div 2), 0), max_scroll(w))]

\* Entry k of a new list of n is selected, and should appear on row r.
on_row(w, n, k, r) == [w EXCEPT !.n = n, !.sel = k, !.scroll = greatest(k - r, 0)]

row(w) == w.sel - w.scroll

InWindow(w) == 0 <= w.sel /\ w.sel < w.n /\ 0 <= w.scroll /\ row(w) \in 0..(w.rows - 1)

----------------------------------------------------------------------------
(* A text, as _edit_text changes it; of the text only its length matters.  *)
(* The operators work on any record b with the fields len, i, the cursor,  *)
(* hscroll, the first character in the box, and width.                     *)

\* The scroll is adjusted after every key, so that the cursor keeps off the edges of the box.
scrolled(b) ==
    [b EXCEPT !.hscroll =
        IF b.i < @ + SCROLL_OFFSET THEN greatest(b.i - SCROLL_OFFSET, 0)
        ELSE IF b.i >= @ + b.width - SCROLL_OFFSET
             THEN least(b.i - b.width + SCROLL_OFFSET + 1, greatest(b.len - b.width + 1, 0))
        ELSE @]

left(b)       == [b EXCEPT !.i = greatest(@ - 1, 0)]
right(b)      == [b EXCEPT !.i = least(@ + 1, b.len)]
home(b)       == [b EXCEPT !.i = 0]
end(b)        == [b EXCEPT !.i = b.len]
\* Backspace, and Ctrl-W, which takes away the word before the cursor: the text from k to the cursor.
erase(b, k)   == [b EXCEPT !.len = @ - (b.i - k), !.i = k]
delete(b)     == [b EXCEPT !.len = IF b.i < @ THEN @ - 1 ELSE @]
cut_right(b)  == [b EXCEPT !.len = b.i]
cut_left(b)   == [b EXCEPT !.len = @ - b.i, !.i = 0]
insert(b)     == [b EXCEPT !.len = @ + 1, !.i = @ + 1]

\* A key moves the cursor or changes the text.
edit_moves(b) == {scrolled(left(b)), scrolled(right(b)), scrolled(home(b)), scrolled(end(b))}
edit_changes(b) ==
    {scrolled(erase(b, k)) : k \in 0..(b.i - 1)}
    \cup {scrolled(delete(b)), scrolled(cut_right(b)), scrolled(cut_left(b)), scrolled(insert(b))}

\* A box that is opened with a text of length len.
opened(len, width) ==
    [len |-> len, i |-> len, hscroll |-> greatest(len - width + 1, 0), width |-> width]

\* The cursor is on the text and inside a box that is wide enough for the margins, and on an edge of it
\* only at an end of the text.
InBox(b) ==
    /\ 0 <= b.i /\ b.i <= b.len /\ 0 <= b.hscroll
    /\ b.width > SCROLL_OFFSET => b.hscroll <= b.i /\ b.i < b.hscroll + b.width
    /\ b.width > SCROLL_OFFSET + 1 =>
          /\ b.i = b.hscroll => b.i = 0
          /\ b.i = b.hscroll + b.width - 1 => b.i = b.len
=============================================================================
