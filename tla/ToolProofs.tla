----------------------------- MODULE ToolProofs -----------------------------
(***************************************************************************)
(* Theorems on the command-line tools.  The windows of menuconfig.py: the  *)
(* selected entry of a list is always in its window, for lists and windows *)
(* of any size, and the cursor of a text always in its box.  project.py:   *)
(* whatever commands are called and wherever they are killed, what is      *)
(* compiled is compiled for one configuration, which one, and with which   *)
(* version; and flash.py uses the settings it was given.  kconfiglib.py:   *)
(* what its search for dependency loops finds.                             *)
(***************************************************************************)
EXTENDS ProjectBuild, MenuCursor, DepLoop, SequenceTheorems, WellFoundedInduction, TLAPS

----------------------------------------------------------------------------
(* The list.  OnScreen is inductive: no step relies on where exactly in    *)
(* the window the selected entry stands.                                   *)

Shown(w) == w \in Window /\ InWindow(w)

\* An entry whose row is one of the window can be selected.
LEMMA MovedIsShown ==
    ASSUME NEW w \in Window, NEW sel \in Nat, NEW scroll \in Nat,
           sel < w.n, sel - scroll \in 0..(w.rows - 1)
    PROVE  Shown([w EXCEPT !.sel = sel, !.scroll = scroll])
<1> DEFINE v == [w EXCEPT !.sel = sel, !.scroll = scroll]
<1>1. v \in Window /\ v.n = w.n /\ v.rows = w.rows /\ v.sel = sel /\ v.scroll = scroll
  BY DEF Window
<1> HIDE DEF v
<1>2. Shown(v)
  BY <1>1 DEF Shown, InWindow, row
<1> QED BY <1>2 DEF v

\* One down and one up.
LEMMA NextKeeps == \A w : Shown(w) => Shown(select_next(w))
<1> SUFFICES ASSUME NEW w, Shown(w) PROVE Shown(select_next(w))
  OBVIOUS
<1>1. CASE w.sel >= w.n - 1
  BY <1>1 DEF select_next
<1>2. CASE ~(w.sel >= w.n - 1)
  <2> DEFINE top == IF w.sel + 1 >= w.scroll + w.rows - SCROLL_OFFSET /\ w.scroll < max_scroll(w)
                    THEN w.scroll + 1 ELSE w.scroll
  <2>1. select_next(w) = [w EXCEPT !.sel = w.sel + 1, !.scroll = top]
    BY <1>2 DEF select_next
  <2>2. PICK sel \in Nat : sel = w.sel + 1 /\ sel < w.n
    BY <1>2 DEF Shown, Window
  \* From the last row the window moves on, as the list does not end there.
  <2>3. sel >= w.scroll + w.rows => w.scroll < max_scroll(w)
    BY <2>2 DEF Shown, Window, InWindow, row, max_scroll, greatest
  <2>4. top \in Nat /\ sel - top \in 0..(w.rows - 1)
    BY <2>2, <2>3 DEF Shown, Window, InWindow, row, SCROLL_OFFSET, max_scroll, greatest
  <2> HIDE DEF top
  <2>5. Shown([w EXCEPT !.sel = sel, !.scroll = top])
    BY <2>2, <2>4, MovedIsShown DEF Shown
  <2> QED BY <2>1, <2>2, <2>5
<1> QED BY <1>1, <1>2

LEMMA PrevKeeps == \A w : Shown(w) => Shown(select_prev(w))
<1> SUFFICES ASSUME NEW w, Shown(w) PROVE Shown(select_prev(w))
  OBVIOUS
<1>1. CASE w.sel <= 0
  BY <1>1 DEF select_prev
<1>2. CASE ~(w.sel <= 0)
  <2> DEFINE top == IF w.sel - 1 < w.scroll + SCROLL_OFFSET THEN greatest(w.scroll - 1, 0) ELSE w.scroll
  <2>1. select_prev(w) = [w EXCEPT !.sel = w.sel - 1, !.scroll = top]
    BY <1>2 DEF select_prev
  <2>2. w.sel - 1 \in Nat /\ w.sel - 1 < w.n
    BY <1>2 DEF Shown, Window, InWindow
  <2>3. top \in Nat /\ w.sel - 1 - top \in 0..(w.rows - 1)
    BY <2>2 DEF Shown, Window, InWindow, row, SCROLL_OFFSET, greatest
  <2> HIDE DEF top
  <2>4. Shown([w EXCEPT !.sel = w.sel - 1, !.scroll = top])
    BY <2>2, <2>3, MovedIsShown DEF Shown
  <2> QED BY <2>1, <2>4
<1> QED BY <1>1, <1>2

\* A window that gets another height follows a selection in the list that is not above it.
Reached(w) == w \in Window /\ w.sel < w.n /\ w.scroll <= w.sel

\* The window changes its height.
LEMMA ResizedIsShown ==
    ASSUME NEW w, Reached(w), NEW rows \in Nat \ {0}
    PROVE  Shown(resized(w, rows))
<1> DEFINE top == IF w.sel - w.scroll >= rows THEN w.sel - rows + 1 ELSE w.scroll
           v == [w EXCEPT !.rows = rows, !.scroll = top]
<1>1. top \in Nat /\ w.sel - top \in 0..(rows - 1)
  BY DEF Reached, Window
<1> HIDE DEF top
<1>2. v \in Window /\ v.n = w.n /\ v.rows = rows /\ v.sel = w.sel /\ v.scroll = top
  BY <1>1 DEF Reached, Window
<1>3. resized(w, rows) = v
  BY DEF resized, top
<1> HIDE DEF v
<1> QED BY <1>1, <1>2, <1>3 DEF Reached, Shown, Window, InWindow, row

\* Another list, with the entry in the middle or on the row it was on.
LEMMA CenteredIsReached ==
    ASSUME NEW w \in Window, NEW n \in Nat \ {0}, NEW k \in 0..(n - 1)
    PROVE  Reached(center_vertically([w EXCEPT !.n = n, !.sel = k]))
<1> DEFINE v == [w EXCEPT !.n = n, !.sel = k]
           top == least(greatest(k - (w.rows \div 2), 0), max_scroll(v))
           c == [v EXCEPT !.scroll = top]
<1>0. k \in Nat
  OBVIOUS
<1>1. v \in Window /\ v.n = n /\ v.rows = w.rows /\ v.sel = k
  BY <1>0 DEF Window
<1>2. w.rows \div 2 \in Nat /\ max_scroll(v) \in Nat
  BY <1>1 DEF Window, max_scroll, greatest
<1>3. top \in 0..k
  BY <1>2 DEF least, greatest
<1>4. center_vertically(v) = c
  BY <1>1 DEF center_vertically
<1> HIDE DEF top, v
<1>5. c \in Window /\ c.n = n /\ c.sel = k /\ c.scroll = top
  BY <1>1, <1>3 DEF Window
<1>6. Reached(center_vertically(v))
  BY <1>3, <1>4, <1>5 DEF Reached
<1> QED BY <1>6 DEF v

LEMMA OnRowIsReached ==
    ASSUME NEW w \in Window, NEW n \in Nat \ {0}, NEW k \in 0..(n - 1), NEW r \in Nat
    PROVE  Reached(on_row(w, n, k, r))
<1> DEFINE top == greatest(k - r, 0)
           v == [w EXCEPT !.n = n, !.sel = k, !.scroll = top]
<1>1. top \in 0..k /\ top \in Nat /\ k \in Nat
  BY DEF greatest
<1>2. on_row(w, n, k, r) = v
  BY DEF on_row
<1> HIDE DEF top
<1>3. v \in Window /\ v.n = n /\ v.sel = k /\ v.scroll = top
  BY <1>1 DEF Window
<1> QED BY <1>1, <1>2, <1>3 DEF Reached

\* Whatever keys are pressed, however the list changes and however high the window becomes, the selected
\* entry is one of the list and stands on a row of the window.
THEOREM CursorStaysOnScreen == WindowSpec => []OnScreen
<1>1. WindowInit => OnScreen
  BY DEF WindowInit, OnScreen, Window, InWindow, row
<1>2. OnScreen /\ [WindowNext]_win => OnScreen'
  <2> SUFFICES ASSUME Shown(win), WindowNext PROVE Shown(win')
    BY DEF OnScreen, Shown
  <2>1. CASE Move
    <3>1. Shown(select_next(win)) /\ Shown(select_prev(win))
      BY NextKeeps, PrevKeeps
    <3>2. Shown(Paged(select_next, win))
      BY NextKeeps DEF Paged
    <3>3. Shown(Paged(select_prev, win))
      BY PrevKeeps DEF Paged
    <3>4. Shown(select_last(win))
      <4>1. /\ win.n - 1 \in Nat /\ win.n - 1 < win.n /\ max_scroll(win) \in Nat
            /\ win.n - 1 - max_scroll(win) \in 0..(win.rows - 1)
        BY DEF Shown, Window, max_scroll, greatest
      <4> QED BY <4>1, MovedIsShown DEF select_last, Shown
    <3>5. Shown(select_first(win))
      <4>1. 0 < win.n /\ 0 - 0 \in 0..(win.rows - 1) /\ 0 \in Nat
        BY DEF Shown, Window
      <4> QED BY <4>1, MovedIsShown DEF select_first, Shown
    <3> QED BY <2>1, <3>1, <3>2, <3>3, <3>4, <3>5 DEF Move
  <2>2. CASE Resize
    BY <2>2, ResizedIsShown DEF Resize, Reached, Shown, InWindow, row, Window
  <2>3. CASE Refill
    <3>1. /\ win'.n \in Nat \ {0} /\ win'.sel \in 0..(win'.n - 1) /\ win'.rows \in Nat \ {0}
          /\ win \in Window
      BY <2>3 DEF Refill, Shown
    <3>2. CASE win' = resized(center_vertically([win EXCEPT !.n = win'.n, !.sel = win'.sel]), win'.rows)
      BY <3>1, <3>2, CenteredIsReached, ResizedIsShown
    <3>3. ASSUME NEW r \in 0..(win.rows - 1), win' = resized(on_row(win, win'.n, win'.sel, r), win'.rows)
          PROVE  Shown(win')
      <4>1. r \in Nat
        BY <3>1 DEF Window
      <4> QED BY <3>1, <3>3, <4>1, OnRowIsReached, ResizedIsShown
    <3> QED BY <2>3, <3>2, <3>3 DEF Refill
  <2> QED BY <2>1, <2>2, <2>3 DEF WindowNext
<1> QED BY <1>1, <1>2, PTL DEF WindowSpec

----------------------------------------------------------------------------
(* The text.                                                               *)

\* A box with the cursor on its text, as every key finds and leaves it.
Box == [len : Nat, i : Nat, hscroll : Nat, width : Nat \ {0}]
OnText(b) == b \in Box /\ b.i <= b.len

\* A cursor that is not after the text is on it.
LEMMA ChangedIsText ==
    ASSUME NEW b \in Box, NEW len \in Nat, NEW i \in Nat, i <= len
    PROVE  OnText([b EXCEPT !.len = len, !.i = i])
BY DEF OnText, Box

\* Scrolled as it has to be, the cursor is in the box.
LEMMA ScrolledIsInBox ==
    ASSUME NEW b, OnText(b)
    PROVE  OnText(scrolled(b)) /\ InBox(scrolled(b))
BY DEF OnText, Box, scrolled, InBox, SCROLL_OFFSET, least, greatest

\* A text that is opened and a text after any key have the cursor in the box, and on an edge of the box
\* only at an end of the text, however the box was scrolled before and whatever its width.
THEOREM CursorStaysInBox ==
    /\ \A len \in Nat, width \in Nat \ {0} : OnText(opened(len, width)) /\ InBox(opened(len, width))
    /\ \A b : OnText(b) => \A c \in edit_moves(b) \cup edit_changes(b) : OnText(c) /\ InBox(c)
<1>1. \A len \in Nat, width \in Nat \ {0} : OnText(opened(len, width)) /\ InBox(opened(len, width))
  BY DEF opened, OnText, Box, InBox, SCROLL_OFFSET, greatest
<1>2. ASSUME NEW b, OnText(b), NEW c \in edit_moves(b) \cup edit_changes(b)
      PROVE  OnText(c) /\ InBox(c)
  <2>1. OnText(left(b)) /\ OnText(right(b)) /\ OnText(home(b)) /\ OnText(end(b))
    BY <1>2 DEF OnText, Box, left, right, home, end, least, greatest
  <2>2. OnText(delete(b)) /\ OnText(cut_right(b))
    BY <1>2 DEF OnText, Box, delete, cut_right
  <2>3. OnText(cut_left(b)) /\ OnText(insert(b))
    <3>1. b.len - b.i \in Nat /\ 0 \in Nat /\ 0 <= b.len - b.i
      BY <1>2 DEF OnText, Box
    <3>2. b.len + 1 \in Nat /\ b.i + 1 \in Nat /\ b.i + 1 <= b.len + 1
      BY <1>2 DEF OnText, Box
    <3>3. OnText(cut_left(b))
      BY <1>2, <3>1, ChangedIsText DEF OnText, cut_left
    <3>4. OnText(insert(b))
      BY <1>2, <3>2, ChangedIsText DEF OnText, insert
    <3> QED BY <3>3, <3>4
  <2>4. ASSUME NEW k \in 0..(b.i - 1)
        PROVE  OnText(erase(b, k))
    <3>1. k \in Nat /\ b.len - (b.i - k) \in Nat /\ k <= b.len - (b.i - k)
      BY <1>2 DEF OnText, Box
    <3> QED BY <1>2, <3>1, ChangedIsText DEF OnText, erase
  <2>5. PICK d : OnText(d) /\ c = scrolled(d)
    BY <1>2, <2>1, <2>2, <2>3, <2>4 DEF edit_moves, edit_changes
  <2> QED BY <2>5, ScrolledIsInBox
<1> QED BY <1>1, <1>2

----------------------------------------------------------------------------
(* Numbers and sequences.                                                  *)

\* Numbers have no end below.
LEMMA LessThan ==
    \E R : IsWellFoundedOn(R, Nat) /\ \A a, b \in Nat : a < b => <<a, b>> \in R
<1>1. \A a, b \in Nat : a < b => <<a, b>> \in OpToRel(<, Nat) BY DEF OpToRel
<1> QED BY <1>1, NatLessThanWellFounded

LEMMA LeastNumber ==
    ASSUME NEW S, S \subseteq Nat, S # {}
    PROVE  \E n \in S : \A m \in S : n <= m
<1>1. PICK R : IsWellFoundedOn(R, Nat) /\ \A a, b \in Nat : a < b => <<a, b>> \in R
      BY LessThan
<1>2. IsWellFoundedOn(R, Nat) BY <1>1
<1>3. \E n \in S : \A m \in S : ~(<<m, n>> \in R) BY <1>2, WFMin
<1>4. PICK n \in S : \A m \in S : ~(<<m, n>> \in R) BY <1>3
<1>5. \A m \in S : ~(m < n) BY <1>1, <1>4
<1>6. \A m \in S : m \in Nat /\ n \in Nat OBVIOUS
<1>7. \A m \in S : n <= m BY <1>5, <1>6
<1> QED BY <1>7

\* A set that has 1, and with every number the next, has them all.
LEMMA UpTo ==
    ASSUME NEW n \in Nat, NEW G, 1 \in G, \A i \in 2..n : i - 1 \in G => i \in G
    PROVE  \A i \in 1..n : i \in G
<1> DEFINE Bad == {i \in 1..n : i \notin G}
<1> SUFFICES ASSUME Bad # {} PROVE FALSE OBVIOUS
<1>1. Bad \subseteq Nat OBVIOUS
<1>2. PICK i \in Bad : \A j \in Bad : i <= j BY <1>1, LeastNumber
<1>3. i \in 1..n /\ i \notin G OBVIOUS
<1>4. i \in 2..n BY <1>3
<1>5. i - 1 \in 1..n /\ i - 1 \notin Bad BY <1>2, <1>4
<1> QED BY <1>3, <1>4, <1>5

\* A sequence of two and of three.
LEMMA Pair == ASSUME NEW a, NEW b PROVE <<a>> \o <<b>> = <<a, b>>
<1> DEFINE S == {a, b}
<1>1. <<a>> \in Seq(S) /\ <<b>> \in Seq(S) /\ <<a, b>> \in Seq(S) OBVIOUS
<1>2. <<a>> \o <<b>> \in Seq(S) BY <1>1
<1>3. Len(<<a>> \o <<b>>) = 2 /\ Len(<<a, b>>) = 2 BY <1>1
<1>4. \A i \in 1..2 : (<<a>> \o <<b>>)[i] = <<a, b>>[i] BY <1>1
<1> HIDE DEF S
<1> QED BY <1>1, <1>2, <1>3, <1>4, SeqEqual

\* A function on so many numbers is a sequence, and what two sequences make.
LEMMA OnNumbers == ASSUME NEW S, NEW n \in Nat, NEW f \in [1..n -> S] PROVE f \in Seq(S) /\ Len(f) = n
OBVIOUS

\* What \o does.
LEMMA Cat ==
    ASSUME NEW S, NEW s \in Seq(S), NEW t \in Seq(S)
    PROVE  /\ s \o t \in Seq(S) /\ Len(s) \in Nat /\ Len(t) \in Nat
           /\ Len(s \o t) = Len(s) + Len(t)
           /\ \A i \in 1..Len(s) : (s \o t)[i] = s[i]
           /\ \A i \in 1..Len(t) : (s \o t)[Len(s) + i] = t[i]
           /\ s \o << >> = s
OBVIOUS

\* A sequence with nothing or one more at its end.
LEMMA MoreWords ==
    ASSUME NEW S, NEW u \in Seq(S), NEW d \in S
    PROVE  /\ u \o << >> = u /\ u \o <<d>> \in Seq(S)
           /\ Len(u \o <<d>>) = Len(u) + 1 /\ (u \o <<d>>)[Len(u) + 1] = d
           /\ \A i \in 1..Len(u) : (u \o <<d>>)[i] = u[i]
<1> DEFINE t == <<d>>
<1>0. t \in Seq(S) OBVIOUS
<1>1. Len(t) = 1 /\ t[1] = d OBVIOUS
<1> HIDE DEF t
<1>2. /\ u \o t \in Seq(S) /\ Len(u \o t) = Len(u) + Len(t)
      /\ \A i \in 1..Len(u) : (u \o t)[i] = u[i]
      /\ \A i \in 1..Len(t) : (u \o t)[Len(u) + i] = t[i]
  BY <1>0, Cat
<1>3. Len(u \o t) = Len(u) + 1 /\ (u \o t)[Len(u) + 1] = d BY <1>1, <1>2
<1>4. u \o << >> = u OBVIOUS
<1> QED BY <1>2, <1>3, <1>4 DEF t

\* The beginnings of a sequence, each with one more than the one before.
LEMMA OneByOne ==
    ASSUME NEW L, NEW x \in Seq(L), NEW n \in Nat, n = Len(x)
    PROVE  /\ n > 0 => SubSeq(x, 1, 1) = <<x[1]>>
           /\ \A i \in 2..n : SubSeq(x, 1, i-1) \o <<x[i]>> = SubSeq(x, 1, i)
<1>1. ASSUME n > 0 PROVE SubSeq(x, 1, 1) = <<x[1]>>
  <2> DEFINE s == SubSeq(x, 1, 1)
             e == <<x[1]>>
  <2>1. s \in Seq(L) /\ Len(s) = 1 /\ s[1] = x[1] BY <1>1
  <2>2. e \in Seq(L) /\ Len(e) = 1 /\ e[1] = x[1] BY <1>1
  <2> HIDE DEF s, e
  <2>3. Len(s) = Len(e) /\ \A i \in 1..Len(s) : s[i] = e[i] BY <2>1, <2>2
  <2>4. s = e BY <2>1, <2>2, <2>3, SeqEqual
  <2> QED BY <2>4 DEF s, e
<1>2. ASSUME NEW i \in 2..n PROVE SubSeq(x, 1, i-1) \o <<x[i]>> = SubSeq(x, 1, i)
  <2> DEFINE s == SubSeq(x, 1, i-1)
             t == SubSeq(x, 1, i)
             e == <<x[i]>>
  <2>1. s \in Seq(L) /\ Len(s) = i - 1 /\ \A j \in 1..i-1 : s[j] = x[j] OBVIOUS
  <2>2. t \in Seq(L) /\ Len(t) = i /\ \A j \in 1..i : t[j] = x[j] OBVIOUS
  <2>3. x[i] \in L OBVIOUS
  <2>4. s \in Seq(L) BY <2>1
  <2> HIDE DEF s, t
  <2>5. /\ s \o e \in Seq(L) /\ Len(s \o e) = Len(s) + 1
        /\ (s \o e)[Len(s) + 1] = x[i] /\ \A j \in 1..Len(s) : (s \o e)[j] = s[j]
    BY <2>3, <2>4, MoreWords
  <2> HIDE DEF e
  <2>6. Len(s \o e) = Len(t) BY <2>1, <2>2, <2>5
  <2>7. (s \o e)[i] = x[i] /\ \A j \in 1..i-1 : (s \o e)[j] = x[j] BY <2>1, <2>5
  <2>8. ASSUME NEW j \in 1..i PROVE (s \o e)[j] = t[j]
    <3>1. t[j] = x[j] BY <2>2
    <3>2. j = i \/ j \in 1..i-1 OBVIOUS
    <3> QED BY <2>7, <3>1, <3>2
  <2>9. s \o e = t BY <2>2, <2>5, <2>6, <2>8, SeqEqual
  <2> QED BY <2>9 DEF s, t, e
<1> QED BY <1>1, <1>2

\* w has what the first elements of g make together.
Joins(L, n, g, w) ==
    /\ n \in Nat \ {0} /\ g \in [1..n -> Seq(L)] /\ w \in [1..n -> Seq(L)]
    /\ w[1] = g[1] /\ \A i \in 2..n : w[i] = w[i-1] \o g[i]

\* FlattenSeq is whatever joins the pieces one by one.
LEMMA FlattenedBy ==
    ASSUME NEW L, NEW n, NEW g, NEW w, Joins(L, n, g, w)
    PROVE  FlattenSeq(g) = w[n]
<1> USE DEF Joins
<1> DEFINE Step(h) == [i \in 1..n |-> IF i = 1 THEN g[i] ELSE h[i-1] \o g[i]]
           f == CHOOSE f : f = Step(f)
<1>1. FlattenSeq(g) = f[n]
  <2>1. Len(g) = n OBVIOUS
  <2> QED BY <2>1 DEF FlattenSeq
<1>2. ASSUME NEW h PROVE Step(h)[1] = g[1] /\ \A i \in 2..n : Step(h)[i] = h[i-1] \o g[i]
  <2>1. Step(h)[1] = g[1] OBVIOUS
  <2>2. ASSUME NEW i \in 2..n PROVE Step(h)[i] = h[i-1] \o g[i]
    <3>1. i \in 1..n /\ i # 1 OBVIOUS
    <3> QED BY <3>1
  <2> QED BY <2>1, <2>2
<1>3. \A h : Step(h) = [i \in 1..n |-> Step(h)[i]] OBVIOUS
<1> HIDE DEF Step
<1>4. w = Step(w)
  <2>1. ASSUME NEW i \in 1..n PROVE w[i] = Step(w)[i]
    <3>1. CASE i = 1 BY <3>1, <1>2
    <3>2. CASE i # 1
      <4>1. i \in 2..n BY <3>2
      <4> QED BY <4>1, <1>2
    <3> QED BY <3>1, <3>2
  <2> QED BY <2>1, <1>3
<1>5. f = Step(f) BY <1>4
<1> HIDE DEF f
<1>6. f[1] = g[1] /\ \A i \in 2..n : f[i] = f[i-1] \o g[i]
  <2>1. PICK h : h = f OBVIOUS
  <2>2. Step(h)[1] = g[1] /\ \A i \in 2..n : Step(h)[i] = h[i-1] \o g[i] BY <1>2
  <2> QED BY <2>1, <2>2, <1>5
<1>7. ASSUME NEW i \in 2..n, f[i-1] = w[i-1] PROVE f[i] = w[i]
  <2>1. f[i] = f[i-1] \o g[i] BY <1>6
  <2>2. w[i] = w[i-1] \o g[i] OBVIOUS
  <2> QED BY <2>1, <2>2, <1>7
<1> DEFINE G == {i \in 1..n : f[i] = w[i]}
<1>8. 1 \in G BY <1>6
<1>9. \A i \in 2..n : i - 1 \in G => i \in G BY <1>7
<1> HIDE DEF G
<1>10. \A i \in 1..n : i \in G BY <1>8, <1>9, UpTo
<1>11. n \in G BY <1>10
<1>12. f[n] = w[n] BY <1>11 DEF G
<1> QED BY <1>1, <1>12

\* A content that ends with its only end mark is filled before that mark.
LEMMA FilledLast ==
    ASSUME NEW L, NEW x \in Seq(L), NEW n \in Nat, n = Len(x), n > 1, x[n] = EndMark,
           \A i \in 1..n-1 : x[i] # EndMark, NEW l \in L, EndMark \in L
    PROVE  Filled(x, <<l>>) = SubSeq(x, 1, n-1) \o <<l, EndMark>>
<1> DEFINE g == [i \in DOMAIN x |-> IF x[i] = EndMark THEN <<l>> \o <<EndMark>> ELSE <<x[i]>>]
           w == [i \in 1..n |-> IF i < n THEN SubSeq(x, 1, i) ELSE SubSeq(x, 1, n-1) \o <<l, EndMark>>]
<1>1. Filled(x, <<l>>) = FlattenSeq(g) BY DEF Filled
<1>2. DOMAIN x = 1..n OBVIOUS
<1>3. g \in [1..n -> Seq(L)] BY <1>2
<1>4. \A i \in 1..n-1 : g[i] = <<x[i]>> BY <1>2
<1>5. g[n] = <<l, EndMark>>
  <2>1. g[n] = <<l>> \o <<EndMark>> BY <1>2
  <2> QED BY <2>1, Pair
<1>6. SubSeq(x, 1, 1) = <<x[1]>> BY OneByOne
<1>7. \A i \in 2..n-1 : SubSeq(x, 1, i-1) \o <<x[i]>> = SubSeq(x, 1, i) BY OneByOne
<1> HIDE DEF g
<1>8. w[1] = g[1]
  <2>1. w[1] = SubSeq(x, 1, 1) OBVIOUS
  <2> HIDE DEF w
  <2>2. g[1] = <<x[1]>> BY <1>4
  <2> QED BY <2>1, <2>2, <1>6
<1>9. \A i \in 2..n : w[i] = w[i-1] \o g[i]
  <2> SUFFICES ASSUME NEW i \in 2..n PROVE w[i] = w[i-1] \o g[i] OBVIOUS
  <2>1. w[i-1] = SubSeq(x, 1, i-1) OBVIOUS
  <2>2. CASE i < n
    <3>1. w[i] = SubSeq(x, 1, i) BY <2>2
    <3>2. g[i] = <<x[i]>> /\ SubSeq(x, 1, i-1) \o <<x[i]>> = SubSeq(x, 1, i)
      <4> HIDE DEF w
      <4>1. i \in 1..n-1 /\ i \in 2..n-1 BY <2>2
      <4>2. g[i] = <<x[i]>> BY <1>4, <4>1
      <4>3. SubSeq(x, 1, i-1) \o <<x[i]>> = SubSeq(x, 1, i) BY <1>7, <4>1
      <4> QED BY <4>2, <4>3
    <3> QED BY <2>1, <3>1, <3>2
  <2>3. CASE i = n
    <3>1. w[i] = SubSeq(x, 1, n-1) \o <<l, EndMark>> BY <2>3
    <3>2. w[i-1] = SubSeq(x, 1, n-1) BY <2>1, <2>3
    <3>3. g[i] = <<l, EndMark>> BY <2>3, <1>5
    <3> HIDE DEF w
    <3> QED BY <3>1, <3>2, <3>3
  <2>4. i < n \/ i = n OBVIOUS
  <2> HIDE DEF w
  <2> QED BY <2>2, <2>3, <2>4, Zenon
<1>10. w \in [1..n -> Seq(L)] 
  <2> SUFFICES ASSUME NEW i \in 1..n PROVE w[i] \in Seq(L) OBVIOUS
  <2>1. SubSeq(x, 1, i) \in Seq(L) /\ SubSeq(x, 1, n-1) \in Seq(L) OBVIOUS
  <2>2. <<l, EndMark>> \in Seq(L) OBVIOUS
  <2>3. SubSeq(x, 1, n-1) \o <<l, EndMark>> \in Seq(L) BY <2>1, <2>2, Cat
  <2> QED BY <2>1, <2>3
<1>11. w[n] = SubSeq(x, 1, n-1) \o <<l, EndMark>> OBVIOUS
<1> HIDE DEF w
<1>12. n \in Nat \ {0} OBVIOUS
<1>13. Joins(L, n, g, w) BY <1>3, <1>8, <1>9, <1>10, <1>12 DEF Joins
<1>14. FlattenSeq(g) = w[n] BY <1>13, FlattenedBy
<1> QED BY <1>1, <1>11, <1>14

\* The version file has at most one end mark, its last line, and begins with the start mark.
Shaped(v) == v = << >> \/ (v[1] = StartMark /\ \A i \in 1 .. Len(v) - 1 : v[i] # EndMark)

LEMMA Triple == ASSUME NEW a, NEW b, NEW c PROVE <<a>> \o <<b, c>> = <<a, b, c>>
<1> DEFINE S == {a, b, c}
<1>1. <<a>> \in Seq(S) /\ <<b, c>> \in Seq(S) /\ <<a, b, c>> \in Seq(S) OBVIOUS
<1>2. <<a>> \o <<b, c>> \in Seq(S) BY <1>1
<1>3. Len(<<a>> \o <<b, c>>) = 3 BY <1>1
<1>4. \A i \in 1..3 : (<<a>> \o <<b, c>>)[i] = <<a, b, c>>[i] BY <1>1
<1> HIDE DEF S
<1> QED BY <1>1, <1>2, <1>3, <1>4, SeqEqual

\* The marks of a block are not lines of a version.
LEMMA MarksDiffer == StartMark # EndMark /\ \A v : VersionLines(v) # EndMark /\ VersionLines(v) # StartMark
BY DEF StartMark, EndMark, VersionLines

\* What is left of a file before the block is filled.
LEMMA OldRemoved ==
    ASSUME NEW L, NEW v \in Seq(L), Shaped(v), StartMark \in L, EndMark \in L
    PROVE  remove_old_config_info(v) = IF Whole(v) THEN <<StartMark, EndMark>> ELSE v \o <<StartMark, EndMark>>
<1> DEFINE n == Len(v)
           A == {i \in 1..n : v[i] = StartMark}
           Z == {i \in 1..n : v[i] = EndMark}
           first == IF A # {} THEN Min(A) ELSE 0
           last == IF Z # {} THEN Max(Z) ELSE 0
<1>n. n \in Nat /\ v \in [1..n -> L] OBVIOUS
<1>1. remove_old_config_info(v) =
         IF first = 0 \/ last < first THEN v \o <<StartMark, EndMark>> ELSE SubSeq(v, 1, first) \o SubSeq(v, last, n)
  BY DEF remove_old_config_info, SelectInSeq, SelectLastInSeq
<1>2. CASE v = << >>
  <2>1. A = {} BY <1>2
  <2>2. first = 0 BY <2>1
  <2>3. << >> \o <<StartMark, EndMark>> = <<StartMark, EndMark>> OBVIOUS
  <2> QED BY <1>1, <1>2, <2>2, <2>3 DEF Whole
<1>3. CASE v # << >>
  <2>1. n > 0 BY <1>3, <1>n
  <2>2. v[1] = StartMark /\ \A i \in 1..n-1 : v[i] # EndMark BY <1>3 DEF Shaped
  <2>3. 1 \in A /\ \A i \in A : 1 <= i BY <2>1, <2>2, <1>n
  <2>4. Min(A) = 1
    <3>1. Min(A) \in A /\ \A i \in A : Min(A) <= i BY <2>3 DEF Min
    <3> QED BY <2>3, <3>1
  <2>5. first = 1 BY <2>3, <2>4
  <2> HIDE DEF first
  <2>6. CASE v[n] = EndMark
    <3>1. Z = {n} BY <2>1, <2>2, <2>6, <1>n
    <3>2. n # 1 BY <2>2, <2>6, MarksDiffer
    <3>3. Max(Z) = n BY <3>1, <1>n DEF Max
    <3>4. last = n BY <3>1, <3>3
    <3> HIDE DEF last
    <3>5. remove_old_config_info(v) = SubSeq(v, 1, 1) \o SubSeq(v, n, n) BY <1>1, <2>1, <2>5, <3>2, <3>4, <1>n
    <3>6. SubSeq(v, 1, 1) = <<StartMark>> BY <2>1, <2>2, <1>n, OneByOne
    <3>7. SubSeq(v, n, n) = <<EndMark>>
      <4> DEFINE s == SubSeq(v, n, n)
                 e == <<EndMark>>
      <4>1. s \in Seq(L) /\ Len(s) = 1 /\ s[1] = EndMark BY <2>1, <2>6, <1>n
      <4>2. e \in Seq(L) /\ Len(e) = 1 /\ e[1] = EndMark OBVIOUS
      <4> HIDE DEF s, e
      <4>3. Len(s) = Len(e) /\ \A i \in 1..Len(s) : s[i] = e[i] BY <4>1, <4>2
      <4>4. s = e BY <4>1, <4>2, <4>3, SeqEqual
      <4> QED BY <4>4 DEF s, e
    <3>8. Whole(v) BY <2>6 DEF Whole, Last
    <3> QED BY <3>5, <3>6, <3>7, <3>8, Pair
  <2>7. CASE v[n] # EndMark
    <3>1. Z = {} BY <2>1, <2>2, <2>7, <1>n
    <3>2. last = 0 BY <3>1
    <3> HIDE DEF last
    <3>3. ~Whole(v) BY <1>3, <2>7 DEF Whole, Last
    <3> QED BY <1>1, <2>5, <3>2, <3>3
  <2> QED BY <2>6, <2>7
<1> QED BY <1>2, <1>3

\* append_time_info leaves a whole block with the new line in it, the only one unless the file was cut off.
LEMMA BlockWritten ==
    ASSUME NEW L, NEW v \in Seq(L), Shaped(v), StartMark \in L, EndMark \in L, NEW l \in L, l # EndMark,
           NEW c, c = append_time_info(v, <<l>>)
    PROVE  /\ c \in Seq(L) /\ Shaped(c) /\ Whole(c)
           /\ c = (IF Whole(v) THEN << >> ELSE v) \o <<StartMark, l, EndMark>>
<1> DEFINE x == remove_old_config_info(v)
           n == Len(x)
<1>1. c = Filled(x, <<l>>) BY DEF append_time_info
<1>2. Whole(v) => x = <<StartMark, EndMark>> BY OldRemoved
<1>3. ~Whole(v) => x = v \o <<StartMark, EndMark>> BY OldRemoved
<1> HIDE DEF x
<1>4. x \in Seq(L) /\ n > 1 /\ x[1] = StartMark /\ x[n] = EndMark /\ \A i \in 1..n-1 : x[i] # EndMark
  <2>1. CASE Whole(v)
    <3>1. n = 2 BY <1>2, <2>1
    <3> DEFINE t == <<StartMark, EndMark>>
    <3>t. t \in Seq(L) /\ t[1] = StartMark /\ t[2] = EndMark OBVIOUS
    <3>e. x = t BY <1>2, <2>1
    <3> HIDE DEF t
    <3>2. x \in Seq(L) /\ x[1] = StartMark /\ x[2] = EndMark BY <3>t, <3>e
    <3> HIDE DEF n
    <3>3. \A i \in 1..n-1 : x[i] # EndMark BY <3>1, <3>2, MarksDiffer
    <3> QED BY <3>1, <3>2, <3>3
  <2>2. CASE ~Whole(v)
    <3> DEFINE t == <<StartMark, EndMark>>
               m == Len(v)
    <3>1. v # << >> /\ v[m] # EndMark BY <2>2 DEF Whole, Last
    <3>2. t \in Seq(L) OBVIOUS
    <3>3. Len(t) = 2 /\ t[1] = StartMark /\ t[2] = EndMark OBVIOUS
    <3>4. x = v \o t BY <1>3, <2>2
    <3>5. m \in Nat /\ m > 0 /\ v[1] = StartMark /\ \A i \in 1..m-1 : v[i] # EndMark BY <3>1 DEF Shaped
    <3> HIDE DEF t
    <3>6. /\ x \in Seq(L) /\ n = Len(v) + Len(t) /\ \A i \in 1..Len(v) : x[i] = v[i]
          /\ \A i \in 1..Len(t) : x[Len(v) + i] = t[i]
      BY <3>2, <3>4, Cat
    <3> HIDE DEF n, m
    <3>7. n = m + 2 /\ x[m+1] = StartMark /\ x[m+2] = EndMark BY <3>3, <3>6 DEF m
    <3>8. x[1] = StartMark BY <3>5, <3>6 DEF m
    <3>9. ASSUME NEW i \in 1..n-1 PROVE x[i] # EndMark
      <4>1. i \in 1..m-1 \/ i = m \/ i = m + 1 BY <3>5, <3>7
      <4> QED BY <4>1, <3>1, <3>5, <3>6, <3>7, MarksDiffer, SMTT(30) DEF m
    <3> QED BY <3>5, <3>6, <3>7, <3>8, <3>9 DEF n
  <2> QED BY <2>1, <2>2
<1>5. n \in Nat BY <1>4
<1>6. c = SubSeq(x, 1, n-1) \o <<l, EndMark>> BY <1>1, <1>4, <1>5, FilledLast, ZenonT(60)
<1> DEFINE s == SubSeq(x, 1, n-1)
           t == <<l, EndMark>>
<1>7. s \in Seq(L) /\ Len(s) = n - 1 /\ \A i \in 1..n-1 : s[i] = x[i] BY <1>4, <1>5
<1>8. t \in Seq(L) OBVIOUS
<1>9. Len(t) = 2 /\ t[1] = l /\ t[2] = EndMark OBVIOUS
<1>10. c = s \o t BY <1>6
<1>s. s \in Seq(L) BY <1>7
<1> HIDE DEF s, t, n
<1>11. /\ s \o t \in Seq(L) /\ Len(s \o t) = Len(s) + Len(t) /\ \A i \in 1..Len(s) : (s \o t)[i] = s[i]
       /\ \A i \in 1..Len(t) : (s \o t)[Len(s) + i] = t[i]
  BY <1>s, <1>8, Cat
<1>12. Len(c) = n + 1 /\ c[n+1] = EndMark /\ c[n] = l /\ \A i \in 1..n-1 : c[i] = x[i]
  <2>1. Len(s) + 1 = n /\ Len(s) + 2 = n + 1 BY <1>5, <1>7
  <2> QED BY <2>1, <1>5, <1>7, <1>9, <1>10, <1>11
<1>13. Shaped(c)
  <2>1. c[1] = StartMark BY <1>4, <1>5, <1>12, SMTT(30)
  <2>2. ASSUME NEW i \in 1..Len(c)-1 PROVE c[i] # EndMark
    <3>1. i \in 1..n-1 \/ i = n BY <1>5, <1>12
    <3> QED BY <3>1, <1>4, <1>12
  <2> QED BY <2>1, <2>2 DEF Shaped
<1>14. Whole(c) BY <1>12 DEF Whole, Last
<1> DEFINE d == <<StartMark, l, EndMark>>
<1>15. ASSUME Whole(v) PROVE c = << >> \o d
  <2>1. n = 2 BY <1>2, <1>15 DEF n
  <2>2. s = SubSeq(x, 1, 1) BY <2>1 DEF s
  <2>3. s = <<StartMark>> BY <2>2, <1>4, <1>5, OneByOne DEF n
  <2>4. c = d BY <2>3, <1>10, Triple DEF t
  <2>5. d \in Seq(L) OBVIOUS
  <2> HIDE DEF d
  <2> QED BY <2>4, <2>5
<1>16. ASSUME ~Whole(v) PROVE c = v \o d
  <2> DEFINE m == Len(v)
             e == <<StartMark, EndMark>>
             w == v \o d
  <2>1. d \in Seq(L) /\ Len(d) = 3 /\ d[1] = StartMark /\ d[2] = l /\ d[3] = EndMark OBVIOUS
  <2>2. e \in Seq(L) /\ Len(e) = 2 /\ e[1] = StartMark OBVIOUS
  <2>3. x = v \o e BY <1>3, <1>16
  <2>v. v \in Seq(L) /\ Len(v) \in Nat OBVIOUS
  <2>d. d \in Seq(L) BY <2>1
  <2> HIDE DEF d, e, x
  <2>p. /\ v \o e \in Seq(L) /\ Len(v \o e) = Len(v) + Len(e) /\ \A i \in 1..Len(v) : (v \o e)[i] = v[i]
        /\ \A i \in 1..Len(e) : (v \o e)[Len(v) + i] = e[i]
    BY <2>v, <2>2, Cat
  <2>q. /\ v \o d \in Seq(L) /\ Len(v \o d) = Len(v) + Len(d) /\ \A i \in 1..Len(v) : (v \o d)[i] = v[i]
        /\ \A i \in 1..Len(d) : (v \o d)[Len(v) + i] = d[i]
    BY <2>v, <2>d, Cat
  <2>a. /\ Len(v) \in Nat /\ Len(x) = Len(v) + Len(e) /\ \A i \in 1..Len(v) : x[i] = v[i]
        /\ \A i \in 1..Len(e) : x[Len(v) + i] = e[i]
    BY <2>v, <2>3, <2>p
  <2>b. /\ w \in Seq(L) /\ Len(w) = Len(v) + Len(d) /\ \A i \in 1..Len(v) : w[i] = v[i]
        /\ \A i \in 1..Len(d) : w[Len(v) + i] = d[i]
    BY <2>q
  <2> HIDE DEF m, w
  <2>4. m \in Nat /\ Len(x) = m + 2 /\ x[m+1] = StartMark /\ \A i \in 1..m : x[i] = v[i]
    BY <2>2, <2>a DEF m
  <2>5. /\ w \in Seq(L) /\ Len(w) = m + 3 /\ \A i \in 1..m : w[i] = v[i]
        /\ w[m+1] = StartMark /\ w[m+2] = l /\ w[m+3] = EndMark
    <3>1. 1 \in 1..Len(d) /\ 2 \in 1..Len(d) /\ 3 \in 1..Len(d) BY <2>1
    <3> QED BY <3>1, <2>1, <2>a, <2>b DEF m
  <2>6. n = m + 2 BY <2>4 DEF n
  <2>7. Len(c) = Len(w) BY <1>12, <2>4, <2>5, <2>6
  <2>8. ASSUME NEW i \in 1..Len(c) PROVE c[i] = w[i]
    <3>1. i \in 1..m \/ i = m + 1 \/ i = m + 2 \/ i = m + 3 BY <2>4, <2>5, <2>7
    <3>2. CASE i \in 1..m BY <3>2, <1>12, <2>4, <2>5, <2>6
    <3>3. CASE i = m + 1 BY <3>3, <1>12, <2>4, <2>5, <2>6
    <3>4. CASE i = m + 2 BY <3>4, <1>12, <2>4, <2>5, <2>6
    <3>5. CASE i = m + 3 BY <3>5, <1>12, <2>4, <2>5, <2>6
    <3> QED BY <3>1, <3>2, <3>3, <3>4, <3>5
  <2>9. c \in Seq(L) BY <1>10, <1>11
  <2> QED BY <2>5, <2>7, <2>8, <2>9, SeqEqual DEF w
<1> QED BY <1>10, <1>11, <1>13, <1>14, <1>15, <1>16

\* What a cut-off write leaves of a file.
LEMMA PrefixShaped ==
    ASSUME NEW L, NEW c \in Seq(L), Shaped(c), NEW v \in CutOff(c)
    PROVE  v \in Seq(L) /\ Shaped(v)
<1>1. PICK k \in 0..Len(c) : v = SubSeq(c, 1, k) BY DEF CutOff, Prefixes
<1>2. v \in Seq(L) /\ Len(v) = k /\ \A i \in 1..k : v[i] = c[i] BY <1>1
<1>3. CASE k = 0 BY <1>2, <1>3 DEF Shaped
<1>4. CASE k # 0
  <2>1. c # << >> BY <1>4
  <2> QED BY <2>1, <1>2, <1>4 DEF Shaped
<1> QED BY <1>3, <1>4

\* A function on 1..3 is a sequence.
LEMMA Three == ASSUME NEW S, NEW f \in [1..3 -> S] PROVE f \in Seq(S) /\ Len(f) = 3
BY OnNumbers

\* The words of a tag with the two that follow it.
LEMMA TagWords ==
    ASSUME NEW S, NEW s \in Seq(S), Len(s) = 1, NEW k \in S, NEW c \in S, NEW u, u = s \o <<k, c>>
    PROVE  u \in Seq(S) /\ Len(u) = 3 /\ u[1] = s[1] /\ u[2] = k /\ u[3] = c
<1> DEFINE t == <<k, c>>
<1>1. t \in Seq(S) /\ Len(t) = 2 /\ t[1] = k /\ t[2] = c OBVIOUS
<1>2. u = s \o t OBVIOUS
<1> HIDE DEF t
<1>3. /\ u \in Seq(S) /\ Len(u) = Len(s) + Len(t)
      /\ \A i \in 1..Len(s) : u[i] = s[i]
      /\ \A i \in 1..Len(t) : u[Len(s) + i] = t[i]
  BY <1>1, <1>2, Cat
<1> QED BY <1>1, <1>3

\* How a description of so many words is read.
LEMMA Read1 == ASSUME NEW w, Len(w) = 1
               PROVE  Parsed(w) = [name |-> NoTag, commit |-> w[1].text, mark |-> ""]
BY DEF Parsed
LEMMA Read2 == ASSUME NEW w, Len(w) = 2, w[2].text = "dirty"
               PROVE  Parsed(w) = [name |-> NoTag, commit |-> w[1].text, mark |-> "dirty"]
BY DEF Parsed, EndsDirty
LEMMA Read3 == ASSUME NEW w, Len(w) = 3, w[3].text # "dirty"
               PROVE  Parsed(w) = [name |-> Joined(w), commit |-> w[3].text, mark |-> ""]
<1>1. ~EndsDirty(w) BY DEF EndsDirty
<1> QED BY <1>1 DEF Parsed
LEMMA Read4 == ASSUME NEW w, Len(w) = 4
               PROVE  Parsed(w) = [name |-> Joined(w), commit |-> w[3].text, mark |-> w[4].text]
BY DEF Parsed

\* What update_build_info.py makes of a description that is read so.
LEMMA ReadAs ==
    ASSUME NEW r, NEW w, NEW p, r.dirty \in BOOLEAN,
           Parsed(w) = p, p.commit = r.commit, p.mark = "dirty" <=> r.dirty,
           VersionOf(r).numbers = [i \in 1..4 |-> Number(p.name, i)]
    PROVE  Version(w) = VersionOf(r)
<1>1. (p.mark = "dirty") = r.dirty OBVIOUS
<1>2. Version(w) = [numbers |-> VersionOf(r).numbers, commit |-> r.commit, dirty |-> r.dirty] BY <1>1 DEF Version
<1> QED BY <1>2 DEF VersionOf

\* update_build_info.py reads in what git describe prints the tag, the count, the commit and the mark.
LEMMA DescriptionRead ==
    ASSUME NEW r, Versioned(r)
    PROVE  Version(Describe(r)) = VersionOf(r)
<1> DEFINE w == Describe(r)
           p == Parsed(w)
           c == Word(FALSE, <<NotANumber>>, r.commit)
           d == Word(FALSE, <<NotANumber>>, "dirty")
           k == Word(FALSE, <<r.n>>, "n")
           t == r.tag[1]
           T == [v : {TRUE}, fields : [1..3 -> Nat], text : STRING \ {"dirty"}]
           S == T \cup {k, c, d}
<1>v. r.n \in Nat /\ r.commit # "dirty" /\ r.dirty \in BOOLEAN BY DEF Versioned
<1>t. r.tag # << >> => r.tag \in Seq(T) /\ Len(r.tag) = 1 BY DEF Versioned
<1>w. c.text = r.commit /\ d.text = "dirty" /\ k.fields = <<r.n>> BY DEF Word
<1>d. w = (IF r.tag = << >> THEN <<c>> ELSE r.tag \o <<k, c>>) \o (IF r.dirty THEN <<d>> ELSE << >>)
  BY DEF Describe
<1>m. k \in S /\ c \in S /\ d \in S OBVIOUS
<1>f. t \in T => t.v = TRUE /\ t.fields \in [1..3 -> Nat] OBVIOUS
<1>s. T \subseteq S OBVIOUS
<1> SUFFICES Version(w) = VersionOf(r) OBVIOUS
<1> HIDE DEF w, p, c, d, k, S, T
<1>e. r.tag # << >> => r.tag \in Seq(S) /\ t \in T BY <1>t, <1>s
<1>1. CASE r.tag = << >>
  <2> DEFINE u == <<c>>
  <2>1. u \in Seq(S) /\ Len(u) = 1 /\ u[1] = c BY <1>m
  <2>h. u \in Seq(S) BY <2>1
  <2> HIDE DEF u
  <2>2. p.name = NoTag /\ p.commit = r.commit /\ (p.mark = "dirty" <=> r.dirty)
    <3>1. CASE r.dirty
      <4>1. w = u \o <<d>> BY <1>1, <3>1, <1>d DEF u
      <4>2. Len(w) = Len(u) + 1 /\ w[Len(u) + 1] = d /\ \A i \in 1..Len(u) : w[i] = u[i]
        BY <4>1, <2>h, <1>m, MoreWords
      <4>3. Len(w) = 2 /\ w[1] = c /\ w[2] = d BY <4>2, <2>1
      <4> QED BY <4>3, <1>w, <3>1, Read2 DEF p
    <3>2. CASE ~r.dirty
      <4>1. w = u \o << >> BY <1>1, <3>2, <1>d DEF u
      <4>2. w = u BY <4>1, <2>1, <1>m, MoreWords
      <4>3. Len(w) = 1 /\ w[1] = c BY <4>2, <2>1
      <4>4. p = [name |-> NoTag, commit |-> w[1].text, mark |-> ""] BY <4>3, Read1 DEF p
      <4> QED BY <4>3, <4>4, <1>w, <3>2
    <3> QED BY <3>1, <3>2
  <2>3. \A i \in 1..4 : Number(NoTag, i) = 0 BY DEF Number, NoTag, Word
  <2>4. [i \in 1..4 |-> Number(NoTag, i)] = <<0, 0, 0, 0>> BY <2>3
  <2>5. VersionOf(r).numbers = [i \in 1..4 |-> Number(p.name, i)] BY <1>1, <2>2, <2>4 DEF VersionOf
  <2>6. Parsed(w) = p BY DEF p
  <2> QED BY <1>v, <2>2, <2>5, <2>6, ReadAs
<1>2. CASE r.tag # << >>
  <2>1. r.tag \in Seq(S) BY <1>2, <1>e
  <2>2. Len(r.tag) = 1 BY <1>2, <1>t
  <2>f. t.v = TRUE /\ t.fields \in [1..3 -> Nat] BY <1>2, <1>e, <1>f
  <2>g. t.fields \in Seq(Nat) /\ Len(t.fields) = 3 BY <2>f, Three
  <2> DEFINE u == r.tag \o <<k, c>>
  <2>u. u = r.tag \o <<k, c>> OBVIOUS
  <2> HIDE DEF u
  <2>3. u \in Seq(S) /\ Len(u) = 3 /\ u[1] = t /\ u[2] = k /\ u[3] = c BY <2>1, <2>2, <2>u, <1>m, TagWords, SMTT(30)
  <2>h. u \in Seq(S) BY <2>3
  <2>4. /\ w[1] = t /\ w[2] = k
        /\ p.name = Joined(w) /\ p.commit = r.commit /\ (p.mark = "dirty" <=> r.dirty)
    <3>1. CASE r.dirty
      <4>1. w = u \o <<d>> BY <1>2, <3>1, <1>d DEF u
      <4>2. Len(w) = Len(u) + 1 /\ w[Len(u) + 1] = d /\ \A i \in 1..Len(u) : w[i] = u[i]
        BY <4>1, <2>h, <1>m, MoreWords
      <4>3. Len(w) = 4 /\ w[1] = t /\ w[2] = k /\ w[3] = c /\ w[4] = d BY <4>2, <2>3
      <4> QED BY <4>3, <1>w, <3>1, Read4 DEF p
    <3>2. CASE ~r.dirty
      <4>1. w = u \o << >> BY <1>2, <3>2, <1>d DEF u
      <4>2. w = u BY <4>1, <2>h, <1>m, MoreWords
      <4>3. Len(w) = 3 /\ w[1] = t /\ w[2] = k /\ w[3] = c BY <4>2, <2>3
      <4>4. p = [name |-> Joined(w), commit |-> w[3].text, mark |-> ""]
        BY <4>3, <1>w, <1>v, Read3 DEF p
      <4> QED BY <4>3, <4>4, <1>w, <3>2
    <3> QED BY <3>1, <3>2
  <2> DEFINE j == Joined(w)
             a == Append(t.fields, r.n)
  <2>5. j.v = t.v /\ j.fields = t.fields \o <<r.n>> BY <2>4, <1>w DEF Joined, Word
  <2> HIDE DEF j
  <2>6. t.fields \in Seq(Nat) BY <2>g
  <2>7. a \in Seq(Nat) /\ Len(a) = Len(t.fields) + 1 BY <2>6, <1>v, AppendProperties
  <2>7a. Len(a) = 4 BY <2>7, <2>g
  <2>7b. j.fields = a BY <2>5, <2>6, <1>v, AppendIsConcat
  <2> HIDE DEF a
  <2>8. \A i \in 1..Len(a) : a[i] \in Nat BY <2>7, SMTT(30)
  <2>9. \A i \in 1..4 : Number(j, i) = a[i]
    <3> SUFFICES ASSUME NEW i \in 1..4 PROVE Number(j, i) = a[i] OBVIOUS
    <3>1. a[i] \in Nat BY <2>7a, <2>8
    <3>2. ~(i > Len(a)) BY <2>7a
    <3>3. a[i] # NotANumber BY <3>1 DEF NotANumber
    <3>4. j.v = TRUE BY <2>f, <2>5
    <3> QED BY <3>4, <2>7b, <3>2, <3>3 DEF Number
  <2>10. [i \in 1..4 |-> Number(j, i)] = a BY <2>7, <2>7a, <2>9
  <2>11. VersionOf(r).numbers = [i \in 1..4 |-> Number(p.name, i)] BY <1>2, <2>4, <2>10 DEF VersionOf, a, j
  <2>12. Parsed(w) = p BY DEF p
  <2> QED BY <1>v, <2>4, <2>11, <2>12, ReadAs
<1> QED BY <1>1, <1>2

----------------------------------------------------------------------------
(* The control: what is left of a command is one of few sequences.         *)

Steps == {"conf", "unsave", "load", "mk", "ui", "cmake", "header", "generate", "check", "info", "compile",
          "clean", "rmbuild", "rmconf", "rmconfig", "rmflash", "flashconf", "flash"}

\* Command c may begin with s.
Begins(c, s) ==
    \/ c = "config" /\ s = "config"
    \/ c = "build" /\ s \in {"load", "check"}
    \/ c \in {"rebuild", "menuconfig"} /\ s = "load"
    \/ c \in {"clean", "distclean"} /\ s = "clean"
    \/ c = "clean_conf" /\ s = "rmconf"
    \/ c = "flash" /\ s = "flashconf"

\* In command c, t may come after s.
Follows(c, s, t) ==
    \/ s = "conf" /\ t = "unsave"
    \/ s = "unsave" /\ Begins(c, t)
    \/ s = "load" /\ t = "mk"
    \/ s = "mk" /\ t = "cmake"
    \/ s = "cmake" /\ t = "header"
    \/ s = "header" /\ t = "generate"
    \/ /\ c \in {"build", "rebuild"}
       /\ \/ s = "generate" /\ t \in {"check", "info"}
          \/ s = "check" /\ t = "info"
          \/ s = "info" /\ t = "compile"
          \/ s = "compile" /\ t = c
    \/ /\ c = "menuconfig"
       /\ \/ s = "generate" /\ t \in {"check", "load"}
          \/ s = "check" /\ t = "load"
          \/ s = "load" /\ t = "ui"
          \/ s = "ui" /\ t = "cmake"
          \/ s = "header" /\ t = c
    \/ c = "clean" /\ s = "clean" /\ t = c
    \/ c = "distclean" /\ ((s = "clean" /\ t = "rmbuild") \/ (s = "rmbuild" /\ t = c))
    \/ /\ c = "clean_conf"
       /\ \/ s = "rmconf" /\ t = "rmconfig"
          \/ s = "rmconfig" /\ t = "rmflash"
          \/ s = "rmflash" /\ t = c
    \/ c = "flash" /\ ((s = "flashconf" /\ t = "flash") \/ (s = "flash" /\ t = c))

Cmd(t) == t[Len(t)]

Flow(t) ==
    /\ t \in Seq(Steps \cup Commands)
    /\ t # << >> => Cmd(t) \in Commands
    /\ \A i \in 1 .. Len(t) - 1 : Follows(Cmd(t), t[i], t[i+1]) /\ (t[i] = "ui" => i = Len(t) - 3)

\* The step at a place of what is left, "end" where only the command itself is there.
Nth(i) == IF i < Len(todo) THEN todo[i] ELSE "end"
At == Nth(1)

\* cmake is at work, and kconfig is what it has loaded
Configuring == \/ At = "cmake" /\ Nth(3) = "generate"
               \/ At = "header" /\ Nth(2) = "generate"
               \/ At = "generate"

Building == ~Idle /\ Cmd(todo) \in {"build", "rebuild"}

\* a build has only to end
Ending == Building /\ At = "end"

\* flash.py has still to save the settings
Flashes == At = "flashconf" \/ (At = "unsave" /\ Nth(2) = "flashconf") \/ (At = "conf" /\ Nth(3) = "flashconf")

----------------------------------------------------------------------------
(* The invariant.                                                          *)

IsTool(t) == t \notin {"missing", "torn"}
IsConfig(c) == c = [tool |-> c.tool, opt |-> c.opt] /\ IsTool(c.tool)
IsFlash(f) == f = [port |-> f.port, baudrate |-> f.baudrate] /\ f.port # "missing"

Block(v) == <<StartMark, VersionLines(v), EndMark>>

\* v ends in the block of r; before it is nothing, or a piece without an end where h has "info".
Reports(v, r, h) ==
    \E k \in 0..Len(v) :
        /\ v = SubSeq(v, 1, k) \o Block(VersionOf(r))
        /\ \A i \in 1..k : v[i] # EndMark
        /\ "info" \notin h => k = 0
Lines(p) == {StartMark, EndMark} \cup {VersionLines(VersionOf(r)) : r \in p.repos}

Files(d) ==
    d = [conf |-> d.conf, mk |-> d.mk, cmake |-> d.cmake, header |-> d.header, makefile |-> d.makefile,
         newer |-> d.newer, objects |-> d.objects, touched |-> d.touched, time |-> d.time,
         version |-> d.version, order |-> d.order, flash |-> d.flash]

Types ==
    /\ project \in ToSet(Projects) /\ repo \in project.repos
    /\ Flow(todo)
    /\ IsConfig(kconfig)
    /\ args = [tool |-> args.tool, flash |-> args.flash] /\ IsTool(args.tool)
    /\ IsFlash(args.flash) /\ IsFlash(asked)
    /\ Files(disk)
    /\ IsConfig(disk.mk) \/ disk.mk \in {NoFile, TornFile}
    /\ disk.newer \in BOOLEAN /\ disk.touched \in BOOLEAN
    /\ disk.objects = [made |-> disk.objects.made, header |-> disk.objects.header]
    /\ IsFlash(disk.flash) \/ disk.flash = NoFlash

\* What a step finds, because of the steps before it in its command.
Control ==
    /\ At = "unsave" => IsTool(disk.conf)
    /\ At = "rmconfig" => disk.conf = "missing"
    /\ At = "mk" => kconfig = LoadedConfig
    /\ Configuring => disk.mk = kconfig
    /\ At = "cmake" => disk.mk = kconfig \/ "menu" \in hurt
    /\ At \in {"header", "generate"} => disk.cmake = kconfig
    /\ At = "generate" => disk.header = kconfig
    /\ At = "check" \/ (At = "unsave" /\ Nth(2) = "check") \/ (At = "conf" /\ Nth(3) = "check") =>
          disk.makefile # NoFile
    /\ At \in {"info", "compile"} \/ Ending =>
          disk.cmake # NoFile /\ ~disk.newer /\ disk.makefile = disk.cmake
    /\ Ending => /\ disk.objects = [made |-> disk.makefile, header |-> disk.header]
                 /\ ~disk.touched
    /\ Building /\ Cmd(todo) = "rebuild" /\ At \in {"check", "info", "compile", "end"} => disk.mk # NoFile

\* Files that do not make cmake run again are those the makefiles were made for.
Coherent ==
    /\ disk.cmake # NoFile /\ ~disk.newer =>
          /\ disk.makefile \in {disk.cmake, NoFile}
          /\ disk.header = disk.cmake \/ ("left" \in hurt /\ disk.header \in {NoFile, TornFile})
    /\ disk.objects.header \in {disk.objects.made, TornFile}

\* The saved configuration is the one that is wanted, and the one cmake has read or will read.
Agrees(c, w) == c.tool = w.tool /\ (w.opt # Unset => c.opt = w.opt)

Saved ==
    /\ disk.mk = TornFile => "tool" \in hurt
    /\ "tool" \notin hurt /\ At \notin {"unsave", "rmconfig"} =>
          IF disk.mk = NoFile THEN wanted = [tool |-> ConfTool, opt |-> Unset] ELSE Agrees(disk.mk, wanted)
    /\ "menu" \notin hurt /\ IsConfig(disk.mk) /\ disk.cmake # NoFile /\ At \notin {"ui", "cmake"} =>
          disk.cmake = disk.mk

Told ==
    /\ disk.version \in Seq(Lines(project)) /\ Shaped(disk.version)
    /\ "info" \notin hurt => Whole(disk.version)
    /\ At = "compile" \/ Ending => Reports(disk.version, repo, hurt)

\* Since the last build nothing has changed.
AtRest ==
    Idle /\ IsBuild(done.cmd) =>
        /\ disk.cmake # NoFile /\ disk.makefile = disk.cmake /\ disk.objects.made = disk.makefile
        /\ done.cmd = "rebuild" => disk.mk # NoFile
        /\ Reports(disk.version, repo, hurt)

\* What that build found was saved and not upset.
Settled ==
    IsBuild(done.cmd) /\ done.saved /\ done.hurt \subseteq {"flash"} /\ (Idle \/ Building) =>
        /\ hurt \subseteq {"flash"} /\ At \notin {"conf", "unsave"}
        /\ IsConfig(disk.mk) /\ disk.cmake = disk.mk /\ disk.header = disk.mk /\ disk.makefile = disk.mk
        /\ ~disk.touched /\ disk.objects.made = disk.mk
        /\ disk.version = Block(VersionOf(repo))
        /\ At \in {"mk", "cmake", "header", "generate"} => kconfig = disk.mk

SavedFlash == IF disk.flash = NoFlash THEN DefaultFlash ELSE disk.flash

AsksFlash ==
    "flash" \notin hurt =>
        /\ asked = IF Flashes THEN Given(args.flash, SavedFlash) ELSE SavedFlash
        /\ At = "flash" => args.flash = asked

Sorted == disk.order # << >> => disk.order = SortComponents(project.priority, project.components)

IInv == Types /\ Control /\ Coherent /\ Saved /\ Told /\ AtRest /\ Settled /\ AsksFlash /\ Sorted

-----------------------------------------------------------------------------
\* One step on.
LEMMA Advance ==
    ASSUME NEW t, Flow(t), Len(t) > 1
    PROVE  /\ Flow(Tail(t)) /\ Len(t) \in Nat /\ Len(Tail(t)) = Len(t) - 1
           /\ Cmd(Tail(t)) = Cmd(t) /\ Cmd(t) \in Commands
           /\ Head(t) = t[1] /\ Follows(Cmd(t), t[1], t[2]) /\ (t[1] = "ui" => Len(t) = 4)
           /\ Tail(t)[1] = t[2] /\ (Len(t) > 2 => Tail(t)[2] = t[3]) /\ (Len(t) > 3 => Tail(t)[3] = t[4])
           /\ \A i \in 1..Len(t) - 1 : Tail(t)[i] = t[i+1]
<1> DEFINE n == Len(t)
           u == Tail(t)
<1>1. t \in Seq(Steps \cup Commands) /\ t # << >> /\ n \in Nat BY DEF Flow
<1>2. u \in Seq(Steps \cup Commands) /\ Len(u) = n - 1 /\ \A i \in 1..n-1 : u[i] = t[i+1] BY <1>1
<1>3. Head(t) = t[1] BY <1>1
<1> HIDE DEF u, n
<1>4. n - 1 \in 1..n-1 /\ (n - 1) + 1 = n BY <1>1 DEF n
<1>5. Cmd(u) = Cmd(t) BY <1>2, <1>4 DEF Cmd, n
<1>6. Cmd(t) \in Commands BY <1>1 DEF Flow
<1>7. \A i \in 1..n-1 : Follows(Cmd(t), t[i], t[i+1]) /\ (t[i] = "ui" => i = n - 3) BY DEF Flow, n
<1>8. ASSUME NEW i \in 1..(n-1)-1 PROVE Follows(Cmd(u), u[i], u[i+1]) /\ (u[i] = "ui" => i = (n - 1) - 3)
  <2>1. i \in 1..n-1 /\ i + 1 \in 1..n-1 BY <1>1
  <2>2. u[i] = t[i+1] /\ u[i+1] = t[(i+1)+1] BY <1>2, <2>1
  <2>3. Follows(Cmd(t), t[i+1], t[(i+1)+1]) /\ (t[i+1] = "ui" => i + 1 = n - 3) BY <1>7, <2>1
  <2> QED BY <2>2, <2>3, <1>5, <1>1
<1>9. Flow(u) BY <1>2, <1>5, <1>6, <1>8 DEF Flow
<1>10. Follows(Cmd(t), t[1], t[2]) /\ (t[1] = "ui" => n = 4) BY <1>1, <1>4, <1>7
<1>11. u[1] = t[2] /\ (n > 2 => u[2] = t[3]) /\ (n > 3 => u[3] = t[4]) BY <1>1, <1>2, <1>4
<1> QED BY <1>1, <1>2, <1>3, <1>5, <1>6, <1>9, <1>10, <1>11 DEF n, u

\* Where no command runs.
LEMMA EmptyFlow == Flow(<< >>)
BY DEF Flow

\* The steps p may come before t.
Leads(p, t) ==
    /\ p \in Seq(Steps \cup Commands) /\ p # << >> /\ Flow(t) /\ t # << >>
    /\ \A i \in 1..Len(p) : p[i] # "ui"
    /\ \A i \in 1..Len(p)-1 : Follows(Cmd(t), p[i], p[i+1])
    /\ Follows(Cmd(t), p[Len(p)], t[1])

LeadBy(u, p, t) ==
    /\ Flow(u) /\ u # << >> /\ Cmd(u) = Cmd(t) /\ Len(u) = Len(p) + Len(t)
    /\ \A i \in 1..Len(p) : u[i] = p[i]
    /\ \A i \in 1..Len(t) : u[Len(p) + i] = t[i]

\* Steps before a command that may go on so.
LEMMA Before ==
    ASSUME NEW p, NEW t, Leads(p, t)
    PROVE  LeadBy(p \o t, p, t)
<1> DEFINE n == Len(t)
           m == Len(p)
           u == p \o t
<1>0. p \in Seq(Steps \cup Commands) /\ p # << >> /\ Flow(t) /\ t # << >> BY DEF Leads
<1>1. t \in Seq(Steps \cup Commands) /\ n \in Nat /\ n > 0 /\ m \in Nat /\ m > 0 BY <1>0 DEF Flow
<1>2. p \o t \in Seq(Steps \cup Commands) /\ Len(p \o t) = m + n BY <1>0, <1>1, Cat
<1>3. \A i \in 1..m : (p \o t)[i] = p[i] BY <1>0, <1>1, Cat
<1>4. \A i \in 1..n : (p \o t)[m+i] = t[i] BY <1>0, <1>1, Cat
<1>5. u \in Seq(Steps \cup Commands) /\ Len(u) = m + n /\ (\A i \in 1..m : u[i] = p[i]) /\ (\A i \in 1..n : u[m+i] = t[i])
  BY <1>2, <1>3, <1>4
<1>6. Cmd(t) \in Commands BY <1>0 DEF Flow
<1>7. \A i \in 1..n-1 : Follows(Cmd(t), t[i], t[i+1]) /\ (t[i] = "ui" => i = n - 3) BY <1>0 DEF Flow
<1>8. \A i \in 1..m-1 : Follows(Cmd(t), p[i], p[i+1]) BY DEF Leads
<1>9. Follows(Cmd(t), p[m], t[1]) /\ \A i \in 1..m : p[i] # "ui" BY DEF Leads
<1>10. Cmd(t) = t[n] BY DEF Cmd
<1> HIDE DEF m, n, u
<1>11. Cmd(u) = Cmd(t) BY <1>1, <1>5, <1>10 DEF Cmd
<1>12. ASSUME NEW i \in 1..(m+n)-1 PROVE Follows(Cmd(u), u[i], u[i+1]) /\ (u[i] = "ui" => i = (m + n) - 3)
  <2>1. CASE i < m
    <3>1. i \in 1..m-1 /\ i \in 1..m /\ i + 1 \in 1..m BY <2>1, <1>1
    <3>2. u[i] = p[i] /\ u[i+1] = p[i+1] BY <3>1, <1>5
    <3> QED BY <3>1, <3>2, <1>8, <1>9, <1>11
  <2>2. CASE i = m
    <3>1. i \in 1..m /\ 1 \in 1..n BY <2>2, <1>1
    <3>2. u[i] = p[m] /\ u[i+1] = t[1] BY <3>1, <2>2, <1>5
    <3> QED BY <3>1, <3>2, <2>2, <1>9, <1>11
  <2>3. CASE i > m
    <3>1. PICK j \in 1..n-1 : i = m + j
      <4>1. i - m \in 1..n-1 /\ i = m + (i - m) BY <2>3, <1>1
      <4> QED BY <4>1
    <3>2. j \in 1..n /\ j + 1 \in 1..n /\ i + 1 = m + (j + 1) BY <3>1, <1>1
    <3>3. u[i] = t[j] /\ u[i+1] = t[j+1] BY <3>1, <3>2, <1>5
    <3>4. Follows(Cmd(t), t[j], t[j+1]) /\ (t[j] = "ui" => j = n - 3) BY <1>7
    <3>5. j = n - 3 => i = (m + n) - 3 BY <3>1, <1>1
    <3> QED BY <3>3, <3>4, <3>5, <1>11
  <2> QED BY <2>1, <2>2, <2>3, <1>1
<1>13. Flow(u) BY <1>5, <1>6, <1>11, <1>12 DEF Flow
<1>14. u # << >> BY <1>1, <1>5
<1> QED BY <1>5, <1>11, <1>13, <1>14 DEF m, n, u, LeadBy

\* A sequence given by its elements.
LEMMA Two == ASSUME NEW S, NEW a \in S, NEW b \in S PROVE <<a, b>> \in Seq(S)
OBVIOUS
LEMMA Five ==
    ASSUME NEW S, NEW a \in S, NEW b \in S, NEW c \in S, NEW d \in S, NEW e \in S
    PROVE  <<a, b, c, d, e>> \in Seq(S)
OBVIOUS

\* The steps of cmake and of a new toolchain.
LEMMA ConfigureSteps == Configure \in Seq(Steps \cup Commands) /\ Configure # << >>
<1> DEFINE S == Steps \cup Commands
<1>0. "load" \in S /\ "mk" \in S /\ "cmake" \in S /\ "header" \in S /\ "generate" \in S BY DEF Steps
<1>1. Configure \in Seq(S)
  <2> HIDE DEF S
  <2> QED BY <1>0, Five DEF Configure
<1>2. Len(Configure) = 5 BY DEF Configure
<1> QED BY <1>1, <1>2
LEMMA ConfigureAre ==
    /\ Len(Configure) = 5 /\ Configure[1] = "load" /\ Configure[2] = "mk" /\ Configure[3] = "cmake"
    /\ Configure[4] = "header" /\ Configure[5] = "generate"
BY DEF Configure
LEMMA ToolchainSteps == <<"conf", "unsave">> \in Seq(Steps \cup Commands) /\ <<"conf", "unsave">> # << >>
<1> DEFINE S == Steps \cup Commands
<1>0. "conf" \in S /\ "unsave" \in S BY DEF Steps
<1>1. <<"conf", "unsave">> \in Seq(S)
  <2> HIDE DEF S
  <2> QED BY <1>0, Two
<1>2. <<"conf", "unsave">> # << >> OBVIOUS
<1> QED BY <1>1, <1>2

\* cmake, and after it the rest of a command that may come after generate.
LEMMA ConfigureFirst ==
    ASSUME NEW t, Flow(t), t # << >>, Follows(Cmd(t), "generate", t[1]), NEW u, u = Configure \o t
    PROVE  /\ Flow(u) /\ u # << >> /\ Cmd(u) = Cmd(t) /\ Len(u) = 5 + Len(t)
           /\ u[1] = "load" /\ u[2] = "mk"
           /\ \A i \in 1..Len(t) : u[5 + i] = t[i]
<1> DEFINE p == Configure
<1>1. p \in Seq(Steps \cup Commands) BY ONLY ConfigureSteps
<1>2. Len(p) = 5 /\ p[1] = "load" /\ p[2] = "mk" /\ p[3] = "cmake" /\ p[4] = "header" /\ p[5] = "generate"
  BY ONLY ConfigureAre
<1>3. p # << >> BY ONLY ConfigureSteps
<1>8. u = p \o t OBVIOUS
<1> HIDE DEF p
<1>4. \A c : Follows(c, "load", "mk") /\ Follows(c, "mk", "cmake") /\ Follows(c, "cmake", "header")
             /\ Follows(c, "header", "generate")
  BY DEF Follows
<1>5. \A i \in 1..Len(p) : p[i] # "ui" BY <1>2
<1>6. ASSUME NEW i \in 1..Len(p)-1 PROVE Follows(Cmd(t), p[i], p[i+1])
  <2>1. i = 1 \/ i = 2 \/ i = 3 \/ i = 4 BY <1>2
  <2> QED BY <2>1, <1>2, <1>4
<1>7. Follows(Cmd(t), p[Len(p)], t[1]) BY <1>2
<1>9. Leads(p, t) BY <1>1, <1>3, <1>5, <1>6, <1>7 DEF Leads
<1>10. LeadBy(u, p, t) BY <1>8, <1>9, Before
<1> QED BY <1>2, <1>10 DEF LeadBy

\* A new toolchain, and after it a whole command.
LEMMA ToolchainFirst ==
    ASSUME NEW t, Flow(t), t # << >>, Begins(Cmd(t), t[1]), NEW u, u = <<"conf", "unsave">> \o t
    PROVE  /\ Flow(u) /\ u # << >> /\ Cmd(u) = Cmd(t) /\ Len(u) = 2 + Len(t)
           /\ u[1] = "conf" /\ u[2] = "unsave"
           /\ \A i \in 1..Len(t) : u[2 + i] = t[i]
<1> DEFINE p == <<"conf", "unsave">>
<1>1. p \in Seq(Steps \cup Commands) BY ONLY ToolchainSteps
<1>2. Len(p) = 2 OBVIOUS
<1>22. p[1] = "conf" /\ p[2] = "unsave" OBVIOUS
<1>3. p # << >> BY ONLY ToolchainSteps
<1>8. u = p \o t OBVIOUS
<1> HIDE DEF p
<1>4. \A c, s : Follows(c, "conf", "unsave") /\ (Begins(c, s) => Follows(c, "unsave", s)) BY DEF Follows
<1>5. \A i \in 1..Len(p) : p[i] # "ui" BY <1>2, <1>22
<1>6. \A i \in 1..Len(p)-1 : Follows(Cmd(t), p[i], p[i+1]) BY <1>2, <1>22, <1>4
<1>7. Follows(Cmd(t), p[Len(p)], t[1]) BY <1>2, <1>22, <1>4
<1>9. Leads(p, t) BY <1>1, <1>3, <1>5, <1>6, <1>7 DEF Leads
<1>10. LeadBy(u, p, t) BY <1>8, <1>9, Before
<1> QED BY <1>2, <1>22, <1>10 DEF LeadBy

\* The two ways of saying which step is next.
LEMMA NowAt ==
    ASSUME Flow(todo), NEW s, s # "end"
    PROVE  Now(s) <=> At = s
<1>1. todo \in Seq(Steps \cup Commands) BY DEF Flow
<1>2. Len(todo) \in Nat /\ (todo # << >> => Head(todo) = todo[1]) BY <1>1
<1>3. Len(todo) > 1 => todo # << >> BY <1>1
<1> QED BY <1>2, <1>3 DEF Now, At, Nth

\* The course of the commands.
Course ==
    LET C == Cmd(todo) IN
    /\ At = "conf" => Nth(2) = "unsave"
    /\ At = "unsave" => /\ Nth(2) \in {"end", "load", "check", "clean", "rmconf", "flashconf"}
                        /\ Nth(2) = "end" => C \notin {"build", "rebuild"}
                        /\ Nth(2) = "check" => C = "build"
    /\ At = "load" => Nth(2) \in {"mk", "ui"}
    /\ At \in {"mk", "ui"} => Nth(2) = "cmake"
    /\ At = "ui" => Nth(4) = "end" /\ C = "menuconfig"
    /\ At = "cmake" => Nth(2) = "header"
    /\ At = "header" => Nth(2) = "generate" \/ (Nth(2) = "end" /\ C = "menuconfig")
    /\ At = "generate" => Nth(2) \in {"check", "info", "load"}
    /\ At = "check" => Nth(2) = "info" \/ Nth(2) = "load"
    /\ At = "info" => Nth(2) = "compile" /\ C \in {"build", "rebuild"}
    /\ At = "compile" => Nth(2) = "end" /\ C \in {"build", "rebuild"}
    /\ At = "clean" => Nth(2) \in {"end", "rmbuild", "clean"}
    /\ At \in {"clean", "rmbuild", "rmconf", "rmconfig", "rmflash", "flashconf", "flash"} => C \notin {"build", "rebuild"}
    /\ At \in {"rmbuild", "rmflash"} => Nth(2) = "end"
    /\ At = "rmconf" => Nth(2) = "rmconfig"
    /\ At = "rmconfig" => Nth(2) = "rmflash"
    /\ At = "flashconf" => Nth(2) \in {"end", "flash"}
    /\ At = "flash" => Nth(2) \in {"end", "flash"}

\* A command that runs is on its course.
LEMMA OnCourse ==
    ASSUME Flow(todo), Len(todo) > 1
    PROVE  Course /\ At \in Steps /\ At = todo[1] /\ Cmd(todo) \in Commands
<1> DEFINE C == Cmd(todo)
           a == todo[1]
           b == todo[2]
           n == Len(todo)
<1>1. n \in Nat /\ n > 1 /\ Follows(C, a, b) /\ (a = "ui" => n = 4) /\ C \in Commands BY Advance
<1>2. At = a BY <1>1 DEF At, Nth
<1>3. n = 2 => Nth(2) = "end" /\ b = C BY <1>1 DEF Nth, Cmd
<1>4. n # 2 => Nth(2) = b /\ Follows(C, b, todo[3])
  <2>1. \A i \in 1..n-1 : Follows(C, todo[i], todo[i+1]) BY DEF Flow
  <2>2. n # 2 => 2 \in 1..n-1
    <3> HIDE DEF n
    <3> QED BY <1>1
  <2> QED BY <1>1, <2>1, <2>2 DEF Nth
<1>5. n = 4 => Nth(4) = "end" BY DEF Nth
<1> HIDE DEF C, a, b, n
<1>6. a \in Steps BY <1>1 DEF Follows, Steps
<1>7. CASE n = 2
  <2>1. Follows(C, a, C) BY <1>1, <1>3, <1>7
  <2>2. Course BY <1>7, <1>1, <1>2, <1>3, <1>5, <2>1 DEF Course, Follows, Begins, Commands, C
  <2> QED BY <2>2, <1>1, <1>2, <1>6 DEF C, a
<1>8. CASE n # 2
  <2>2. Course BY <1>8, <1>1, <1>2, <1>4, <1>5 DEF Course, Follows, Begins, Commands, C
  <2> QED BY <2>2, <1>1, <1>2, <1>6 DEF C, a
<1> QED BY <1>7, <1>8

\* A step that is done.
LEMMA OneOn ==
    ASSUME Flow(todo), Len(todo) > 1, todo' = Tail(todo)
    PROVE  /\ Flow(todo') /\ ~Idle /\ ~Idle' /\ Cmd(todo') = Cmd(todo)
           /\ At' = Nth(2) /\ Nth(2)' = Nth(3) /\ Nth(3)' = Nth(4)
<1> DEFINE n == Len(todo)
           u == Tail(todo)
<1>1. /\ Flow(u) /\ n \in Nat /\ Len(u) = n - 1 /\ Cmd(u) = Cmd(todo)
      /\ u[1] = todo[2] /\ (n > 2 => u[2] = todo[3]) /\ (n > 3 => u[3] = todo[4])
  BY Advance
<1>2. u \in Seq(Steps \cup Commands) BY <1>1 DEF Flow
<1>3. u # << >>
  <2> HIDE DEF u
  <2> QED BY <1>1, <1>2
<1>4. todo # << >> OBVIOUS
<1> HIDE DEF u
<1>5. todo' = u BY DEF u
<1>6. At' = Nth(2) BY <1>1, <1>5 DEF At, Nth
<1>7. Nth(2)' = Nth(3) BY <1>1, <1>5 DEF Nth
<1>8. Nth(3)' = Nth(4) BY <1>1, <1>5 DEF Nth
<1> QED BY <1>1, <1>3, <1>4, <1>5, <1>6, <1>7, <1>8 DEF Idle

\* A command that is over, at its end or cut off.
LEMMA NothingLeft ==
    ASSUME todo' = << >>
    PROVE  Flow(todo') /\ Idle' /\ At' = "end"
<1>1. Len(todo') = 0 OBVIOUS
<1> QED BY <1>1, EmptyFlow DEF Idle, At, Nth

\* A command with no step left.
LEMMA OnlyCommand ==
    ASSUME NEW c \in Commands
    PROVE  Flow(<<c>>) /\ <<c>> # << >> /\ Cmd(<<c>>) = c /\ Len(<<c>>) = 1 /\ <<c>>[1] = c
<1> DEFINE S == Steps \cup Commands
           t == <<c>>
<1>1. Len(t) = 1 /\ t[1] = c /\ t # << >> OBVIOUS
<1>2. c \in S OBVIOUS
<1>3. t \in Seq(S)
  <2> HIDE DEF S
  <2> QED BY <1>2
<1> HIDE DEF t
<1>4. Flow(t) BY <1>1, <1>3 DEF Flow, Cmd
<1> QED BY <1>1, <1>4 DEF t, Cmd

LEMMA Single == ASSUME NEW S, NEW a \in S PROVE <<a>> \in Seq(S)
OBVIOUS
LEMMA ThreeOf == ASSUME NEW S, NEW a \in S, NEW b \in S, NEW c \in S PROVE <<a, b, c>> \in Seq(S)
OBVIOUS

\* The steps p, then the command.
Ways(p, c) ==
    /\ c \in Commands
    /\ \/ p = Make /\ c \in {"build", "rebuild"}
       \/ p = <<"clean">> /\ c = "clean"
       \/ p = <<"clean", "rmbuild">> /\ c = "distclean"
       \/ p = <<"rmconf", "rmconfig", "rmflash">> /\ c = "clean_conf"
       \/ p = <<"flashconf", "flash">> /\ c = "flash"

\* The commands that do the same steps always.
LEMMA Straight ==
    ASSUME NEW p, NEW c, Ways(p, c)
    PROVE  LeadBy(p \o <<c>>, p, <<c>>) /\ Len(p) >= 1
<1> DEFINE S == Steps \cup Commands
           t == <<c>>
<1>1. c \in Commands BY DEF Ways
<1>2. Flow(t) /\ t # << >> /\ Cmd(t) = c /\ Len(t) = 1 /\ t[1] = c BY <1>1, OnlyCommand
<1> HIDE DEF t
<1>3. CASE p = Make /\ c \in {"build", "rebuild"}
  <2>1. Len(p) = 3 /\ p[1] = "check" /\ p[2] = "info" /\ p[3] = "compile" BY <1>3 DEF Make
  <2>2. "check" \in S /\ "info" \in S /\ "compile" \in S BY DEF Steps
  <2>3. p \in Seq(S)
    <3> HIDE DEF S
    <3> QED BY <1>3, <2>2, ThreeOf DEF Make
  <2>4. p # << >>
    <3> HIDE DEF S
    <3> QED BY <2>1, <2>3
  <2>5. \A i \in 1..Len(p) : p[i] # "ui" BY <2>1
  <2>6. \A i \in 1..Len(p)-1 : Follows(c, p[i], p[i+1]) BY <2>1, <1>3 DEF Follows
  <2>7. Follows(c, p[Len(p)], t[1]) BY <2>1, <1>2, <1>3 DEF Follows
  <2>8. Leads(p, t) BY <1>2, <2>3, <2>4, <2>5, <2>6, <2>7 DEF Leads
  <2> QED BY <2>1, <2>8, Before DEF t
<1>4. CASE p = <<"clean">> /\ c = "clean"
  <2>1. Len(p) = 1 /\ p[1] = "clean" BY <1>4
  <2>2. "clean" \in S BY DEF Steps
  <2>3. p \in Seq(S)
    <3> HIDE DEF S
    <3> QED BY <1>4, <2>2, Single
  <2>4. p # << >> BY <1>4
  <2>5. \A i \in 1..Len(p) : p[i] # "ui" BY <2>1
  <2>6. \A i \in 1..Len(p)-1 : Follows(c, p[i], p[i+1]) BY <2>1, <1>4 DEF Follows
  <2>7. Follows(c, p[Len(p)], t[1]) BY <2>1, <1>2, <1>4 DEF Follows
  <2>8. Leads(p, t) BY <1>2, <2>3, <2>4, <2>5, <2>6, <2>7 DEF Leads
  <2> QED BY <2>1, <2>8, Before DEF t
<1>5. CASE p = <<"clean", "rmbuild">> /\ c = "distclean"
  <2>1. Len(p) = 2 /\ p[1] = "clean" /\ p[2] = "rmbuild" BY <1>5
  <2>2. "clean" \in S /\ "rmbuild" \in S BY DEF Steps
  <2>3. p \in Seq(S)
    <3> HIDE DEF S
    <3> QED BY <1>5, <2>2, Two
  <2>4. p # << >> BY <1>5
  <2>5. \A i \in 1..Len(p) : p[i] # "ui" BY <2>1
  <2>6. \A i \in 1..Len(p)-1 : Follows(c, p[i], p[i+1]) BY <2>1, <1>5 DEF Follows
  <2>7. Follows(c, p[Len(p)], t[1]) BY <2>1, <1>2, <1>5 DEF Follows
  <2>8. Leads(p, t) BY <1>2, <2>3, <2>4, <2>5, <2>6, <2>7 DEF Leads
  <2> QED BY <2>1, <2>8, Before DEF t
<1>6. CASE p = <<"rmconf", "rmconfig", "rmflash">> /\ c = "clean_conf"
  <2>1. Len(p) = 3 /\ p[1] = "rmconf" /\ p[2] = "rmconfig" /\ p[3] = "rmflash" BY <1>6
  <2>2. "rmconf" \in S /\ "rmconfig" \in S /\ "rmflash" \in S BY DEF Steps
  <2>3. p \in Seq(S)
    <3> HIDE DEF S
    <3> QED BY <1>6, <2>2, ThreeOf
  <2>4. p # << >> BY <1>6
  <2>5. \A i \in 1..Len(p) : p[i] # "ui" BY <2>1
  <2>6. \A i \in 1..Len(p)-1 : Follows(c, p[i], p[i+1]) BY <2>1, <1>6 DEF Follows
  <2>7. Follows(c, p[Len(p)], t[1]) BY <2>1, <1>2, <1>6 DEF Follows
  <2>8. Leads(p, t) BY <1>2, <2>3, <2>4, <2>5, <2>6, <2>7 DEF Leads
  <2> QED BY <2>1, <2>8, Before DEF t
<1>7. CASE p = <<"flashconf", "flash">> /\ c = "flash"
  <2>1. Len(p) = 2 /\ p[1] = "flashconf" /\ p[2] = "flash" BY <1>7
  <2>2. "flashconf" \in S /\ "flash" \in S BY DEF Steps
  <2>3. p \in Seq(S)
    <3> HIDE DEF S
    <3> QED BY <1>7, <2>2, Two
  <2>4. p # << >> BY <1>7
  <2>5. \A i \in 1..Len(p) : p[i] # "ui" BY <2>1
  <2>6. \A i \in 1..Len(p)-1 : Follows(c, p[i], p[i+1]) BY <2>1, <1>7 DEF Follows
  <2>7. Follows(c, p[Len(p)], t[1]) BY <2>1, <1>2, <1>7 DEF Follows
  <2>8. Leads(p, t) BY <1>2, <2>3, <2>4, <2>5, <2>6, <2>7 DEF Leads
  <2> QED BY <2>1, <2>8, Before DEF t
<1> QED BY <1>3, <1>4, <1>5, <1>6, <1>7 DEF Ways

\* menuconfig, after cmake.
LEMMA MenuSteps ==
    LET u == MakeMenuconfig \o <<"menuconfig">> IN
    Flow(u) /\ u # << >> /\ Cmd(u) = "menuconfig" /\ Len(u) = 6 /\ u[1] = "check"
<1> DEFINE S == Steps \cup Commands
           p == MakeMenuconfig
           c == "menuconfig"
           t == <<c>>
           u == p \o t
<1>1. c \in Commands BY DEF Commands
<1>2. t \in Seq(S) /\ Len(t) = 1 /\ t[1] = c
  <2>1. t \in Seq(S) BY <1>1, OnlyCommand DEF Flow
  <2> QED BY <2>1, <1>1, OnlyCommand
<1>3. Len(p) = 5 /\ p[1] = "check" /\ p[2] = "load" /\ p[3] = "ui" /\ p[4] = "cmake" /\ p[5] = "header"
  BY DEF MakeMenuconfig
<1>4. "check" \in S /\ "load" \in S /\ "ui" \in S /\ "cmake" \in S /\ "header" \in S BY DEF Steps
<1>5. p \in Seq(S)
  <2> HIDE DEF S
  <2> QED BY <1>4, Five DEF MakeMenuconfig
<1> HIDE DEF S, p, t
<1>6. p \o t \in Seq(S) /\ Len(p \o t) = Len(p) + Len(t) BY <1>2, <1>5, Cat
<1>7. \A i \in 1..Len(p) : (p \o t)[i] = p[i] BY <1>2, <1>5, Cat
<1>8. \A i \in 1..Len(t) : (p \o t)[Len(p)+i] = t[i]
  <2>1. t \in Seq(S) BY <1>2
  <2> QED BY <2>1, <1>5, Cat
<1>9. u \in Seq(S) BY <1>6
<1>9a. (\A i \in 1..Len(p) : u[i] = p[i]) /\ (\A i \in 1..Len(t) : u[Len(p)+i] = t[i]) /\ Len(u) = Len(p) + Len(t)
  BY <1>6, <1>7, <1>8
<1> HIDE DEF u
<1>10. Len(u) = 6 /\ u[1] = "check" /\ u[2] = "load" /\ u[3] = "ui" /\ u[4] = "cmake" /\ u[5] = "header" /\ u[6] = c
  <2>1. 1 \in 1..5 /\ 2 \in 1..5 /\ 3 \in 1..5 /\ 4 \in 1..5 /\ 5 \in 1..5 /\ 1 \in 1..1 /\ 5 + 1 = 6 OBVIOUS
  <2> QED BY <1>2, <1>3, <1>9a, <2>1
<1>11. u # << >>
  <2>1. Len(u) # 0 BY <1>10
  <2> HIDE DEF S
  <2> QED BY <2>1
<1>12. Cmd(u) = c BY <1>10 DEF Cmd
<1>13. ASSUME NEW i \in 1..Len(u)-1 PROVE Follows(Cmd(u), u[i], u[i+1]) /\ (u[i] = "ui" => i = Len(u) - 3)
  <2>1. i = 1 \/ i = 2 \/ i = 3 \/ i = 4 \/ i = 5 BY <1>10
  <2> QED BY <2>1, <1>10, <1>12 DEF Follows
<1>14. Flow(u) BY <1>1, <1>9, <1>12, <1>13 DEF Flow, S
<1> QED BY <1>10, <1>11, <1>12, <1>14 DEF u, t, p

\* What a command begins with.
Opens(t, c) ==
    /\ Flow(t) /\ t # << >> /\ Cmd(t) = c /\ Begins(c, t[1])
    /\ Len(t) = 1 => c = "config"
    /\ t[1] = "check" => disk.makefile # NoFile

\* Of three sequences.
LEMMA Associated ==
    ASSUME NEW S, NEW a \in Seq(S), NEW b \in Seq(S), NEW c \in Seq(S)
    PROVE  (a \o b) \o c = a \o (b \o c)
BY ConcatAssociative

\* A command without cmake.
LEMMA ShortWay ==
    ASSUME NEW p, NEW c, Ways(p, c), c # "rebuild",
           p[1] = "check" => disk.makefile # NoFile
    PROVE  Opens(p \o <<c>>, c)
<1> DEFINE t == p \o <<c>>
           u == <<c>>
<1>1. LeadBy(t, p, u) /\ Len(p) >= 1 BY Straight
<1>2. c \in Commands BY DEF Ways
<1>3. Len(u) = 1 /\ Cmd(u) = c BY <1>2, OnlyCommand
<1>4. Len(p) \in Nat /\ Begins(c, p[1])
  <2>1. CASE p = Make /\ c \in {"build", "rebuild"}
    <3>1. c = "build" BY <2>1
    <3>2. Len(p) = 3 /\ p[1] = "check" BY <2>1 DEF Make
    <3> QED BY <3>1, <3>2 DEF Begins
  <2>2. CASE p = <<"clean">> /\ c = "clean" BY <2>2 DEF Begins
  <2>3. CASE p = <<"clean", "rmbuild">> /\ c = "distclean" BY <2>3 DEF Begins
  <2>4. CASE p = <<"rmconf", "rmconfig", "rmflash">> /\ c = "clean_conf" BY <2>4 DEF Begins
  <2>5. CASE p = <<"flashconf", "flash">> /\ c = "flash" BY <2>5 DEF Begins
  <2> QED BY <2>1, <2>2, <2>3, <2>4, <2>5 DEF Ways
<1> HIDE DEF t, u
<1>5. t[1] = p[1] /\ Len(t) = Len(p) + 1 /\ Flow(t) /\ t # << >> /\ Cmd(t) = c
  BY <1>1, <1>3, <1>4 DEF LeadBy
<1>6. Len(t) # 1 BY <1>1, <1>4, <1>5
<1> QED BY <1>4, <1>5, <1>6 DEF Opens, t

\* A command that starts with cmake.
LEMMA LongWay ==
    ASSUME NEW q, NEW c, Flow(q), q # << >>, Cmd(q) = c, q[1] = "check", c \in {"build", "rebuild", "menuconfig"}
    PROVE  Opens(Configure \o q, c)
<1> DEFINE t == Configure \o q
<1>1. Follows(c, "generate", q[1]) BY DEF Follows
<1>2. Flow(t) /\ t # << >> /\ Cmd(t) = c /\ Len(t) = 5 + Len(q) /\ t[1] = "load" BY <1>1, ConfigureFirst
<1>3. Len(q) \in Nat BY DEF Flow
<1> HIDE DEF t
<1>4. Len(t) # 1 /\ Begins(c, t[1]) BY <1>2, <1>3 DEF Begins
<1>5. "load" # "check" OBVIOUS
<1> QED BY <1>2, <1>4, <1>5 DEF Opens, t

\* A build after cmake.
LEMMA MakeWay ==
    ASSUME NEW c \in {"build", "rebuild"}
    PROVE  LET q == Make \o <<c>> IN
           /\ Flow(q) /\ q # << >> /\ Cmd(q) = c /\ q[1] = "check"
           /\ (Configure \o Make) \o <<c>> = Configure \o q
<1> DEFINE q == Make \o <<c>>
           S == Steps \cup Commands
<1>1. c \in Commands BY DEF Commands
<1>2. Ways(Make, c) BY <1>1 DEF Ways
<1>3. LeadBy(q, Make, <<c>>) /\ Len(Make) >= 1 BY <1>2, Straight
<1>4. Cmd(<<c>>) = c /\ <<c>> \in Seq(S) BY <1>1, OnlyCommand DEF Flow
<1>5. Make[1] = "check" /\ Len(Make) = 3 BY DEF Make
<1>6. Flow(q) /\ q # << >> /\ Cmd(q) = c /\ q[1] = "check"
  <2> HIDE DEF q
  <2>1. 1 \in 1..Len(Make) BY <1>5
  <2> QED BY <1>3, <1>4, <1>5, <2>1 DEF LeadBy
<1>7. Make \in Seq(S)
  <2>1. "check" \in S /\ "info" \in S /\ "compile" \in S BY DEF Steps
  <2> HIDE DEF S
  <2> QED BY <2>1, ThreeOf DEF Make
<1>8. Configure \in Seq(S) BY ConfigureSteps
<1>9. (Configure \o Make) \o <<c>> = Configure \o q BY <1>4, <1>7, <1>8, Associated
<1> QED BY <1>6, <1>9

\* menuconfig with cmake before it.
LEMMA MenuWay ==
    LET q == MakeMenuconfig \o <<"menuconfig">> IN
    (Configure \o MakeMenuconfig) \o <<"menuconfig">> = Configure \o q
<1> DEFINE S == Steps \cup Commands
<1>1. "menuconfig" \in Commands BY DEF Commands
<1>2. <<"menuconfig">> \in Seq(S) BY <1>1, OnlyCommand DEF Flow
<1>3. MakeMenuconfig \in Seq(S)
  <2>1. "check" \in S /\ "load" \in S /\ "ui" \in S /\ "cmake" \in S /\ "header" \in S BY DEF Steps
  <2> HIDE DEF S
  <2> QED BY <2>1, Five DEF MakeMenuconfig
<1>4. Configure \in Seq(S) BY ConfigureSteps
<1> QED BY <1>2, <1>3, <1>4, Associated

\* Every command starts a course of its own.
LEMMA CommandOpens ==
    ASSUME NEW c \in Commands
    PROVE  Opens(Command(c) \o <<c>>, c)
<1>1. CASE c = "config"
  <2>1. Command(c) = << >> BY <1>1 DEF Command
  <2>2. Flow(<<c>>) /\ <<c>> # << >> /\ Cmd(<<c>>) = c /\ Len(<<c>>) = 1 /\ <<c>>[1] = c BY OnlyCommand
  <2>3. << >> \o <<c>> = <<c>> BY <2>2 DEF Flow
  <2>4. Opens(<<c>>, c) BY <2>2, <1>1 DEF Opens, Begins
  <2> QED BY <2>1, <2>3, <2>4
<1>2. CASE c = "build"
  <2>1. CASE disk.makefile = NoFile
    <3>1. Command(c) = Configure \o Make BY <1>2, <2>1 DEF Command
    <3>2. Opens(Configure \o (Make \o <<c>>), c) BY <1>2, MakeWay, LongWay
    <3> QED BY <3>1, <3>2, <1>2, MakeWay
  <2>2. CASE disk.makefile # NoFile
    <3>1. Command(c) = << >> \o Make BY <1>2, <2>2 DEF Command
    <3>2. << >> \o Make = Make BY DEF Make
    <3>3. Ways(Make, c) BY <1>2 DEF Ways
    <3>4. Opens(Make \o <<c>>, c) BY <3>3, <1>2, <2>2, ShortWay
    <3> QED BY <3>1, <3>2, <3>4
  <2> QED BY <2>1, <2>2
<1>3. CASE c = "rebuild"
  <2>1. Command(c) = Configure \o Make BY <1>3 DEF Command
  <2>2. Opens(Configure \o (Make \o <<c>>), c) BY <1>3, MakeWay, LongWay
  <2> QED BY <2>1, <2>2, <1>3, MakeWay
<1>4. CASE c = "menuconfig"
  <2>1. Command(c) = Configure \o MakeMenuconfig BY <1>4 DEF Command
  <2>2. Opens(Configure \o (MakeMenuconfig \o <<c>>), c) BY <1>4, MenuSteps, LongWay
  <2> QED BY <2>1, <2>2, <1>4, MenuWay
<1>5. CASE c = "clean"
  <2> DEFINE p == <<"clean">>
  <2>1. Command(c) = p BY <1>5 DEF Command
  <2>2. p[1] # "check" OBVIOUS
  <2>3. Ways(p, c) BY <1>5 DEF Ways
  <2> QED BY <1>5, <2>1, <2>2, <2>3, ShortWay
<1>6. CASE c = "distclean"
  <2> DEFINE p == <<"clean", "rmbuild">>
  <2>1. Command(c) = p BY <1>6 DEF Command
  <2>2. p[1] # "check" OBVIOUS
  <2>3. Ways(p, c) BY <1>6 DEF Ways
  <2> QED BY <1>6, <2>1, <2>2, <2>3, ShortWay
<1>7. CASE c = "clean_conf"
  <2> DEFINE p == <<"rmconf", "rmconfig", "rmflash">>
  <2>1. Command(c) = p BY <1>7 DEF Command
  <2>2. p[1] # "check" OBVIOUS
  <2>3. Ways(p, c) BY <1>7 DEF Ways
  <2> QED BY <1>7, <2>1, <2>2, <2>3, ShortWay
<1>8. CASE c = "flash"
  <2> DEFINE p == <<"flashconf", "flash">>
  <2>1. Command(c) = p BY <1>8 DEF Command
  <2>2. p[1] # "check" OBVIOUS
  <2>3. Ways(p, c) BY <1>8 DEF Ways
  <2> QED BY <1>8, <2>1, <2>2, <2>3, ShortWay
<1> QED BY <1>1, <1>2, <1>3, <1>4, <1>5, <1>6, <1>7, <1>8 DEF Commands

----------------------------------------------------------------------------
(* What the steps read and write.                                          *)

\* No configuration is a file that is missing or cut off.
LEMMA NoConfig == NoFile # TornFile /\ \A c : IsConfig(c) => c # NoFile /\ c # TornFile
BY DEF IsConfig, IsTool, NoFile, TornFile

\* What genconfig.py loads is a configuration: the saved one, or else one for the toolchain of .config.mk.
LEMMA Loads ==
    ASSUME IsConfig(disk.mk) \/ disk.mk \in {NoFile, TornFile}
    PROVE  /\ disk.mk = NoFile => LoadedConfig.tool = ConfTool
           /\ IsConfig(disk.mk) => LoadedConfig = disk.mk
           /\ IsConfig(LoadedConfig)
<1>1. CASE disk.mk = NoFile
  <2>1. LoadedConfig = [tool |-> ConfTool, opt |-> OptOver(KconfigDefaults.opt)] BY <1>1, NoConfig DEF LoadedConfig
  <2>2. IsTool(ConfTool) BY DEF ConfTool, NoTool, IsTool
  <2> HIDE DEF ConfTool
  <2>3. IsConfig(LoadedConfig) /\ LoadedConfig.tool = ConfTool BY <2>1, <2>2 DEF IsConfig
  <2> QED BY <1>1, <2>3, NoConfig
<1>2. CASE disk.mk = TornFile
  <2>1. LoadedConfig = KconfigDefaults BY <1>2, NoConfig DEF LoadedConfig
  <2>2. IsConfig(KconfigDefaults) BY DEF IsConfig, IsTool, KconfigDefaults, NoTool
  <2> QED BY <1>2, <2>1, <2>2, NoConfig
<1>3. CASE IsConfig(disk.mk)
  <2>1. disk.mk # NoFile /\ disk.mk # TornFile BY <1>3, NoConfig
  <2>2. LoadedConfig = disk.mk BY <2>1 DEF LoadedConfig
  <2> QED BY <1>3, <2>1, <2>2
<1> QED BY <1>1, <1>2, <1>3

\* The step that saves what cmake has loaded.
LEMMA WriteMkKeeps == ASSUME IInv, WriteMk PROVE IInv'
<1>1. Flow(todo) BY DEF IInv, Types
<1>2. At = "mk" /\ Len(todo) > 1 BY <1>1, NowAt DEF WriteMk, Now
<1>3. todo' = Tail(todo) BY DEF WriteMk, Writes, Then
<1>4. /\ Flow(todo') /\ ~Idle /\ ~Idle' /\ Cmd(todo') = Cmd(todo)
      /\ At' = Nth(2) /\ Nth(2)' = Nth(3) /\ Nth(3)' = Nth(4)
  BY <1>1, <1>2, <1>3, OneOn
<1>5. Nth(2) = "cmake" BY <1>1, <1>2, OnCourse DEF Course
<1>6. disk' = [disk EXCEPT !.mk = kconfig] BY DEF WriteMk, Writes
<1>7. /\ disk'.conf = disk.conf /\ disk'.mk = kconfig /\ disk'.cmake = disk.cmake /\ disk'.header = disk.header
      /\ disk'.makefile = disk.makefile /\ disk'.newer = disk.newer /\ disk'.objects = disk.objects
      /\ disk'.touched = disk.touched /\ disk'.time = disk.time /\ disk'.version = disk.version
      /\ disk'.order = disk.order /\ disk'.flash = disk.flash /\ Files(disk')
  BY <1>6 DEF IInv, Types, Files
<1>8. /\ project' = project /\ repo' = repo /\ asked' = asked /\ kconfig' = kconfig /\ args' = args
      /\ done' = done /\ wanted' = wanted /\ hurt' = hurt
  BY DEF WriteMk, Writes, Then, Unmoved
<1>10. Types' BY <1>4, <1>7, <1>8 DEF IInv, Types
<1>11. Control' BY <1>2, <1>4, <1>5, <1>7, <1>8 DEF IInv, Control, Configuring, Building, Ending
<1>12. Coherent' BY <1>7, <1>8 DEF IInv, Coherent
<1>13. Saved'
  <2>1. /\ IsConfig(disk.mk) \/ disk.mk \in {NoFile, TornFile}
        /\ kconfig = LoadedConfig /\ IsConfig(kconfig)
    BY <1>2 DEF IInv, Types, Control
  <2>2. "tool" \notin hurt => Agrees(kconfig, wanted)
    <3>1. /\ disk.mk = NoFile => LoadedConfig.tool = ConfTool
          /\ IsConfig(disk.mk) => LoadedConfig = disk.mk
      BY <2>1, Loads
    <3>2. "tool" \notin hurt =>
            /\ disk.mk # TornFile
            /\ IF disk.mk = NoFile THEN wanted = [tool |-> ConfTool, opt |-> Unset] ELSE Agrees(disk.mk, wanted)
      BY <1>2 DEF IInv, Saved
    <3>3. wanted = [tool |-> ConfTool, opt |-> Unset] => wanted.tool = ConfTool /\ wanted.opt = Unset
      OBVIOUS
    <3>4. CASE disk.mk = NoFile BY <2>1, <3>1, <3>2, <3>3, <3>4 DEF Agrees
    <3>5. CASE IsConfig(disk.mk) BY <2>1, <3>1, <3>2, <3>5, NoConfig
    <3> QED BY <2>1, <3>2, <3>4, <3>5
  <2>3. kconfig # NoFile /\ kconfig # TornFile BY <2>1, NoConfig
  <2> QED BY <1>2, <1>4, <1>5, <1>7, <1>8, <2>2, <2>3 DEF Saved, Agrees
<1>14. Told' BY <1>2, <1>4, <1>5, <1>7, <1>8 DEF IInv, Told, Ending
<1>30. AtRest' BY <1>4 DEF AtRest
<1>15. Settled' BY <1>2, <1>4, <1>5, <1>7, <1>8 DEF IInv, Settled, Building
<1>16. AsksFlash' BY <1>2, <1>4, <1>5, <1>7, <1>8 DEF IInv, AsksFlash, Flashes, SavedFlash
<1>17. Sorted' BY <1>7, <1>8 DEF IInv, Sorted
<1> QED BY <1>10, <1>11, <1>12, <1>13, <1>14, <1>15, <1>16, <1>17, <1>30 DEF IInv

\* An empty version file.
LEMMA NothingTold == \A S : << >> \in Seq(S) /\ Shaped(<< >>) /\ Whole(<< >>)
BY DEF Shaped, Whole

\* The default flash settings are settings, and settings are no missing file.
LEMMA FlashDefault == IsFlash(DefaultFlash) /\ \A f : IsFlash(f) => f # NoFlash
BY DEF IsFlash, DefaultFlash, NoFlash

\* Given settings over settings are settings.
LEMMA GivenFlash ==
    ASSUME NEW f, NEW g, IsFlash(f), IsFlash(g)
    PROVE  IsFlash(Given(f, g))
<1> DEFINE h == Given(f, g)
<1>1. h = [port |-> IF f.port # DefaultFlash.port THEN f.port ELSE g.port,
           baudrate |-> IF f.baudrate # DefaultFlash.baudrate THEN f.baudrate ELSE g.baudrate]
  BY DEF Given, IsFlash
<1> HIDE DEF h
<1>2. h = [port |-> h.port, baudrate |-> h.baudrate] /\ h.port \in {f.port, g.port} BY <1>1
<1> QED BY <1>2 DEF IsFlash, h

\* Settings given over the defaults.
LEMMA GivenFirst ==
    ASSUME NEW f, IsFlash(f)
    PROVE  Given(f, DefaultFlash) = f
<1>1. DefaultFlash = [port |-> DefaultFlash.port, baudrate |-> DefaultFlash.baudrate] BY DEF DefaultFlash
<1>2. f = [port |-> f.port, baudrate |-> f.baudrate] BY DEF IsFlash
<1> QED BY <1>1, <1>2 DEF Given

\* A step that goes on.
LEMMA NoneOn ==
    ASSUME Flow(todo), Len(todo) > 1, todo' = todo
    PROVE  /\ Flow(todo') /\ ~Idle /\ ~Idle' /\ Cmd(todo') = Cmd(todo)
           /\ At' = At /\ Nth(2)' = Nth(2) /\ Nth(3)' = Nth(3)
<1>1. todo # << >> OBVIOUS
<1> QED BY <1>1 DEF Idle, At, Nth

\* make has looked whether cmake has to run.
LEMMA Checked ==
    ASSUME Flow(todo), Len(todo) > 1, At = "check",
           todo' = (IF disk.newer \/ disk.cmake = NoFile THEN Configure ELSE << >>) \o Tail(todo)
    PROVE  /\ Flow(todo') /\ ~Idle /\ ~Idle' /\ Cmd(todo') = Cmd(todo)
           /\ IF disk.newer \/ disk.cmake = NoFile THEN At' = "load" ELSE At' = Nth(2)
<1> DEFINE u == Tail(todo)
           C == Cmd(todo)
<1>1. /\ Flow(u) /\ Len(todo) \in Nat /\ Len(u) = Len(todo) - 1 /\ Cmd(u) = C
      /\ u[1] = todo[2] /\ Follows(C, todo[1], todo[2]) /\ C \in Commands
  BY Advance, SMTT(30)
<1>2. u \in Seq(Steps \cup Commands) BY <1>1 DEF Flow
<1>3. u # << >>
  <2> HIDE DEF u
  <2> QED BY <1>1, <1>2
<1>4. todo[1] = "check" BY <1>1 DEF At, Nth
<1>5. ~Idle BY DEF Idle
<1>6. CASE disk.newer \/ disk.cmake = NoFile
  <2>1. Follows(C, "generate", u[1])
    <3> HIDE DEF C, u
    <3> QED BY <1>1, <1>4 DEF Follows
  <2> DEFINE v == Configure \o u
  <2>2. Flow(v) /\ v # << >> /\ Cmd(v) = C /\ Len(v) = 5 + Len(u) /\ v[1] = "load"
    <3> HIDE DEF u, C
    <3> QED BY <1>1, <1>3, <2>1, ConfigureFirst
  <2>3. todo' = v BY <1>6
  <2> HIDE DEF v, u
  <2>4. Len(todo') > 1 /\ todo'[1] = "load"
    <3> DEFINE k == Len(u)
    <3>1. k \in Nat BY <1>2
    <3>2. Len(v) = 5 + k BY <2>2
    <3> HIDE DEF k
    <3>3. Len(v) > 1 BY <3>1, <3>2
    <3> QED BY <2>2, <2>3, <3>3
  <2>5. At' = "load" BY <2>4 DEF At, Nth
  <2> QED BY <1>5, <1>6, <2>2, <2>3, <2>5 DEF Idle
<1>7. CASE ~(disk.newer \/ disk.cmake = NoFile)
  <2>1. todo' = << >> \o u BY <1>7
  <2>2. << >> \o u = u
    <3> HIDE DEF u
    <3> QED BY <1>2
  <2>3. todo' = Tail(todo) BY <2>1, <2>2
  <2> QED BY <1>7, <2>3, OneOn
<1> QED BY <1>6, <1>7

LEMMA WriteConfKeeps == ASSUME IInv, WriteConf PROVE IInv'
<1>1. Flow(todo) BY DEF IInv, Types
<1>2. At = "conf" /\ Len(todo) > 1 BY <1>1, NowAt DEF WriteConf, Now
<1>3. todo' = Tail(todo) BY DEF WriteConf, Writes, Then, Unmoved
<1>4. /\ Flow(todo') /\ ~Idle /\ ~Idle' /\ Cmd(todo') = Cmd(todo)
      /\ At' = Nth(2) /\ Nth(2)' = Nth(3) /\ Nth(3)' = Nth(4)
  BY <1>1, <1>2, <1>3, OneOn
<1>5. Nth(2) = "unsave" BY <1>1, <1>2, OnCourse DEF Course
<1>6. disk' = [disk EXCEPT !.conf = args.tool] BY DEF WriteConf, Writes, Then, Unmoved
<1>7. /\ disk'.conf = args.tool /\ disk'.mk = disk.mk /\ disk'.cmake = disk.cmake /\ disk'.header = disk.header
      /\ disk'.makefile = disk.makefile /\ disk'.newer = disk.newer /\ disk'.objects = disk.objects
      /\ disk'.touched = disk.touched /\ disk'.time = disk.time /\ disk'.version = disk.version
      /\ disk'.order = disk.order /\ disk'.flash = disk.flash /\ Files(disk')
  BY <1>6 DEF IInv, Types, Files
<1>8. /\ project' = project /\ repo' = repo /\ asked' = asked /\ kconfig' = kconfig /\ args' = args
      /\ done' = done /\ wanted' = wanted /\ hurt' = hurt
  BY DEF WriteConf, Writes, Then, Unmoved
<1>10. Types' BY <1>2, <1>4, <1>5, <1>7, <1>8 DEF IInv, Types
<1>11. Control' BY <1>2, <1>4, <1>5, <1>7, <1>8 DEF IInv, Control, Configuring, Building, Ending, Types
<1>12. Coherent' BY <1>2, <1>4, <1>5, <1>7, <1>8 DEF IInv, Coherent
<1>13. Saved' BY <1>2, <1>4, <1>5, <1>7, <1>8 DEF IInv, Saved, ConfTool, Agrees
<1>14. Told' BY <1>2, <1>4, <1>5, <1>7, <1>8 DEF IInv, Told, Building, Ending
<1>30. AtRest' BY <1>4 DEF AtRest
<1>15. Settled' BY <1>2, <1>4, <1>5, <1>7, <1>8 DEF IInv, Settled, Building
<1>16. AsksFlash' BY <1>2, <1>4, <1>5, <1>7, <1>8 DEF IInv, AsksFlash, Flashes, SavedFlash
<1>17. Sorted' BY <1>2, <1>4, <1>5, <1>7, <1>8 DEF IInv, Sorted
<1> QED BY <1>10, <1>11, <1>12, <1>13, <1>14, <1>15, <1>16, <1>17, <1>30 DEF IInv

LEMMA RemoveSavedKeeps == ASSUME IInv, RemoveSaved PROVE IInv'
<1>1. Flow(todo) BY DEF IInv, Types
<1>2. At = "unsave" /\ Len(todo) > 1 BY <1>1, NowAt DEF RemoveSaved, Now
<1>3. todo' = Tail(todo) BY DEF RemoveSaved, Then
<1>4. /\ Flow(todo') /\ ~Idle /\ ~Idle' /\ Cmd(todo') = Cmd(todo)
      /\ At' = Nth(2) /\ Nth(2)' = Nth(3) /\ Nth(3)' = Nth(4)
  BY <1>1, <1>2, <1>3, OneOn
<1>5. /\ Nth(2) \in {"end", "load", "check", "clean", "rmconf", "flashconf"}
      /\ Nth(2) = "end" => Cmd(todo) \notin {"build", "rebuild"}
      /\ Nth(2) = "check" => Cmd(todo) = "build"
  BY <1>1, <1>2, OnCourse DEF Course
<1>6. disk' = [disk EXCEPT !.mk = NoFile] BY DEF RemoveSaved, Then
<1>7. /\ disk'.conf = disk.conf /\ disk'.mk = NoFile /\ disk'.cmake = disk.cmake /\ disk'.header = disk.header
      /\ disk'.makefile = disk.makefile /\ disk'.newer = disk.newer /\ disk'.objects = disk.objects
      /\ disk'.touched = disk.touched /\ disk'.time = disk.time /\ disk'.version = disk.version
      /\ disk'.order = disk.order /\ disk'.flash = disk.flash /\ Files(disk')
  BY <1>6 DEF IInv, Types, Files
<1>8. /\ project' = project /\ repo' = repo /\ asked' = asked /\ kconfig' = kconfig /\ args' = args
      /\ done' = done /\ wanted' = [tool |-> disk.conf, opt |-> Unset] /\ hurt' = hurt \ {"tool"}
  BY DEF RemoveSaved, Then
<1>10. Types' BY <1>2, <1>4, <1>5, <1>7, <1>8 DEF IInv, Types
<1>11. Control' BY <1>2, <1>4, <1>5, <1>7, <1>8 DEF IInv, Control, Configuring, Building, Ending
<1>12. Coherent' BY <1>2, <1>4, <1>5, <1>7, <1>8 DEF IInv, Coherent
<1>13. Saved' BY <1>2, <1>4, <1>5, <1>7, <1>8, NoConfig DEF IInv, Saved, ConfTool, Agrees, Control, IsTool
<1>14. Told' BY <1>2, <1>4, <1>5, <1>7, <1>8 DEF IInv, Told, Building, Ending
<1>30. AtRest' BY <1>4 DEF AtRest
<1>15. Settled' BY <1>2, <1>4, <1>5, <1>7, <1>8 DEF IInv, Settled, Building
<1>16. AsksFlash' BY <1>2, <1>4, <1>5, <1>7, <1>8 DEF IInv, AsksFlash, Flashes, SavedFlash
<1>17. Sorted' BY <1>2, <1>4, <1>5, <1>7, <1>8 DEF IInv, Sorted
<1> QED BY <1>10, <1>11, <1>12, <1>13, <1>14, <1>15, <1>16, <1>17, <1>30 DEF IInv

LEMMA LoadConfigKeeps == ASSUME IInv, LoadConfig PROVE IInv'
<1>1. Flow(todo) BY DEF IInv, Types
<1>2. At = "load" /\ Len(todo) > 1 BY <1>1, NowAt DEF LoadConfig, Now
<1>3. todo' = Tail(todo) BY DEF LoadConfig, Then
<1>4. /\ Flow(todo') /\ ~Idle /\ ~Idle' /\ Cmd(todo') = Cmd(todo)
      /\ At' = Nth(2) /\ Nth(2)' = Nth(3) /\ Nth(3)' = Nth(4)
  BY <1>1, <1>2, <1>3, OneOn
<1>5. Nth(2) \in {"mk", "ui"} BY <1>1, <1>2, OnCourse DEF Course
<1>6. disk' = disk BY DEF LoadConfig, Then
<1>8. /\ project' = project /\ repo' = repo /\ asked' = asked /\ kconfig' = LoadedConfig /\ args' = args
      /\ done' = done /\ wanted' = wanted /\ hurt' = hurt
  BY DEF LoadConfig, Then
<1>9. IsConfig(kconfig') /\ LoadedConfig' = LoadedConfig /\ (IsConfig(disk.mk) => kconfig' = disk.mk)
  <2>1. LoadedConfig' = LoadedConfig BY <1>6, <1>8 DEF LoadedConfig, ConfTool, OptOver
  <2>2. IsConfig(disk.mk) \/ disk.mk \in {NoFile, TornFile} BY DEF IInv, Types
  <2> QED BY <1>8, <2>1, <2>2, Loads
<1>10. Types' BY <1>2, <1>4, <1>5, <1>6, <1>8, <1>9 DEF IInv, Types
<1>11. Control' BY <1>2, <1>4, <1>5, <1>6, <1>8, <1>9 DEF IInv, Control, Configuring, Building, Ending
<1>12. Coherent' BY <1>2, <1>4, <1>5, <1>6, <1>8 DEF IInv, Coherent
<1>13. Saved' BY <1>2, <1>4, <1>5, <1>6, <1>8 DEF IInv, Saved, ConfTool, Agrees
<1>14. Told' BY <1>2, <1>4, <1>5, <1>6, <1>8 DEF IInv, Told, Building, Ending
<1>30. AtRest' BY <1>4 DEF AtRest
<1>15. Settled' BY <1>2, <1>4, <1>5, <1>6, <1>8, <1>9 DEF IInv, Settled, Building
<1>16. AsksFlash' BY <1>2, <1>4, <1>5, <1>6, <1>8 DEF IInv, AsksFlash, Flashes, SavedFlash
<1>17. Sorted' BY <1>2, <1>4, <1>5, <1>6, <1>8 DEF IInv, Sorted
<1> QED BY <1>10, <1>11, <1>12, <1>13, <1>14, <1>15, <1>16, <1>17, <1>30 DEF IInv

LEMMA WriteCmakeKeeps == ASSUME IInv, WriteCmake PROVE IInv'
<1>1. Flow(todo) BY DEF IInv, Types
<1>2. At = "cmake" /\ Len(todo) > 1 BY <1>1, NowAt DEF WriteCmake, Now
<1>3. todo' = Tail(todo) BY DEF WriteCmake, Writes, Then, Unmoved
<1>4. /\ Flow(todo') /\ ~Idle /\ ~Idle' /\ Cmd(todo') = Cmd(todo)
      /\ At' = Nth(2) /\ Nth(2)' = Nth(3) /\ Nth(3)' = Nth(4)
  BY <1>1, <1>2, <1>3, OneOn
<1>5. Nth(2) = "header" BY <1>1, <1>2, OnCourse DEF Course
<1>6. disk' = write_cmake(disk) BY DEF WriteCmake, Writes, Then, Unmoved
<1>7. /\ disk'.conf = disk.conf /\ disk'.mk = disk.mk /\ disk'.cmake = kconfig /\ disk'.header = disk.header
      /\ disk'.makefile = disk.makefile /\ disk'.newer = (disk.newer \/ disk.cmake # kconfig)
      /\ disk'.objects = disk.objects /\ disk'.touched = disk.touched /\ disk'.time = disk.time
      /\ disk'.version = disk.version /\ disk'.order = disk.order /\ disk'.flash = disk.flash /\ Files(disk')
  <2>1. CASE disk.cmake = kconfig
    <3>1. disk' = disk BY <1>6, <2>1 DEF write_cmake
    <3> QED BY <2>1, <3>1 DEF IInv, Types
  <2>2. CASE disk.cmake # kconfig
    <3>1. disk' = [disk EXCEPT !.cmake = kconfig, !.newer = TRUE] BY <1>6, <2>2 DEF write_cmake
    <3> QED BY <2>2, <3>1 DEF IInv, Types, Files
  <2> QED BY <2>1, <2>2
<1>8. /\ project' = project /\ repo' = repo /\ asked' = asked /\ kconfig' = kconfig /\ args' = args
      /\ done' = done /\ wanted' = wanted /\ hurt' = hurt
  BY DEF WriteCmake, Writes, Then, Unmoved
<1>10. Types' BY <1>2, <1>4, <1>5, <1>7, <1>8 DEF IInv, Types
<1>11. Control' BY <1>2, <1>4, <1>5, <1>7, <1>8 DEF IInv, Control, Configuring, Building, Ending
<1>12. Coherent' BY <1>2, <1>4, <1>5, <1>7, <1>8 DEF IInv, Coherent
<1>13. Saved' BY <1>2, <1>4, <1>5, <1>7, <1>8 DEF IInv, Saved, ConfTool, Agrees, Control
<1>14. Told' BY <1>2, <1>4, <1>5, <1>7, <1>8 DEF IInv, Told, Building, Ending
<1>30. AtRest' BY <1>4 DEF AtRest
<1>15. Settled' BY <1>2, <1>4, <1>5, <1>7, <1>8 DEF IInv, Settled, Building
<1>16. AsksFlash' BY <1>2, <1>4, <1>5, <1>7, <1>8 DEF IInv, AsksFlash, Flashes, SavedFlash
<1>17. Sorted' BY <1>2, <1>4, <1>5, <1>7, <1>8 DEF IInv, Sorted
<1> QED BY <1>10, <1>11, <1>12, <1>13, <1>14, <1>15, <1>16, <1>17, <1>30 DEF IInv

LEMMA WriteHeaderKeeps == ASSUME IInv, WriteHeader PROVE IInv'
<1>1. Flow(todo) BY DEF IInv, Types
<1>2. At = "header" /\ Len(todo) > 1 BY <1>1, NowAt DEF WriteHeader, Now
<1>3. todo' = Tail(todo) BY DEF WriteHeader, Writes, Then, Unmoved
<1>4. /\ Flow(todo') /\ ~Idle /\ ~Idle' /\ Cmd(todo') = Cmd(todo)
      /\ At' = Nth(2) /\ Nth(2)' = Nth(3) /\ Nth(3)' = Nth(4)
  BY <1>1, <1>2, <1>3, OneOn
<1>5. Nth(2) = "generate" \/ (Nth(2) = "end" /\ Cmd(todo) = "menuconfig") BY <1>1, <1>2, OnCourse DEF Course
<1>6. disk' = write_header(disk) BY DEF WriteHeader, Writes, Then, Unmoved
<1>7. /\ disk'.conf = disk.conf /\ disk'.mk = disk.mk /\ disk'.cmake = disk.cmake /\ disk'.header = kconfig
      /\ disk'.makefile = disk.makefile /\ disk'.newer = disk.newer /\ disk'.objects = disk.objects
      /\ disk'.touched = (disk.touched \/ disk.header # kconfig) /\ disk'.time = disk.time
      /\ disk'.version = disk.version /\ disk'.order = disk.order /\ disk'.flash = disk.flash /\ Files(disk')
  <2>1. CASE disk.header = kconfig
    <3>1. disk' = disk BY <1>6, <2>1 DEF write_header
    <3> QED BY <2>1, <3>1 DEF IInv, Types
  <2>2. CASE disk.header # kconfig
    <3>1. disk' = [disk EXCEPT !.header = kconfig, !.touched = TRUE] BY <1>6, <2>2 DEF write_header
    <3> QED BY <2>2, <3>1 DEF IInv, Types, Files
  <2> QED BY <2>1, <2>2
<1>8. /\ project' = project /\ repo' = repo /\ asked' = asked /\ kconfig' = kconfig /\ args' = args
      /\ done' = done /\ wanted' = wanted /\ hurt' = hurt
  BY DEF WriteHeader, Writes, Then, Unmoved
<1>10. Types' BY <1>2, <1>4, <1>5, <1>7, <1>8 DEF IInv, Types
<1>11. Control' BY <1>2, <1>4, <1>5, <1>7, <1>8 DEF IInv, Control, Configuring, Building, Ending
<1>12. Coherent' BY <1>2, <1>4, <1>5, <1>7, <1>8 DEF IInv, Coherent, Control
<1>13. Saved' BY <1>2, <1>4, <1>5, <1>7, <1>8 DEF IInv, Saved, ConfTool, Agrees
<1>14. Told' BY <1>2, <1>4, <1>5, <1>7, <1>8 DEF IInv, Told, Building, Ending
<1>30. AtRest' BY <1>4 DEF AtRest
<1>15. Settled' BY <1>2, <1>4, <1>5, <1>7, <1>8 DEF IInv, Settled, Building
<1>16. AsksFlash' BY <1>2, <1>4, <1>5, <1>7, <1>8 DEF IInv, AsksFlash, Flashes, SavedFlash
<1>17. Sorted' BY <1>2, <1>4, <1>5, <1>7, <1>8 DEF IInv, Sorted
<1> QED BY <1>10, <1>11, <1>12, <1>13, <1>14, <1>15, <1>16, <1>17, <1>30 DEF IInv

LEMMA UiEditKeeps == ASSUME IInv, UiEdit PROVE IInv'
<1>1. Flow(todo) BY DEF IInv, Types
<1>2. At = "ui" /\ Len(todo) > 1 BY <1>1, NowAt DEF UiEdit, Now
<1>3. todo' = todo BY DEF UiEdit
<1>4. /\ Flow(todo') /\ ~Idle /\ ~Idle' /\ Cmd(todo') = Cmd(todo)
      /\ At' = At /\ Nth(2)' = Nth(2) /\ Nth(3)' = Nth(3)
  BY <1>1, <1>2, <1>3, NoneOn
<1>5. Cmd(todo) = "menuconfig" BY <1>1, <1>2, OnCourse DEF Course
<1>6. disk' = disk BY DEF UiEdit
<1>8. /\ project' = project /\ repo' = repo /\ asked' = asked /\ args' = args /\ done' = done
      /\ wanted' = wanted /\ hurt' = hurt
  BY DEF UiEdit
<1>10. Types'
  <2>1. PICK tool \in project.menuTools, opt \in project.opts : kconfig' = [tool |-> tool, opt |-> opt]
    BY DEF UiEdit
  <2>2. project \in ToSet(Projects) BY DEF IInv, Types
  <2>3. tool \in Tool BY <2>2, ProjectsAssumption
  <2>4. IsConfig(kconfig') BY <2>1, <2>3 DEF IsConfig, IsTool, Tool
  <2> QED BY <1>2, <1>4, <1>5, <1>6, <1>8, <2>4 DEF IInv, Types
<1>11. Control' BY <1>2, <1>4, <1>5, <1>6, <1>8 DEF IInv, Control, Configuring, Building, Ending
<1>12. Coherent' BY <1>2, <1>4, <1>5, <1>6, <1>8 DEF IInv, Coherent
<1>13. Saved' BY <1>2, <1>4, <1>5, <1>6, <1>8 DEF IInv, Saved, ConfTool, Agrees
<1>14. Told' BY <1>2, <1>4, <1>5, <1>6, <1>8 DEF IInv, Told, Building, Ending
<1>30. AtRest' BY <1>4 DEF AtRest
<1>15. Settled' BY <1>2, <1>4, <1>5, <1>6, <1>8 DEF IInv, Settled, Building
<1>16. AsksFlash' BY <1>2, <1>4, <1>5, <1>6, <1>8 DEF IInv, AsksFlash, Flashes, SavedFlash
<1>17. Sorted' BY <1>2, <1>4, <1>5, <1>6, <1>8 DEF IInv, Sorted
<1> QED BY <1>10, <1>11, <1>12, <1>13, <1>14, <1>15, <1>16, <1>17, <1>30 DEF IInv

LEMMA UiSaveKeeps == ASSUME IInv, UiSave PROVE IInv'
<1>1. Flow(todo) BY DEF IInv, Types
<1>2. At = "ui" /\ Len(todo) > 1 BY <1>1, NowAt DEF UiSave, Now
<1>3. todo' = todo BY DEF UiSave
<1>4. /\ Flow(todo') /\ ~Idle /\ ~Idle' /\ Cmd(todo') = Cmd(todo)
      /\ At' = At /\ Nth(2)' = Nth(2) /\ Nth(3)' = Nth(3)
  BY <1>1, <1>2, <1>3, NoneOn
<1>5. Cmd(todo) = "menuconfig" BY <1>1, <1>2, OnCourse DEF Course
<1>6. disk' = [disk EXCEPT !.mk = kconfig] BY DEF UiSave
<1>7. /\ disk'.conf = disk.conf /\ disk'.mk = kconfig /\ disk'.cmake = disk.cmake /\ disk'.header = disk.header
      /\ disk'.makefile = disk.makefile /\ disk'.newer = disk.newer /\ disk'.objects = disk.objects
      /\ disk'.touched = disk.touched /\ disk'.time = disk.time /\ disk'.version = disk.version
      /\ disk'.order = disk.order /\ disk'.flash = disk.flash /\ Files(disk')
  BY <1>6 DEF IInv, Types, Files
<1>8. /\ project' = project /\ repo' = repo /\ asked' = asked /\ kconfig' = kconfig /\ args' = args
      /\ done' = done /\ wanted' = kconfig /\ hurt' = hurt
  BY DEF UiSave
<1>10. Types' BY <1>2, <1>4, <1>5, <1>7, <1>8 DEF IInv, Types
<1>11. Control' BY <1>2, <1>4, <1>5, <1>7, <1>8 DEF IInv, Control, Configuring, Building, Ending
<1>12. Coherent' BY <1>2, <1>4, <1>5, <1>7, <1>8 DEF IInv, Coherent
<1>13. Saved' BY <1>2, <1>4, <1>5, <1>7, <1>8, NoConfig DEF IInv, Saved, ConfTool, Agrees, Types
<1>14. Told' BY <1>2, <1>4, <1>5, <1>7, <1>8 DEF IInv, Told, Building, Ending
<1>30. AtRest' BY <1>4 DEF AtRest
<1>15. Settled' BY <1>2, <1>4, <1>5, <1>7, <1>8 DEF IInv, Settled, Building
<1>16. AsksFlash' BY <1>2, <1>4, <1>5, <1>7, <1>8 DEF IInv, AsksFlash, Flashes, SavedFlash
<1>17. Sorted' BY <1>2, <1>4, <1>5, <1>7, <1>8 DEF IInv, Sorted
<1> QED BY <1>10, <1>11, <1>12, <1>13, <1>14, <1>15, <1>16, <1>17, <1>30 DEF IInv

LEMMA UiQuitKeeps == ASSUME IInv, UiQuit PROVE IInv'
<1>1. Flow(todo) BY DEF IInv, Types
<1>2. At = "ui" /\ Len(todo) > 1 BY <1>1, NowAt DEF UiQuit, Now
<1>3. todo' = Tail(todo) BY DEF UiQuit, Then
<1>4. /\ Flow(todo') /\ ~Idle /\ ~Idle' /\ Cmd(todo') = Cmd(todo)
      /\ At' = Nth(2) /\ Nth(2)' = Nth(3) /\ Nth(3)' = Nth(4)
  BY <1>1, <1>2, <1>3, OneOn
<1>5. Nth(2) = "cmake" /\ Nth(4) = "end" /\ Cmd(todo) = "menuconfig" BY <1>1, <1>2, OnCourse DEF Course
<1>6. disk' = disk BY DEF UiQuit, Then
<1>8. /\ project' = project /\ repo' = repo /\ asked' = asked /\ kconfig' = kconfig /\ args' = args
      /\ done' = done /\ wanted' = wanted /\ hurt' = IF disk.mk = kconfig THEN hurt ELSE hurt \cup {"menu"}
  BY DEF UiQuit, Then
<1>10. Types' BY <1>2, <1>4, <1>5, <1>6, <1>8 DEF IInv, Types
<1>11. Control' BY <1>2, <1>4, <1>5, <1>6, <1>8 DEF IInv, Control, Configuring, Building, Ending
<1>12. Coherent' BY <1>2, <1>4, <1>5, <1>6, <1>8 DEF IInv, Coherent
<1>13. Saved' BY <1>2, <1>4, <1>5, <1>6, <1>8 DEF IInv, Saved, ConfTool, Agrees
<1>14. Told' BY <1>2, <1>4, <1>5, <1>6, <1>8 DEF IInv, Told, Building, Ending
<1>30. AtRest' BY <1>4 DEF AtRest
<1>15. Settled' BY <1>2, <1>4, <1>5, <1>6, <1>8 DEF IInv, Settled, Building
<1>16. AsksFlash' BY <1>2, <1>4, <1>5, <1>6, <1>8 DEF IInv, AsksFlash, Flashes, SavedFlash
<1>17. Sorted' BY <1>2, <1>4, <1>5, <1>6, <1>8 DEF IInv, Sorted
<1> QED BY <1>10, <1>11, <1>12, <1>13, <1>14, <1>15, <1>16, <1>17, <1>30 DEF IInv

LEMMA GenerateKeeps == ASSUME IInv, Generate PROVE IInv'
<1>1. Flow(todo) BY DEF IInv, Types
<1>2. At = "generate" /\ Len(todo) > 1 BY <1>1, NowAt DEF Generate, Now
<1>3. todo' = Tail(todo) BY DEF Generate, Then
<1>4. /\ Flow(todo') /\ ~Idle /\ ~Idle' /\ Cmd(todo') = Cmd(todo)
      /\ At' = Nth(2) /\ Nth(2)' = Nth(3) /\ Nth(3)' = Nth(4)
  BY <1>1, <1>2, <1>3, OneOn
<1>5. Nth(2) \in {"check", "info", "load"} BY <1>1, <1>2, OnCourse DEF Course
<1>6. disk' = [disk EXCEPT !.makefile = disk.cmake, !.newer = FALSE,
                          !.order = SortComponents(project.priority, project.components)] BY DEF Generate, Then
<1>7. /\ disk'.conf = disk.conf /\ disk'.mk = disk.mk /\ disk'.cmake = disk.cmake /\ disk'.header = disk.header
      /\ disk'.makefile = disk.cmake /\ disk'.newer = FALSE /\ disk'.objects = disk.objects
      /\ disk'.touched = disk.touched /\ disk'.time = disk.time /\ disk'.version = disk.version
      /\ disk'.order = SortComponents(project.priority, project.components) /\ disk'.flash = disk.flash
      /\ Files(disk')
  BY <1>6 DEF IInv, Types, Files
<1>8. /\ project' = project /\ repo' = repo /\ asked' = asked /\ kconfig' = kconfig /\ args' = args
      /\ done' = done /\ wanted' = wanted /\ hurt' = hurt \ {"menu", "left"}
  BY DEF Generate, Then
<1>9. disk.cmake = kconfig /\ disk.mk = kconfig /\ disk.header = kconfig /\ kconfig # NoFile
  BY <1>2, NoConfig DEF IInv, Types, Control, Configuring
<1>10. Types' BY <1>2, <1>4, <1>5, <1>7, <1>8 DEF IInv, Types
<1>11. Control' BY <1>2, <1>4, <1>5, <1>7, <1>8, <1>9 DEF IInv, Control, Configuring, Building, Ending
<1>12. Coherent' BY <1>2, <1>4, <1>5, <1>7, <1>8, <1>9 DEF IInv, Coherent
<1>13. Saved' BY <1>2, <1>4, <1>5, <1>7, <1>8, <1>9 DEF IInv, Saved, ConfTool, Agrees
<1>14. Told' BY <1>2, <1>4, <1>5, <1>7, <1>8 DEF IInv, Told, Building, Ending
<1>30. AtRest' BY <1>4 DEF AtRest
<1>15. Settled' BY <1>2, <1>4, <1>5, <1>7, <1>8 DEF IInv, Settled, Building
<1>16. AsksFlash' BY <1>2, <1>4, <1>5, <1>7, <1>8 DEF IInv, AsksFlash, Flashes, SavedFlash
<1>17. Sorted' BY <1>2, <1>4, <1>5, <1>7, <1>8 DEF IInv, Sorted
<1> QED BY <1>10, <1>11, <1>12, <1>13, <1>14, <1>15, <1>16, <1>17, <1>30 DEF IInv

LEMMA GenerateFailsKeeps == ASSUME IInv, GenerateFails PROVE IInv'
<1>1. Flow(todo) BY DEF IInv, Types
<1>2. At = "generate" /\ Len(todo) > 1 BY <1>1, NowAt DEF GenerateFails, Now
<1>3. todo' = << >> BY DEF GenerateFails, Fails
<1>4. Flow(todo') /\ Idle' /\ At' = "end" BY <1>3, NothingLeft
<1>6. disk' = disk BY DEF GenerateFails, Fails
<1>8. /\ project' = project /\ repo' = repo /\ asked' = asked /\ kconfig' = kconfig /\ args' = args
      /\ done' = Undone /\ wanted' = wanted /\ hurt' = hurt
  BY DEF GenerateFails, Fails
<1>10. Types' BY <1>2, <1>4, <1>6, <1>8 DEF IInv, Types
<1>11. Control' BY <1>2, <1>4, <1>6, <1>8 DEF IInv, Control, Configuring, Building, Ending
<1>12. Coherent' BY <1>2, <1>4, <1>6, <1>8 DEF IInv, Coherent
<1>13. Saved' BY <1>2, <1>4, <1>6, <1>8 DEF IInv, Saved, ConfTool, Agrees
<1>14. Told' BY <1>2, <1>4, <1>6, <1>8 DEF IInv, Told, Building, Ending
<1>30. AtRest' BY <1>8 DEF AtRest, IsBuild, Undone
<1>15. Settled' BY <1>8 DEF Settled, IsBuild, Undone
<1>16. AsksFlash' BY <1>2, <1>4, <1>6, <1>8 DEF IInv, AsksFlash, Flashes, SavedFlash
<1>17. Sorted' BY <1>2, <1>4, <1>6, <1>8 DEF IInv, Sorted
<1> QED BY <1>10, <1>11, <1>12, <1>13, <1>14, <1>15, <1>16, <1>17, <1>30 DEF IInv

LEMMA CheckBuildSystemKeeps == ASSUME IInv, CheckBuildSystem PROVE IInv'
<1>1. Flow(todo) BY DEF IInv, Types
<1>2. At = "check" /\ Len(todo) > 1 BY <1>1, NowAt DEF CheckBuildSystem, Now
<1>3. todo' = (IF disk.newer \/ disk.cmake = NoFile THEN Configure ELSE << >>) \o Tail(todo) BY DEF CheckBuildSystem
<1>4. /\ Flow(todo') /\ ~Idle /\ ~Idle' /\ Cmd(todo') = Cmd(todo)
      /\ IF disk.newer \/ disk.cmake = NoFile THEN At' = "load" ELSE At' = Nth(2)
  BY <1>1, <1>2, <1>3, Checked
<1>5. Nth(2) = "info" \/ Nth(2) = "load" BY <1>1, <1>2, OnCourse DEF Course
<1>6. disk' = disk BY DEF CheckBuildSystem
<1>8. /\ project' = project /\ repo' = repo /\ asked' = asked /\ kconfig' = kconfig /\ args' = args
      /\ done' = done /\ wanted' = wanted /\ hurt' = hurt
  BY DEF CheckBuildSystem
<1>10. Types' BY <1>2, <1>4, <1>5, <1>6, <1>8 DEF IInv, Types
<1>11. Control' BY <1>2, <1>4, <1>5, <1>6, <1>8 DEF IInv, Control, Configuring, Building, Ending, Coherent
<1>12. Coherent' BY <1>2, <1>4, <1>5, <1>6, <1>8 DEF IInv, Coherent
<1>13. Saved' BY <1>2, <1>4, <1>5, <1>6, <1>8 DEF IInv, Saved, ConfTool, Agrees
<1>14. Told' BY <1>2, <1>4, <1>5, <1>6, <1>8 DEF IInv, Told, Building, Ending
<1>30. AtRest' BY <1>4 DEF AtRest
<1>15. Settled' BY <1>2, <1>4, <1>5, <1>6, <1>8 DEF IInv, Settled, Building
<1>16. AsksFlash' BY <1>2, <1>4, <1>5, <1>6, <1>8 DEF IInv, AsksFlash, Flashes, SavedFlash
<1>17. Sorted' BY <1>2, <1>4, <1>5, <1>6, <1>8 DEF IInv, Sorted
<1> QED BY <1>10, <1>11, <1>12, <1>13, <1>14, <1>15, <1>16, <1>17, <1>30 DEF IInv

LEMMA CompileKeeps == ASSUME IInv, Compile PROVE IInv'
<1>1. Flow(todo) BY DEF IInv, Types
<1>2. At = "compile" /\ Len(todo) > 1 BY <1>1, NowAt DEF Compile, Now
<1>3. todo' = Tail(todo) BY DEF Compile, Then
<1>4. /\ Flow(todo') /\ ~Idle /\ ~Idle' /\ Cmd(todo') = Cmd(todo)
      /\ At' = Nth(2) /\ Nth(2)' = Nth(3) /\ Nth(3)' = Nth(4)
  BY <1>1, <1>2, <1>3, OneOn
<1>5. Nth(2) = "end" BY <1>1, <1>2, OnCourse DEF Course
<1>6. disk' = [disk EXCEPT !.objects = Compiled, !.touched = FALSE] BY DEF Compile, Then
<1>7. /\ disk'.conf = disk.conf /\ disk'.mk = disk.mk /\ disk'.cmake = disk.cmake /\ disk'.header = disk.header
      /\ disk'.makefile = disk.makefile /\ disk'.newer = disk.newer
      /\ disk'.objects = [made |-> disk.makefile, header |-> disk.header] /\ disk'.touched = FALSE
      /\ disk'.time = disk.time /\ disk'.version = disk.version /\ disk'.order = disk.order
      /\ disk'.flash = disk.flash /\ Files(disk')
  BY <1>6 DEF IInv, Types, Files, Compiled
<1>8. /\ project' = project /\ repo' = repo /\ asked' = asked /\ kconfig' = kconfig /\ args' = args
      /\ done' = done /\ wanted' = wanted /\ hurt' = hurt
  BY DEF Compile, Then
<1>10. Types' BY <1>2, <1>4, <1>5, <1>7, <1>8 DEF IInv, Types
<1>11. Control' BY <1>2, <1>4, <1>5, <1>7, <1>8 DEF IInv, Control, Configuring, Building, Ending
<1>12. Coherent'
  <2>1. disk.header # NoFile BY DEF Compile
  <2> QED BY <1>2, <1>4, <1>5, <1>7, <1>8, <2>1 DEF IInv, Coherent, Control
<1>13. Saved' BY <1>2, <1>4, <1>5, <1>7, <1>8 DEF IInv, Saved, ConfTool, Agrees
<1>14. Told' BY <1>2, <1>4, <1>5, <1>7, <1>8 DEF IInv, Told, Building, Ending
<1>30. AtRest' BY <1>4 DEF AtRest
<1>15. Settled' BY <1>2, <1>4, <1>5, <1>7, <1>8 DEF IInv, Settled, Building
<1>16. AsksFlash' BY <1>2, <1>4, <1>5, <1>7, <1>8 DEF IInv, AsksFlash, Flashes, SavedFlash
<1>17. Sorted' BY <1>2, <1>4, <1>5, <1>7, <1>8 DEF IInv, Sorted
<1> QED BY <1>10, <1>11, <1>12, <1>13, <1>14, <1>15, <1>16, <1>17, <1>30 DEF IInv

LEMMA CompileFailsKeeps == ASSUME IInv, CompileFails PROVE IInv'
<1>1. Flow(todo) BY DEF IInv, Types
<1>2. At = "compile" /\ Len(todo) > 1 BY <1>1, NowAt DEF CompileFails, Now
<1>3. todo' = << >> BY DEF CompileFails, Fails
<1>4. Flow(todo') /\ Idle' /\ At' = "end" BY <1>3, NothingLeft
<1>6. disk' = disk BY DEF CompileFails, Fails
<1>8. /\ project' = project /\ repo' = repo /\ asked' = asked /\ kconfig' = kconfig /\ args' = args
      /\ done' = Undone /\ wanted' = wanted /\ hurt' = hurt
  BY DEF CompileFails, Fails
<1>10. Types' BY <1>2, <1>4, <1>6, <1>8 DEF IInv, Types
<1>11. Control' BY <1>2, <1>4, <1>6, <1>8 DEF IInv, Control, Configuring, Building, Ending
<1>12. Coherent' BY <1>2, <1>4, <1>6, <1>8 DEF IInv, Coherent
<1>13. Saved' BY <1>2, <1>4, <1>6, <1>8 DEF IInv, Saved, ConfTool, Agrees
<1>14. Told' BY <1>2, <1>4, <1>6, <1>8 DEF IInv, Told, Building, Ending
<1>30. AtRest' BY <1>8 DEF AtRest, IsBuild, Undone
<1>15. Settled' BY <1>8 DEF Settled, IsBuild, Undone
<1>16. AsksFlash' BY <1>2, <1>4, <1>6, <1>8 DEF IInv, AsksFlash, Flashes, SavedFlash
<1>17. Sorted' BY <1>2, <1>4, <1>6, <1>8 DEF IInv, Sorted
<1> QED BY <1>10, <1>11, <1>12, <1>13, <1>14, <1>15, <1>16, <1>17, <1>30 DEF IInv

LEMMA MakeCleanKeeps == ASSUME IInv, MakeClean PROVE IInv'
<1>1. Flow(todo) BY DEF IInv, Types
<1>2. At = "clean" /\ Len(todo) > 1 BY <1>1, NowAt DEF MakeClean, Now
<1>3. todo' = Tail(todo) BY DEF MakeClean, Writes, Then, Unmoved
<1>4. /\ Flow(todo') /\ ~Idle /\ ~Idle' /\ Cmd(todo') = Cmd(todo)
      /\ At' = Nth(2) /\ Nth(2)' = Nth(3) /\ Nth(3)' = Nth(4)
  BY <1>1, <1>2, <1>3, OneOn
<1>5. Nth(2) \in {"end", "rmbuild", "clean"} /\ Cmd(todo) \notin {"build", "rebuild"} BY <1>1, <1>2, OnCourse DEF Course
<1>6. disk' = (IF disk.makefile = NoFile THEN disk ELSE [disk EXCEPT !.objects = NoObjects]) BY DEF MakeClean, Writes, Then, Unmoved
<1>7. /\ disk'.conf = disk.conf /\ disk'.mk = disk.mk /\ disk'.cmake = disk.cmake /\ disk'.header = disk.header
      /\ disk'.makefile = disk.makefile /\ disk'.newer = disk.newer
      /\ disk'.objects = (IF disk.makefile = NoFile THEN disk.objects ELSE NoObjects)
      /\ disk'.touched = disk.touched /\ disk'.time = disk.time /\ disk'.version = disk.version
      /\ disk'.order = disk.order /\ disk'.flash = disk.flash /\ Files(disk')
  <2>1. CASE disk.makefile = NoFile
    <3>1. disk' = disk BY <1>6, <2>1
    <3> QED BY <2>1, <3>1 DEF IInv, Types
  <2>2. CASE disk.makefile # NoFile
    <3>1. disk' = [disk EXCEPT !.objects = NoObjects] BY <1>6, <2>2
    <3> QED BY <2>2, <3>1 DEF IInv, Types, Files
  <2> QED BY <2>1, <2>2
<1>8. /\ project' = project /\ repo' = repo /\ asked' = asked /\ kconfig' = kconfig /\ args' = args
      /\ done' = done /\ wanted' = wanted /\ hurt' = hurt
  BY DEF MakeClean, Writes, Then, Unmoved
<1>10. Types' BY <1>2, <1>4, <1>5, <1>7, <1>8 DEF IInv, Types, NoObjects
<1>11. Control' BY <1>2, <1>4, <1>5, <1>7, <1>8 DEF IInv, Control, Configuring, Building, Ending
<1>12. Coherent' BY <1>2, <1>4, <1>5, <1>7, <1>8 DEF IInv, Coherent, NoObjects
<1>13. Saved' BY <1>2, <1>4, <1>5, <1>7, <1>8 DEF IInv, Saved, ConfTool, Agrees
<1>14. Told' BY <1>2, <1>4, <1>5, <1>7, <1>8 DEF IInv, Told, Building, Ending
<1>30. AtRest' BY <1>4 DEF AtRest
<1>15. Settled' BY <1>2, <1>4, <1>5, <1>7, <1>8 DEF IInv, Settled, Building
<1>16. AsksFlash' BY <1>2, <1>4, <1>5, <1>7, <1>8 DEF IInv, AsksFlash, Flashes, SavedFlash
<1>17. Sorted' BY <1>2, <1>4, <1>5, <1>7, <1>8 DEF IInv, Sorted
<1> QED BY <1>10, <1>11, <1>12, <1>13, <1>14, <1>15, <1>16, <1>17, <1>30 DEF IInv

LEMMA RemoveBuildKeeps == ASSUME IInv, RemoveBuild PROVE IInv'
<1>1. Flow(todo) BY DEF IInv, Types
<1>2. At = "rmbuild" /\ Len(todo) > 1 BY <1>1, NowAt DEF RemoveBuild, Now
<1>3. todo' = Tail(todo) BY DEF RemoveBuild, Then
<1>4. /\ Flow(todo') /\ ~Idle /\ ~Idle' /\ Cmd(todo') = Cmd(todo)
      /\ At' = Nth(2) /\ Nth(2)' = Nth(3) /\ Nth(3)' = Nth(4)
  BY <1>1, <1>2, <1>3, OneOn
<1>5. Nth(2) = "end" /\ Cmd(todo) \notin {"build", "rebuild"} BY <1>1, <1>2, OnCourse DEF Course
<1>6. disk' = [disk EXCEPT !.mk = NoFile, !.cmake = NoFile, !.header = NoFile, !.makefile = NoFile,
                          !.newer = FALSE, !.objects = NoObjects, !.touched = FALSE,
                          !.time = << >>, !.version = << >>, !.order = << >>] BY DEF RemoveBuild, Then
<1>7. /\ disk'.conf = disk.conf /\ disk'.mk = NoFile /\ disk'.cmake = NoFile /\ disk'.header = NoFile
      /\ disk'.makefile = NoFile /\ disk'.newer = FALSE /\ disk'.objects = NoObjects /\ disk'.touched = FALSE
      /\ disk'.time = << >> /\ disk'.version = << >> /\ disk'.order = << >> /\ disk'.flash = disk.flash
      /\ Files(disk')
  BY <1>6 DEF IInv, Types, Files
<1>8. /\ project' = project /\ repo' = repo /\ asked' = asked /\ kconfig' = kconfig /\ args' = args
      /\ done' = done /\ wanted' = [tool |-> ConfTool, opt |-> Unset] /\ hurt' = hurt \cap {"flash"}
  BY DEF RemoveBuild, Then
<1>10. Types' BY <1>2, <1>4, <1>5, <1>7, <1>8 DEF IInv, Types, NoObjects
<1>11. Control' BY <1>2, <1>4, <1>5, <1>7, <1>8 DEF IInv, Control, Configuring, Building, Ending
<1>12. Coherent' BY <1>2, <1>4, <1>5, <1>7, <1>8 DEF IInv, Coherent, NoObjects
<1>13. Saved' BY <1>2, <1>4, <1>5, <1>7, <1>8, NoConfig DEF IInv, Saved, ConfTool, Agrees
<1>14. Told' BY <1>2, <1>4, <1>5, <1>7, <1>8, NothingTold DEF IInv, Told, Building, Ending
<1>30. AtRest' BY <1>4 DEF AtRest
<1>15. Settled' BY <1>2, <1>4, <1>5, <1>7, <1>8 DEF IInv, Settled, Building
<1>16. AsksFlash' BY <1>2, <1>4, <1>5, <1>7, <1>8 DEF IInv, AsksFlash, Flashes, SavedFlash
<1>17. Sorted' BY <1>2, <1>4, <1>5, <1>7, <1>8 DEF IInv, Sorted
<1> QED BY <1>10, <1>11, <1>12, <1>13, <1>14, <1>15, <1>16, <1>17, <1>30 DEF IInv

LEMMA RemoveConfKeeps == ASSUME IInv, RemoveConf PROVE IInv'
<1>1. Flow(todo) BY DEF IInv, Types
<1>2. At = "rmconf" /\ Len(todo) > 1 BY <1>1, NowAt DEF RemoveConf, Now
<1>3. todo' = Tail(todo) BY DEF RemoveConf, Writes, Then, Unmoved
<1>4. /\ Flow(todo') /\ ~Idle /\ ~Idle' /\ Cmd(todo') = Cmd(todo)
      /\ At' = Nth(2) /\ Nth(2)' = Nth(3) /\ Nth(3)' = Nth(4)
  BY <1>1, <1>2, <1>3, OneOn
<1>5. Nth(2) = "rmconfig" /\ Cmd(todo) \notin {"build", "rebuild"} BY <1>1, <1>2, OnCourse DEF Course
<1>6. disk' = [disk EXCEPT !.conf = "missing"] BY DEF RemoveConf, Writes, Then, Unmoved
<1>7. /\ disk'.conf = "missing" /\ disk'.mk = disk.mk /\ disk'.cmake = disk.cmake /\ disk'.header = disk.header
      /\ disk'.makefile = disk.makefile /\ disk'.newer = disk.newer /\ disk'.objects = disk.objects
      /\ disk'.touched = disk.touched /\ disk'.time = disk.time /\ disk'.version = disk.version
      /\ disk'.order = disk.order /\ disk'.flash = disk.flash /\ Files(disk')
  BY <1>6 DEF IInv, Types, Files
<1>8. /\ project' = project /\ repo' = repo /\ asked' = asked /\ kconfig' = kconfig /\ args' = args
      /\ done' = done /\ wanted' = wanted /\ hurt' = hurt
  BY DEF RemoveConf, Writes, Then, Unmoved
<1>10. Types' BY <1>2, <1>4, <1>5, <1>7, <1>8 DEF IInv, Types
<1>11. Control' BY <1>2, <1>4, <1>5, <1>7, <1>8 DEF IInv, Control, Configuring, Building, Ending
<1>12. Coherent' BY <1>2, <1>4, <1>5, <1>7, <1>8 DEF IInv, Coherent
<1>13. Saved' BY <1>2, <1>4, <1>5, <1>7, <1>8 DEF IInv, Saved, ConfTool, Agrees
<1>14. Told' BY <1>2, <1>4, <1>5, <1>7, <1>8 DEF IInv, Told, Building, Ending
<1>30. AtRest' BY <1>4 DEF AtRest
<1>15. Settled' BY <1>2, <1>4, <1>5, <1>7, <1>8 DEF IInv, Settled, Building
<1>16. AsksFlash' BY <1>2, <1>4, <1>5, <1>7, <1>8 DEF IInv, AsksFlash, Flashes, SavedFlash
<1>17. Sorted' BY <1>2, <1>4, <1>5, <1>7, <1>8 DEF IInv, Sorted
<1> QED BY <1>10, <1>11, <1>12, <1>13, <1>14, <1>15, <1>16, <1>17, <1>30 DEF IInv

LEMMA RemoveBuildConfigKeeps == ASSUME IInv, RemoveBuildConfig PROVE IInv'
<1>1. Flow(todo) BY DEF IInv, Types
<1>2. At = "rmconfig" /\ Len(todo) > 1 BY <1>1, NowAt DEF RemoveBuildConfig, Now
<1>3. todo' = Tail(todo) BY DEF RemoveBuildConfig, Then
<1>4. /\ Flow(todo') /\ ~Idle /\ ~Idle' /\ Cmd(todo') = Cmd(todo)
      /\ At' = Nth(2) /\ Nth(2)' = Nth(3) /\ Nth(3)' = Nth(4)
  BY <1>1, <1>2, <1>3, OneOn
<1>5. Nth(2) = "rmflash" /\ Cmd(todo) \notin {"build", "rebuild"} BY <1>1, <1>2, OnCourse DEF Course
<1>6. disk' = [disk EXCEPT !.mk = NoFile, !.cmake = NoFile, !.header = NoFile, !.time = << >>, !.version = << >>] BY DEF RemoveBuildConfig, Then
<1>7. /\ disk'.conf = disk.conf /\ disk'.mk = NoFile /\ disk'.cmake = NoFile /\ disk'.header = NoFile
      /\ disk'.makefile = disk.makefile /\ disk'.newer = disk.newer /\ disk'.objects = disk.objects
      /\ disk'.touched = disk.touched /\ disk'.time = << >> /\ disk'.version = << >> /\ disk'.order = disk.order
      /\ disk'.flash = disk.flash /\ Files(disk')
  BY <1>6 DEF IInv, Types, Files
<1>8. /\ project' = project /\ repo' = repo /\ asked' = asked /\ kconfig' = kconfig /\ args' = args
      /\ done' = done /\ wanted' = [tool |-> NoTool, opt |-> Unset] /\ hurt' = hurt \cap {"menu", "flash"}
  BY DEF RemoveBuildConfig, Then
<1>10. Types' BY <1>2, <1>4, <1>5, <1>7, <1>8 DEF IInv, Types
<1>11. Control' BY <1>2, <1>4, <1>5, <1>7, <1>8 DEF IInv, Control, Configuring, Building, Ending
<1>12. Coherent' BY <1>2, <1>4, <1>5, <1>7, <1>8 DEF IInv, Coherent
<1>13. Saved' BY <1>2, <1>4, <1>5, <1>7, <1>8, NoConfig DEF IInv, Saved, ConfTool, Agrees, Control
<1>14. Told' BY <1>2, <1>4, <1>5, <1>7, <1>8, NothingTold DEF IInv, Told, Building, Ending
<1>30. AtRest' BY <1>4 DEF AtRest
<1>15. Settled' BY <1>2, <1>4, <1>5, <1>7, <1>8 DEF IInv, Settled, Building
<1>16. AsksFlash' BY <1>2, <1>4, <1>5, <1>7, <1>8 DEF IInv, AsksFlash, Flashes, SavedFlash
<1>17. Sorted' BY <1>2, <1>4, <1>5, <1>7, <1>8 DEF IInv, Sorted
<1> QED BY <1>10, <1>11, <1>12, <1>13, <1>14, <1>15, <1>16, <1>17, <1>30 DEF IInv

LEMMA WriteFlashConfKeeps == ASSUME IInv, WriteFlashConf PROVE IInv'
<1>1. Flow(todo) BY DEF IInv, Types
<1>2. At = "flashconf" /\ Len(todo) > 1 BY <1>1, NowAt DEF WriteFlashConf, Now
<1>3. todo' = Tail(todo) BY DEF WriteFlashConf, Then
<1>4. /\ Flow(todo') /\ ~Idle /\ ~Idle' /\ Cmd(todo') = Cmd(todo)
      /\ At' = Nth(2) /\ Nth(2)' = Nth(3) /\ Nth(3)' = Nth(4)
  BY <1>1, <1>2, <1>3, OneOn
<1>5. Nth(2) \in {"end", "flash"} /\ Cmd(todo) \notin {"build", "rebuild"} BY <1>1, <1>2, OnCourse DEF Course
<1>6. disk' = [disk EXCEPT !.flash = FlashConfig(disk.flash)] BY DEF WriteFlashConf, Then
<1>7. /\ disk'.conf = disk.conf /\ disk'.mk = disk.mk /\ disk'.cmake = disk.cmake /\ disk'.header = disk.header
      /\ disk'.makefile = disk.makefile /\ disk'.newer = disk.newer /\ disk'.objects = disk.objects
      /\ disk'.touched = disk.touched /\ disk'.time = disk.time /\ disk'.version = disk.version
      /\ disk'.order = disk.order /\ disk'.flash = FlashConfig(disk.flash) /\ Files(disk')
  BY <1>6 DEF IInv, Types, Files
<1>8. /\ project' = project /\ repo' = repo /\ asked' = asked /\ kconfig' = kconfig
      /\ args' = [args EXCEPT !.flash = FlashConfig(disk.flash)] /\ done' = done /\ wanted' = wanted
      /\ hurt' = hurt
  BY DEF WriteFlashConf, Then
<1>9. IsFlash(disk'.flash) /\ args'.flash = disk'.flash /\ disk'.flash # NoFlash
      /\ args' = [tool |-> args'.tool, flash |-> args'.flash] /\ args'.tool = args.tool
      /\ disk'.flash = Given(args.flash, SavedFlash)
  <2>1. IsFlash(args.flash) /\ (IsFlash(disk.flash) \/ disk.flash = NoFlash) BY DEF IInv, Types
  <2>2. FlashConfig(disk.flash) = Given(args.flash, SavedFlash)
    BY <2>1, GivenFirst DEF FlashConfig, SavedFlash
  <2>3. IsFlash(SavedFlash) BY <2>1, FlashDefault DEF SavedFlash
  <2>4. IsFlash(Given(args.flash, SavedFlash)) BY <2>1, <2>3, GivenFlash
  <2>5. args = [tool |-> args.tool, flash |-> args.flash] BY DEF IInv, Types
  <2>6. args' = [args EXCEPT !.flash = FlashConfig(disk.flash)] BY <1>8
  <2> HIDE DEF IsFlash, Given, FlashConfig, SavedFlash
  <2>7. args' = [tool |-> args'.tool, flash |-> args'.flash] /\ args'.tool = args.tool
        /\ args'.flash = FlashConfig(disk.flash)
    BY <2>5, <2>6
  <2> QED BY <1>7, <2>2, <2>4, <2>7, FlashDefault
<1>10. Types' BY <1>2, <1>4, <1>5, <1>7, <1>8, <1>9 DEF IInv, Types
<1>11. Control' BY <1>2, <1>4, <1>5, <1>7, <1>8 DEF IInv, Control, Configuring, Building, Ending
<1>12. Coherent' BY <1>2, <1>4, <1>5, <1>7, <1>8 DEF IInv, Coherent
<1>13. Saved' BY <1>2, <1>4, <1>5, <1>7, <1>8 DEF IInv, Saved, ConfTool, Agrees
<1>14. Told' BY <1>2, <1>4, <1>5, <1>7, <1>8 DEF IInv, Told, Building, Ending
<1>30. AtRest' BY <1>4 DEF AtRest
<1>15. Settled' BY <1>2, <1>4, <1>5, <1>7, <1>8 DEF IInv, Settled, Building
<1>16. AsksFlash' BY <1>2, <1>4, <1>5, <1>7, <1>8, <1>9 DEF IInv, AsksFlash, Flashes, SavedFlash
<1>17. Sorted' BY <1>2, <1>4, <1>5, <1>7, <1>8 DEF IInv, Sorted
<1> QED BY <1>10, <1>11, <1>12, <1>13, <1>14, <1>15, <1>16, <1>17, <1>30 DEF IInv

LEMMA FlashKeeps == ASSUME IInv, Flash PROVE IInv'
<1>1. Flow(todo) BY DEF IInv, Types
<1>2. At = "flash" /\ Len(todo) > 1 BY <1>1, NowAt DEF Flash, Now
<1>3. todo' = Tail(todo) BY DEF Flash, Then, Unmoved
<1>4. /\ Flow(todo') /\ ~Idle /\ ~Idle' /\ Cmd(todo') = Cmd(todo)
      /\ At' = Nth(2) /\ Nth(2)' = Nth(3) /\ Nth(3)' = Nth(4)
  BY <1>1, <1>2, <1>3, OneOn
<1>5. Nth(2) \in {"end", "flash"} /\ Cmd(todo) \notin {"build", "rebuild"} BY <1>1, <1>2, OnCourse DEF Course
<1>6. disk' = disk BY DEF Flash, Then, Unmoved
<1>8. /\ project' = project /\ repo' = repo /\ asked' = asked /\ kconfig' = kconfig /\ args' = args
      /\ done' = done /\ wanted' = wanted /\ hurt' = hurt
  BY DEF Flash, Then, Unmoved
<1>10. Types' BY <1>2, <1>4, <1>5, <1>6, <1>8 DEF IInv, Types
<1>11. Control' BY <1>2, <1>4, <1>5, <1>6, <1>8 DEF IInv, Control, Configuring, Building, Ending
<1>12. Coherent' BY <1>2, <1>4, <1>5, <1>6, <1>8 DEF IInv, Coherent
<1>13. Saved' BY <1>2, <1>4, <1>5, <1>6, <1>8 DEF IInv, Saved, ConfTool, Agrees
<1>14. Told' BY <1>2, <1>4, <1>5, <1>6, <1>8 DEF IInv, Told, Building, Ending
<1>30. AtRest' BY <1>4 DEF AtRest
<1>15. Settled' BY <1>2, <1>4, <1>5, <1>6, <1>8 DEF IInv, Settled, Building
<1>16. AsksFlash' BY <1>2, <1>4, <1>5, <1>6, <1>8 DEF IInv, AsksFlash, Flashes, SavedFlash
<1>17. Sorted' BY <1>2, <1>4, <1>5, <1>6, <1>8 DEF IInv, Sorted
<1> QED BY <1>10, <1>11, <1>12, <1>13, <1>14, <1>15, <1>16, <1>17, <1>30 DEF IInv

LEMMA FlashFailsKeeps == ASSUME IInv, FlashFails PROVE IInv'
<1>1. Flow(todo) BY DEF IInv, Types
<1>2. At = "flash" /\ Len(todo) > 1 BY <1>1, NowAt DEF FlashFails, Now
<1>3. todo' = << >> BY DEF FlashFails, Fails
<1>4. Flow(todo') /\ Idle' /\ At' = "end" BY <1>3, NothingLeft
<1>6. disk' = disk BY DEF FlashFails, Fails
<1>8. /\ project' = project /\ repo' = repo /\ asked' = asked /\ kconfig' = kconfig /\ args' = args
      /\ done' = Undone /\ wanted' = wanted /\ hurt' = hurt
  BY DEF FlashFails, Fails
<1>10. Types' BY <1>2, <1>4, <1>6, <1>8 DEF IInv, Types
<1>11. Control' BY <1>2, <1>4, <1>6, <1>8 DEF IInv, Control, Configuring, Building, Ending
<1>12. Coherent' BY <1>2, <1>4, <1>6, <1>8 DEF IInv, Coherent
<1>13. Saved' BY <1>2, <1>4, <1>6, <1>8 DEF IInv, Saved, ConfTool, Agrees
<1>14. Told' BY <1>2, <1>4, <1>6, <1>8 DEF IInv, Told, Building, Ending
<1>30. AtRest' BY <1>8 DEF AtRest, IsBuild, Undone
<1>15. Settled' BY <1>8 DEF Settled, IsBuild, Undone
<1>16. AsksFlash' BY <1>2, <1>4, <1>6, <1>8 DEF IInv, AsksFlash, Flashes, SavedFlash
<1>17. Sorted' BY <1>2, <1>4, <1>6, <1>8 DEF IInv, Sorted
<1> QED BY <1>10, <1>11, <1>12, <1>13, <1>14, <1>15, <1>16, <1>17, <1>30 DEF IInv

LEMMA RemoveFlashConfKeeps == ASSUME IInv, RemoveFlashConf PROVE IInv'
<1>1. Flow(todo) BY DEF IInv, Types
<1>2. At = "rmflash" /\ Len(todo) > 1 BY <1>1, NowAt DEF RemoveFlashConf, Now
<1>3. todo' = Tail(todo) BY DEF RemoveFlashConf
<1>4. /\ Flow(todo') /\ ~Idle /\ ~Idle' /\ Cmd(todo') = Cmd(todo)
      /\ At' = Nth(2) /\ Nth(2)' = Nth(3) /\ Nth(3)' = Nth(4)
  BY <1>1, <1>2, <1>3, OneOn
<1>5. Nth(2) = "end" /\ Cmd(todo) \notin {"build", "rebuild"} BY <1>1, <1>2, OnCourse DEF Course
<1>6. disk' = [disk EXCEPT !.flash = NoFlash] BY DEF RemoveFlashConf
<1>7. /\ disk'.conf = disk.conf /\ disk'.mk = disk.mk /\ disk'.cmake = disk.cmake /\ disk'.header = disk.header
      /\ disk'.makefile = disk.makefile /\ disk'.newer = disk.newer /\ disk'.objects = disk.objects
      /\ disk'.touched = disk.touched /\ disk'.time = disk.time /\ disk'.version = disk.version
      /\ disk'.order = disk.order /\ disk'.flash = NoFlash /\ Files(disk')
  BY <1>6 DEF IInv, Types, Files
<1>8. /\ project' = project /\ repo' = repo /\ asked' = DefaultFlash /\ kconfig' = kconfig /\ args' = args
      /\ done' = done /\ wanted' = wanted /\ hurt' = hurt \ {"flash"}
  BY DEF RemoveFlashConf
<1>10. Types' BY <1>2, <1>4, <1>5, <1>7, <1>8, FlashDefault DEF IInv, Types
<1>11. Control' BY <1>2, <1>4, <1>5, <1>7, <1>8 DEF IInv, Control, Configuring, Building, Ending
<1>12. Coherent' BY <1>2, <1>4, <1>5, <1>7, <1>8 DEF IInv, Coherent
<1>13. Saved' BY <1>2, <1>4, <1>5, <1>7, <1>8 DEF IInv, Saved, ConfTool, Agrees
<1>14. Told' BY <1>2, <1>4, <1>5, <1>7, <1>8 DEF IInv, Told, Building, Ending
<1>30. AtRest' BY <1>4 DEF AtRest
<1>15. Settled' BY <1>2, <1>4, <1>5, <1>7, <1>8 DEF IInv, Settled, Building
<1>16. AsksFlash' BY <1>2, <1>4, <1>5, <1>7, <1>8 DEF IInv, AsksFlash, Flashes, SavedFlash
<1>17. Sorted' BY <1>2, <1>4, <1>5, <1>7, <1>8 DEF IInv, Sorted
<1> QED BY <1>10, <1>11, <1>12, <1>13, <1>14, <1>15, <1>16, <1>17, <1>30 DEF IInv

----------------------------------------------------------------------------
(* The steps that do more.                                                 *)

\* Without a piece before it the block is all there is.
LEMMA WholeReport ==
    ASSUME NEW v, NEW r, NEW h, Reports(v, r, h), "info" \notin h
    PROVE  v = Block(VersionOf(r))
<1> DEFINE b == Block(VersionOf(r))
<1>1. v = SubSeq(v, 1, 0) \o b BY DEF Reports
<1>2. SubSeq(v, 1, 0) = << >> OBVIOUS
<1>3. b \in Seq({StartMark, VersionLines(VersionOf(r)), EndMark}) BY DEF Block
<1> HIDE DEF b
<1>4. << >> \o b = b BY <1>3
<1> QED BY <1>1, <1>2, <1>4 DEF b

\* The block written over a whole file, or after the piece of one that was cut off, is a report.
LEMMA BlockReports ==
    ASSUME NEW L, NEW v \in Seq(L), Shaped(v), NEW r, Block(VersionOf(r)) \in Seq(L), NEW h, NEW c,
           c = (IF Whole(v) THEN << >> ELSE v) \o Block(VersionOf(r)),
           ~Whole(v) => "info" \in h
    PROVE  Reports(c, r, h)
<1> DEFINE b == Block(VersionOf(r))
<1>1. CASE Whole(v)
  <2>1. c = << >> \o b BY <1>1
  <2>2. SubSeq(c, 1, 0) = << >> OBVIOUS
  <2>3. Len(c) \in Nat
    <3> HIDE DEF b
    <3>1. c = b BY <2>1
    <3> QED BY <3>1 DEF b
  <2>4. c = SubSeq(c, 1, 0) \o b BY <2>1, <2>2
  <2>5. 0 \in 0..Len(c) BY <2>3
  <2>6. c = SubSeq(c, 1, 0) \o Block(VersionOf(r)) BY <2>4 DEF b
  <2> SUFFICES \E k \in 0..Len(c) : /\ c = SubSeq(c, 1, k) \o Block(VersionOf(r))
                                    /\ \A i \in 1..k : c[i] # EndMark
                                    /\ "info" \notin h => k = 0
    BY DEF Reports
  <2> WITNESS 0 \in 0..Len(c)
  <2>7. \A i \in 1..0 : c[i] # EndMark OBVIOUS
  <2> QED BY <2>6, <2>7, Zenon
<1>2. CASE ~Whole(v)
  <2> DEFINE n == Len(v)
  <2>1. c = v \o b BY <1>2
  <2> HIDE DEF b
  <2>a. b \in Seq(L) BY DEF b
  <2>v. v \in Seq(L) OBVIOUS
  <2>c. v \o b \in Seq(L) /\ Len(v \o b) = Len(v) + Len(b) /\ \A i \in 1..Len(v) : (v \o b)[i] = v[i]
    BY <2>v, <2>a, Cat
  <2>2. c \in Seq(L) /\ Len(c) = n + Len(b) /\ \A i \in 1..n : c[i] = v[i] BY <2>1, <2>c
  <2>3. n \in Nat /\ Len(b) \in Nat BY <2>a
  <2>4. SubSeq(c, 1, n) \in Seq(L) /\ Len(SubSeq(c, 1, n)) = n /\ \A i \in 1..n : SubSeq(c, 1, n)[i] = c[i]
    BY <2>2, <2>3
  <2>5. SubSeq(c, 1, n) = v BY <2>2, <2>4, SeqEqual
  <2>6. v # << >> /\ v[n] # EndMark BY <1>2 DEF Whole, Last
  <2>7. \A i \in 1..n : v[i] # EndMark BY <2>3, <2>6 DEF Shaped
  <2>8. n \in 0..Len(c) BY <2>2, <2>3
  <2> HIDE DEF n
  <2>9. /\ c = SubSeq(c, 1, n) \o b
        /\ "info" \in h
        /\ \A i \in 1..n : c[i] # EndMark
    BY <1>2, <2>1, <2>2, <2>5, <2>7
  <2>10. c = SubSeq(c, 1, n) \o Block(VersionOf(r)) BY <2>9 DEF b
  <2> SUFFICES \E k \in 0..Len(c) : /\ c = SubSeq(c, 1, k) \o Block(VersionOf(r))
                                    /\ \A i \in 1..k : c[i] # EndMark
                                    /\ "info" \notin h => k = 0
    BY DEF Reports
  <2> WITNESS n \in 0..Len(c)
  <2> QED BY <2>9, <2>10, Zenon
<1> QED BY <1>1, <1>2

\* update_build_info.py writes the block of the repository, over whatever the file has.
LEMMA VersionWritten ==
    ASSUME Types, Told, NEW c, c = append_time_info(disk.version, <<VersionLines(Version(Describe(repo)))>>)
    PROVE  /\ c \in Seq(Lines(project)) /\ Shaped(c) /\ Whole(c)
           /\ c = (IF Whole(disk.version) THEN << >> ELSE disk.version) \o Block(VersionOf(repo))
<1> DEFINE L == Lines(project)
           l == VersionLines(VersionOf(repo))
           v == disk.version
<1>1. Versioned(repo) BY ProjectsAssumption DEF Types
<1>2. Version(Describe(repo)) = VersionOf(repo) BY <1>1, DescriptionRead
<1>3. l \in L /\ StartMark \in L /\ EndMark \in L BY DEF Types, Lines
<1>4. l # EndMark BY MarksDiffer
<1>5. v \in Seq(L) /\ Shaped(v) BY DEF Told
<1>6. c = append_time_info(v, <<l>>) BY <1>2
<1>7. /\ c \in Seq(L) /\ Shaped(c) /\ Whole(c)
      /\ c = (IF Whole(v) THEN << >> ELSE v) \o <<StartMark, l, EndMark>>
  <2> HIDE DEF L, l, v
  <2> QED BY <1>3, <1>4, <1>5, <1>6, BlockWritten
<1> QED BY <1>7 DEF Block

\* The step that writes the version.
LEMMA UpdateInfoKeeps == ASSUME IInv, UpdateInfo PROVE IInv'
<1> DEFINE c == append_time_info(disk.version, <<VersionLines(Version(Describe(repo)))>>)
           time == append_time_info(disk.time, <<TimeLines(steps)>>)
<1>1. Flow(todo) BY DEF IInv, Types
<1>2. At = "info" /\ Len(todo) > 1 BY <1>1, NowAt DEF UpdateInfo, Now
<1>3. todo' = Tail(todo) BY DEF UpdateInfo, Then
<1>4. /\ Flow(todo') /\ ~Idle /\ ~Idle' /\ Cmd(todo') = Cmd(todo)
      /\ At' = Nth(2) /\ Nth(2)' = Nth(3) /\ Nth(3)' = Nth(4)
  BY <1>1, <1>2, <1>3, OneOn
<1>5. Nth(2) = "compile" BY <1>1, <1>2, OnCourse DEF Course
<1>6. /\ disk' = [disk EXCEPT !.time = time, !.version = c, !.touched = disk.touched \/ c # disk.version]
      /\ hurt' = IF Whole(disk.version) THEN hurt \ {"info"} ELSE hurt
  BY DEF UpdateInfo
<1>8. /\ project' = project /\ repo' = repo /\ asked' = asked /\ kconfig' = kconfig /\ args' = args
      /\ done' = done /\ wanted' = wanted
  BY DEF UpdateInfo, Then
<1>9. /\ c \in Seq(Lines(project)) /\ Shaped(c) /\ Whole(c)
      /\ c = (IF Whole(disk.version) THEN << >> ELSE disk.version) \o Block(VersionOf(repo))
  BY VersionWritten DEF IInv
<1>10. "info" \notin hurt' => Whole(disk.version) BY <1>6 DEF IInv, Told
<1>19. Reports(c, repo, hurt')
  <2>1. Block(VersionOf(repo)) \in Seq(Lines(project)) BY DEF IInv, Types, Block, Lines
  <2>2. disk.version \in Seq(Lines(project)) /\ Shaped(disk.version) BY DEF IInv, Told
  <2> QED BY <1>9, <1>10, <2>1, <2>2, BlockReports
<1> HIDE DEF c, time
<1>7. /\ disk'.conf = disk.conf /\ disk'.mk = disk.mk /\ disk'.cmake = disk.cmake /\ disk'.header = disk.header
      /\ disk'.makefile = disk.makefile /\ disk'.newer = disk.newer /\ disk'.objects = disk.objects
      /\ disk'.touched = (disk.touched \/ c # disk.version) /\ disk'.version = c
      /\ disk'.order = disk.order /\ disk'.flash = disk.flash /\ Files(disk')
  BY <1>6 DEF IInv, Types, Files
<1>11. Types' BY <1>2, <1>4, <1>7, <1>8 DEF IInv, Types
<1>12. Control' BY <1>2, <1>4, <1>5, <1>7, <1>8 DEF IInv, Control, Configuring, Building, Ending
<1>13. Coherent' BY <1>6, <1>7, <1>8 DEF IInv, Coherent
<1>14. Saved' BY <1>2, <1>4, <1>5, <1>6, <1>7, <1>8 DEF IInv, Saved, ConfTool, Agrees
<1>15. Told' BY <1>7, <1>8, <1>9, <1>19 DEF Told
<1>30. AtRest' BY <1>4 DEF AtRest
<1>16. Settled'
  <2>1. hurt \subseteq {"flash"} => hurt' \subseteq {"flash"} BY <1>6
  <2>2. hurt \subseteq {"flash"} => c = Block(VersionOf(repo)) BY <1>19, <2>1, WholeReport
  <2>3. disk.version = Block(VersionOf(repo)) /\ c = Block(VersionOf(repo)) => c = disk.version OBVIOUS
  <2> QED BY <2>1, <2>2, <2>3, <1>2, <1>4, <1>5, <1>7, <1>8 DEF IInv, Settled, Building
<1>17. AsksFlash' BY <1>2, <1>4, <1>5, <1>6, <1>7, <1>8 DEF IInv, AsksFlash, Flashes, SavedFlash
<1>18. Sorted' BY <1>7, <1>8 DEF IInv, Sorted
<1> QED BY <1>11, <1>12, <1>13, <1>14, <1>15, <1>16, <1>17, <1>18, <1>30 DEF IInv

\* Between commands.
LEMMA Resting ==
    ASSUME Idle
    PROVE  At = "end" /\ ~Building /\ ~Ending /\ todo = << >> /\ Flow(todo)
<1>1. todo = << >> BY DEF Idle
<1>2. Len(todo) = 0 BY <1>1
<1> QED BY <1>1, <1>2, EmptyFlow DEF At, Nth, Building, Ending

\* A commit between commands.
LEMMA CommitKeeps == ASSUME IInv, Commit PROVE IInv'
<1>1. Idle BY DEF Commit, Can
<1>2. At = "end" /\ todo = << >> /\ Flow(todo) BY <1>1, Resting
<1>3. todo' = << >> BY <1>2 DEF Commit
<1>4. Flow(todo') /\ Idle' /\ At' = "end" BY <1>3, NothingLeft
<1>6. disk' = disk /\ repo' \in project.repos BY DEF Commit
<1>8. /\ project' = project /\ asked' = asked /\ kconfig' = kconfig /\ args' = args
      /\ done' = Undone /\ wanted' = wanted /\ hurt' = hurt
  BY DEF Commit
<1>11. Types' BY <1>4, <1>6, <1>8 DEF IInv, Types
<1>12. Control' BY <1>4, <1>6, <1>8 DEF Control, Configuring, Building, Ending
<1>13. Coherent' BY <1>6, <1>8 DEF IInv, Coherent
<1>14. Saved' BY <1>2, <1>4, <1>6, <1>8 DEF IInv, Saved, ConfTool, Agrees
<1>15. Told' BY <1>2, <1>4, <1>6, <1>8 DEF IInv, Told, Building, Ending
<1>30. AtRest' BY <1>8 DEF AtRest, IsBuild, Undone
<1>16. Settled' BY <1>8 DEF Settled, IsBuild, Undone
<1>17. AsksFlash' BY <1>2, <1>4, <1>6, <1>8 DEF IInv, AsksFlash, Flashes, SavedFlash
<1>18. Sorted' BY <1>6, <1>8 DEF IInv, Sorted
<1> QED BY <1>11, <1>12, <1>13, <1>14, <1>15, <1>16, <1>17, <1>18, <1>30 DEF IInv

\* The end of a command, after which done says what the next one may count on.
LEMMA FinishKeeps == ASSUME IInv, Finish PROVE IInv'
<1>1. Flow(todo) /\ Len(todo) = 1 BY DEF IInv, Types, Finish
<1>2. At = "end" BY <1>1 DEF At, Nth
<1>3. ~Idle /\ Head(todo) = Cmd(todo)
  <2>1. todo \in Seq(Steps \cup Commands) BY <1>1 DEF Flow
  <2>2. todo # << >> BY <1>1
  <2> QED BY <1>1, <2>1, <2>2 DEF Idle, Cmd
<1>4. Flow(todo') /\ Idle' /\ At' = "end" BY NothingLeft DEF Finish
<1>6. disk' = disk BY DEF Finish
<1>8. /\ project' = project /\ repo' = repo /\ asked' = asked /\ kconfig' = kconfig /\ args' = args
      /\ wanted' = wanted /\ hurt' = hurt
  BY DEF Finish
<1>5. done' = [cmd |-> Cmd(todo), saved |-> disk.mk # NoFile, hurt |-> hurt] BY <1>3 DEF Finish
<1>7. done'.cmd = Cmd(todo) /\ done'.saved = (disk.mk # NoFile) /\ done'.hurt = hurt BY <1>5
<1>9. IsBuild(done'.cmd) => Ending BY <1>2, <1>3, <1>7 DEF IsBuild, Ending, Building
<1>10. Ending => /\ disk.cmake # NoFile /\ ~disk.newer /\ disk.makefile = disk.cmake /\ ~disk.touched
                 /\ disk.objects = [made |-> disk.makefile, header |-> disk.header]
                 /\ Reports(disk.version, repo, hurt)
  BY DEF IInv, Control, Told
<1>11. Types' BY <1>4, <1>6, <1>8 DEF IInv, Types
<1>12. Control' BY <1>4, <1>6, <1>8 DEF Control, Configuring, Building, Ending
<1>13. Coherent' BY <1>6, <1>8 DEF IInv, Coherent
<1>14. Saved' BY <1>2, <1>4, <1>6, <1>8 DEF IInv, Saved, ConfTool, Agrees
<1>15. Told' BY <1>2, <1>4, <1>6, <1>8 DEF IInv, Told, Building, Ending
<1>30. AtRest'
  <2>1. Ending /\ Cmd(todo) = "rebuild" => disk.mk # NoFile BY DEF IInv, Control, Ending
  <2>2. Ending => disk.objects.made = disk.makefile BY <1>10
  <2> QED BY <2>1, <2>2, <1>6, <1>7, <1>8, <1>9, <1>10 DEF AtRest
<1>16. Settled'
  <2> SUFFICES ASSUME IsBuild(done'.cmd), done'.saved, done'.hurt \subseteq {"flash"} PROVE Settled'
    BY DEF Settled
  <2>1. Ending /\ hurt \subseteq {"flash"} /\ disk.mk # NoFile BY <1>7, <1>9
  <2>h. "tool" \notin hurt /\ "menu" \notin hurt /\ "left" \notin hurt /\ "info" \notin hurt BY <2>1
  <2>2. IsConfig(disk.mk) BY <2>1, <2>h DEF IInv, Types, Saved
  <2>4. disk.cmake = disk.mk BY <1>2, <1>10, <2>1, <2>2, <2>h DEF IInv, Saved
  <2>5. disk.header = disk.cmake BY <1>10, <2>1, <2>h DEF IInv, Coherent
  <2>6. disk.version = Block(VersionOf(repo)) BY <1>10, <2>1, <2>h, WholeReport
  <2>7. disk.objects.made = disk.mk BY <1>10, <2>1, <2>4
  <2> QED BY <2>1, <2>2, <2>4, <2>5, <2>6, <2>7, <1>4, <1>6, <1>8, <1>10 DEF Settled
<1>17. AsksFlash' BY <1>2, <1>4, <1>6, <1>8 DEF IInv, AsksFlash, Flashes, SavedFlash
<1>18. Sorted' BY <1>6, <1>8 DEF IInv, Sorted
<1> QED BY <1>11, <1>12, <1>13, <1>14, <1>15, <1>16, <1>17, <1>18, <1>30 DEF IInv

\* A project as it is cloned.
LEMMA InitHolds == ASSUME Init PROVE IInv
<1>1. Idle BY DEF Init, Idle
<1>2. At = "end" /\ ~Building /\ ~Ending /\ Flow(todo) BY <1>1, Resting
<1>3. /\ disk.conf = "missing" /\ disk.mk = NoFile /\ disk.cmake = NoFile /\ disk.header = NoFile
      /\ disk.makefile = NoFile /\ disk.newer = FALSE /\ disk.objects = [made |-> NoFile, header |-> NoFile]
      /\ disk.touched = FALSE /\ disk.version = << >> /\ disk.order = << >> /\ disk.flash = NoFlash
      /\ Files(disk)
  BY DEF Init, Files
<1>4. /\ project \in ToSet(Projects) /\ repo \in project.repos /\ kconfig = KconfigDefaults
      /\ args = [tool |-> NoTool, flash |-> DefaultFlash] /\ done = Undone /\ hurt = {}
      /\ wanted = [tool |-> NoTool, opt |-> Unset] /\ asked = DefaultFlash
  BY DEF Init
<1>5. IsConfig(kconfig) BY <1>4 DEF IsConfig, IsTool, KconfigDefaults, NoTool
<1>6. IsTool(NoTool) BY DEF IsTool, NoTool
<1>11. Types BY <1>2, <1>3, <1>4, <1>5, <1>6, FlashDefault DEF Types
<1>12. Control BY <1>2 DEF Control, Configuring
<1>13. Coherent BY <1>3 DEF Coherent
<1>14. Saved BY <1>2, <1>3, <1>4, NoConfig DEF Saved, ConfTool
<1>15. Told BY <1>2, <1>3, NothingTold DEF Told
<1>30. AtRest BY <1>4 DEF AtRest, IsBuild, Undone
<1>16. Settled BY <1>4 DEF Settled, IsBuild, Undone
<1>17. AsksFlash BY <1>2, <1>3, <1>4 DEF AsksFlash, Flashes, SavedFlash
<1>18. Sorted BY <1>3 DEF Sorted
<1> QED BY <1>11, <1>12, <1>13, <1>14, <1>15, <1>16, <1>17, <1>18, <1>30 DEF IInv

\* The steps of a command.
LEMMA CommandSteps ==
    ASSUME NEW c \in Commands
    PROVE  Command(c) \in Seq(Steps \cup Commands)
<1> DEFINE S == Steps \cup Commands
<1>1. Configure \in Seq(S) BY ConfigureSteps
<1>2. "check" \in S /\ "info" \in S /\ "compile" \in S /\ "load" \in S /\ "ui" \in S /\ "cmake" \in S
      /\ "header" \in S /\ "clean" \in S /\ "rmbuild" \in S /\ "rmconf" \in S /\ "rmconfig" \in S
      /\ "rmflash" \in S /\ "flashconf" \in S /\ "flash" \in S
  BY DEF Steps
<1> HIDE DEF S
<1>3. Make \in Seq(S) BY <1>2, ThreeOf DEF Make
<1>4. MakeMenuconfig \in Seq(S) BY <1>2, Five DEF MakeMenuconfig
<1>5. << >> \in Seq(S) OBVIOUS
<1>6. Configure \o Make \in Seq(S) /\ Configure \o MakeMenuconfig \in Seq(S) /\ << >> \o Make \in Seq(S)
  BY <1>1, <1>3, <1>4, <1>5, Cat
<1>7. <<"clean">> \in Seq(S) BY <1>2, Single
<1>8. <<"clean", "rmbuild">> \in Seq(S) /\ <<"flashconf", "flash">> \in Seq(S) BY <1>2, Two
<1>9. <<"rmconf", "rmconfig", "rmflash">> \in Seq(S) BY <1>2, ThreeOf
<1>10. Command(c) \in Seq(S)
  <2>1. CASE c = "config" BY <2>1, <1>5 DEF Command
  <2>2. CASE c = "build"
    <3>1. CASE disk.makefile = NoFile
      <4>1. Command(c) = Configure \o Make BY <2>2, <3>1 DEF Command
      <4> QED BY <4>1, <1>6
    <3>2. CASE disk.makefile # NoFile
      <4>1. Command(c) = << >> \o Make BY <2>2, <3>2 DEF Command
      <4> QED BY <4>1, <1>6
    <3> QED BY <3>1, <3>2
  <2>3. CASE c = "rebuild" BY <2>3, <1>6 DEF Command
  <2>4. CASE c = "menuconfig" BY <2>4, <1>6 DEF Command
  <2>5. CASE c = "clean" BY <2>5, <1>7 DEF Command
  <2>6. CASE c = "distclean" BY <2>6, <1>8 DEF Command
  <2>7. CASE c = "clean_conf" BY <2>7, <1>9 DEF Command
  <2>8. CASE c = "flash" BY <2>8, <1>8 DEF Command
  <2> QED BY <2>1, <2>2, <2>3, <2>4, <2>5, <2>6, <2>7, <2>8 DEF Commands
<1> QED BY <1>10 DEF S

\* A command has been called: the course that it is on.
LEMMA Called ==
    ASSUME NEW c \in Commands, NEW tool, todo' = ConfigToolchain(tool) \o Command(c) \o <<c>>
    PROVE  /\ Flow(todo') /\ ~Idle' /\ Cmd(todo') = c
           /\ \E start :
                /\ start \in {"end", "load", "check", "clean", "rmconf", "flashconf"}
                /\ start = "end" => c = "config"
                /\ start = "check" => disk.makefile # NoFile /\ c = "build"
                /\ start = "flashconf" <=> c = "flash"
                /\ \/ At' = start /\ ConfigToolchain(tool) = << >>
                   \/ /\ At' = "conf" /\ Nth(2)' = "unsave" /\ Nth(3)' = start
                      /\ ConfigToolchain(tool) # << >>
<1> DEFINE S == Steps \cup Commands
           t == Command(c) \o <<c>>
           start == IF Len(t) > 1 THEN t[1] ELSE "end"
           u == <<"conf", "unsave">> \o t
<1>1. Opens(t, c) BY CommandOpens
<1>2. Command(c) \in Seq(S) BY CommandSteps
<1>3. <<c>> \in Seq(S) BY OnlyCommand DEF Flow
<1>4. Len(t) \in Nat /\ Len(t) # 0
  <2>1. t \in Seq(S) /\ t # << >> BY <1>1 DEF Opens, Flow
  <2> HIDE DEF t, S
  <2> QED BY <2>1
<1>5. <<"conf", "unsave">> \in Seq(S) BY ToolchainSteps
<1>6. ConfigToolchain(tool) \in {<< >>, <<"conf", "unsave">>} /\ <<"conf", "unsave">> # << >>
  BY ToolchainSteps DEF ConfigToolchain
<1>7. << >> \o Command(c) = Command(c)
  <2> HIDE DEF S
  <2> QED BY <1>2
<1>8. (<<"conf", "unsave">> \o Command(c)) \o <<c>> = u BY <1>2, <1>3, <1>5, Associated
<1> HIDE DEF t, S
<1>9. /\ Flow(t) /\ t # << >> /\ Cmd(t) = c /\ Begins(c, t[1])
      /\ (Len(t) = 1 => c = "config") /\ (t[1] = "check" => disk.makefile # NoFile)
  BY <1>1 DEF Opens
<1>10. start \in {"end", "load", "check", "clean", "rmconf", "flashconf"}
       /\ (start = "end" => c = "config") /\ (start = "check" => disk.makefile # NoFile /\ c = "build")
       /\ (start = "flashconf" <=> c = "flash")
  <2>1. CASE Len(t) = 1
    <3>1. start = "end" /\ c = "config" BY <1>9, <2>1
    <3> HIDE DEF start
    <3> QED BY <3>1
  <2>2. CASE Len(t) # 1
    <3>l. Len(t) > 1
      <4> DEFINE n == Len(t)
      <4>1. n \in Nat /\ n # 0 /\ n # 1 BY <1>4, <2>2
      <4> HIDE DEF n
      <4>2. n > 1 BY <4>1
      <4> QED BY <4>2 DEF n
    <3>1. start = t[1] BY <3>l
    <3>2. t[1] # "config"
      <4>1. Len(t) > 1 BY <3>l
      <4>2. Follows(c, t[1], t[2]) BY <4>1, <1>9, Advance
      <4> QED BY <4>2, <1>9 DEF Follows
    <3> HIDE DEF start
    <3> QED BY <1>9, <3>1, <3>2 DEF Begins
  <2> QED BY <2>1, <2>2
<1>11. CASE ConfigToolchain(tool) = << >>
  <2>1. todo' = t BY <1>7, <1>11 DEF t
  <2>2. At' = start BY <2>1 DEF At, Nth
  <2> HIDE DEF start
  <2> QED BY <1>9, <1>10, <1>11, <2>1, <2>2 DEF Idle
<1>12. CASE ConfigToolchain(tool) = <<"conf", "unsave">>
  <2>1. todo' = u BY <1>8, <1>12 DEF t
  <2>2. /\ Flow(u) /\ u # << >> /\ Cmd(u) = Cmd(t) /\ Len(u) = 2 + Len(t)
        /\ u[1] = "conf" /\ u[2] = "unsave" /\ \A i \in 1..Len(t) : u[2 + i] = t[i]
    BY <1>9, ToolchainFirst
  <2> HIDE DEF u
  <2>3. At' = "conf" /\ Nth(2)' = "unsave" BY <1>4, <2>1, <2>2 DEF At, Nth
  <2>4. Nth(3)' = start
    <3>1. 1 \in 1..Len(t) /\ 2 + 1 = 3 BY <1>4
    <3>2. u[3] = t[1] BY <2>2, <3>1
    <3>3. 3 < Len(u) <=> Len(t) > 1 BY <1>4, <2>2
    <3> QED BY <2>1, <3>2, <3>3 DEF Nth
  <2> HIDE DEF start
  <2> QED BY <1>6, <1>9, <1>10, <1>12, <2>1, <2>2, <2>3, <2>4 DEF Idle
<1> QED BY <1>6, <1>11, <1>12

\* No settings given over others.
LEMMA GivenNothing ==
    ASSUME NEW g, IsFlash(g)
    PROVE  Given(DefaultFlash, g) = g
<1>1. g = [port |-> g.port, baudrate |-> g.baudrate] BY DEF IsFlash
<1> QED BY <1>1 DEF Given

\* A command is called.
LEMMA RunKeeps == ASSUME IInv, Run PROVE IInv'
<1>1. PICK c \in project.cmds \ {"kill", "commit"}, tool \in project.tools, flash \in project.flash :
        /\ Can(c) /\ (c # "flash" => flash = DefaultFlash)
        /\ todo' = ConfigToolchain(tool) \o Command(c) \o <<c>>
        /\ args' = [tool |-> tool, flash |-> flash] /\ asked' = Given(flash, asked)
        /\ done' = IF ConfigToolchain(tool) = << >> THEN done ELSE Undone
        /\ UNCHANGED <<project, disk, repo, kconfig, wanted, hurt>>
  BY DEF Run
<1>2. Idle BY <1>1 DEF Can
<1>3. At = "end" /\ ~Building /\ ~Ending BY <1>2, Resting
<1>4. project \in ToSet(Projects) BY DEF IInv, Types
<1>5. c \in Commands /\ tool \in Tool /\ flash \in FlashArgs
  <2>1. /\ project.cmds \subseteq Commands \cup {"kill", "commit"} /\ project.tools \subseteq Tool
        /\ project.flash \subseteq FlashArgs
    BY <1>4, ProjectsAssumption
  <2> QED BY <1>1, <2>1
<1>6. IsTool(tool) BY <1>5 DEF IsTool, Tool
<1>7. IsFlash(flash) BY <1>5 DEF IsFlash, FlashArgs
<1>8. IsFlash(asked) BY DEF IInv, Types
<1>9. IsFlash(asked') BY <1>1, <1>7, <1>8, GivenFlash
<1>10. /\ Flow(todo') /\ ~Idle' /\ Cmd(todo') = c
       /\ \E start :
            /\ start \in {"end", "load", "check", "clean", "rmconf", "flashconf"}
            /\ start = "end" => c = "config"
            /\ start = "check" => disk.makefile # NoFile /\ c = "build"
            /\ start = "flashconf" <=> c = "flash"
            /\ \/ At' = start /\ ConfigToolchain(tool) = << >>
               \/ /\ At' = "conf" /\ Nth(2)' = "unsave" /\ Nth(3)' = start
                  /\ ConfigToolchain(tool) # << >>
  BY <1>1, <1>5, Called
<1>11. PICK start :
            /\ start \in {"end", "load", "check", "clean", "rmconf", "flashconf"}
            /\ start = "end" => c = "config"
            /\ start = "check" => disk.makefile # NoFile /\ c = "build"
            /\ start = "flashconf" <=> c = "flash"
            /\ \/ At' = start /\ ConfigToolchain(tool) = << >>
               \/ /\ At' = "conf" /\ Nth(2)' = "unsave" /\ Nth(3)' = start
                  /\ ConfigToolchain(tool) # << >>
  BY <1>10
<1>12. /\ project' = project /\ disk' = disk /\ repo' = repo /\ kconfig' = kconfig /\ wanted' = wanted
       /\ hurt' = hurt
  BY <1>1
<1>21. Types' BY <1>1, <1>6, <1>7, <1>9, <1>10, <1>12 DEF IInv, Types
<1>22. Control'
  <2>1. ~Ending' BY <1>10, <1>11 DEF Ending, Building
  <2>2. ~Configuring' BY <1>11 DEF Configuring
  <2>3. Building' /\ c = "rebuild" => At' \notin {"check", "end"} BY <1>11
  <2>4. Building' /\ Cmd(todo') = "rebuild" => c = "rebuild" BY <1>10
  <2> QED BY <1>11, <1>12, <2>1, <2>2, <2>3, <2>4 DEF Control
<1>23. Coherent' BY <1>12 DEF IInv, Coherent
<1>24. Saved' BY <1>3, <1>11, <1>12 DEF IInv, Saved, ConfTool, Agrees
<1>25. Told'
  <2>1. ~Ending' BY <1>10, <1>11 DEF Ending, Building
  <2> QED BY <1>11, <1>12, <2>1 DEF IInv, Told
<1>30. AtRest' BY <1>10 DEF AtRest
<1>26. Settled'
  <2>1. IsBuild(done'.cmd) => done' = done /\ At' = start BY <1>1, <1>11 DEF IsBuild, Undone
  <2> QED BY <1>2, <1>11, <1>12, <2>1 DEF IInv, Settled
<1>27. AsksFlash'
  <2>1. "flash" \notin hurt => asked = SavedFlash BY <1>3 DEF IInv, AsksFlash, Flashes
  <2>2. SavedFlash' = SavedFlash BY <1>12 DEF SavedFlash
  <2>3. Flashes' <=> c = "flash" BY <1>11 DEF Flashes
  <2>4. c # "flash" => asked' = asked BY <1>1, <1>8, GivenNothing
  <2>5. c = "flash" /\ "flash" \notin hurt => asked' = Given(args'.flash, SavedFlash) BY <1>1, <2>1
  <2>6. At' # "flash" BY <1>11
  <2>7. Given(args.flash, SavedFlash)' = Given(args'.flash, SavedFlash) BY <2>2
  <2> QED BY <1>12, <2>1, <2>2, <2>3, <2>4, <2>5, <2>6, <2>7 DEF AsksFlash
<1>28. Sorted' BY <1>12 DEF IInv, Sorted
<1> QED BY <1>21, <1>22, <1>23, <1>24, <1>25, <1>26, <1>27, <1>28, <1>30 DEF IInv

\* What a kill may leave, with the step that was under way.
LeftBy ==
    \/ disk' = disk
    \/ At = "conf" /\ disk' = [disk EXCEPT !.conf = "torn"]
    \/ At \in {"mk", "ui"} /\ \E mk \in {NoFile, TornFile} : disk' = [disk EXCEPT !.mk = mk]
    \/ At = "cmake" /\ disk' = [disk EXCEPT !.cmake = TornFile, !.newer = TRUE]
    \/ At = "header" /\ disk.header # kconfig /\ disk' = [disk EXCEPT !.header = TornFile, !.touched = TRUE]
    \/ At = "info" /\ \E t : disk' = [disk EXCEPT !.time = t]
    \/ /\ At = "info"
       /\ \E t : \E v \in CutOff(append_time_info(disk.version, <<VersionLines(Version(Describe(repo)))>>)) :
             disk' = [disk EXCEPT !.time = t, !.version = v, !.touched = TRUE]
    \/ At = "compile" /\ disk' = [disk EXCEPT !.touched = Outdated]
    \/ /\ At \in {"rmbuild", "rmconfig"}
       /\ \E mk \in {disk.mk, NoFile}, cmake \in {disk.cmake, NoFile}, header \in {disk.header, NoFile},
             makefile \in {disk.makefile, NoFile}, told \in {disk.version, << >>} : \E time :
             disk' = [disk EXCEPT !.mk = mk, !.cmake = cmake, !.header = header, !.makefile = makefile,
                                  !.time = time, !.version = told]
    \/ At = "flashconf" /\ disk' = [disk EXCEPT !.flash = NoFlash]

\* What a kill leaves, by the step it comes in.
LEMMA KillLeaves ==
    ASSUME Flow(todo), disk' \in Left
    PROVE  LeftBy
<1> DEFINE other == ~\E s \in {"conf", "mk", "ui", "cmake", "header", "info", "compile", "rmbuild", "rmconfig",
                               "flashconf"} : At = s
           lines == <<VersionLines(Version(Describe(repo)))>>
           version == append_time_info(disk.version, lines)
<1>1. /\ Now("conf") <=> At = "conf"
      /\ Now("mk") <=> At = "mk"
      /\ Now("ui") <=> At = "ui"
      /\ Now("cmake") <=> At = "cmake"
      /\ Now("header") <=> At = "header"
      /\ Now("info") <=> At = "info"
      /\ Now("compile") <=> At = "compile"
      /\ Now("rmbuild") <=> At = "rmbuild"
      /\ Now("rmconfig") <=> At = "rmconfig"
      /\ Now("flashconf") <=> At = "flashconf"
  BY NowAt
<1>2. CASE At = "conf"
  <2>1. Left = {disk, [disk EXCEPT !.conf = "torn"]} BY <1>1, <1>2 DEF Left
  <2> QED BY <1>2, <2>1 DEF LeftBy
<1>3. CASE At = "mk"
  <2>1. Left = IF disk.mk # kconfig
               THEN {disk, [disk EXCEPT !.mk = NoFile], [disk EXCEPT !.mk = TornFile]} ELSE {disk}
    BY <1>1, <1>3 DEF Left
  <2> QED BY <1>3, <2>1 DEF LeftBy
<1>4. CASE At = "ui"
  <2>1. Left = IF disk.mk # kconfig
               THEN {disk, [disk EXCEPT !.mk = NoFile], [disk EXCEPT !.mk = TornFile]} ELSE {disk}
    BY <1>1, <1>4 DEF Left
  <2> QED BY <1>4, <2>1 DEF LeftBy
<1>5. CASE At = "cmake"
  <2>1. Left = IF disk.cmake # kconfig THEN {disk, [disk EXCEPT !.cmake = TornFile, !.newer = TRUE]} ELSE {disk}
    BY <1>1, <1>5 DEF Left
  <2> QED BY <1>5, <2>1 DEF LeftBy
<1>6. CASE At = "header"
  <2>1. Left = IF disk.header # kconfig THEN {disk, [disk EXCEPT !.header = TornFile, !.touched = TRUE]} ELSE {disk}
    BY <1>1, <1>6 DEF Left
  <2> QED BY <1>6, <2>1 DEF LeftBy
<1>7. CASE At = "info"
  <2> DEFINE time == append_time_info(disk.time, <<TimeLines(steps)>>)
  <2>1. Left = {[disk EXCEPT !.time = t] : t \in CutOff(time)}
               \cup (IF version = disk.version THEN {}
                     ELSE {[disk EXCEPT !.time = time, !.version = v, !.touched = TRUE] : v \in CutOff(version)})
    BY <1>1, <1>7 DEF Left
  <2> HIDE DEF time, version
  <2>2. \/ \E t : disk' = [disk EXCEPT !.time = t]
        \/ \E v \in CutOff(version) : disk' = [disk EXCEPT !.time = time, !.version = v, !.touched = TRUE]
    BY <2>1
  <2> QED BY <1>7, <2>2 DEF LeftBy, version
<1>8. CASE At = "compile"
  <2>1. Left = {[disk EXCEPT !.touched = Outdated]} BY <1>1, <1>8 DEF Left
  <2> QED BY <1>8, <2>1 DEF LeftBy
<1>9. CASE At \in {"rmbuild", "rmconfig"}
  <2>1. Left = SomeRemoved BY <1>1, <1>9 DEF Left
  <2>2. PICK gone : disk' = [disk EXCEPT !.mk = IF "mk" \in gone THEN NoFile ELSE @,
                                         !.cmake = IF "cmake" \in gone THEN NoFile ELSE @,
                                         !.header = IF "header" \in gone THEN NoFile ELSE @,
                                         !.makefile = IF "makefile" \in gone THEN NoFile ELSE @,
                                         !.time = IF "time" \in gone THEN << >> ELSE @,
                                         !.version = IF "version" \in gone THEN << >> ELSE @]
    BY <2>1 DEF SomeRemoved
  <2>3. \E mk \in {disk.mk, NoFile}, cmake \in {disk.cmake, NoFile}, header \in {disk.header, NoFile},
           makefile \in {disk.makefile, NoFile}, told \in {disk.version, << >>} : \E time :
           disk' = [disk EXCEPT !.mk = mk, !.cmake = cmake, !.header = header, !.makefile = makefile,
                                !.time = time, !.version = told]
    <3> DEFINE a == IF "mk" \in gone THEN NoFile ELSE disk.mk
               b == IF "cmake" \in gone THEN NoFile ELSE disk.cmake
               d == IF "header" \in gone THEN NoFile ELSE disk.header
               e == IF "makefile" \in gone THEN NoFile ELSE disk.makefile
               f == IF "time" \in gone THEN << >> ELSE disk.time
               g == IF "version" \in gone THEN << >> ELSE disk.version
    <3>1. /\ a \in {disk.mk, NoFile} /\ b \in {disk.cmake, NoFile} /\ d \in {disk.header, NoFile}
          /\ e \in {disk.makefile, NoFile} /\ g \in {disk.version, << >>}
      OBVIOUS
    <3>2. disk' = [disk EXCEPT !.mk = a, !.cmake = b, !.header = d, !.makefile = e, !.time = f, !.version = g]
      BY <2>2
    <3> HIDE DEF a, b, d, e, f, g
    <3> QED BY <3>1, <3>2
  <2> QED BY <1>9, <2>3 DEF LeftBy
<1>10. CASE At = "flashconf"
  <2>1. Left = {disk, [disk EXCEPT !.flash = NoFlash]} BY <1>1, <1>10 DEF Left
  <2> QED BY <1>10, <2>1 DEF LeftBy
<1>11. CASE other
  <2>1. Left = {disk} BY <1>1, <1>11 DEF Left
  <2> QED BY <2>1 DEF LeftBy
<1> QED BY <1>2, <1>3, <1>4, <1>5, <1>6, <1>7, <1>8, <1>9, <1>10, <1>11

\* What is set down as hurt.
LEMMA KillHurts ==
    ASSUME Flow(todo), Len(todo) > 1, NEW more, hurt' = hurt \cup Hurts \cup more
    PROVE  /\ \A x : x \in hurt => x \in hurt'
           /\ At \in {"ui", "cmake"} => "menu" \in hurt'
           /\ At \in {"unsave", "conf", "mk", "ui", "rmbuild", "rmconfig"} => "tool" \in hurt'
           /\ At \in {"rmbuild", "rmconfig"} => "left" \in hurt'
           /\ At \in {"rmflash", "flashconf"} \/ Flashes => "flash" \in hurt'
<1>1. /\ Now("conf") <=> At = "conf"
      /\ Now("unsave") <=> At = "unsave"
      /\ Now("mk") <=> At = "mk"
      /\ Now("ui") <=> At = "ui"
      /\ Now("cmake") <=> At = "cmake"
      /\ Now("rmbuild") <=> At = "rmbuild"
      /\ Now("rmconfig") <=> At = "rmconfig"
      /\ Now("rmflash") <=> At = "rmflash"
  BY NowAt
<1>2. At = "flashconf" \/ Nth(2) = "flashconf" \/ Nth(3) = "flashconf" => "flashconf" \in ToSet(todo)
  <2>1. todo \in Seq(Steps \cup Commands) BY DEF Flow
  <2>2. Len(todo) \in Nat /\ DOMAIN todo = 1..Len(todo) BY <2>1
  <2>3. "flashconf" # "end" OBVIOUS
  <2>4. \A i \in {1, 2, 3} : Nth(i) = "flashconf" => i \in DOMAIN todo /\ todo[i] = "flashconf"
    BY <2>2, <2>3 DEF Nth
  <2> QED BY <2>4 DEF ToSet, At
<1>3. At \in {"rmflash", "flashconf"} \/ Flashes => "flash" \in Hurts BY <1>1, <1>2 DEF Hurts, Flashes
<1> QED BY <1>1, <1>3 DEF Hurts

\* A kill in any step, at any place of what the step writes.
LEMMA KillKeeps == ASSUME IInv, Kill PROVE IInv'
<1> DEFINE c == append_time_info(disk.version, <<VersionLines(Version(Describe(repo)))>>)
<1>1. Flow(todo) /\ Len(todo) > 1 BY DEF IInv, Types, Kill
<1>2. LeftBy BY <1>1, KillLeaves DEF Kill
<1>3. /\ \A x : x \in hurt => x \in hurt'
      /\ At \in {"ui", "cmake"} => "menu" \in hurt'
      /\ At \in {"unsave", "conf", "mk", "ui", "rmbuild", "rmconfig"} => "tool" \in hurt'
      /\ At \in {"rmbuild", "rmconfig"} => "left" \in hurt'
      /\ "info" \notin hurt' => Whole(disk'.version)
      /\ At \in {"rmflash", "flashconf"} \/ Flashes => "flash" \in hurt'
  BY <1>1, KillHurts DEF Kill
<1>4. Flow(todo') /\ Idle' /\ At' = "end" BY NothingLeft DEF Kill
<1>5. /\ project' = project /\ repo' = repo /\ asked' = asked /\ kconfig' = kconfig /\ args' = args
      /\ done' = Undone /\ wanted' = wanted
  BY DEF Kill
<1>6. At # "end" BY <1>1, OnCourse DEF Steps
\* the files
<1>7. /\ Files(disk')
      /\ disk'.conf = disk.conf \/ At = "conf"
      /\ disk'.mk = disk.mk \/ (At \in {"mk", "ui"} /\ disk'.mk \in {NoFile, TornFile})
                            \/ (At \in {"rmbuild", "rmconfig"} /\ disk'.mk = NoFile)
      /\ \/ disk'.cmake = disk.cmake /\ disk'.newer = disk.newer
         \/ At = "cmake" /\ disk'.newer = TRUE
         \/ At \in {"rmbuild", "rmconfig"} /\ disk'.cmake = NoFile /\ disk'.newer = disk.newer
      /\ \/ disk'.header = disk.header
         \/ At = "header" /\ disk.header # kconfig /\ disk'.header = TornFile
         \/ At \in {"rmbuild", "rmconfig"} /\ disk'.header = NoFile
      /\ disk'.makefile = disk.makefile \/ disk'.makefile = NoFile
      /\ disk'.objects = disk.objects /\ disk'.order = disk.order
      /\ disk'.touched = disk.touched \/ disk'.touched = Outdated \/ disk'.touched = TRUE
      /\ disk'.version = disk.version \/ disk'.version = << >> \/ disk'.version \in CutOff(c)
      /\ disk'.flash = disk.flash \/ (At = "flashconf" /\ disk'.flash = NoFlash)
  BY <1>2, ZenonT(60) DEF LeftBy, IInv, Types, Files
<1>8. c \in Seq(Lines(project)) /\ Shaped(c) BY VersionWritten DEF IInv
<1> HIDE DEF c
<1>11. Types' BY <1>4, <1>5, <1>7 DEF IInv, Types, Outdated
<1>12. Control' BY <1>4 DEF Control, Configuring, Building, Ending
<1>13. Coherent' BY <1>3, <1>7 DEF IInv, Coherent, Control
<1>14. Saved' BY <1>3, <1>4, <1>5, <1>7, NoConfig DEF IInv, Saved, ConfTool, Agrees
<1>15. Told'
  <2>1. disk'.version \in Seq(Lines(project)) /\ Shaped(disk'.version)
    BY <1>7, <1>8, PrefixShaped, NothingTold DEF IInv, Told
  <2> QED BY <1>3, <1>4, <1>5, <1>7, <2>1 DEF IInv, Told, Building, Ending
<1>30. AtRest' BY <1>5 DEF AtRest, IsBuild, Undone
<1>16. Settled' BY <1>5 DEF Settled, IsBuild, Undone
<1>17. AsksFlash' BY <1>3, <1>4, <1>5, <1>7 DEF IInv, AsksFlash, Flashes, SavedFlash
<1>18. Sorted' BY <1>5, <1>7 DEF IInv, Sorted
<1> QED BY <1>11, <1>12, <1>13, <1>14, <1>15, <1>16, <1>17, <1>18, <1>30 DEF IInv

\* A step that changes nothing.
LEMMA NothingMovesKeeps == ASSUME IInv, UNCHANGED vars PROVE IInv'
<1>1. /\ project' = project /\ disk' = disk /\ repo' = repo /\ todo' = todo /\ kconfig' = kconfig
      /\ args' = args /\ done' = done /\ wanted' = wanted /\ asked' = asked /\ hurt' = hurt
  BY DEF vars
<1>2. At' = At /\ Nth(2)' = Nth(2) /\ Nth(3)' = Nth(3) /\ Idle' = Idle /\ Cmd(todo') = Cmd(todo)
  BY <1>1 DEF At, Nth, Idle
<1>11. Types' BY <1>1 DEF IInv, Types
<1>12. Control' BY <1>1, <1>2 DEF IInv, Control, Configuring, Building, Ending, LoadedConfig, ConfTool, OptOver
<1>13. Coherent' BY <1>1 DEF IInv, Coherent
<1>14. Saved' BY <1>1, <1>2 DEF IInv, Saved, ConfTool
<1>15. Told' BY <1>1, <1>2 DEF IInv, Told, Building, Ending
<1>30. AtRest' BY <1>1, <1>2 DEF IInv, AtRest
<1>16. Settled' BY <1>1, <1>2 DEF IInv, Settled, Building
<1>17. AsksFlash' BY <1>1, <1>2 DEF IInv, AsksFlash, Flashes, SavedFlash
<1>18. Sorted' BY <1>1 DEF IInv, Sorted
<1> QED BY <1>11, <1>12, <1>13, <1>14, <1>15, <1>16, <1>17, <1>18, <1>30 DEF IInv

----------------------------------------------------------------------------
(* The order of the components.                                            *)

\* A set that has 0, and with every number the next, has them all.
LEMMA FromZero ==
    ASSUME NEW n \in Nat, NEW G, 0 \in G, \A i \in 1..n : i - 1 \in G => i \in G
    PROVE  \A i \in 0..n : i \in G
<1> DEFINE Bad == {i \in 0..n : i \notin G}
<1> SUFFICES ASSUME Bad # {} PROVE FALSE OBVIOUS
<1>1. Bad \subseteq Nat OBVIOUS
<1>2. PICK i \in Bad : \A j \in Bad : i <= j BY <1>1, LeastNumber
<1>3. i \in 0..n /\ i \notin G OBVIOUS
<1>4. i \in 1..n BY <1>3
<1>5. i - 1 \in 0..n /\ i - 1 \notin Bad BY <1>2, <1>4
<1> QED BY <1>3, <1>4, <1>5

\* A set of numbers has a first and, where it is bounded, a last one.
LEMMA FirstIs ==
    ASSUME NEW n \in Nat, NEW I, I \subseteq 1..n, I # {}
    PROVE  Min(I) \in I /\ \A i \in I : Min(I) <= i
<1>1. I \subseteq Nat OBVIOUS
<1>2. \E i \in I : \A j \in I : i <= j BY <1>1, LeastNumber
<1> QED BY <1>2 DEF Min

LEMMA LastIs ==
    ASSUME NEW n \in Nat, NEW I, I \subseteq 1..n, I # {}
    PROVE  Max(I) \in I
<1> DEFINE D == {n - i : i \in I}
<1>1. D \subseteq Nat /\ D # {}
  <2>1. \A i \in I : n - i \in Nat OBVIOUS
  <2>2. PICK i \in I : TRUE OBVIOUS
  <2>3. n - i \in D BY <2>2
  <2> QED BY <2>1, <2>3
<1>2. PICK d \in D : \A e \in D : d <= e BY <1>1, LeastNumber
<1>3. PICK i \in I : d = n - i BY <1>2
<1>n. I \subseteq Nat OBVIOUS
<1> HIDE DEF D
<1>4. ASSUME NEW j \in I PROVE i >= j
  <2>1. d <= n - j BY <1>2 DEF D
  <2>2. i \in Nat /\ j \in Nat BY <1>n
  <2> QED BY <1>3, <2>1, <2>2
<1>5. \E x \in I : \A y \in I : x >= y BY <1>4
<1> QED BY <1>5 DEF Max

\* The place of a name is one of the priority file, or 0.
LEMMA PlaceIs ==
    ASSUME NEW P \in Seq(STRING), NEW a
    PROVE  dict_order(P, a) \in 0..Len(P) /\ Len(P) \in Nat
<1> DEFINE I == {i \in 1..Len(P) : P[i] = a}
<1>1. Len(P) \in Nat OBVIOUS
<1>2. I # {} => Max(I) \in I BY <1>1, LastIs
<1>3. dict_order(P, a) = IF I # {} THEN Max(I) ELSE 0 BY DEF dict_order, SelectLastInSeq
<1> HIDE DEF I
<1>4. \A i \in I : i \in 1..Len(P) BY DEF I
<1> QED BY <1>1, <1>2, <1>3, <1>4

\* Where each element is found only once.
Distinct(s) == \A i, j \in 1..Len(s) : s[i] = s[j] => i = j
Position(s, c) == SelectInSeq(s, LAMBDA d : d = c)

LEMMA FoundAt ==
    ASSUME NEW S, NEW s \in Seq(S), Distinct(s), NEW k \in 1..Len(s)
    PROVE  Position(s, s[k]) = k
<1> DEFINE I == {i \in 1..Len(s) : s[i] = s[k]}
<1>1. I = {k} BY DEF Distinct
<1>n. Len(s) \in Nat /\ I \subseteq 1..Len(s) /\ I # {} BY <1>1
<1> HIDE DEF I
<1>2. Min(I) \in I BY <1>n, FirstIs
<1>3. Position(s, s[k]) = IF I # {} THEN Min(I) ELSE 0 BY DEF Position, SelectInSeq, I
<1>4. Min(I) = k BY <1>1, <1>2
<1> QED BY <1>3, <1>4, <1>n

\* c is at j in u, and the rest of u is s.
PutIn(u, s, j, c) ==
    /\ Len(u) = Len(s) + 1 /\ j \in 1..Len(u) /\ u[j] = c
    /\ \A i \in 1..Len(u) : (i < j => u[i] = s[i]) /\ (i > j => u[i] = s[i-1])

LEMMA AppendPutsIn ==
    ASSUME NEW S, NEW s \in Seq(S), NEW c \in S
    PROVE  Append(s, c) \in Seq(S) /\ PutIn(Append(s, c), s, Len(s) + 1, c)
<1> DEFINE u == Append(s, c)
           n == Len(s)
<1>1. n \in Nat /\ u \in Seq(S) /\ Len(u) = n + 1 /\ u[n+1] = c /\ \A i \in 1..n : u[i] = s[i] OBVIOUS
<1> HIDE DEF u, n
<1>2. \A i \in 1..n+1 : i < n + 1 => i \in 1..n BY <1>1
<1>3. \A i \in 1..n+1 : ~(i > n + 1) /\ n + 1 \in 1..n+1 BY <1>1
<1>4. n + 1 \in 1..n+1 BY <1>1
<1> QED BY <1>1, <1>2, <1>3, <1>4 DEF PutIn, u, n

LEMMA InsertPutsIn ==
    ASSUME NEW S, NEW s \in Seq(S), NEW c \in S, NEW j \in 1..Len(s)
    PROVE  InsertAt(s, j, c) \in Seq(S) /\ PutIn(InsertAt(s, j, c), s, j, c)
<1> DEFINE n == Len(s)
           a == SubSeq(s, 1, j - 1)
           b == <<c>>
           z == SubSeq(s, j, n)
           u == (a \o b) \o z
<1>1. n \in Nat /\ j \in Nat /\ 1 <= j /\ j <= n OBVIOUS
<1>2. a \in Seq(S) /\ Len(a) = j - 1 /\ \A i \in 1..j-1 : a[i] = s[i] OBVIOUS
<1>3. b \in Seq(S) /\ Len(b) = 1 /\ b[1] = c OBVIOUS
<1>4. z \in Seq(S) /\ Len(z) = n - j + 1 /\ \A i \in 1..n-j+1 : z[i] = s[j+i-1] OBVIOUS
<1>5. InsertAt(s, j, c) = u BY DEF InsertAt
<1> HIDE DEF a, b, z, n, u
<1>s. a \in Seq(S) /\ b \in Seq(S) /\ z \in Seq(S) BY <1>2, <1>3, <1>4
<1>6. /\ a \o b \in Seq(S) /\ Len(a \o b) = Len(a) + Len(b) /\ (\A i \in 1..Len(a) : (a \o b)[i] = a[i])
      /\ \A i \in 1..Len(b) : (a \o b)[Len(a) + i] = b[i]
  BY <1>s, Cat
<1> DEFINE v == a \o b
<1> HIDE DEF v
<1>7. v \in Seq(S) BY <1>6 DEF v
<1>8. /\ v \o z \in Seq(S) /\ Len(v \o z) = Len(v) + Len(z) /\ (\A i \in 1..Len(v) : (v \o z)[i] = v[i])
      /\ \A i \in 1..Len(z) : (v \o z)[Len(v) + i] = z[i]
  BY <1>s, <1>7, Cat
<1>9. Len(v) = j /\ v[j] = c /\ \A i \in 1..j-1 : v[i] = s[i]
  <2>1. 1 \in 1..Len(b) /\ (j - 1) + 1 = j BY <1>1, <1>3
  <2>2. v[j] = c BY <1>2, <1>3, <1>6, <2>1 DEF v
  <2>3. Len(v) = j BY <1>1, <1>2, <1>3, <1>6 DEF v
  <2> QED BY <1>2, <1>6, <2>2, <2>3 DEF v
<1>u. u = v \o z BY DEF u, v
<1>10. u \in Seq(S) /\ Len(u) = n + 1
  <2>1. Len(u) = j + (n - j + 1) BY <1>4, <1>8, <1>9, <1>u
  <2> QED BY <1>1, <1>8, <1>u, <2>1
<1>11. u[j] = c
  <2>1. j \in 1..Len(v) BY <1>1, <1>9
  <2> QED BY <1>8, <1>9, <1>u, <2>1
<1>12. ASSUME NEW i \in 1..n+1, i < j PROVE u[i] = s[i]
  <2>1. i \in 1..Len(v) /\ i \in 1..j-1 BY <1>1, <1>9, <1>12
  <2> QED BY <1>8, <1>9, <1>u, <2>1
<1>13. ASSUME NEW i \in 1..n+1, i > j PROVE u[i] = s[i-1]
  <2>1. i - j \in 1..Len(z) /\ i - j \in 1..n-j+1 /\ j + (i - j) = i /\ j + (i - j) - 1 = i - 1 BY <1>1, <1>4, <1>13
  <2>2. (v \o z)[Len(v) + (i - j)] = z[i - j] BY <1>8, <2>1
  <2>3. z[i - j] = s[i - 1] BY <1>4, <2>1
  <2> QED BY <1>9, <1>u, <2>1, <2>2, <2>3
<1> QED BY <1>1, <1>5, <1>10, <1>11, <1>12, <1>13 DEF PutIn, n

\* What goes in does so before the first of a later place.
LEMMA GoesIn ==
    ASSUME NEW S, NEW P \in Seq(STRING), NEW f \in Seq(S), NEW c \in S
    PROVE  /\ Inserted(P, f, c) \in Seq(S)
           /\ \E j \in 1..Len(f)+1 :
                /\ PutIn(Inserted(P, f, c), f, j, c)
                /\ \A i \in 1..Len(f) : i < j => dict_order(P, f[i][2]) <= dict_order(P, c[2])
                /\ j <= Len(f) => dict_order(P, c[2]) < dict_order(P, f[j][2])
<1> DEFINE n == Len(f)
           K(d) == dict_order(P, d[2])
           I == {i \in 1..n : K(c) < K(f[i])}
           j == SelectInSeq(f, LAMBDA tmp : K(c) < K(tmp))
<1>n. n \in Nat OBVIOUS
<1>1. j = IF I # {} THEN Min(I) ELSE 0 BY DEF SelectInSeq
<1>2. Inserted(P, f, c) = IF j = 0 THEN Append(f, c) ELSE InsertAt(f, j, c) BY DEF Inserted
<1>3. \A d : K(d) \in Nat
  <2> SUFFICES ASSUME NEW d PROVE dict_order(P, d[2]) \in Nat OBVIOUS
  <2>1. dict_order(P, d[2]) \in 0..Len(P) /\ Len(P) \in Nat BY PlaceIs
  <2> QED BY <2>1
<1>4. I \subseteq 1..n OBVIOUS
<1> HIDE DEF j
<1>5. CASE I = {}
  <2>1. j = 0 BY <1>1, <1>5
  <2>2. \A i \in 1..n : ~(K(c) < K(f[i])) BY <1>5
  <2> HIDE DEF K
  <2>3. \A i \in 1..n : K(f[i]) <= K(c) BY <1>3, <2>2
  <2>4. n + 1 \in 1..n+1 /\ ~(n + 1 <= n) BY <1>n
  <2>5. Inserted(P, f, c) = Append(f, c) BY <1>2, <2>1
  <2>6. Append(f, c) \in Seq(S) /\ PutIn(Append(f, c), f, n + 1, c) BY AppendPutsIn
  <2> QED BY <2>3, <2>4, <2>5, <2>6 DEF K
<1>6. CASE I # {}
  <2>1. Min(I) \in I /\ \A i \in I : Min(I) <= i
    <3> HIDE DEF I
    <3> QED BY <1>n, <1>4, <1>6, FirstIs
  <2>2. j = Min(I) BY <1>1, <1>6
  <2>3. j \in 1..n /\ K(c) < K(f[j]) BY <2>1, <2>2
  <2>4. \A i \in 1..n : i < j => ~(K(c) < K(f[i])) BY <1>n, <2>1, <2>2, <2>3
  <2> HIDE DEF K, I
  <2>5. \A i \in 1..n : i < j => K(f[i]) <= K(c) BY <1>3, <2>4
  <2>6. j # 0 /\ j \in 1..n+1 BY <1>n, <2>3
  <2>7. Inserted(P, f, c) = InsertAt(f, j, c) BY <1>2, <2>6
  <2>8. InsertAt(f, j, c) \in Seq(S) /\ PutIn(InsertAt(f, j, c), f, j, c) BY <2>3, InsertPutsIn
  <2> QED BY <2>3, <2>5, <2>6, <2>7, <2>8 DEF K
<1> QED BY <1>5, <1>6

\* The components in the order of CMake: by place, those without a place last, and then as they were found.
Place(P, c) == IF dict_order(P, c[2]) = 0 THEN Len(P) + 1 ELSE dict_order(P, c[2])
Earlier(P, C, c, d) ==
    Place(P, c) < Place(P, d) \/ (Place(P, c) = Place(P, d) /\ Position(C, c) < Position(C, d))
Sorts(P, C, s) == \A a, b \in 1..Len(s) : a < b => Earlier(P, C, s[a], s[b])

\* s has, of the first k components, those with or those without a place.
Collected(P, C, k, s, placed) ==
    /\ s \in Seq(STRING \X STRING)
    /\ \A i \in 1..Len(s) : (\E m \in 1..k : s[i] = C[m]) /\ (dict_order(P, s[i][2]) # 0 <=> placed)
    /\ \A m \in 1..k : (dict_order(P, C[m][2]) # 0 <=> placed) => \E i \in 1..Len(s) : s[i] = C[m]
    /\ Sorts(P, C, s)

Listed(P, C) == P \in Seq(STRING) /\ C \in Seq(STRING \X STRING) /\ Distinct(C)

\* Components that both have a place, or both have none.
LEMMA PlacesCompare ==
    ASSUME NEW P \in Seq(STRING), NEW c, NEW d, dict_order(P, c[2]) # 0 <=> dict_order(P, d[2]) # 0
    PROVE  /\ Place(P, c) \in Nat /\ Place(P, d) \in Nat
           /\ dict_order(P, c[2]) < dict_order(P, d[2]) <=> Place(P, c) < Place(P, d)
           /\ dict_order(P, c[2]) <= dict_order(P, d[2]) => Place(P, c) <= Place(P, d)
<1>1. dict_order(P, c[2]) \in 0..Len(P) /\ Len(P) \in Nat /\ dict_order(P, d[2]) \in 0..Len(P) BY PlaceIs
<1> QED BY <1>1 DEF Place

\* A component more, in its place.
LEMMA OneCollected ==
    ASSUME NEW P, NEW C, Listed(P, C), NEW k \in 1..Len(C), NEW s, NEW u \in Seq(STRING \X STRING),
           NEW placed \in BOOLEAN, NEW j \in 1..Len(s)+1,
           Collected(P, C, k - 1, s, placed), dict_order(P, C[k][2]) # 0 <=> placed, PutIn(u, s, j, C[k]),
           \A i \in 1..Len(s) : i < j => dict_order(P, s[i][2]) <= dict_order(P, C[k][2]),
           j <= Len(s) => dict_order(P, C[k][2]) < dict_order(P, s[j][2])
    PROVE  Collected(P, C, k, u, placed)
<1> DEFINE n == Len(s)
           c == C[k]
           K(d) == dict_order(P, d[2])
           Q(d) == Place(P, d)
<1>1. s \in Seq(STRING \X STRING) /\ n \in Nat /\ Len(C) \in Nat BY DEF Collected, Listed
<1>2. P \in Seq(STRING) /\ C \in Seq(STRING \X STRING) /\ Distinct(C) BY DEF Listed
<1>3. /\ Len(u) = n + 1 /\ u[j] = c /\ j \in 1..n+1
      /\ \A i \in 1..n+1 : (i < j => u[i] = s[i]) /\ (i > j => u[i] = s[i-1])
  BY DEF PutIn
<1>4. \A i \in 1..n : (\E m \in 1..k-1 : s[i] = C[m]) /\ (K(s[i]) # 0 <=> placed) BY DEF Collected
<1>5. \A i \in 1..n+1 : (i < j => i \in 1..n) /\ (i > j => i - 1 \in 1..n) /\ (i < j \/ i = j \/ i > j)
  BY <1>1, <1>3
<1>6. k \in 1..k /\ \A m \in 1..k : m = k \/ m \in 1..k-1 BY <1>1
<1>7. \A m \in 1..k-1 : m \in 1..k BY <1>1
<1>8. ASSUME NEW i \in 1..n+1
      PROVE  (\E m \in 1..k : u[i] = C[m]) /\ (K(u[i]) # 0 <=> placed)
  <2>1. CASE i = j BY <1>3, <1>6, <2>1
  <2>2. CASE i < j BY <1>3, <1>4, <1>5, <1>7, <2>2
  <2>3. CASE i > j
    <3>1. u[i] = s[i-1] /\ i - 1 \in 1..n BY <1>3, <1>5, <2>3
    <3> QED BY <1>4, <1>7, <3>1
  <2> QED BY <1>5, <2>1, <2>2, <2>3
<1>9. ASSUME NEW m \in 1..k, K(C[m]) # 0 <=> placed
      PROVE  \E i \in 1..n+1 : u[i] = C[m]
  <2>1. CASE m = k BY <1>3, <2>1
  <2>2. CASE m \in 1..k-1
    <3>1. PICK i \in 1..n : s[i] = C[m] BY <1>9, <2>2 DEF Collected
    <3>2. CASE i < j
      <4>1. i \in 1..n+1 BY <1>1
      <4> QED BY <1>3, <3>1, <3>2, <4>1
    <3>3. CASE ~(i < j)
      <4>1. i + 1 \in 1..n+1 /\ i + 1 > j /\ (i + 1) - 1 = i BY <1>1, <1>3, <3>3
      <4>2. u[i+1] = s[i] BY <1>3, <4>1
      <4> QED BY <3>1, <4>1, <4>2
    <3> QED BY <3>2, <3>3
  <2> QED BY <1>6, <2>1, <2>2
<1>10. \A m \in 1..k : Position(C, C[m]) = m
  <2> SUFFICES ASSUME NEW m \in 1..k PROVE Position(C, C[m]) = m OBVIOUS
  <2>1. m \in 1..Len(C) BY <1>1
  <2> QED BY <1>2, <2>1, FoundAt
<1>11. \A a, b \in 1..n : a < b => Earlier(P, C, s[a], s[b]) BY DEF Collected, Sorts
<1>12. ASSUME NEW i \in 1..n
       PROVE  /\ Q(s[i]) \in Nat /\ Q(c) \in Nat /\ (K(s[i]) <= K(c) => Q(s[i]) <= Q(c))
              /\ (K(c) < K(s[i]) => Q(c) < Q(s[i]))
  <2>1. K(s[i]) # 0 <=> K(c) # 0 BY <1>4
  <2> QED BY <1>2, <2>1, PlacesCompare
<1>13. ASSUME NEW a \in 1..n, a < j PROVE Earlier(P, C, s[a], c)
  <2>1. Q(s[a]) <= Q(c) /\ Q(s[a]) \in Nat /\ Q(c) \in Nat BY <1>12, <1>13
  <2>2. PICK m \in 1..k-1 : s[a] = C[m] BY <1>4
  <2>3. Position(C, s[a]) = m /\ Position(C, c) = k /\ m < k BY <1>1, <1>6, <1>7, <1>10, <2>2
  <2> QED BY <2>1, <2>3 DEF Earlier
<1>14. ASSUME NEW b \in 1..n, j <= b PROVE Earlier(P, C, c, s[b])
  <2>1. j \in 1..n /\ j <= n BY <1>1, <1>3, <1>14
  <2>2. Q(c) < Q(s[j]) /\ Q(c) \in Nat /\ Q(s[j]) \in Nat BY <1>12, <2>1
  <2>3. j = b \/ j < b BY <1>3, <1>14
  <2>4. Q(s[j]) <= Q(s[b]) /\ Q(s[b]) \in Nat BY <1>11, <1>12, <2>1, <2>2, <2>3, SMTT(30) DEF Earlier
  <2>5. Q(c) < Q(s[b]) BY <2>2, <2>4
  <2> QED BY <2>5 DEF Earlier
<1>15. ASSUME NEW a \in 1..n+1, NEW b \in 1..n+1, a < b
       PROVE  Earlier(P, C, u[a], u[b])
  <2>1. CASE b < j
    <3>1. a < j /\ a \in 1..n /\ b \in 1..n BY <1>3, <1>5, <1>15, <2>1
    <3> QED BY <1>3, <1>11, <1>15, <2>1, <3>1
  <2>2. CASE b = j BY <1>3, <1>5, <1>13, <1>15, <2>2
  <2>3. CASE b > j
    <3>1. u[b] = s[b-1] /\ b - 1 \in 1..n BY <1>3, <1>5, <2>3
    <3>2. CASE a < j
      <4>1. a < b - 1 /\ u[a] = s[a] /\ a \in 1..n BY <1>3, <1>5, <2>3, <3>2
      <4> QED BY <1>11, <3>1, <4>1
    <3>3. CASE a = j
      <4>1. j <= b - 1 BY <1>3, <2>3
      <4> QED BY <1>3, <1>14, <3>1, <3>3, <4>1
    <3>4. CASE a > j
      <4>1. a - 1 < b - 1 /\ u[a] = s[a-1] /\ a - 1 \in 1..n BY <1>3, <1>5, <1>15, <3>4
      <4> QED BY <1>11, <3>1, <4>1
    <3> QED BY <1>5, <3>2, <3>3, <3>4
  <2> QED BY <1>5, <2>1, <2>2, <2>3
<1> QED BY <1>3, <1>8, <1>9, <1>15 DEF Collected, Sorts

\* A component more, that belongs to the other list.
LEMMA NoneCollected ==
    ASSUME NEW P, NEW C, Listed(P, C), NEW k \in 1..Len(C), NEW s, NEW placed \in BOOLEAN,
           Collected(P, C, k - 1, s, placed), ~(dict_order(P, C[k][2]) # 0 <=> placed)
    PROVE  Collected(P, C, k, s, placed)
<1>1. Len(C) \in Nat BY DEF Listed
<1>2. \A m \in 1..k : m = k \/ m \in 1..k-1 BY <1>1
<1>3. \A m \in 1..k-1 : m \in 1..k BY <1>1
<1> QED BY <1>2, <1>3 DEF Collected

\* What a component does to the two lists.
TakesOne(P, C, k, x) ==
    IF dict_order(P, C[k][2]) = 0
    THEN [x EXCEPT !.not_ordered = Append(@, C[k])]
    ELSE [x EXCEPT !.final = Inserted(P, @, C[k])]
Nothing == [final |-> << >>, not_ordered |-> << >>]

\* There are such lists for any number of components.
LEMMA TakenStepwise ==
    ASSUME NEW P, NEW C, NEW n \in Nat, n = Len(C)
    PROVE  /\ Taken(P, C)[0] = Nothing
           /\ \A k \in 1..n : Taken(P, C)[k] = TakesOne(P, C, k, Taken(P, C)[k-1])
<1> DEFINE Step(h) == [k \in 0..n |-> IF k = 0 THEN Nothing ELSE TakesOne(P, C, k, h[k-1])]
           f == CHOOSE f : f = Step(f)
           Does(w, m) == /\ w = [k \in 0..m |-> w[k]] /\ w[0] = Nothing
                         /\ \A k \in 1..m : w[k] = TakesOne(P, C, k, w[k-1])
           G == {m \in 0..n : \E w : Does(w, m)}
<1>1. Taken(P, C) = f BY DEF Taken, TakesOne, Nothing
<1>2. 0 \in G
  <2> DEFINE w == [k \in 0..0 |-> Nothing]
  <2>1. Does(w, 0) /\ 0 \in 0..n OBVIOUS
  <2> HIDE DEF Does, w
  <2> QED BY <2>1
<1>3. ASSUME NEW m \in 1..n, m - 1 \in G PROVE m \in G
  <2>1. PICK w : Does(w, m - 1) BY <1>3
  <2> DEFINE v == [k \in 0..m |-> IF k = m THEN TakesOne(P, C, m, w[m-1]) ELSE w[k]]
  <2>2. v = [k \in 0..m |-> v[k]] OBVIOUS
  <2>3. v[0] = Nothing BY <2>1
  <2>4. ASSUME NEW k \in 1..m PROVE v[k] = TakesOne(P, C, k, v[k-1])
    <3>1. k - 1 \in 0..m /\ k - 1 # m /\ k \in 0..m OBVIOUS
    <3>2. v[k-1] = w[k-1] BY <3>1
    <3>3. CASE k = m BY <3>1, <3>2, <3>3
    <3>4. CASE k # m
      <4>1. k \in 1..m-1 BY <3>4
      <4> QED BY <2>1, <3>1, <3>2, <3>4, <4>1
    <3> QED BY <3>3, <3>4
  <2> HIDE DEF v
  <2>5. Does(v, m) /\ m \in 0..n BY <2>2, <2>3, <2>4
  <2> HIDE DEF Does
  <2> QED BY <2>5
<1>4. n \in G
  <2> HIDE DEF G
  <2>1. \A i \in 0..n : i \in G BY <1>2, <1>3, FromZero
  <2> QED BY <2>1
<1>5. PICK w : Does(w, n) BY <1>4
<1>6. w = Step(w)
  <2>1. \A k \in 0..n : w[k] = Step(w)[k]
    <3> SUFFICES ASSUME NEW k \in 0..n PROVE w[k] = IF k = 0 THEN Nothing ELSE TakesOne(P, C, k, w[k-1]) OBVIOUS
    <3>1. k = 0 \/ k \in 1..n OBVIOUS
    <3>2. k \in 1..n => k # 0 OBVIOUS
    <3> QED BY <1>5, <3>1, <3>2
  <2>2. w = [k \in 0..n |-> w[k]] BY <1>5
  <2>3. Step(w) = [k \in 0..n |-> Step(w)[k]] OBVIOUS
  <2> HIDE DEF Step, Does
  <2> QED BY <2>1, <2>2, <2>3
<1>7. f = Step(f)
  <2> HIDE DEF Step
  <2> QED BY <1>6
<1>8. f[0] = Nothing /\ \A k \in 1..n : f[k] = TakesOne(P, C, k, f[k-1])
  <2> HIDE DEF f
  <2>1. \A k \in 0..n : f[k] = Step(f)[k] BY <1>7
  <2>2. \A k \in 1..n : k \in 0..n /\ k # 0 OBVIOUS
  <2> QED BY <2>1, <2>2
<1> QED BY <1>1, <1>8

\* The lists after so many components.
Lists(P, C, k, x) ==
    /\ x = [final |-> x.final, not_ordered |-> x.not_ordered]
    /\ Collected(P, C, k, x.final, TRUE) /\ Collected(P, C, k, x.not_ordered, FALSE)
    /\ Len(x.final) + Len(x.not_ordered) = k

LEMMA ListsAre ==
    ASSUME NEW P, NEW C, NEW k, NEW f, NEW g, Collected(P, C, k, f, TRUE), Collected(P, C, k, g, FALSE),
           Len(f) + Len(g) = k
    PROVE  Lists(P, C, k, [final |-> f, not_ordered |-> g])
<1> DEFINE x == [final |-> f, not_ordered |-> g]
<1>1. x.final = f /\ x.not_ordered = g /\ x = [final |-> x.final, not_ordered |-> x.not_ordered] OBVIOUS
<1> HIDE DEF x
<1>2. Lists(P, C, k, x) BY <1>1 DEF Lists
<1> QED BY <1>2 DEF x

LEMMA OneTaken ==
    ASSUME NEW P, NEW C, Listed(P, C), NEW k \in 1..Len(C), NEW x, Lists(P, C, k - 1, x)
    PROVE  Lists(P, C, k, TakesOne(P, C, k, x))
<1> DEFINE S == STRING \X STRING
           c == C[k]
           f == x.final
           g == x.not_ordered
<1>1. /\ x = [final |-> f, not_ordered |-> g] /\ Collected(P, C, k - 1, f, TRUE) /\ Collected(P, C, k - 1, g, FALSE)
      /\ Len(f) + Len(g) = k - 1
  BY DEF Lists
<1>2. f \in Seq(S) /\ g \in Seq(S) BY <1>1 DEF Collected
<1>3. P \in Seq(STRING) /\ C \in Seq(S) BY DEF Listed
<1>4. c \in S BY <1>3
<1>5. Len(f) \in Nat /\ Len(g) \in Nat BY <1>2
<1> HIDE DEF S
<1>6. CASE dict_order(P, c[2]) = 0
  <2> DEFINE u == Append(g, c)
             j == Len(g) + 1
  <2>1. TakesOne(P, C, k, x) = [final |-> f, not_ordered |-> u] BY <1>1, <1>6 DEF TakesOne
  <2>2. u \in Seq(S) /\ PutIn(u, g, j, c) BY <1>2, <1>4, AppendPutsIn
  <2>3. \A i \in 1..Len(g) : dict_order(P, g[i][2]) = 0 BY <1>1 DEF Collected
  <2>4. \A i \in 1..Len(g) : i < j => dict_order(P, g[i][2]) <= dict_order(P, c[2]) BY <1>6, <2>3
  <2>5. j \in 1..Len(g)+1 /\ ~(j <= Len(g)) BY <1>5
  <2>6. Len(u) = Len(g) + 1 BY <2>2 DEF PutIn
  <2> HIDE DEF u, j
  <2>7. Collected(P, C, k, u, FALSE) BY <1>1, <1>6, <2>2, <2>4, <2>5, OneCollected DEF S
  <2>8. Collected(P, C, k, f, TRUE) BY <1>1, <1>6, NoneCollected
  <2>9. Len(f) + Len(u) = k BY <1>1, <1>5, <2>6
  <2> QED BY <2>1, <2>7, <2>8, <2>9, ListsAre
<1>7. CASE dict_order(P, c[2]) # 0
  <2> DEFINE u == Inserted(P, f, c)
  <2>1. TakesOne(P, C, k, x) = [final |-> u, not_ordered |-> g] BY <1>1, <1>7 DEF TakesOne
  <2>2. u \in Seq(S) BY <1>2, <1>3, <1>4, GoesIn
  <2>3. PICK j \in 1..Len(f)+1 :
            /\ PutIn(u, f, j, c)
            /\ \A i \in 1..Len(f) : i < j => dict_order(P, f[i][2]) <= dict_order(P, c[2])
            /\ j <= Len(f) => dict_order(P, c[2]) < dict_order(P, f[j][2])
    BY <1>2, <1>3, <1>4, GoesIn
  <2>4. Len(u) = Len(f) + 1 BY <2>3 DEF PutIn
  <2> HIDE DEF u
  <2>5. Collected(P, C, k, u, TRUE) BY <1>1, <1>7, <2>2, <2>3, OneCollected DEF S
  <2>6. Collected(P, C, k, g, FALSE) BY <1>1, <1>7, NoneCollected
  <2>7. Len(u) + Len(g) = k BY <1>1, <1>5, <2>4
  <2> QED BY <2>1, <2>5, <2>6, <2>7, ListsAre
<1> QED BY <1>6, <1>7

LEMMA AllTaken ==
    ASSUME NEW P, NEW C, Listed(P, C)
    PROVE  Lists(P, C, Len(C), Taken(P, C)[Len(C)])
<1> DEFINE n == Len(C)
           t == Taken(P, C)
           G == {k \in 0..n : Lists(P, C, k, t[k])}
<1>1. n \in Nat BY DEF Listed
<1>2. t[0] = Nothing /\ \A k \in 1..n : t[k] = TakesOne(P, C, k, t[k-1]) BY <1>1, TakenStepwise
<1> HIDE DEF t
<1>3. Lists(P, C, 0, Nothing) /\ 0 \in 0..n
  <2> DEFINE e == << >>
  <2>1. /\ e \in Seq(STRING \X STRING) /\ Len(e) = 0 /\ 1..Len(e) = {} /\ 1..0 = {}
    OBVIOUS
  <2>n. Nothing = [final |-> e, not_ordered |-> e] BY DEF Nothing
  <2> HIDE DEF e
  <2>2. Collected(P, C, 0, e, TRUE) /\ Collected(P, C, 0, e, FALSE) BY <2>1 DEF Collected, Sorts
  <2>3. Len(e) + Len(e) = 0 BY <2>1
  <2>4. Lists(P, C, 0, Nothing) BY <2>n, <2>2, <2>3, ListsAre
  <2> QED BY <1>1, <2>4
<1>4. 0 \in G BY <1>2, <1>3
<1>5. ASSUME NEW k \in 1..n, k - 1 \in G PROVE k \in G
  <2>1. Lists(P, C, k - 1, t[k-1]) /\ k \in 0..n BY <1>5, <1>1
  <2>2. Lists(P, C, k, TakesOne(P, C, k, t[k-1])) BY <2>1, OneTaken
  <2> QED BY <1>2, <2>1, <2>2
<1>6. n \in G
  <2> HIDE DEF G
  <2>1. \A i \in 0..n : i \in G BY <1>1, <1>4, <1>5, FromZero
  <2> QED BY <1>1, <2>1
<1> QED BY <1>6 DEF t

Together(x, s) == s = x.final \o x.not_ordered

\* The lists together are all components in the order of CMake.
LEMMA PutTogether ==
    ASSUME NEW P, NEW C, Listed(P, C), NEW x, Lists(P, C, Len(C), x), NEW s, Together(x, s)
    PROVE  /\ s \in Seq(STRING \X STRING) /\ Len(s) = Len(C) /\ Sorts(P, C, s)
           /\ \A i \in 1..Len(s) : \E m \in 1..Len(C) : s[i] = C[m]
           /\ \A m \in 1..Len(C) : \E i \in 1..Len(s) : s[i] = C[m]
<1> DEFINE n == Len(C)
           f == x.final
           g == x.not_ordered
<1>s. s = f \o g BY DEF Together
<1>1. Collected(P, C, n, f, TRUE) /\ Collected(P, C, n, g, FALSE) /\ Len(f) + Len(g) = n BY DEF Lists
<1>2. f \in Seq(STRING \X STRING) /\ g \in Seq(STRING \X STRING) BY <1>1 DEF Collected
<1> HIDE DEF f, g
<1>3. /\ s \in Seq(STRING \X STRING) /\ Len(f) \in Nat /\ Len(g) \in Nat /\ Len(s) = Len(f) + Len(g)
      /\ \A i \in 1..Len(f) : s[i] = f[i]
      /\ \A i \in 1..Len(g) : s[Len(f) + i] = g[i]
  BY <1>2, <1>s, Cat
<1> DEFINE a == Len(f)
           b == Len(g)
<1>4. a \in Nat /\ b \in Nat /\ Len(s) = a + b BY <1>3
<1>5. /\ \A i \in 1..a : s[i] = f[i]
      /\ \A i \in 1..b : s[a + i] = g[i]
  BY <1>3
<1>6. /\ \A i \in 1..a : (\E m \in 1..n : f[i] = C[m]) /\ dict_order(P, f[i][2]) # 0
      /\ \A i \in 1..b : (\E m \in 1..n : g[i] = C[m]) /\ dict_order(P, g[i][2]) = 0
      /\ \A m \in 1..n : dict_order(P, C[m][2]) # 0 => \E i \in 1..a : f[i] = C[m]
      /\ \A m \in 1..n : dict_order(P, C[m][2]) = 0 => \E i \in 1..b : g[i] = C[m]
      /\ \A i, j \in 1..a : i < j => Earlier(P, C, f[i], f[j])
      /\ \A i, j \in 1..b : i < j => Earlier(P, C, g[i], g[j])
  BY <1>1 DEF Collected, Sorts
<1> HIDE DEF a, b, n
<1>7. \A i \in 1..a+b : i \in 1..a \/ (i - a \in 1..b /\ a + (i - a) = i) BY <1>4
<1>8. (\A i \in 1..a : i \in 1..a+b) /\ (\A i \in 1..b : a + i \in 1..a+b) BY <1>4
<1>9. ASSUME NEW i \in 1..a+b PROVE \E m \in 1..n : s[i] = C[m]
  <2>1. CASE i \in 1..a
    <3>1. s[i] = f[i] BY <1>5, <2>1
    <3> QED BY <1>6, <2>1, <3>1
  <2>2. CASE i - a \in 1..b /\ a + (i - a) = i
    <3>1. s[i] = g[i-a] BY <1>5, <2>2
    <3> QED BY <1>6, <2>2, <3>1
  <2> QED BY <1>7, <2>1, <2>2
<1>10. ASSUME NEW m \in 1..n PROVE \E i \in 1..a+b : s[i] = C[m]
  <2>1. CASE dict_order(P, C[m][2]) # 0
    <3>1. PICK i \in 1..a : f[i] = C[m] BY <1>6, <2>1
    <3> QED BY <1>5, <1>8, <3>1
  <2>2. CASE dict_order(P, C[m][2]) = 0
    <3>1. PICK i \in 1..b : g[i] = C[m] BY <1>6, <2>2
    <3> QED BY <1>5, <1>8, <3>1
  <2> QED BY <2>1, <2>2
<1>11. ASSUME NEW i \in 1..a+b, NEW j \in 1..a+b, i < j PROVE Earlier(P, C, s[i], s[j])
  <2>1. CASE i \in 1..a /\ j \in 1..a BY <1>5, <1>6, <1>11, <2>1
  <2>2. CASE i - a \in 1..b /\ a + (i - a) = i /\ j - a \in 1..b /\ a + (j - a) = j
    <3>1. s[i] = g[i-a] /\ s[j] = g[j-a] BY <1>5, <2>2
    <3>2. i - a < j - a BY <1>4, <1>11
    <3> QED BY <1>6, <2>2, <3>1, <3>2
  <2>3. CASE i \in 1..a /\ j - a \in 1..b /\ a + (j - a) = j
    <3>1. s[i] = f[i] /\ s[j] = g[j-a] BY <1>5, <2>3
    <3>2. dict_order(P, s[i][2]) # 0 /\ dict_order(P, s[j][2]) = 0 BY <1>6, <2>3, <3>1
    <3>3. dict_order(P, s[i][2]) \in 0..Len(P) /\ Len(P) \in Nat BY PlaceIs DEF Listed
    <3>4. Place(P, s[i]) < Place(P, s[j])
      <4> DEFINE p == dict_order(P, s[i][2])
      <4>1. Place(P, s[i]) = p /\ Place(P, s[j]) = Len(P) + 1 BY <3>2 DEF Place
      <4>2. p \in 0..Len(P) /\ Len(P) \in Nat BY <3>3
      <4> HIDE DEF p
      <4> QED BY <4>1, <4>2
    <3> QED BY <3>4 DEF Earlier
  <2>4. ~(i - a \in 1..b /\ j \in 1..a) BY <1>4, <1>11
  <2> QED BY <1>7, <2>1, <2>2, <2>3, <2>4
<1>12. Len(s) = n BY <1>1, <1>3 DEF n
<1> QED BY <1>3, <1>4, <1>9, <1>10, <1>11, <1>12 DEF n, Sorts

\* So what sort_components.py prints is in the order of the priority file.
LEMMA SortedInOrder ==
    ASSUME NEW P \in Seq(STRING), NEW C \in Seq(STRING \X STRING), Distinct(C)
    PROVE  InOrder(P, C, SortComponents(P, C))
<1> DEFINE n == Len(C)
           x == Taken(P, C)[n]
           s == x.final \o x.not_ordered
<1>1. Listed(P, C) /\ n \in Nat BY DEF Listed
<1>2. Lists(P, C, n, x) BY <1>1, AllTaken
<1>3. SortComponents(P, C) = s BY DEF SortComponents
<1> HIDE DEF x
<1>4. /\ s \in Seq(STRING \X STRING) /\ Len(s) = n /\ Sorts(P, C, s)
      /\ \A i \in 1..Len(s) : \E m \in 1..n : s[i] = C[m]
      /\ \A m \in 1..n : \E i \in 1..Len(s) : s[i] = C[m]
  <2>1. Together(x, s) BY DEF Together
  <2> HIDE DEF s, n
  <2>2. Lists(P, C, Len(C), x) BY <1>2 DEF n
  <2> QED BY <1>1, <2>1, <2>2, PutTogether DEF n
<1> HIDE DEF s
<1>5. \A m \in 1..n : Position(C, C[m]) = m BY FoundAt
<1>6. \A i \in 1..n : Position(C, s[i]) \in Nat /\ Place(P, s[i]) \in Nat
  <2> SUFFICES ASSUME NEW i \in 1..n PROVE Position(C, s[i]) \in Nat /\ Place(P, s[i]) \in Nat OBVIOUS
  <2>1. PICK m \in 1..n : s[i] = C[m] BY <1>4
  <2>2. Position(C, s[i]) \in Nat BY <1>5, <2>1
  <2>3. Place(P, s[i]) \in Nat BY PlacesCompare
  <2> QED BY <2>2, <2>3
<1>7. ASSUME NEW i \in 1..n, NEW j \in 1..n, Earlier(P, C, s[i], s[j]) PROVE i < j
  <2>1. ~Earlier(P, C, s[j], s[i]) BY <1>6, <1>7 DEF Earlier
  <2>2. i # j BY <1>7, <2>1
  <2>3. ~(j < i) BY <1>4, <2>1 DEF Sorts
  <2> QED BY <2>2, <2>3
<1>8. Distinct(s)
  <2> SUFFICES ASSUME NEW i \in 1..n, NEW j \in 1..n, s[i] = s[j] PROVE i = j BY <1>4 DEF Distinct
  <2>1. ~Earlier(P, C, s[i], s[i]) BY <1>6 DEF Earlier
  <2>2. ~(i < j) /\ ~(j < i) BY <1>4, <2>1 DEF Sorts
  <2> QED BY <2>2
<1>9. \A i \in 1..n : Position(s, s[i]) = i BY <1>4, <1>8, FoundAt
<1>10. ToSet(C) = {C[m] : m \in 1..n} /\ ToSet(s) = {s[i] : i \in 1..n}
  <2>1. DOMAIN C = 1..n BY LenProperties
  <2>2. DOMAIN s = 1..n BY <1>4, LenProperties
  <2> QED BY <2>1, <2>2 DEF ToSet
<1>11. ToSet(s) = ToSet(C) BY <1>4, <1>10
<1>12. ASSUME NEW c \in ToSet(C), NEW d \in ToSet(C), Earlier(P, C, c, d)
       PROVE  Position(s, c) < Position(s, d)
  <2>1. PICK i \in 1..n : c = s[i] BY <1>10, <1>11
  <2>2. PICK j \in 1..n : d = s[j] BY <1>10, <1>11
  <2>3. i < j BY <1>7, <1>12, <2>1, <2>2
  <2>4. Position(s, c) = i /\ Position(s, d) = j BY <1>9, <2>1, <2>2
  <2> QED BY <2>3, <2>4
<1>13. InOrder(P, C, s) BY <1>4, <1>11, <1>12 DEF InOrder, Earlier, Place, Position
<1> QED BY <1>3, <1>13

----------------------------------------------------------------------------
(* The theorems.                                                           *)

\* Whatever commands project.py is given and wherever they are killed: what a step finds is what the steps
\* before it in its command left, the files that do not make cmake run again are those the makefiles were made
\* for, the saved configuration is the wanted one, and the version file is whole unless a kill says otherwise.
THEOREM ProjectInvariant == Spec => []IInv
<1>1. Init => IInv BY InitHolds
<1>2. IInv /\ [Next]_vars => IInv'
  <2> SUFFICES ASSUME IInv, [Next]_vars PROVE IInv' OBVIOUS
  <2>1. CASE Run BY <2>1, RunKeeps
  <2>2. CASE Commit BY <2>2, CommitKeeps
  <2>3. CASE WriteConf BY <2>3, WriteConfKeeps
  <2>4. CASE RemoveSaved BY <2>4, RemoveSavedKeeps
  <2>5. CASE LoadConfig BY <2>5, LoadConfigKeeps
  <2>6. CASE WriteMk BY <2>6, WriteMkKeeps
  <2>7. CASE WriteCmake BY <2>7, WriteCmakeKeeps
  <2>8. CASE WriteHeader BY <2>8, WriteHeaderKeeps
  <2>9. CASE UiEdit BY <2>9, UiEditKeeps
  <2>10. CASE UiSave BY <2>10, UiSaveKeeps
  <2>11. CASE UiQuit BY <2>11, UiQuitKeeps
  <2>12. CASE Generate BY <2>12, GenerateKeeps
  <2>13. CASE GenerateFails BY <2>13, GenerateFailsKeeps
  <2>14. CASE CheckBuildSystem BY <2>14, CheckBuildSystemKeeps
  <2>15. CASE UpdateInfo BY <2>15, UpdateInfoKeeps
  <2>16. CASE Compile BY <2>16, CompileKeeps
  <2>17. CASE CompileFails BY <2>17, CompileFailsKeeps
  <2>18. CASE MakeClean BY <2>18, MakeCleanKeeps
  <2>19. CASE RemoveBuild BY <2>19, RemoveBuildKeeps
  <2>20. CASE RemoveConf BY <2>20, RemoveConfKeeps
  <2>21. CASE RemoveBuildConfig BY <2>21, RemoveBuildConfigKeeps
  <2>22. CASE WriteFlashConf BY <2>22, WriteFlashConfKeeps
  <2>23. CASE Flash BY <2>23, FlashKeeps
  <2>24. CASE FlashFails BY <2>24, FlashFailsKeeps
  <2>25. CASE RemoveFlashConf BY <2>25, RemoveFlashConfKeeps
  <2>26. CASE Finish BY <2>26, FinishKeeps
  <2>27. CASE Kill BY <2>27, KillKeeps
  <2>28. CASE UNCHANGED vars BY <2>28, NothingMovesKeeps
  <2> QED BY <2>1, <2>2, <2>3, <2>4, <2>5, <2>6, <2>7, <2>8, <2>9, <2>10, <2>11, <2>12, <2>13, <2>14, <2>15,
             <2>16, <2>17, <2>18, <2>19, <2>20, <2>21, <2>22, <2>23, <2>24, <2>25, <2>26, <2>27, <2>28 DEF Next
<1> QED BY <1>1, <1>2, PTL DEF Spec

\* What is compiled is compiled for one configuration: the header that the C sources see is the one written with
\* the global_config.cmake by which CMake chose toolchain and components, except for a header cut off by a
\* second kill.
THEOREM CompiledForOneConfiguration == Spec => []OneConfiguration
<1>1. IInv => OneConfiguration
  <2> SUFFICES ASSUME IInv PROVE OneConfiguration OBVIOUS
  <2>1. Now("compile") => At = "compile" BY NowAt DEF IInv, Types
  <2>2. disk.objects.header \in {disk.objects.made, TornFile} BY DEF IInv, Coherent
  <2>3. At = "compile" => disk.cmake # NoFile /\ ~disk.newer /\ disk.makefile = disk.cmake BY DEF IInv, Control
  <2>4. At = "compile" => disk.header = disk.makefile \/ "left" \in hurt BY <2>3 DEF IInv, Coherent
  <2> QED BY <2>1, <2>2, <2>4 DEF OneConfiguration
<1> QED BY <1>1, ProjectInvariant, PTL

\* A rebuild is made for the configuration last saved in the menu or the toolchain last configured, unless a kill
\* or edits left unsaved have upset the files that say so, and so is a build that does not come after a toolchain
\* was configured for which cmake has not run; the next build or rebuild with nothing changed between compiles
\* nothing again, if what the one before found was saved and not upset.
THEOREM BuildsWhatIsWanted == Spec => []BuildsJustThat
<1>1. IInv => BuiltAsWanted
  <2> SUFFICES ASSUME IInv, Built, hurt \cap {"menu", "tool"} = {}, ~(done.cmd = "build" /\ disk.mk = NoFile)
               PROVE  /\ disk.objects.made.tool = wanted.tool
                      /\ wanted.opt # Unset => disk.objects.made.opt = wanted.opt
    BY DEF BuiltAsWanted
  <2>1. Idle /\ IsBuild(done.cmd) BY DEF Built
  <2>2. At = "end" BY <2>1, Resting
  <2>3. /\ disk.cmake # NoFile /\ disk.makefile = disk.cmake /\ disk.objects.made = disk.makefile
        /\ done.cmd = "rebuild" => disk.mk # NoFile
    BY <2>1 DEF IInv, AtRest
  <2>4. disk.mk # NoFile BY <2>1, <2>3 DEF IsBuild
  <2>5. "menu" \notin hurt /\ "tool" \notin hurt OBVIOUS
  <2>6. IsConfig(disk.mk) BY <2>4, <2>5 DEF IInv, Types, Saved
  <2>7. Agrees(disk.mk, wanted) /\ disk.cmake = disk.mk BY <2>2, <2>3, <2>4, <2>5, <2>6 DEF IInv, Saved
  <2> QED BY <2>3, <2>7 DEF Agrees
<1>2. IInv => NothingRecompiled
  <2> SUFFICES ASSUME IInv, Now("compile"), IsBuild(done.cmd), done.saved, done.hurt \subseteq {"flash"}
               PROVE  ~Outdated
    BY DEF NothingRecompiled
  <2>1. Flow(todo) /\ Len(todo) > 1 BY DEF IInv, Types, Now
  <2>2. At = "compile" BY <2>1, NowAt
  <2>3. Cmd(todo) \in {"build", "rebuild"} BY <2>1, <2>2, OnCourse DEF Course
  <2>4. todo # << >> BY <2>1
  <2>5. Building BY <2>3, <2>4 DEF Building, Idle
  <2>6. ~disk.touched /\ disk.objects.made = disk.mk /\ disk.makefile = disk.mk BY <2>5 DEF IInv, Settled
  <2> QED BY <2>6 DEF Outdated
<1>3. IInv => BuildsJustThat BY <1>1, <1>2 DEF BuildsJustThat
<1> QED BY <1>3, ProjectInvariant, PTL

\* After a build global_build_info_version.h ends in one block, with the numbers, the commit and the mark of the
\* repository as git describe gave them and update_build_info.py read them, and has nothing else, but for the first
\* build after an update that was cut off within the file: there the piece that was left stands before the block,
\* without an end, so that the update after that removes it.
THEOREM ReportsTheVersion == Spec => []VersionReported
<1>1. IInv => VersionReported
  <2> SUFFICES ASSUME IInv, Built PROVE VersionReported BY DEF VersionReported
  <2>1. Idle /\ IsBuild(done.cmd) BY DEF Built
  <2>2. Reports(disk.version, repo, hurt) BY <2>1 DEF IInv, AtRest
  <2> QED BY <2>2 DEF VersionReported, Reports, Block
<1> QED BY <1>1, ProjectInvariant, PTL

\* flash.py flashes with the port and baud rate last given, of this command or of one before whose settings are in
\* .flash.conf.json, unless a kill came before they were saved.
THEOREM FlashesAsAsked == Spec => []FlashAsAsked
<1>1. IInv => FlashAsAsked
  <2> SUFFICES ASSUME IInv, Now("flash"), "flash" \notin hurt PROVE args.flash = asked
    BY DEF FlashAsAsked
  <2>1. At = "flash" BY NowAt DEF IInv, Types
  <2> QED BY <2>1 DEF IInv, AsksFlash
<1> QED BY <1>1, ProjectInvariant, PTL

\* The components that CMake takes are all that were found, once each, in the order of the priority file; those
\* the file does not name come last, as they were found.
THEOREM ComponentsInOrder == Spec => []OrderedByPriority
<1>1. IInv => OrderedByPriority
  <2> SUFFICES ASSUME IInv, disk.order # << >>
               PROVE  InOrder(project.priority, project.components, disk.order)
    BY DEF OrderedByPriority
  <2>1. disk.order = SortComponents(project.priority, project.components) BY DEF IInv, Sorted
  <2>2. project \in ToSet(Projects) BY DEF IInv, Types
  <2>3. /\ project.priority \in Seq(STRING) /\ project.components \in Seq(STRING \X STRING)
        /\ \A i, j \in DOMAIN project.components : project.components[i] = project.components[j] => i = j
    BY <2>2, ProjectsAssumption
  <2>4. DOMAIN project.components = 1..Len(project.components) BY <2>3, LenProperties
  <2>5. Distinct(project.components) BY <2>3, <2>4 DEF Distinct
  <2> QED BY <2>1, <2>3, <2>5, SortedInOrder
<1> QED BY <1>1, ProjectInvariant, PTL

----------------------------------------------------------------------------
(* The search for dependency loops.                                        *)
(*                                                                         *)
(* A mark 2 has to mean that everything an item leads to is marked too.    *)
(* It does not while calls are under way: a choice is marked 2 before the  *)
(* symbol that entered it, and a symbol called for by its choice does not  *)
(* look into the choice at all.  LoopIInv says what each call has been     *)
(* through, and Behind that what is finished closes no circle; a circle    *)
(* that is closed later is met, for one of its items is under way.         *)

\* What a call is.
Calls == [item : Items_, todo : SUBSET Items_, in : Items_ \cup {None_}]

\* Every variable has its type, and the graph is one of a configuration.
LoopTypeOK ==
    /\ IsGraph(graph)
    /\ visited \in [Items_ -> {0, 1, 2}]
    /\ stack \in Seq(Calls)
    /\ loop \in Seq(Items_)

\* Calls under way are those in progress, each item in one of them.
OnStack ==
    /\ \A i \in Items_ : visited[i] = 1 => \E k \in DOMAIN stack : stack[k].item = i
    /\ \A k \in DOMAIN stack : visited[stack[k].item] = 1
    /\ \A k, l \in DOMAIN stack : stack[k].item = stack[l].item => k = l

\* Call k has called for j: a dependent, the choice of its symbol, or a symbol of its choice, then not
\* the choice again.
Calling(k, j) ==
    LET i == stack[k].item
    IN IF i \in Chos_ THEN j \in graph.members[i] /\ j \notin stack[k].todo
       ELSE \/ j \in graph.dep[i] /\ j \notin stack[k].todo
            \/ j = ChoiceOf(i) /\ j \in Chos_ /\ stack[k].todo = {} /\ stack[k].in = None_

\* Call k is for a symbol of the choice whose call is below it.
Under(k) == k > 1 /\ stack[k].item \in Symbols_ /\ stack[k-1].item = ChoiceOf(stack[k].item)

\* What the call of an item has still to do, what it has called for, and that a symbol called for by its
\* choice does not enter the choice.
Frames ==
    \A k \in DOMAIN stack :
        /\ stack[k].item \in Chos_ => /\ stack[k].todo \subseteq graph.members[stack[k].item]
                                      /\ stack[k].in = None_
        /\ stack[k].item \in Symbols_ => /\ stack[k].todo \subseteq graph.dep[stack[k].item]
                                         /\ stack[k].in \in {None_, ChoiceOf(stack[k].item)}
        /\ k < Len(stack) => Calling(k, stack[k+1].item)
        /\ Under(k) => /\ stack[k].in = None_
                       /\ k < Len(stack) => stack[k+1].item \in graph.dep[stack[k].item]

\* Nothing is left to be searched of a group.
Finished(i) == IF i \in Chos_ THEN visited[i] = 2 /\ \A m \in graph.members[i] : visited[m] = 2
               ELSE visited[i] = 2

\* The group of an item.
PG(i) == PlainGroup(i)

\* What a symbol's call has been through is finished, but for the call it has made.
SymbolFrames ==
    \A k \in DOMAIN stack : stack[k].item \in Symbols_ =>
       /\ \A v \in graph.dep[stack[k].item] :
             v \in stack[k].todo \/ Finished(PG(v)) \/ (k < Len(stack) /\ v = stack[k+1].item)
       /\ LET c == ChoiceOf(stack[k].item)
          IN c # None_ /\ stack[k].in = None_ /\ ~Under(k) =>
              /\ stack[k].todo = {}
              /\ k < Len(stack) => stack[k+1].item = c
              /\ k = Len(stack) => visited[c] = 2 /\ \A m \in graph.members[c] : m # stack[k].item => visited[m] = 2

\* Call k, of a choice, was made by one of its symbols, which comes to its end with it.
Entered(k) == k > 1 /\ stack[k-1].in = None_ /\ stack[k-1].todo = {} /\ stack[k-1].item \in graph.members[stack[k].item]

\* So is what a choice's call has been through; a choice that is a dependent of nothing was entered through
\* one of its symbols.
ChoiceFrames ==
    \A k \in DOMAIN stack : stack[k].item \in Chos_ =>
       LET c == stack[k].item
       IN /\ \A m \in graph.members[c] :
                 \/ m \in stack[k].todo
                 \/ visited[m] = 2
                 \/ k < Len(stack) /\ m = stack[k+1].item
                 \/ Entered(k) /\ m = stack[k-1].item
          /\ Entered(k) => c \notin graph.dep[stack[k-1].item]
          /\ Entered(k) => stack[k-1].item \notin stack[k].todo
          /\ Plain(c) => Entered(k)

\* The symbol that entered choice c is about to be marked 2, the last of them.
Returning(c) ==
    /\ stack # << >>
    /\ frame.item \in graph.members[c] /\ frame.todo = {} /\ frame.in = None_
    /\ \A m \in graph.members[c] : m # frame.item => visited[m] = 2

\* What a mark of a choice says of its symbols, and theirs of it.
Marks ==
    \A c \in Chos_ :
       /\ visited[c] = 2 => Finished(c) \/ Returning(c)
       /\ \A m \in graph.members[c] : visited[m] = 2 => visited[c] # 0
       /\ Plain(c) => \A m \in graph.members[c] : visited[m] = 2 =>
              Finished(c) \/ Returning(c) \/ (stack # << >> /\ frame.item = c /\ frame.todo = {})

\* One step of the search, from group to group.
LeadsTo(a, b) == \E i \in Items_ : PG(i) = a /\ \E j \in Searched(i) : PG(j) = b

\* What depends on a finished item is finished, and no set of finished groups closes a circle.
Behind ==
    /\ \A s \in Symbols_ : visited[s] = 2 => \A v \in graph.dep[s] : Finished(PG(v))
    /\ \A S \in SUBSET Items_ : S # {} /\ (\A a \in S : Finished(a)) => \E a \in S : \A b \in S : ~LeadsTo(a, b)

\* While no loop has been met.
Searching == OnStack /\ Frames /\ SymbolFrames /\ ChoiceFrames /\ Marks /\ Behind

\* What a reported loop has next to each other.
Near(i, j) == j \in graph.dep[i] \/ Group(i) = Group(j)

\* After a loop has been met: the calls still under way lead to the item where it starts, and those that have
\* returned are in what is reported.
Reporting ==
    /\ Circle
    /\ \E k \in DOMAIN stack : stack[k].item = loop[1]
    /\ \A k \in DOMAIN stack : k < Len(stack) => Near(stack[k].item, stack[k+1].item)
    /\ stack # << >> => Near(frame.item, loop[Len(loop)])
    /\ \A k \in DOMAIN loop : k < Len(loop) => Near(loop[k+1], loop[k])

\* The inductive invariant.
LoopIInv == LoopTypeOK /\ (loop = << >> => Searching) /\ (loop # << >> => Reporting)

\* Choices and their symbols.
LEMMA GraphFacts ==
    ASSUME IsGraph(graph)
    PROVE  /\ Chos_ \subseteq Items_ /\ Symbols_ = Items_ \ Chos_ /\ None_ \notin Items_
           /\ \A i \in Items_ : graph.dep[i] \subseteq Items_
           /\ \A c \in Chos_ : graph.members[c] \subseteq Symbols_
           /\ \A s : ChoiceOf(s) # None_ => ChoiceOf(s) \in Chos_ /\ s \in graph.members[ChoiceOf(s)]
           /\ \A c \in Chos_ : ChoiceOf(c) = None_
           /\ \A c \in Chos_ : \A s \in graph.members[c] : ChoiceOf(s) = c
<1>1. /\ Chos_ \subseteq Items_ /\ Symbols_ = Items_ \ Chos_ /\ None_ \notin Items_
      /\ \A i \in Items_ : graph.dep[i] \subseteq Items_
      /\ \A c \in Chos_ : graph.members[c] \subseteq Symbols_
  BY DEF IsGraph, Chos_, Items_, Symbols_
<1>2. ASSUME NEW s, ChoiceOf(s) # None_
      PROVE  ChoiceOf(s) \in Chos_ /\ s \in graph.members[ChoiceOf(s)]
  <2>1. \E c \in Chos_ : s \in graph.members[c] BY <1>2 DEF ChoiceOf
  <2>2. ChoiceOf(s) = CHOOSE c \in Chos_ : s \in graph.members[c] BY <2>1 DEF ChoiceOf
  <2> QED BY <2>1, <2>2
<1>3. ASSUME NEW c \in Chos_ PROVE ChoiceOf(c) = None_
  <2>1. ~ \E d \in Chos_ : c \in graph.members[d] BY <1>1, <1>3
  <2> QED BY <2>1 DEF ChoiceOf
<1>4. ASSUME NEW c \in Chos_, NEW s \in graph.members[c] PROVE ChoiceOf(s) = c
  <2>1. ChoiceOf(s) = CHOOSE d \in Chos_ : s \in graph.members[d] BY DEF ChoiceOf
  <2>2. ChoiceOf(s) \in Chos_ /\ s \in graph.members[ChoiceOf(s)] BY <2>1
  <2>3. \A d \in Chos_ : d # c => graph.members[d] \cap graph.members[c] = {}
    BY <1>1 DEF IsGraph, Chos_
  <2> QED BY <2>2, <2>3
<1> QED BY <1>1, <1>2, <1>3, <1>4

\* The groups of choices and symbols.
LEMMA GroupFacts ==
    ASSUME IsGraph(graph)
    PROVE  /\ \A i \in Items_ : PG(i) \in Items_ /\ Group(i) \in Items_
           /\ \A c \in Chos_ : PG(c) = c /\ Group(c) = c
           /\ \A s \in Items_ : PG(s) # s => PG(s) = ChoiceOf(s) /\ Plain(PG(s)) /\ PG(s) \in Chos_
           /\ \A c \in Chos_ : \A s \in graph.members[c] : PG(s) = (IF Plain(c) THEN c ELSE s) /\ Group(s) = c
BY GraphFacts DEF PG, PlainGroup, Group

\* All that depends on the graph only stays as it is.
LEMMA GraphKept ==
    ASSUME graph' = graph
    PROVE  /\ Items_' = Items_ /\ Chos_' = Chos_ /\ Symbols_' = Symbols_
           /\ \A i : ChoiceOf(i)' = ChoiceOf(i)
           /\ \A i : PG(i)' = PG(i)
           /\ \A i : Plain(i)' = Plain(i)
           /\ Circle' = Circle /\ Calls' = Calls
           /\ \A a, b : LeadsTo(a, b)' = LeadsTo(a, b)
           /\ \A i, j : Near(i, j)' = Near(i, j)
<1>1. Items_' = Items_ /\ Chos_' = Chos_ /\ Symbols_' = Symbols_ /\ Calls' = Calls
  BY DEF Items_, Chos_, Symbols_, Calls
<1>2. \A i : ChoiceOf(i)' = ChoiceOf(i) BY DEF ChoiceOf, Chos_
<1>3. \A i : Group(i)' = Group(i) BY <1>1, <1>2 DEF Group
<1>4. \A i : Dependents(i)' = Dependents(i) BY <1>1 DEF Dependents
<1>5. Circle' = Circle
  <2>1. [i \in Items_ |-> Dependents(i)]' = [i \in Items_ |-> Dependents(i)] BY <1>1, <1>4
  <2>2. [i \in Items_ |-> Group(i)]' = [i \in Items_ |-> Group(i)] BY <1>1, <1>3
  <2> QED BY <1>1, <2>1, <2>2 DEF Circle
<1>6. \A i : Plain(i)' = Plain(i) BY <1>1 DEF Plain
<1>7. \A i : PG(i)' = PG(i) BY <1>2, <1>6 DEF PlainGroup, PG
<1>8. \A i : Searched(i)' = Searched(i) BY <1>1, <1>6 DEF Searched
<1>9. \A a, b : LeadsTo(a, b)' = LeadsTo(a, b) BY <1>1, <1>7, <1>8 DEF LeadsTo
<1>10. \A i, j : Near(i, j)' = Near(i, j) BY <1>3 DEF Near
<1> QED BY <1>1, <1>2, <1>5, <1>6, <1>7, <1>9, <1>10

\* What makes a circle.
LEMMA CircleOf ==
    ASSUME NEW S, S # {},
           \A a \in S : \E i \in Items_ : Group(i) = a /\ \E j \in Dependents(i) : j \in Items_ /\ Group(j) \in S
    PROVE  Circle
<1> DEFINE next == [i \in Items_ |-> Dependents(i)]
           group == [i \in Items_ |-> Group(i)]
<1>1. ASSUME NEW a \in S
      PROVE  \E i \in Items_ : next[i] # {} /\ group[i] = a /\ \E j \in next[i] : group[j] \in S
  <2>1. PICK i \in Items_ : Group(i) = a /\ \E j \in Dependents(i) : j \in Items_ /\ Group(j) \in S OBVIOUS
  <2>2. PICK j \in Dependents(i) : j \in Items_ /\ Group(j) \in S BY <2>1
  <2>3. next[i] = Dependents(i) /\ group[i] = a /\ group[j] \in S BY <2>1, <2>2
  <2> QED BY <2>2, <2>3
<1>2. DOMAIN next = Items_ OBVIOUS
<1> HIDE DEF next, group
<1>3. S \in SUBSET {group[i] : i \in {k \in Items_ : next[k] # {}}} BY <1>1
<1>4. Circular(next, group) BY <1>1, <1>2, <1>3 DEF Circular
<1> QED BY <1>4 DEF Circle, next, group

\* An item met again while its own call is under way is part of a loop.
LEMMA MetAgain ==
    ASSUME LoopTypeOK, OnStack, Frames, ChoiceFrames, stack # << >>,
           NEW i \in Items_, visited[i] = 1,
           i \in frame.todo \/ (frame.in = i /\ frame.todo = {})
    PROVE  Circle
<1> DEFINE n == Len(stack)
           It(k) == stack[k].item
           next(k) == IF k = n THEN i ELSE It(k + 1)
           T(k) == next(k) \in Dependents(It(k))
<1>1. n \in Nat /\ n >= 1 /\ DOMAIN stack = 1..n BY DEF LoopTypeOK
<1>2. \A k \in 1..n : /\ It(k) \in Items_ /\ stack[k] \in Calls
                      /\ stack[k].todo \in SUBSET Items_
  <2> TAKE k \in 1..n
  <2>1. stack[k] \in Calls BY <1>1 DEF LoopTypeOK
  <2> QED BY <2>1 DEF Calls
<1>3. \A k, l \in 1..n : It(k) = It(l) => k = l BY <1>1 DEF OnStack
<1>4. \A k \in 1..n : k < n => Calling(k, It(k + 1)) BY <1>1 DEF Frames
<1>5. frame = stack[n] BY DEF frame
<1>6. PICK p \in 1..n : It(p) = i BY <1>1 DEF OnStack
<1>7. \A k \in 1..n : It(k) \in Chos_ => stack[k].todo \subseteq graph.members[It(k)] /\ stack[k].in = None_
  BY <1>1 DEF Frames
<1>8. \A k \in 1..n : It(k) \in Symbols_ => /\ stack[k].todo \subseteq graph.dep[It(k)]
                                            /\ stack[k].in \in {None_, ChoiceOf(It(k))}
  BY <1>1 DEF Frames
<1>9. \A k \in 1..n : Under(k) => /\ stack[k].in = None_
                                  /\ k < n => It(k + 1) \in graph.dep[It(k)]
  BY <1>1 DEF Frames
<1>10. \A k \in 1..n : It(k) \in Chos_ => (Entered(k) => It(k - 1) \notin stack[k].todo)
  BY <1>1 DEF ChoiceFrames
<1> HIDE DEF n
<1>11. IsGraph(graph) BY DEF LoopTypeOK
<1>12. \A k \in 1..n : It(k) \in Chos_ \/ It(k) \in Symbols_ BY <1>2, <1>11, GraphFacts
<1>13. \A s \in Symbols_ : Dependents(s) = graph.dep[s] BY DEF Dependents, Symbols_
<1>14. \A k \in p..n : next(k) \in {It(q) : q \in p..n}
  <2> TAKE k \in p..n
  <2>1. CASE k = n BY <1>1, <1>6, <2>1
  <2>2. CASE k # n
    <3>1. next(k) = It(k + 1) /\ k + 1 \in p..n BY <1>1, <1>6, <2>2
    <3> HIDE DEF It, next
    <3> QED BY <3>1
  <2> QED BY <2>1, <2>2
<1>20. ASSUME NEW k \in p..n, It(k) \in Chos_
       PROVE  \E l \in p..n : Group(It(l)) = It(k) /\ T(l)
  <2>1. CASE k < n
    <3>1. k \in 1..n /\ k + 1 \in p..n /\ k + 1 \in 1..n BY <1>1, <1>6, <2>1
    <3>2. It(k + 1) \in graph.members[It(k)] BY <1>4, <1>20, <2>1, <3>1 DEF Calling
    <3>3. It(k + 1) \in Symbols_ /\ ChoiceOf(It(k + 1)) = It(k) /\ Group(It(k + 1)) = It(k)
      BY <1>11, <1>20, <3>2, GraphFacts, GroupFacts
    <3>4. Under(k + 1) BY <1>6, <3>1, <3>3 DEF Under
    <3>5. T(k + 1)
      <4>1. CASE k + 1 = n
        <5>1. stack[n].in = None_ BY <1>9, <3>1, <3>4, <4>1
        <5>2. i \in stack[n].todo BY <1>5, <1>11, <5>1, GraphFacts
        <5>3. i \in graph.dep[It(k + 1)] BY <1>8, <3>1, <3>3, <4>1, <5>2
        <5> QED BY <1>13, <3>3, <4>1, <5>3
      <4>2. CASE k + 1 # n
        <5>1. k + 1 < n BY <3>1, <4>2, <1>1
        <5>2. It(k + 1 + 1) \in graph.dep[It(k + 1)] BY <1>9, <3>1, <3>4, <5>1
        <5> QED BY <1>13, <3>3, <4>2, <5>2
      <4> QED BY <4>1, <4>2
    <3> HIDE DEF It, T
    <3> QED BY <3>1, <3>3, <3>5
  <2>2. CASE k = n
    <3>1. i \in stack[n].todo /\ i \in graph.members[It(n)]
      BY <1>1, <1>5, <1>7, <1>11, <1>20, <2>2, GraphFacts
    <3>2. i \in Symbols_ /\ ChoiceOf(i) = It(n) /\ Group(i) = It(n) /\ i # It(n)
      BY <1>11, <1>20, <2>2, <3>1, GraphFacts, GroupFacts
    <3>3. p < n /\ p \in 1..n /\ p + 1 \in 1..n /\ p \in p..n BY <1>1, <1>6, <3>2
    <3>4. It(p + 1) \in graph.dep[i]
      <4> SUFFICES ASSUME It(p + 1) \notin graph.dep[i] PROVE FALSE OBVIOUS
      <4>1. It(p + 1) = It(n) /\ stack[p].todo = {} /\ stack[p].in = None_
        BY <1>4, <1>6, <3>2, <3>3 DEF Calling, Symbols_
      <4>2. p + 1 = n BY <1>1, <1>3, <3>3, <4>1
      <4>3. n - 1 = p BY <1>1, <4>2
      <4>4. Entered(n) BY <1>1, <1>6, <3>1, <3>3, <4>1, <4>3 DEF Entered
      <4> QED BY <1>1, <1>6, <1>10, <1>20, <2>2, <3>1, <4>3, <4>4
    <3>5. T(p) BY <1>6, <1>13, <3>2, <3>3, <3>4
    <3> QED BY <1>6, <2>2, <3>2, <3>3, <3>5
  <2>3. k < n \/ k = n BY <1>1, <1>6
  <2> QED BY <2>1, <2>2, <2>3
<1>21. ASSUME NEW k \in p..n
       PROVE  \E l \in p..n : Group(It(l)) = Group(It(k)) /\ T(l)
  <2>0. k \in 1..n BY <1>6
  <2>1. CASE It(k) \in Chos_ BY <1>11, <1>20, <2>1, GroupFacts
  <2>2. CASE It(k) \in Symbols_ /\ k < n
    <3>1. CASE It(k + 1) \in graph.dep[It(k)] BY <1>13, <2>2, <3>1
    <3>2. CASE It(k + 1) = ChoiceOf(It(k)) /\ It(k + 1) \in Chos_
      <4>1. k + 1 \in p..n BY <1>1, <1>6, <2>2
      <4>2. PICK l \in p..n : Group(It(l)) = It(k + 1) /\ T(l) BY <1>20, <3>2, <4>1
      <4>3. Group(It(k)) = It(k + 1) BY <1>11, <3>2, GraphFacts, GroupFacts
      <4> QED BY <4>2, <4>3
    <3> QED BY <1>4, <2>0, <2>2, <3>1, <3>2 DEF Calling, Symbols_
  <2>3. CASE It(k) \in Symbols_ /\ k = n
    <3>1. CASE i \in stack[n].todo BY <1>8, <1>13, <2>0, <2>3, <3>1
    <3>2. CASE stack[n].in = i
      <4>1. i = ChoiceOf(It(n)) /\ i \in Chos_ BY <1>8, <1>11, <2>0, <2>3, <3>2, GraphFacts
      <4>2. PICK l \in p..n : Group(It(l)) = i /\ T(l) BY <1>1, <1>6, <1>20, <4>1
      <4>3. Group(It(n)) = i BY <1>11, <4>1, GraphFacts, GroupFacts
      <4> QED BY <2>3, <4>2, <4>3
    <3> QED BY <1>5, <3>1, <3>2
  <2>4. k < n \/ k = n BY <1>1, <2>0
  <2>5. It(k) \in Chos_ \/ It(k) \in Symbols_ BY <1>12, <2>0
  <2> QED BY <2>1, <2>2, <2>3, <2>4, <2>5
<1> DEFINE S == {Group(It(k)) : k \in p..n}
<1>22. S # {} BY <1>1, <1>6
<1>23. ASSUME NEW a \in S
       PROVE  \E x \in Items_ : Group(x) = a /\ \E j \in Dependents(x) : j \in Items_ /\ Group(j) \in S
  <2>1. PICK k \in p..n : a = Group(It(k)) OBVIOUS
  <2>2. PICK l \in p..n : Group(It(l)) = a /\ T(l) BY <1>21, <2>1
  <2>3. PICK q \in p..n : next(l) = It(q) BY <1>14
  <2>4. l \in 1..n /\ q \in 1..n BY <1>1, <1>6
  <2> HIDE DEF It, next
  <2>5. It(l) \in Items_ /\ It(q) \in Items_ BY <1>2, <2>4
  <2>6. It(q) \in Dependents(It(l)) /\ Group(It(q)) \in S BY <2>2, <2>3
  <2> QED BY <2>2, <2>5, <2>6
<1> HIDE DEF S
<1> QED BY <1>22, <1>23, CircleOf

\* The last element replaced.
LEMMA Topped ==
    ASSUME NEW T, NEW s \in Seq(T), s # << >>, NEW f \in T
    PROVE  /\ [s EXCEPT ![Len(s)] = f] \in Seq(T) /\ Len([s EXCEPT ![Len(s)] = f]) = Len(s)
           /\ \A k \in 1..Len(s) : [s EXCEPT ![Len(s)] = f][k] = IF k = Len(s) THEN f ELSE s[k]
<1>1. Len(s) \in Nat /\ Len(s) >= 1 /\ s \in [1..Len(s) -> T] OBVIOUS
<1> DEFINE n == Len(s)
           b == [s EXCEPT ![n] = f]
<1>2. b \in [1..n -> T] BY <1>1
<1>3. b \in Seq(T) BY <1>1, <1>2
<1>4. Len(b) = n BY <1>1, <1>2, <1>3
<1>5. \A k \in 1..n : b[k] = IF k = n THEN f ELSE s[k] BY <1>1
<1> QED BY <1>3, <1>4, <1>5

\* One element more.
LEMMA Appended ==
    ASSUME NEW T, NEW s \in Seq(T), NEW f \in T
    PROVE  /\ Append(s, f) \in Seq(T) /\ Len(Append(s, f)) = Len(s) + 1
           /\ \A k \in 1..Len(s) : Append(s, f)[k] = s[k]
           /\ Append(s, f)[Len(s) + 1] = f
OBVIOUS

\* The last element taken away.
LEMMA Popped ==
    ASSUME NEW T, NEW s \in Seq(T), s # << >>
    PROVE  /\ SubSeq(s, 1, Len(s) - 1) \in Seq(T) /\ Len(SubSeq(s, 1, Len(s) - 1)) = Len(s) - 1
           /\ \A k \in 1..(Len(s) - 1) : SubSeq(s, 1, Len(s) - 1)[k] = s[k]
<1> DEFINE m == Len(s) - 1
<1>1. m \in Nat /\ \A k \in 1..m : s[k] \in T OBVIOUS
<1> HIDE DEF m
<1> DEFINE t == SubSeq(s, 1, m)
<1>2. /\ t \in Seq(T)
      /\ Len(t) = IF 1 <= m THEN m - 1 + 1 ELSE 0
      /\ \A k \in 1..(m - 1 + 1) : t[k] = s[1 + k - 1]
  BY <1>1, SubSeqProperties
<1> HIDE DEF t
<1>3. Len(t) = m /\ \A k \in 1..m : t[k] = s[k] BY <1>1, <1>2
<1> QED BY <1>2, <1>3 DEF t, m

\* What the invariant says of the calls, position by position.
LEMMA CallFacts ==
    ASSUME LoopTypeOK
    PROVE  /\ Len(stack) \in Nat /\ DOMAIN stack = 1..Len(stack)
           /\ stack # << >> <=> Len(stack) >= 1
           /\ \A k \in 1..Len(stack) :
                 /\ stack[k] \in Calls
                 /\ stack[k].item \in Items_ /\ stack[k].todo \in SUBSET Items_
                 /\ stack[k].in \in Items_ \cup {None_}
                 /\ stack[k].item \in Chos_ \/ stack[k].item \in Symbols_
           /\ frame = stack[Len(stack)]
           /\ IsGraph(graph)
<1>1. Len(stack) \in Nat /\ DOMAIN stack = 1..Len(stack) /\ (stack # << >> <=> Len(stack) >= 1)
  BY DEF LoopTypeOK
<1>2. ASSUME NEW k \in 1..Len(stack)
      PROVE  /\ stack[k] \in Calls
             /\ stack[k].item \in Items_ /\ stack[k].todo \in SUBSET Items_
             /\ stack[k].in \in Items_ \cup {None_}
             /\ stack[k].item \in Chos_ \/ stack[k].item \in Symbols_
  <2>1. stack[k] \in Calls BY <1>1 DEF LoopTypeOK
  <2>2. /\ stack[k].item \in Items_ /\ stack[k].todo \in SUBSET Items_
        /\ stack[k].in \in Items_ \cup {None_}
    BY <2>1 DEF Calls
  <2>3. IsGraph(graph) BY DEF LoopTypeOK
  <2> QED BY <2>1, <2>2, <2>3, GraphFacts
<1> QED BY <1>1, <1>2 DEF frame, LoopTypeOK

\* A call is made for i, by the call that becomes top.
Pushes(i, call, top) ==
    /\ graph' = graph
    /\ visited[i] = 0 /\ visited' = [visited EXCEPT ![i] = 1]
    /\ stack' \in Seq(Calls) /\ Len(stack') = Len(stack) + 1
    /\ \A k \in 1..Len(stack) : stack'[k] = IF k = Len(stack) THEN top ELSE stack[k]
    /\ stack'[Len(stack) + 1] = call

\* The three ways in which a call begins.
CallBegins(i, call, top) ==
    \/ /\ stack = << >> /\ i \in Symbols_
       /\ call = CallSym(i, FALSE)
    \/ /\ stack # << >> /\ i \in frame.todo
       /\ top = [frame EXCEPT !.todo = @ \ {i}]
       /\ call = IF i \in Chos_ THEN CallChoice(i, None_) ELSE CallSym(i, frame.item \in Chos_)
    \/ /\ stack # << >> /\ frame.todo = {} /\ frame.in = i /\ i # None_
       /\ top = [frame EXCEPT !.in = None_]
       /\ call = CallChoice(i, frame.item)

\* What is finished depends on the marks 2.
LEMMA FinishedKept ==
    ASSUME graph' = graph, \A j \in Items_ : visited[j] = 2 <=> visited'[j] = 2, IsGraph(graph)
    PROVE  \A j \in Items_ : Finished(j)' = Finished(j)
<1>1. \A c \in Chos_ : graph.members[c] \subseteq Items_ BY GraphFacts
<1>2. Chos_' = Chos_ BY GraphKept
<1> QED BY <1>1, <1>2 DEF Finished

\* The invariant goes on while calls are made.
LEMMA PushKeeps ==
    ASSUME LoopTypeOK, Searching, NEW i \in Items_, NEW call \in Calls, NEW top \in Calls,
           Pushes(i, call, top), CallBegins(i, call, top)
    PROVE  Searching'
<1>0. PICK n : n = Len(stack) OBVIOUS
<1> DEFINE It(k) == stack[k].item
<1>1. /\ n \in Nat /\ DOMAIN stack = 1..n /\ DOMAIN stack' = 1..(n + 1) /\ Len(stack') = n + 1
      /\ stack # << >> <=> n >= 1
      /\ frame = stack[n]
  <2>1. stack' \in Seq(Calls) /\ Len(stack') = n + 1 BY <1>0 DEF Pushes
  <2>2. DOMAIN stack' = 1..Len(stack') BY <2>1
  <2> QED BY <1>0, <2>1, <2>2, CallFacts
<1>2. \A k \in 1..n : /\ It(k) \in Items_ /\ stack[k].todo \subseteq Items_
                      /\ stack[k].in \in Items_ \cup {None_}
                      /\ It(k) \in Chos_ \/ It(k) \in Symbols_
  BY <1>0, CallFacts
<1>3. stack'[n + 1] = call /\ \A k \in 1..n : stack'[k] = IF k = n THEN top ELSE stack[k]
  BY <1>0 DEF Pushes
<1>4. /\ Items_' = Items_ /\ Chos_' = Chos_ /\ Symbols_' = Symbols_ /\ graph' = graph
      /\ \A x : ChoiceOf(x)' = ChoiceOf(x)
      /\ \A x : PG(x)' = PG(x)
      /\ \A x : Plain(x)' = Plain(x)
      /\ \A a, b : LeadsTo(a, b)' = LeadsTo(a, b)
  BY GraphKept DEF Pushes
<1>5. visited[i] = 0 /\ visited' = [visited EXCEPT ![i] = 1] BY DEF Pushes
<1>6. visited \in [Items_ -> {0, 1, 2}] /\ IsGraph(graph) BY DEF LoopTypeOK
<1>7. \A j \in Items_ : /\ visited[j] = 2 <=> visited'[j] = 2
                        /\ j # i => visited'[j] = visited[j]
                        /\ visited'[i] = 1
  BY <1>5, <1>6
<1>8. \A j \in Items_ : Finished(j)' = Finished(j) BY <1>4, <1>6, <1>7, FinishedKept
<1>9. call.item = i /\ (n >= 1 => top.item = It(n))
  <2>1. CASE n >= 1
    <3>1. frame \in Calls BY <1>1, <2>1, CallFacts
    <3> QED BY <1>1, <3>1 DEF CallBegins, CallSym, CallChoice, Calls
  <2>2. CASE ~(n >= 1) BY <1>1, <2>2 DEF CallBegins, CallSym
  <2> QED BY <2>1, <2>2
<1>10. \A k \in 1..n : stack'[k].item = It(k)
  <2> TAKE k \in 1..n
  <2>1. CASE k = n BY <1>1, <1>3, <1>9, <2>1
  <2>2. CASE k # n BY <1>3, <2>2
  <2> QED BY <2>1, <2>2
<1>11. stack'[n + 1].item = i BY <1>3, <1>9
<1>12. \A k \in 1..n : It(k) # i BY <1>1, <1>5 DEF Searching, OnStack
<1> DEFINE New == n = 0 /\ i \in Symbols_ /\ call.todo = graph.dep[i] /\ call.in = ChoiceOf(i)
           Exam == /\ n >= 1 /\ i \in stack[n].todo /\ top.todo = stack[n].todo \ {i} /\ top.in = stack[n].in
                   /\ i \in Chos_ => call.todo = graph.members[i] /\ call.in = None_
                   /\ i \notin Chos_ => /\ call.todo = graph.dep[i]
                                        /\ call.in = IF It(n) \in Chos_ THEN None_ ELSE ChoiceOf(i)
           Ent == /\ n >= 1 /\ stack[n].todo = {} /\ top.todo = {} /\ stack[n].in = i /\ top.in = None_
                  /\ call.todo = graph.members[i] \ {It(n)} /\ call.in = None_
                  /\ i = ChoiceOf(It(n)) /\ i \in Chos_ /\ It(n) \in Symbols_ /\ i # None_
<1>13. New \/ Exam \/ Ent
  <2>1. CASE stack = << >> /\ i \in Symbols_ /\ call = CallSym(i, FALSE)
    BY <1>1, <2>1 DEF CallSym
  <2>2. CASE /\ stack # << >> /\ i \in frame.todo
             /\ top = [frame EXCEPT !.todo = @ \ {i}]
             /\ call = IF i \in Chos_ THEN CallChoice(i, None_) ELSE CallSym(i, frame.item \in Chos_)
    <3>1. frame \in Calls BY <1>1, <2>2, CallFacts
    <3>2. top.todo = stack[n].todo \ {i} /\ top.in = stack[n].in BY <1>1, <2>2, <3>1 DEF Calls
    <3>3. i \in Chos_ => graph.members[i] \ {None_} = graph.members[i] BY <1>6, GraphFacts
    <3> QED BY <1>1, <2>2, <3>2, <3>3 DEF CallSym, CallChoice
  <2>3. CASE /\ stack # << >> /\ frame.todo = {} /\ frame.in = i /\ i # None_
             /\ top = [frame EXCEPT !.in = None_]
             /\ call = CallChoice(i, frame.item)
    <3>1. frame \in Calls BY <1>1, <2>3, CallFacts
    <3>2. top.todo = {} /\ top.in = None_ BY <1>1, <2>3, <3>1 DEF Calls
    <3>3. n \in 1..n /\ n >= 1 BY <1>1, <2>3
    <3>4. It(n) \in Symbols_ /\ stack[n].in = ChoiceOf(It(n))
      BY <1>1, <1>2, <2>3, <3>3 DEF Searching, Frames
    <3>5. i \in Chos_ BY <1>1, <1>6, <2>3, <3>4, GraphFacts
    <3> QED BY <1>1, <2>3, <3>2, <3>3, <3>4, <3>5 DEF CallChoice
  <2> QED BY <2>1, <2>2, <2>3 DEF CallBegins
<1> HIDE DEF New, Exam, Ent
<1>14. \A k \in 1..(n + 1) : k \in 1..n \/ k = n + 1 BY <1>1
<1>15. \A k \in 1..n : k < n => stack'[k] = stack[k] BY <1>1, <1>3
<1>16. n >= 1 => n \in 1..n /\ stack'[n] = top BY <1>1, <1>3
<1>17. OnStack'
  <2>1. \A j \in Items_ : visited'[j] = 1 => \E k \in 1..(n + 1) : stack'[k].item = j
    <3> TAKE j \in Items_
    <3> HAVE visited'[j] = 1
    <3>1. CASE j = i BY <1>1, <1>11, <3>1
    <3>2. CASE j # i
      <4>1. visited[j] = 1 BY <1>7, <3>2
      <4>2. PICK k \in 1..n : It(k) = j BY <1>1, <4>1 DEF Searching, OnStack
      <4>3. k \in 1..(n + 1) BY <1>1
      <4> QED BY <1>10, <4>2, <4>3
    <3> QED BY <3>1, <3>2
  <2>2. \A k \in 1..(n + 1) : visited'[stack'[k].item] = 1
    BY <1>1, <1>2, <1>7, <1>10, <1>11, <1>12, <1>14 DEF Searching, OnStack
  <2>3. \A k, l \in 1..(n + 1) : stack'[k].item = stack'[l].item => k = l
    BY <1>1, <1>10, <1>11, <1>12, <1>14 DEF Searching, OnStack
  <2> QED BY <1>1, <1>4, <2>1, <2>2, <2>3 DEF OnStack
<1>18. ASSUME NEW k \in 1..n PROVE Under(k)' <=> Under(k)
  <2>1. stack'[k].item = It(k) BY <1>10
  <2>2. k > 1 => stack'[k-1].item = It(k-1) BY <1>1, <1>10
  <2> QED BY <1>4, <2>1, <2>2 DEF Under
<1>19. Frames'
  <2> SUFFICES ASSUME NEW k \in 1..(n + 1)
               PROVE  /\ stack'[k].item \in Chos_ => /\ stack'[k].todo \subseteq graph.members[stack'[k].item]
                                                      /\ stack'[k].in = None_
                      /\ stack'[k].item \in Symbols_ => /\ stack'[k].todo \subseteq graph.dep[stack'[k].item]
                                                         /\ stack'[k].in \in {None_, ChoiceOf(stack'[k].item)}
                      /\ k < n + 1 => Calling(k, stack[k+1].item)'
                      /\ Under(k)' => /\ stack'[k].in = None_
                                      /\ k < n + 1 => stack'[k+1].item \in graph.dep[stack'[k].item]
    BY <1>1, <1>4 DEF Frames
  <2>1. CASE k = n + 1
    <3>1. New \/ Exam => /\ call.todo \subseteq IF i \in Chos_ THEN graph.members[i] ELSE graph.dep[i]
                         /\ i \in Chos_ => call.in = None_
                         /\ i \notin Chos_ => call.in \in {None_, ChoiceOf(i)}
      BY DEF New, Exam, Symbols_
    <3>2. Ent => call.todo \subseteq graph.members[i] /\ call.in = None_ /\ i \in Chos_ BY DEF Ent
    <3>3. Under(k)' => call.in = None_
      <4> SUFFICES ASSUME Under(k)' PROVE call.in = None_ OBVIOUS
      <4>1. k > 1 /\ i \in Symbols_ /\ stack'[k-1].item = ChoiceOf(i)
        BY <1>4, <1>11, <2>1 DEF Under
      <4>2. n >= 1 /\ k - 1 = n /\ n \in 1..n BY <1>1, <2>1, <4>1
      <4>3. It(n) = ChoiceOf(i) BY <1>10, <4>1, <4>2
      <4>4. It(n) # None_ BY <1>2, <1>6, <4>2, GraphFacts
      <4>5. It(n) \in Chos_ BY <1>6, <4>3, <4>4, GraphFacts
      <4>6. i \notin Chos_ BY <4>1 DEF Symbols_
      <4> QED BY <1>1, <1>13, <4>2, <4>5, <4>6 DEF New, Exam, Ent
    <3> QED BY <1>1, <1>3, <1>11, <1>13, <2>1, <3>1, <3>2, <3>3 DEF Symbols_
  <2>2. CASE k \in 1..n /\ k < n
    <3>1. k + 1 \in 1..n BY <1>1, <2>2
    <3>2. stack'[k] = stack[k] /\ stack'[k+1].item = It(k+1) BY <1>10, <1>15, <2>2, <3>1
    <3>3. Calling(k, stack[k+1].item)' BY <1>1, <1>4, <2>2, <3>2 DEF Calling, Searching, Frames
    <3> QED BY <1>1, <1>18, <2>2, <3>2, <3>3 DEF Searching, Frames
  <2>3. CASE k = n /\ n >= 1
    <3>1. n \in 1..n /\ stack'[n] = top /\ top.item = It(n) /\ stack'[n+1].item = i BY <1>9, <1>11, <1>16, <2>3
    <3>2. top.todo \subseteq stack[n].todo /\ top.in \in {stack[n].in, None_}
      BY <1>1, <1>13, <2>3 DEF New, Exam, Ent
    <3>3. /\ It(n) \in Chos_ => stack[n].todo \subseteq graph.members[It(n)] /\ stack[n].in = None_
          /\ It(n) \in Symbols_ => stack[n].todo \subseteq graph.dep[It(n)] /\ stack[n].in \in {None_, ChoiceOf(It(n))}
          /\ Under(n) => stack[n].in = None_
      BY <1>1, <3>1 DEF Searching, Frames
    <3>4. Exam => Calling(n, i)' /\ (Under(n) => i \in graph.dep[It(n)])
      <4> SUFFICES ASSUME Exam PROVE Calling(n, i)' /\ (Under(n) => i \in graph.dep[It(n)]) OBVIOUS
      <4>1. i \in stack[n].todo /\ i \notin top.todo BY DEF Exam
      <4> QED BY <1>2, <1>4, <3>1, <3>3, <4>1 DEF Calling, Under, Symbols_
    <3>5. Ent => Calling(n, i)' /\ ~Under(n)
      BY <1>4, <3>1, <3>3 DEF Calling, Ent, Symbols_
    <3>6. Calling(n, i)' /\ (Under(n) => i \in graph.dep[It(n)])
      BY <1>1, <1>13, <2>3, <3>4, <3>5 DEF New
    <3>7. Calling(k, stack[k+1].item)' BY <2>3, <3>1, <3>6
    <3> QED BY <1>18, <2>3, <3>1, <3>2, <3>3, <3>6, <3>7
  <2>4. k = n + 1 \/ (k \in 1..n /\ k < n) \/ (k = n /\ n >= 1) BY <1>1
  <2> QED BY <2>1, <2>2, <2>3, <2>4
<1>20. /\ \A k \in 1..n : It(k) \in Symbols_ =>
             /\ \A v \in graph.dep[It(k)] :
                   v \in stack[k].todo \/ Finished(PG(v)) \/ (k < n /\ v = It(k+1))
             /\ ChoiceOf(It(k)) # None_ /\ stack[k].in = None_ /\ ~Under(k) =>
                   /\ stack[k].todo = {}
                   /\ k < n => It(k+1) = ChoiceOf(It(k))
  BY <1>0, <1>1 DEF Searching, SymbolFrames
<1>21. \A x \in Items_ : PG(x) \in Items_ BY <1>6, GroupFacts
<1>22. \A x \in Items_ : Finished(PG(x))' = Finished(PG(x)) BY <1>4, <1>8, <1>21
<1>23. SymbolFrames'
  <2> SUFFICES ASSUME NEW k \in 1..(n + 1), stack'[k].item \in Symbols_
               PROVE  /\ \A v \in graph.dep[stack'[k].item] :
                            v \in stack'[k].todo \/ Finished(PG(v)) \/ (k < n + 1 /\ v = stack'[k+1].item)
                      /\ ChoiceOf(stack'[k].item) # None_ /\ stack'[k].in = None_ /\ ~Under(k)' =>
                            /\ stack'[k].todo = {}
                            /\ k < n + 1 => stack'[k+1].item = ChoiceOf(stack'[k].item)
                            /\ k # n + 1
    <3>1. \A s \in Symbols_ : graph.dep[s] \subseteq Items_ BY <1>6, GraphFacts
    <3>2. \A k \in 1..(n + 1) : stack'[k].item \in Symbols_ =>
             \A v \in graph.dep[stack'[k].item] :
                 v \in stack'[k].todo \/ Finished(PG(v))' \/ (k < n + 1 /\ v = stack'[k+1].item)
      BY <1>22, <3>1
    <3>3. \A k \in 1..(n + 1) : stack'[k].item \in Symbols_ =>
             (ChoiceOf(stack'[k].item) # None_ /\ stack'[k].in = None_ /\ ~Under(k)' =>
                            /\ stack'[k].todo = {}
                            /\ k < n + 1 => stack'[k+1].item = ChoiceOf(stack'[k].item)
                            /\ k # n + 1)
      OBVIOUS
    <3> QED BY <1>1, <1>4, <3>2, <3>3 DEF SymbolFrames
  <2>1. CASE k = n + 1
    <3>1. stack'[k] = call /\ stack'[k].item = i /\ i \in Symbols_ /\ i \notin Chos_
      BY <1>3, <1>11, <2>1 DEF Symbols_
    <3>2. call.todo = graph.dep[i] BY <1>13, <3>1 DEF New, Exam, Ent
    <3>3. ChoiceOf(i) # None_ /\ call.in = None_ => Under(k)'
      <4> SUFFICES ASSUME ChoiceOf(i) # None_, call.in = None_ PROVE Under(k)' OBVIOUS
      <4>1. Exam /\ It(n) \in Chos_ BY <1>13, <3>1 DEF New, Exam, Ent
      <4>2. n >= 1 /\ n \in 1..n BY <1>16, <4>1 DEF Exam
      <4>3. i \in graph.members[It(n)]
        BY <1>1, <4>1, <4>2 DEF Exam, Searching, Frames
      <4>4. It(n) = ChoiceOf(i) BY <1>6, <4>1, <4>3, GraphFacts
      <4>5. k - 1 = n /\ k > 1 BY <1>1, <2>1, <4>2
      <4>6. stack'[k-1].item = ChoiceOf(i) BY <1>10, <4>2, <4>4, <4>5
      <4> QED BY <1>4, <3>1, <4>5, <4>6 DEF Under
    <3> QED BY <3>1, <3>2, <3>3
  <2>2. CASE k \in 1..n /\ k < n
    <3>1. k + 1 \in 1..n /\ k # n + 1 /\ k < n + 1 BY <1>1, <2>2
    <3>2. stack'[k] = stack[k] /\ stack'[k+1].item = It(k+1) BY <1>10, <1>15, <2>2, <3>1
    <3> QED BY <1>18, <1>20, <2>2, <3>1, <3>2
  <2>3. CASE k = n /\ n >= 1
    <3>1. n \in 1..n /\ stack'[n] = top /\ top.item = It(n) /\ stack'[n+1].item = i BY <1>9, <1>11, <1>16, <2>3
    <3>2. n < n + 1 /\ n # n + 1 /\ ~(n < n) BY <1>1
    <3>3. CASE Exam
      <4>1. i \in stack[n].todo /\ top.todo = stack[n].todo \ {i} /\ top.in = stack[n].in BY <3>3 DEF Exam
      <4> QED BY <1>18, <1>20, <2>3, <3>1, <3>2, <4>1
    <3>4. CASE Ent
      <4>1. stack[n].todo = {} /\ top.todo = {} /\ i = ChoiceOf(It(n)) BY <3>4 DEF Ent
      <4> QED BY <1>18, <1>20, <2>3, <3>1, <3>2, <4>1
    <3> QED BY <1>1, <1>13, <2>3, <3>3, <3>4 DEF New
  <2>4. k = n + 1 \/ (k \in 1..n /\ k < n) \/ (k = n /\ n >= 1) BY <1>1
  <2> QED BY <2>1, <2>2, <2>3, <2>4
<1>24. \A k \in 1..n : It(k) \in Chos_ =>
          /\ \A m \in graph.members[It(k)] :
                \/ m \in stack[k].todo
                \/ visited[m] = 2
                \/ k < n /\ m = It(k+1)
                \/ Entered(k) /\ m = It(k-1)
          /\ Entered(k) => It(k) \notin graph.dep[It(k-1)]
          /\ Entered(k) => It(k-1) \notin stack[k].todo
          /\ Plain(It(k)) => Entered(k)
  BY <1>0, <1>1 DEF Searching, ChoiceFrames
<1>25. ASSUME NEW k \in 1..n PROVE Entered(k)' <=> Entered(k)
  <2>1. k > 1 => k - 1 \in 1..n /\ k - 1 < n BY <1>1
  <2>2. k > 1 => stack'[k-1] = stack[k-1] BY <1>15, <2>1
  <2>3. stack'[k].item = It(k) BY <1>10
  <2> QED BY <1>4, <2>2, <2>3 DEF Entered
<1>26. ChoiceFrames'
  <2> SUFFICES ASSUME NEW k \in 1..(n + 1), stack'[k].item \in Chos_
               PROVE  /\ \A m \in graph.members[stack'[k].item] :
                            \/ m \in stack'[k].todo
                            \/ visited'[m] = 2
                            \/ k < n + 1 /\ m = stack'[k+1].item
                            \/ Entered(k)' /\ m = stack'[k-1].item
                      /\ Entered(k)' => stack'[k].item \notin graph.dep[stack'[k-1].item]
                      /\ Entered(k)' => stack'[k-1].item \notin stack'[k].todo
                      /\ Plain(stack'[k].item) => Entered(k)'
    BY <1>1, <1>4 DEF ChoiceFrames
  <2>1. CASE k = n + 1
    <3>1. stack'[k] = call /\ stack'[k].item = i /\ i \in Chos_ BY <1>3, <1>11, <2>1
    <3>2. CASE Exam
      <4>1. n >= 1 /\ n \in 1..n /\ i \in stack[n].todo /\ call.todo = graph.members[i]
        BY <1>16, <3>1, <3>2 DEF Exam
      <4>2. It(n) \in Symbols_
        <5> SUFFICES ASSUME It(n) \in Chos_ PROVE FALSE BY <1>2, <4>1
        <5>1. i \in graph.members[It(n)] BY <1>1, <4>1 DEF Searching, Frames
        <5>2. i \in Symbols_ BY <1>6, <5>1, GraphFacts
        <5> QED BY <3>1, <5>2 DEF Symbols_
      <4>3. i \in graph.dep[It(n)] BY <1>1, <4>1, <4>2 DEF Searching, Frames
      <4>4. ~Plain(i) BY <1>2, <4>1, <4>3 DEF Plain
      <4>5. ~Entered(k)'
        <5> SUFFICES ASSUME Entered(k)' PROVE FALSE OBVIOUS
        <5>1. k - 1 = n /\ stack'[n] = top BY <1>1, <1>16, <2>1, <4>1
        <5>2. top.in = None_ /\ It(n) \in graph.members[i] BY <1>4, <1>9, <3>1, <4>1, <5>1 DEF Entered
        <5>3. stack[n].in = None_ BY <3>2, <5>2 DEF Exam
        <5>4. ChoiceOf(It(n)) = i /\ i # None_ BY <1>6, <3>1, <5>2, GraphFacts
        <5>5. Under(n) BY <1>20, <4>1, <4>2, <5>3, <5>4
        <5>6. n - 1 \in 1..n /\ It(n-1) = i BY <1>1, <4>1, <5>4, <5>5 DEF Under
        <5> QED BY <1>12, <5>6
      <4> QED BY <3>1, <4>1, <4>4, <4>5
    <3>3. CASE Ent
      <4>1. /\ n >= 1 /\ n \in 1..n /\ stack[n].todo = {} /\ call.todo = graph.members[i] \ {It(n)}
            /\ i = ChoiceOf(It(n)) /\ It(n) \in Symbols_ /\ top.in = None_ /\ top.todo = {} /\ i # None_
        BY <1>16, <3>3 DEF Ent
      <4>2. k - 1 = n /\ k > 1 /\ stack'[n] = top /\ top.item = It(n) BY <1>1, <1>9, <1>16, <2>1, <4>1
      <4>3. It(n) \in graph.members[i] BY <1>6, <4>1, GraphFacts
      <4>4. Entered(k)' BY <1>4, <3>1, <4>1, <4>2, <4>3 DEF Entered
      <4>5. i \notin graph.dep[It(n)]
        <5> SUFFICES ASSUME i \in graph.dep[It(n)] PROVE FALSE OBVIOUS
        <5>1. PG(i) = i BY <1>6, <3>1, GroupFacts
        <5>2. Finished(i) BY <1>1, <1>20, <4>1, <5>1
        <5>3. visited[It(n)] = 2 BY <3>1, <4>3, <5>2 DEF Finished
        <5>4. visited[It(n)] = 1 BY <1>1, <4>1 DEF Searching, OnStack
        <5> QED BY <5>3, <5>4
      <4> QED BY <3>1, <4>1, <4>2, <4>4, <4>5
    <3>4. CASE New BY <3>1, <3>4 DEF New, Symbols_
    <3> QED BY <1>13, <3>2, <3>3, <3>4
  <2>2. CASE k \in 1..n /\ k < n
    <3>1. k + 1 \in 1..n /\ k # n + 1 /\ k < n + 1 BY <1>1, <2>2
    <3>2. stack'[k] = stack[k] /\ stack'[k+1].item = It(k+1) BY <1>10, <1>15, <2>2, <3>1
    <3>3. Entered(k) => stack'[k-1].item = It(k-1)
      <4>1. k > 1 => k - 1 \in 1..n BY <1>1
      <4> QED BY <1>10, <4>1 DEF Entered
    <3>4. \A m \in graph.members[It(k)] : m \in Items_ BY <1>6, <2>2, <3>2, GraphFacts
    <3> QED BY <1>7, <1>24, <1>25, <2>2, <3>1, <3>2, <3>3, <3>4
  <2>3. CASE k = n /\ n >= 1
    <3>1. n \in 1..n /\ stack'[n] = top /\ top.item = It(n) /\ stack'[n+1].item = i BY <1>9, <1>11, <1>16, <2>3
    <3>2. n < n + 1 /\ ~(n < n) BY <1>1
    <3>3. Exam
      <4>1. It(n) \in Chos_ BY <2>3, <3>1
      <4> QED BY <1>1, <1>13, <2>3, <4>1 DEF New, Ent, Symbols_
    <3>4. i \in stack[n].todo /\ top.todo = stack[n].todo \ {i} BY <3>3 DEF Exam
    <3>5. Entered(n) => stack'[n-1].item = It(n-1)
      <4>1. n > 1 => n - 1 \in 1..n BY <1>1
      <4> QED BY <1>10, <4>1 DEF Entered
    <3>6. \A m \in graph.members[It(n)] : m \in Items_ BY <1>6, <2>3, <3>1, GraphFacts
    <3> QED BY <1>7, <1>24, <1>25, <2>3, <3>1, <3>2, <3>4, <3>5, <3>6
  <2>4. k = n + 1 \/ (k \in 1..n /\ k < n) \/ (k = n /\ n >= 1) BY <1>1
  <2> QED BY <2>1, <2>2, <2>3, <2>4
<1>27. \A c \in Chos_ : ~Returning(c) /\ ~(stack # << >> /\ frame.item = c /\ frame.todo = {})
  <2> TAKE c \in Chos_
  <2>1. CASE New BY <1>1, <2>1 DEF New, Returning
  <2>2. CASE Exam BY <1>1, <2>2 DEF Exam, Returning
  <2>3. CASE Ent BY <1>1, <2>3 DEF Ent, Returning, Symbols_
  <2> QED BY <1>13, <2>1, <2>2, <2>3
<1>28. Marks'
  <2> SUFFICES ASSUME NEW c \in Chos_
               PROVE  /\ visited'[c] = 2 => Finished(c)'
                      /\ \A m \in graph.members[c] : visited'[m] = 2 => visited'[c] # 0
                      /\ Plain(c) => \A m \in graph.members[c] : visited'[m] = 2 => Finished(c)'
    BY <1>4 DEF Marks
  <2>1. c \in Items_ /\ \A m \in graph.members[c] : m \in Items_ BY <1>6, GraphFacts
  <2>2. /\ visited[c] = 2 => Finished(c)
        /\ \A m \in graph.members[c] : visited[m] = 2 => visited[c] # 0
        /\ Plain(c) => \A m \in graph.members[c] : visited[m] = 2 => Finished(c)
    BY <1>27 DEF Searching, Marks
  <2> QED BY <1>7, <1>8, <2>1, <2>2
<1>29. Behind'
  <2>1. \A s \in Symbols_ : s \in Items_ /\ graph.dep[s] \subseteq Items_ BY <1>6, GraphFacts
  <2>2. \A s \in Symbols_ : visited'[s] = 2 => \A v \in graph.dep[s] : Finished(PG(v))'
    BY <1>7, <1>22, <2>1 DEF Searching, Behind
  <2>3. \A S \in SUBSET Items_ : S # {} /\ (\A a \in S : Finished(a)') => \E a \in S : \A b \in S : ~LeadsTo(a, b)
    BY <1>8 DEF Searching, Behind
  <2> QED BY <1>4, <2>2, <2>3 DEF Behind
<1> QED BY <1>17, <1>19, <1>23, <1>26, <1>28, <1>29 DEF Searching

\* A call for i finds it marked 2 and returns at once.
Drops(i, top) ==
    /\ graph' = graph /\ visited' = visited
    /\ stack # << >> /\ i \in frame.todo /\ top = [frame EXCEPT !.todo = @ \ {i}]
    /\ stack' \in Seq(Calls) /\ Len(stack') = Len(stack)
    /\ \A k \in 1..Len(stack) : stack'[k] = IF k = Len(stack) THEN top ELSE stack[k]

\* ... while items are met that are finished...
LEMMA DropKeeps ==
    ASSUME LoopTypeOK, Searching, NEW i \in Items_, visited[i] = 2, NEW top, Drops(i, top)
    PROVE  Searching'
<1>0. PICK n : n = Len(stack) OBVIOUS
<1> DEFINE It(k) == stack[k].item
<1>1. /\ n \in Nat /\ n >= 1 /\ DOMAIN stack = 1..n /\ DOMAIN stack' = 1..n /\ Len(stack') = n
      /\ frame = stack[n] /\ stack # << >> /\ stack' # << >>
  <2>1. stack' \in Seq(Calls) /\ Len(stack') = n /\ n >= 1 BY <1>0, CallFacts DEF Drops
  <2>2. DOMAIN stack' = 1..Len(stack') /\ stack' # << >> BY <2>1
  <2> QED BY <1>0, <2>1, <2>2, CallFacts DEF Drops
<1>2. \A k \in 1..n : /\ It(k) \in Items_ /\ stack[k].todo \subseteq Items_
                      /\ stack[k].in \in Items_ \cup {None_}
                      /\ It(k) \in Chos_ \/ It(k) \in Symbols_
  BY <1>0, CallFacts
<1>3. \A k \in 1..n : stack'[k] = IF k = n THEN top ELSE stack[k]
  BY <1>0 DEF Drops
<1>4. /\ Items_' = Items_ /\ Chos_' = Chos_ /\ Symbols_' = Symbols_ /\ graph' = graph
      /\ \A x : ChoiceOf(x)' = ChoiceOf(x)
      /\ \A x : PG(x)' = PG(x)
      /\ \A x : Plain(x)' = Plain(x)
      /\ \A a, b : LeadsTo(a, b)' = LeadsTo(a, b)
      /\ visited' = visited
  BY GraphKept DEF Drops
<1>5. visited \in [Items_ -> {0, 1, 2}] /\ IsGraph(graph) BY DEF LoopTypeOK
<1>6. \A j \in Items_ : Finished(j)' = Finished(j) BY <1>4, <1>5, FinishedKept
<1>7. n \in 1..n /\ top.item = It(n) /\ top.in = stack[n].in /\ top.todo = stack[n].todo \ {i} /\ i \in stack[n].todo
  <2>1. frame \in Calls BY <1>1, CallFacts
  <2> QED BY <1>1, <2>1 DEF Drops, Calls
<1>8. \A k \in 1..n : /\ stack'[k].item = It(k) /\ stack'[k].in = stack[k].in
                      /\ stack'[k].todo = IF k = n THEN stack[n].todo \ {i} ELSE stack[k].todo
  <2> TAKE k \in 1..n
  <2>1. CASE k = n BY <1>3, <1>7, <2>1
  <2>2. CASE k # n BY <1>3, <2>2
  <2> QED BY <2>1, <2>2
<1>9. \A k \in 1..n : /\ k < n => k + 1 \in 1..n
                      /\ k > 1 => k - 1 \in 1..n /\ k - 1 < n /\ k - 1 # n
  BY <1>1
<1>10. OnStack' BY <1>1, <1>4, <1>8 DEF Searching, OnStack
<1>11. \A k \in 1..n : Under(k)' <=> Under(k) BY <1>4, <1>8, <1>9 DEF Under
<1>12. \A k \in 1..n : Entered(k)' <=> Entered(k) BY <1>4, <1>8, <1>9 DEF Entered
<1>13. \A c \in Chos_ : ~Returning(c) /\ ~(stack # << >> /\ frame.item = c /\ frame.todo = {})
  BY <1>1, <1>7 DEF Returning
<1>14. Frames'
  <2> SUFFICES ASSUME NEW k \in 1..n
               PROVE  /\ It(k) \in Chos_ => /\ stack'[k].todo \subseteq graph.members[It(k)]
                                            /\ stack'[k].in = None_
                      /\ It(k) \in Symbols_ => /\ stack'[k].todo \subseteq graph.dep[It(k)]
                                               /\ stack'[k].in \in {None_, ChoiceOf(It(k))}
                      /\ k < n => Calling(k, stack[k+1].item)'
                      /\ Under(k)' => /\ stack'[k].in = None_
                                      /\ k < n => It(k+1) \in graph.dep[It(k)]
    BY <1>1, <1>4, <1>8, <1>9 DEF Frames
  <2>1. k < n => Calling(k, stack[k+1].item)'
    <3> HAVE k < n
    <3>1. stack'[k+1].item = It(k+1) /\ stack'[k].todo = stack[k].todo /\ stack'[k].in = stack[k].in /\ stack'[k].item = It(k)
      BY <1>8, <1>9
    <3>2. Calling(k, It(k+1)) BY <1>0, <1>1 DEF Searching, Frames
    <3> QED BY <1>4, <3>1, <3>2 DEF Calling
  <2>2. stack'[k].todo \subseteq stack[k].todo BY <1>8
  <2> QED BY <1>0, <1>1, <1>8, <1>11, <2>1, <2>2 DEF Searching, Frames
<1>20. /\ \A k \in 1..n : It(k) \in Symbols_ =>
             /\ \A v \in graph.dep[It(k)] :
                   v \in stack[k].todo \/ Finished(PG(v)) \/ (k < n /\ v = It(k+1))
             /\ ChoiceOf(It(k)) # None_ /\ stack[k].in = None_ /\ ~Under(k) =>
                   /\ stack[k].todo = {}
                   /\ k < n => It(k+1) = ChoiceOf(It(k))
                   /\ k = n => /\ visited[ChoiceOf(It(k))] = 2
                               /\ \A m \in graph.members[ChoiceOf(It(k))] : m # It(k) => visited[m] = 2
  BY <1>0, <1>1 DEF Searching, SymbolFrames
<1>21. \A x \in Items_ : PG(x) \in Items_ /\ Finished(PG(x))' = Finished(PG(x)) BY <1>4, <1>5, <1>6, GroupFacts
<1>22. Finished(PG(i))
  <2>1. CASE i \in Chos_
    <3>1. PG(i) = i BY <1>5, <2>1, GroupFacts
    <3>2. Finished(i) BY <1>13, <2>1 DEF Searching, Marks
    <3> QED BY <3>1, <3>2
  <2>2. CASE PG(i) # i
    <3>1. PG(i) = ChoiceOf(i) /\ Plain(PG(i)) /\ PG(i) \in Chos_ BY <1>5, <2>2, GroupFacts
    <3>2. i \in graph.members[PG(i)] BY <1>5, <3>1, GraphFacts
    <3> QED BY <1>13, <3>1, <3>2 DEF Searching, Marks
  <2>3. CASE i \notin Chos_ /\ PG(i) = i BY <2>3 DEF Finished
  <2> QED BY <2>1, <2>2, <2>3
<1>23. SymbolFrames'
  <2>1. \A k \in 1..n : It(k) \in Symbols_ => graph.dep[It(k)] \subseteq Items_ BY <1>2, <1>5, GraphFacts
  <2>2. \A k \in 1..n : It(k) \in Symbols_ =>
            \A v \in graph.dep[It(k)] :
               v \in stack'[k].todo \/ Finished(PG(v))' \/ (k < n /\ v = stack'[k+1].item)
    <3> TAKE k \in 1..n
    <3> HAVE It(k) \in Symbols_
    <3> TAKE v \in graph.dep[It(k)]
    <3>1. v \in Items_ BY <2>1
    <3>2. CASE v = i BY <1>21, <1>22, <3>2
    <3>3. CASE v # i BY <1>8, <1>9, <1>20, <1>21, <3>1, <3>3
    <3> QED BY <3>2, <3>3
  <2>3. \A k \in 1..n : It(k) \in Symbols_ =>
            (ChoiceOf(It(k)) # None_ /\ stack'[k].in = None_ /\ ~Under(k)' =>
                   /\ stack'[k].todo = {}
                   /\ k < n => stack'[k+1].item = ChoiceOf(It(k))
                   /\ k = n => /\ visited'[ChoiceOf(It(k))] = 2
                               /\ \A m \in graph.members[ChoiceOf(It(k))] : m # It(k) => visited'[m] = 2)
    <3> TAKE k \in 1..n
    <3>1. stack'[k].in = stack[k].in /\ stack'[k].todo \subseteq stack[k].todo BY <1>8
    <3>2. k < n => stack'[k+1].item = It(k+1) BY <1>8, <1>9
    <3> QED BY <1>4, <1>11, <1>20, <3>1, <3>2
  <2> QED BY <1>1, <1>4, <1>8, <2>2, <2>3 DEF SymbolFrames
<1>24. \A k \in 1..n : It(k) \in Chos_ =>
          /\ \A m \in graph.members[It(k)] :
                \/ m \in stack[k].todo
                \/ visited[m] = 2
                \/ k < n /\ m = It(k+1)
                \/ Entered(k) /\ m = It(k-1)
          /\ Entered(k) => It(k) \notin graph.dep[It(k-1)]
          /\ Entered(k) => It(k-1) \notin stack[k].todo
          /\ Plain(It(k)) => Entered(k)
  BY <1>0, <1>1 DEF Searching, ChoiceFrames
<1>25. ChoiceFrames'
  <2> SUFFICES ASSUME NEW k \in 1..n, It(k) \in Chos_
               PROVE  /\ \A m \in graph.members[It(k)] :
                            \/ m \in stack'[k].todo
                            \/ visited[m] = 2
                            \/ k < n /\ m = stack'[k+1].item
                            \/ Entered(k)' /\ m = stack'[k-1].item
                      /\ Entered(k)' => It(k) \notin graph.dep[stack'[k-1].item]
                      /\ Entered(k)' => stack'[k-1].item \notin stack'[k].todo
                      /\ Plain(It(k)) => Entered(k)'
    BY <1>1, <1>4, <1>8 DEF ChoiceFrames
  <2>1. k < n => stack'[k+1].item = It(k+1) BY <1>8, <1>9
  <2>2. Entered(k) => stack'[k-1].item = It(k-1) BY <1>8, <1>9 DEF Entered
  <2>3. \A m : m \in stack[k].todo => m \in stack'[k].todo \/ visited[m] = 2 BY <1>8
  <2>4. stack'[k].todo \subseteq stack[k].todo BY <1>8
  <2> QED BY <1>12, <1>24, <2>1, <2>2, <2>3, <2>4
<1>26. Marks'
  <2> SUFFICES ASSUME NEW c \in Chos_
               PROVE  /\ visited[c] = 2 => Finished(c)'
                      /\ \A m \in graph.members[c] : visited[m] = 2 => visited[c] # 0
                      /\ Plain(c) => \A m \in graph.members[c] : visited[m] = 2 => Finished(c)'
    BY <1>4 DEF Marks
  <2>1. c \in Items_ BY <1>5, GraphFacts
  <2> QED BY <1>6, <1>13, <2>1 DEF Searching, Marks
<1>27. Behind'
  <2>1. \A s \in Symbols_ : s \in Items_ /\ graph.dep[s] \subseteq Items_ BY <1>5, GraphFacts
  <2>2. \A s \in Symbols_ : visited'[s] = 2 => \A v \in graph.dep[s] : Finished(PG(v))'
    BY <1>4, <1>21, <2>1 DEF Searching, Behind
  <2>3. \A S \in SUBSET Items_ : S # {} /\ (\A a \in S : Finished(a)') => \E a \in S : \A b \in S : ~LeadsTo(a, b)
    BY <1>6 DEF Searching, Behind
  <2> QED BY <1>4, <2>2, <2>3 DEF Behind
<1> QED BY <1>10, <1>14, <1>23, <1>25, <1>26, <1>27 DEF Searching

\* ... and a choice is never finished while a call for one of its symbols is about to enter it.
LEMMA ChoiceOpen ==
    ASSUME LoopTypeOK, Searching, stack # << >>, frame.todo = {}, frame.in # None_
    PROVE  /\ frame.in \in Chos_ /\ frame.item \in Symbols_ /\ frame.in = ChoiceOf(frame.item)
           /\ visited[frame.in] # 2
<1> DEFINE n == Len(stack)
           c == frame.in
<1>1. n \in 1..n /\ frame = stack[n] /\ IsGraph(graph) /\ DOMAIN stack = 1..n BY CallFacts
<1>2. frame.item \in Chos_ \/ frame.item \in Symbols_ BY <1>1, CallFacts
<1>3. frame.item \in Symbols_ /\ c = ChoiceOf(frame.item) BY <1>1, <1>2 DEF Searching, Frames
<1>4. c \in Chos_ /\ frame.item \in graph.members[c] BY <1>1, <1>3, GraphFacts
<1>5. visited[frame.item] = 1 BY <1>1 DEF Searching, OnStack
<1>6. ~Finished(c) BY <1>4, <1>5 DEF Finished
<1>7. ~Returning(c) BY DEF Returning
<1> QED BY <1>3, <1>4, <1>6, <1>7 DEF Searching, Marks

\* ... and while calls return.
LEMMA ReturnKeeps ==
    ASSUME LoopTypeOK, Searching, ReturnClean
    PROVE  Searching'
<1>0. PICK n : n = Len(stack) OBVIOUS
<1>i. PICK i : i = frame.item OBVIOUS
<1> DEFINE It(k) == stack[k].item
<1>1. /\ n \in Nat /\ n >= 1 /\ DOMAIN stack = 1..n
      /\ frame = stack[n] /\ stack # << >> /\ n \in 1..n /\ It(n) = i /\ i \in Items_
  <2>1. n \in Nat /\ n >= 1 /\ DOMAIN stack = 1..n /\ frame = stack[n] /\ stack # << >> /\ n \in 1..n
    BY <1>0, CallFacts DEF ReturnClean
  <2> QED BY <1>0, <1>i, <2>1, CallFacts
<1>2. \A k \in 1..n : /\ It(k) \in Items_ /\ stack[k].todo \subseteq Items_
                      /\ stack[k].in \in Items_ \cup {None_}
                      /\ It(k) \in Chos_ \/ It(k) \in Symbols_
  BY <1>0, CallFacts
<1>3. /\ DOMAIN stack' = 1..(n - 1) /\ Len(stack') = n - 1 /\ (stack' # << >> <=> n > 1)
      /\ \A k \in 1..(n - 1) : stack'[k] = stack[k]
  <2>1. stack \in Seq(Calls) BY DEF LoopTypeOK
  <2>2. /\ stack' \in Seq(Calls) /\ Len(stack') = n - 1
        /\ \A k \in 1..(n - 1) : stack'[k] = stack[k]
    BY <1>0, <1>1, <2>1, Popped DEF ReturnClean
  <2>3. DOMAIN stack' = 1..Len(stack') /\ (stack' # << >> <=> Len(stack') > 0) BY <2>2
  <2> QED BY <1>1, <2>2, <2>3
<1>4. /\ Items_' = Items_ /\ Chos_' = Chos_ /\ Symbols_' = Symbols_ /\ graph' = graph
      /\ \A x : ChoiceOf(x)' = ChoiceOf(x)
      /\ \A x : PG(x)' = PG(x)
      /\ \A x : Plain(x)' = Plain(x)
      /\ \A a, b : LeadsTo(a, b)' = LeadsTo(a, b)
  BY GraphKept DEF ReturnClean
<1>5. visited \in [Items_ -> {0, 1, 2}] /\ IsGraph(graph) BY DEF LoopTypeOK
<1>6. \A j \in Items_ : visited'[j] = IF j = i THEN 2 ELSE visited[j] BY <1>i, <1>5 DEF ReturnClean
<1>7. visited[i] = 1 BY <1>1 DEF Searching, OnStack
<1>8. stack[n].todo = {} /\ stack[n].in = None_ BY <1>1 DEF ReturnClean
<1>9. \A k \in 1..n : /\ k \in 1..(n - 1) \/ k = n
                      /\ k > 1 => k - 1 \in 1..(n - 1)
                      /\ k < n => k + 1 \in 1..n /\ k \in 1..(n - 1)
                      /\ k < n - 1 => k + 1 \in 1..(n - 1)
  BY <1>1
<1>10. \A k \in 1..(n - 1) : k \in 1..n /\ k < n /\ k + 1 \in 1..n /\ k # n BY <1>1
<1>11. \A c \in Chos_ : c \in Items_ /\ graph.members[c] \subseteq Symbols_ /\ graph.members[c] \subseteq Items_
  BY <1>5, GraphFacts
<1>12. \A j \in Items_ : Finished(j) => Finished(j)' BY <1>4, <1>6, <1>11 DEF Finished
<1>13. OnStack'
  <2>1. \A j \in Items_ : visited'[j] = 1 => \E k \in 1..(n - 1) : stack'[k].item = j
    <3> TAKE j \in Items_
    <3> HAVE visited'[j] = 1
    <3>1. j # i /\ visited[j] = 1 BY <1>6
    <3>2. PICK k \in 1..n : It(k) = j BY <1>1, <3>1 DEF Searching, OnStack
    <3> QED BY <1>1, <1>3, <1>9, <3>1, <3>2
  <2>2. \A k \in 1..(n - 1) : It(k) # i BY <1>1, <1>10 DEF Searching, OnStack
  <2>3. \A k \in 1..(n - 1) : visited'[stack'[k].item] = 1
    BY <1>1, <1>2, <1>3, <1>6, <1>10, <2>2 DEF Searching, OnStack
  <2>4. \A k, l \in 1..(n - 1) : stack'[k].item = stack'[l].item => k = l
    BY <1>1, <1>3, <1>10 DEF Searching, OnStack
  <2> QED BY <1>3, <1>4, <2>1, <2>3, <2>4 DEF OnStack
<1>14. \A k \in 1..(n - 1) : (Under(k)' <=> Under(k)) /\ (Entered(k)' <=> Entered(k))
  BY <1>3, <1>4, <1>9, <1>10 DEF Under, Entered
<1>15. Frames'
  <2> SUFFICES ASSUME NEW k \in 1..(n - 1)
               PROVE  /\ It(k) \in Chos_ => /\ stack[k].todo \subseteq graph.members[It(k)]
                                            /\ stack[k].in = None_
                      /\ It(k) \in Symbols_ => /\ stack[k].todo \subseteq graph.dep[It(k)]
                                               /\ stack[k].in \in {None_, ChoiceOf(It(k))}
                      /\ k < n - 1 => Calling(k, stack[k+1].item)'
                      /\ Under(k) => /\ stack[k].in = None_
                                     /\ k < n - 1 => stack'[k+1].item \in graph.dep[It(k)]
    BY <1>3, <1>4, <1>14 DEF Frames
  <2>1. k \in 1..n /\ k < n BY <1>10
  <2>2. k < n - 1 => stack'[k+1] = stack[k+1] BY <1>3, <1>9, <2>1
  <2>3. k < n - 1 => Calling(k, stack[k+1].item)'
    <3> HAVE k < n - 1
    <3>1. Calling(k, It(k+1)) BY <1>0, <1>1, <2>1 DEF Searching, Frames
    <3> QED BY <1>3, <1>4, <2>2, <3>1 DEF Calling
  <2> QED BY <1>0, <1>1, <2>1, <2>2, <2>3 DEF Searching, Frames
<1>16. /\ \A k \in 1..n : It(k) \in Symbols_ =>
             /\ \A v \in graph.dep[It(k)] :
                   v \in stack[k].todo \/ Finished(PG(v)) \/ (k < n /\ v = It(k+1))
             /\ ChoiceOf(It(k)) # None_ /\ stack[k].in = None_ /\ ~Under(k) =>
                   /\ stack[k].todo = {}
                   /\ k < n => It(k+1) = ChoiceOf(It(k))
                   /\ k = n => /\ visited[ChoiceOf(It(k))] = 2
                               /\ \A m \in graph.members[ChoiceOf(It(k))] : m # It(k) => visited[m] = 2
  BY <1>0, <1>1 DEF Searching, SymbolFrames
<1>17. \A k \in 1..n : It(k) \in Chos_ =>
          /\ \A m \in graph.members[It(k)] :
                \/ m \in stack[k].todo
                \/ visited[m] = 2
                \/ k < n /\ m = It(k+1)
                \/ Entered(k) /\ m = It(k-1)
          /\ Entered(k) => It(k) \notin graph.dep[It(k-1)]
          /\ Entered(k) => It(k-1) \notin stack[k].todo
          /\ Plain(It(k)) => Entered(k)
  BY <1>0, <1>1 DEF Searching, ChoiceFrames
<1>18. i \in Symbols_ => \A v \in graph.dep[i] : Finished(PG(v)) BY <1>1, <1>8, <1>16
<1>19. i \in Chos_ => /\ \A m \in graph.members[i] : visited[m] = 2 \/ (Entered(n) /\ m = It(n-1))
                      /\ Entered(n) => i \notin graph.dep[It(n-1)]
  BY <1>1, <1>8, <1>17
<1>20. ASSUME NEW c \in Chos_, i \in graph.members[c]
       PROVE  \/ /\ visited[c] = 2 /\ \A m \in graph.members[c] : m # i => visited[m] = 2
                 /\ Finished(c)'
              \/ Under(n) /\ It(n-1) = c /\ n > 1 /\ visited[c] = 1
  <2>1. i \in Symbols_ /\ ChoiceOf(i) = c /\ c # None_ BY <1>5, <1>11, <1>20, GraphFacts
  <2>2. CASE Under(n)
    <3>1. n > 1 /\ It(n-1) = c BY <1>1, <2>1, <2>2 DEF Under
    <3>2. visited[It(n-1)] = 1 BY <1>1, <1>9, <1>10, <3>1 DEF Searching, OnStack
    <3> QED BY <2>2, <3>1, <3>2
  <2>3. CASE ~Under(n)
    <3>1. visited[c] = 2 /\ \A m \in graph.members[c] : m # i => visited[m] = 2
      BY <1>1, <1>8, <1>16, <2>1, <2>3
    <3> QED BY <1>4, <1>6, <1>11, <3>1 DEF Finished
  <2> QED BY <2>2, <2>3
<1>21. \A x \in Items_ : PG(x) \in Items_ /\ (Finished(PG(x)) => Finished(PG(x))') BY <1>4, <1>5, <1>12, GroupFacts
<1>22. ASSUME n > 1, It(n-1) \in Symbols_, i \in graph.dep[It(n-1)]
       PROVE  Finished(PG(i))'
  <2>1. CASE i \in Chos_
    <3>1. PG(i) = i BY <1>5, <2>1, GroupFacts
    <3>2. Finished(i)' BY <1>4, <1>6, <1>11, <1>19, <1>22, <2>1 DEF Finished
    <3> QED BY <1>4, <3>1, <3>2
  <2>2. CASE PG(i) # i
    <3>1. PG(i) \in Chos_ /\ i \in graph.members[PG(i)] BY <1>1, <1>5, <2>2, GroupFacts, GraphFacts
    <3>2. It(n-1) # PG(i) BY <1>22, <3>1 DEF Symbols_
    <3> QED BY <1>4, <1>20, <3>1, <3>2
  <2>3. CASE i \notin Chos_ /\ PG(i) = i BY <1>1, <1>4, <1>6, <2>3 DEF Finished
  <2> QED BY <2>1, <2>2, <2>3
<1>23. SymbolFrames'
  <2> SUFFICES ASSUME NEW k \in 1..(n - 1), It(k) \in Symbols_
               PROVE  /\ \A v \in graph.dep[It(k)] :
                            v \in stack[k].todo \/ Finished(PG(v))' \/ (k < n - 1 /\ v = stack'[k+1].item)
                      /\ ChoiceOf(It(k)) # None_ /\ stack[k].in = None_ /\ ~Under(k) =>
                            /\ stack[k].todo = {}
                            /\ k < n - 1 => stack'[k+1].item = ChoiceOf(It(k))
                            /\ k = n - 1 => /\ visited'[ChoiceOf(It(k))] = 2
                                            /\ \A m \in graph.members[ChoiceOf(It(k))] : m # It(k) => visited'[m] = 2
    <3>1. \A k \in 1..(n - 1) : It(k) \in Symbols_ =>
             \A v \in graph.dep[It(k)] :
                  v \in stack[k].todo \/ Finished(PG(v))' \/ (k < n - 1 /\ v = stack'[k+1].item)
      OBVIOUS
    <3>2. \A k \in 1..(n - 1) : It(k) \in Symbols_ =>
            (ChoiceOf(It(k)) # None_ /\ stack[k].in = None_ /\ ~Under(k) =>
                            /\ stack[k].todo = {}
                            /\ k < n - 1 => stack'[k+1].item = ChoiceOf(It(k))
                            /\ k = n - 1 => /\ visited'[ChoiceOf(It(k))] = 2
                                            /\ \A m \in graph.members[ChoiceOf(It(k))] : m # It(k) => visited'[m] = 2)
      OBVIOUS
    <3> QED BY <1>3, <1>4, <1>14, <3>1, <3>2 DEF SymbolFrames
  <2>1. k \in 1..n /\ k < n BY <1>10
  <2>2. k < n - 1 => stack'[k+1].item = It(k+1) BY <1>3, <1>9, <2>1
  <2>3. k < n - 1 \/ (k = n - 1 /\ k + 1 = n /\ n > 1 /\ ~(k < n - 1)) BY <1>1
  <2>4. \A v \in graph.dep[It(k)] : v \in Items_ BY <1>2, <1>5, <2>1, GraphFacts
  <2>5. ASSUME NEW v \in graph.dep[It(k)]
        PROVE  v \in stack[k].todo \/ Finished(PG(v))' \/ (k < n - 1 /\ v = stack'[k+1].item)
    <3>1. CASE v \in stack[k].todo \/ Finished(PG(v)) BY <1>21, <2>4, <3>1
    <3>2. CASE v = It(k+1) /\ k < n - 1 BY <2>2, <3>2
    <3>3. CASE v = It(k+1) /\ k = n - 1 /\ k + 1 = n /\ n > 1
      <4>1. v = i /\ It(n-1) \in Symbols_ /\ i \in graph.dep[It(n-1)] BY <1>1, <3>3
      <4> QED BY <1>22, <3>3, <4>1
    <3> QED BY <1>16, <2>1, <2>3, <3>1, <3>2, <3>3
  <2>6. ASSUME ChoiceOf(It(k)) # None_, stack[k].in = None_, ~Under(k)
        PROVE  /\ stack[k].todo = {}
               /\ k < n - 1 => stack'[k+1].item = ChoiceOf(It(k))
               /\ k = n - 1 => /\ visited'[ChoiceOf(It(k))] = 2
                               /\ \A m \in graph.members[ChoiceOf(It(k))] : m # It(k) => visited'[m] = 2
    <3>1. stack[k].todo = {} /\ It(k+1) = ChoiceOf(It(k)) BY <1>16, <2>1, <2>6
    <3>2. ASSUME k = n - 1
          PROVE  /\ visited'[ChoiceOf(It(k))] = 2
                 /\ \A m \in graph.members[ChoiceOf(It(k))] : m # It(k) => visited'[m] = 2
      <4>1. k + 1 = n /\ i = ChoiceOf(It(k)) BY <1>1, <3>1, <3>2
      <4>2. i \in Chos_ BY <1>5, <2>6, <4>1, GraphFacts
      <4> QED BY <1>1, <1>6, <1>11, <1>19, <3>2, <4>1, <4>2
    <3> QED BY <2>2, <3>1, <3>2
  <2> QED BY <2>5, <2>6
<1>24. ChoiceFrames'
  <2> SUFFICES ASSUME NEW k \in 1..(n - 1), It(k) \in Chos_
               PROVE  /\ \A m \in graph.members[It(k)] :
                            \/ m \in stack[k].todo
                            \/ visited'[m] = 2
                            \/ k < n - 1 /\ m = stack'[k+1].item
                            \/ Entered(k) /\ m = stack'[k-1].item
                      /\ Entered(k) => It(k) \notin graph.dep[stack'[k-1].item]
                      /\ Entered(k) => stack'[k-1].item \notin stack[k].todo
                      /\ Plain(It(k)) => Entered(k)
    BY <1>3, <1>4, <1>14 DEF ChoiceFrames
  <2>1. k \in 1..n /\ k < n BY <1>10
  <2>2. k < n - 1 => stack'[k+1].item = It(k+1) BY <1>3, <1>9, <2>1
  <2>3. k < n - 1 \/ It(k+1) = i BY <1>1
  <2>4. Entered(k) => stack'[k-1].item = It(k-1) BY <1>3, <1>9, <2>1 DEF Entered
  <2> QED BY <1>6, <1>11, <1>17, <2>1, <2>2, <2>3, <2>4
\* a choice of two symbols that is left by one is entered from the other, and has no more to look into
<1>25. ASSUME NEW c \in Chos_, i \in graph.members[c], Plain(c), Under(n), It(n-1) = c, n > 1
       PROVE  (stack # << >> /\ frame.item = c /\ frame.todo = {})'
  <2>1. n - 1 \in 1..n /\ n - 1 \in 1..(n - 1) /\ n - 1 < n /\ n - 1 + 1 = n BY <1>1, <1>25
  <2>2. Entered(n-1) /\ It(n-2) \notin stack[n-1].todo /\ It(n-2) \in graph.members[c] /\ n - 2 \in 1..n
    <3>1. Entered(n-1) /\ It(n-1-1) \notin stack[n-1].todo BY <1>17, <1>25, <2>1
    <3>2. n - 1 > 1 /\ It(n-1-1) \in graph.members[c] BY <1>25, <3>1 DEF Entered
    <3> QED BY <1>1, <3>1, <3>2
  <2>3. i # It(n-2)
    <3>1. n # n - 2 BY <1>1
    <3> QED BY <1>1, <2>2, <3>1 DEF Searching, OnStack
  <2>4. i \notin stack[n-1].todo /\ stack[n-1].todo \subseteq graph.members[c]
    <3>1. Calling(n-1, It(n-1+1)) /\ stack[n-1].todo \subseteq graph.members[c]
      BY <1>0, <1>1, <1>25, <2>1 DEF Searching, Frames
    <3> QED BY <1>1, <1>25, <2>1, <3>1 DEF Calling
  <2>5. stack[n-1].todo = {} BY <1>25, <2>2, <2>3, <2>4 DEF Plain
  <2>6. stack'[Len(stack')] = stack[n-1] BY <1>3, <2>1
  <2> QED BY <1>3, <1>25, <2>5, <2>6 DEF frame
<1>26. Marks'
  <2> SUFFICES ASSUME NEW c \in Chos_
               PROVE  /\ visited'[c] = 2 => Finished(c)' \/ Returning(c)'
                      /\ \A m \in graph.members[c] : visited'[m] = 2 => visited'[c] # 0
                      /\ Plain(c) => \A m \in graph.members[c] : visited'[m] = 2 =>
                             Finished(c)' \/ Returning(c)' \/ (stack # << >> /\ frame.item = c /\ frame.todo = {})'
    BY <1>4 DEF Marks
  <2>1. /\ visited[c] = 2 => Finished(c) \/ Returning(c)
        /\ \A m \in graph.members[c] : visited[m] = 2 => visited[c] # 0
        /\ Plain(c) => \A m \in graph.members[c] : visited[m] = 2 =>
               Finished(c) \/ Returning(c) \/ (stack # << >> /\ frame.item = c /\ frame.todo = {})
    BY DEF Searching, Marks
  <2>2. c \in Items_ /\ graph.members[c] \subseteq Items_ BY <1>11
  <2>3. CASE c = i
    <3>1. i \notin graph.members[c] BY <1>11, <2>3 DEF Symbols_
    <3>2. CASE \A m \in graph.members[c] : visited[m] = 2
      <4>1. Finished(c)' BY <1>4, <1>6, <2>2, <2>3, <3>2 DEF Finished
      <4> QED BY <1>6, <2>2, <2>3, <4>1
    <3>3. CASE Entered(n) /\ \A m \in graph.members[c] : visited[m] = 2 \/ m = It(n-1)
      <4>1. n > 1 /\ stack[n-1].in = None_ /\ stack[n-1].todo = {} /\ It(n-1) \in graph.members[c]
        BY <1>1, <2>3, <3>3 DEF Entered
      <4>2. n - 1 \in 1..(n - 1) BY <1>1, <4>1
      <4>3. stack' # << >> /\ stack'[Len(stack')] = stack[n-1] BY <1>3, <4>1, <4>2
      <4>4. \A m \in graph.members[c] : m # It(n-1) => visited'[m] = 2 BY <1>6, <2>2, <3>3
      <4>5. Returning(c)' BY <1>4, <4>1, <4>3, <4>4 DEF Returning, frame
      <4> QED BY <1>6, <2>2, <2>3, <4>5
    <3> QED BY <1>19, <2>3, <3>2, <3>3
  <2>4. CASE i \in graph.members[c]
    <3>1. CASE Finished(c)'
      <4>1. visited'[c] = 2 BY <1>4, <3>1 DEF Finished
      <4> QED BY <3>1, <4>1
    <3>2. CASE Under(n) /\ It(n-1) = c /\ n > 1 /\ visited[c] = 1
      <4>1. c # i /\ visited'[c] = 1 BY <1>6, <1>11, <2>2, <2>4, <3>2 DEF Symbols_
      <4> QED BY <1>25, <2>4, <3>2, <4>1
    <3> QED BY <1>20, <2>4, <3>1, <3>2
  <2>5. CASE c # i /\ i \notin graph.members[c]
    <3>1. ~Returning(c) /\ frame.item # c BY <1>i, <2>5 DEF Returning
    <3>2. visited'[c] = visited[c] /\ \A m \in graph.members[c] : visited'[m] = visited[m]
      BY <1>6, <2>2, <2>5
    <3> QED BY <1>12, <2>1, <2>2, <3>1, <3>2
  <2> QED BY <2>3, <2>4, <2>5
<1>27. \A s \in Symbols_ : visited'[s] = 2 => \A v \in graph.dep[s] : Finished(PG(v))'
  <2>1. \A s \in Symbols_ : s \in Items_ /\ graph.dep[s] \subseteq Items_ BY <1>5, GraphFacts
  <2>2. \A s \in Symbols_ : visited'[s] = 2 => \A v \in graph.dep[s] : Finished(PG(v))
    BY <1>6, <1>18, <2>1 DEF Searching, Behind
  <2> QED BY <1>21, <2>1, <2>2
<1>28. ASSUME NEW a, NEW b, LeadsTo(a, b), Finished(a) PROVE Finished(b)
  <2>1. PICK x \in Items_ : PG(x) = a /\ \E y \in Searched(x) : PG(y) = b BY <1>28 DEF LeadsTo
  <2>2. PICK y \in Searched(x) : PG(y) = b BY <2>1
  <2>3. CASE x \in Chos_
    <3>1. ~Plain(x) /\ y \in graph.members[x] BY <2>2, <2>3 DEF Searched
    <3>2. a = x /\ b = y /\ y \notin Chos_ BY <1>5, <1>11, <2>1, <2>2, <2>3, <3>1, GroupFacts DEF Symbols_
    <3> QED BY <1>28, <2>3, <3>1, <3>2 DEF Finished
  <2>4. CASE x \notin Chos_
    <3>1. x \in Symbols_ /\ y \in graph.dep[x] BY <1>5, <2>1, <2>2, <2>4, GraphFacts DEF Searched
    <3>2. visited[x] = 2
      <4>1. CASE PG(x) = x BY <1>28, <2>1, <2>4, <4>1 DEF Finished
      <4>2. CASE PG(x) # x
        <5>1. PG(x) \in Chos_ /\ x \in graph.members[PG(x)] BY <1>5, <2>1, <4>2, GroupFacts, GraphFacts
        <5> QED BY <1>28, <2>1, <5>1 DEF Finished
      <4> QED BY <4>1, <4>2
    <3> QED BY <2>2, <3>1, <3>2 DEF Searching, Behind
  <2> QED BY <2>3, <2>4
<1>29. ASSUME NEW a \in Items_, NEW b, LeadsTo(a, b), Finished(a)'
       PROVE  Finished(b) \/ (a \in Chos_ /\ b = i /\ i \in Symbols_)
  <2>1. PICK x \in Items_ : PG(x) = a /\ \E y \in Searched(x) : PG(y) = b BY <1>29 DEF LeadsTo
  <2>2. PICK y \in Searched(x) : PG(y) = b BY <2>1
  <2>3. CASE x \in Chos_
    <3>1. ~Plain(x) /\ y \in graph.members[x] BY <2>2, <2>3 DEF Searched
    <3>2. a = x /\ b = y /\ y \in Symbols_ /\ y \in Items_ /\ y \notin Chos_
      BY <1>5, <1>11, <2>1, <2>2, <2>3, <3>1, GroupFacts DEF Symbols_
    <3>3. visited'[y] = 2 BY <1>4, <1>29, <2>3, <3>1, <3>2 DEF Finished
    <3>4. y = i \/ visited[y] = 2 BY <1>6, <3>2, <3>3
    <3> QED BY <2>3, <3>2, <3>4 DEF Finished
  <2>4. CASE x \notin Chos_
    <3>1. x \in Symbols_ /\ y \in graph.dep[x] BY <1>5, <2>1, <2>2, <2>4, GraphFacts DEF Searched
    <3>2. visited'[x] = 2
      <4>1. CASE PG(x) = x BY <1>4, <1>29, <2>1, <2>4, <4>1 DEF Finished
      <4>2. CASE PG(x) # x
        <5>1. PG(x) \in Chos_ /\ x \in graph.members[PG(x)] BY <1>5, <2>1, <4>2, GroupFacts, GraphFacts
        <5> QED BY <1>4, <1>29, <2>1, <5>1 DEF Finished
      <4> QED BY <4>1, <4>2
    <3>3. x = i \/ visited[x] = 2 BY <1>6, <2>1, <3>2
    <3> QED BY <1>18, <2>2, <3>1, <3>3 DEF Searching, Behind
  <2> QED BY <2>3, <2>4
<1>30. ASSUME NEW S \in SUBSET Items_, S # {}, \A a \in S : Finished(a)'
       PROVE  \E a \in S : \A b \in S : ~LeadsTo(a, b)
  <2> SUFFICES ASSUME \A a \in S : \E b \in S : LeadsTo(a, b) PROVE FALSE OBVIOUS
  <2> DEFINE S0 == {a \in S : Finished(a)}
  <2>1. CASE S0 # {}
    <3>1. PICK a \in S0 : \A b \in S0 : ~LeadsTo(a, b) BY <2>1 DEF Searching, Behind
    <3>2. PICK b \in S : LeadsTo(a, b) BY <3>1
    <3> QED BY <1>28, <3>1, <3>2
  <2>2. CASE S0 = {}
    <3>1. \A a, b \in S : LeadsTo(a, b) => a \in Chos_ /\ b = i /\ i \in Symbols_
      BY <1>29, <1>30, <2>2
    <3>2. i \in S /\ i \in Symbols_ /\ i \in Chos_ BY <1>30, <3>1
    <3> QED BY <3>2 DEF Symbols_
  <2> QED BY <2>1, <2>2
<1>31. Behind' BY <1>4, <1>27, <1>30 DEF Behind
<1> QED BY <1>13, <1>15, <1>23, <1>24, <1>26, <1>31 DEF Searching

\* Each call is next to the call it has made.
LEMMA CallsNear ==
    ASSUME LoopTypeOK, Frames
    PROVE  \A k \in DOMAIN stack : k < Len(stack) => Near(stack[k].item, stack[k+1].item)
<1> SUFFICES ASSUME NEW k \in 1..Len(stack), k < Len(stack)
             PROVE  Near(stack[k].item, stack[k+1].item)
  BY CallFacts
<1> DEFINE i == stack[k].item
           j == stack[k+1].item
<1>1. Calling(k, j) /\ IsGraph(graph) BY CallFacts DEF Frames
<1>2. CASE i \in Chos_
  <2>1. Group(i) = i /\ Group(j) = i BY <1>1, <1>2, GroupFacts DEF Calling
  <2> QED BY <2>1 DEF Near
<1>3. CASE j \in graph.dep[i] BY <1>3 DEF Near
<1>4. CASE j = ChoiceOf(i) /\ j \in Chos_
  <2>1. j # None_ BY <1>1, <1>4, GraphFacts
  <2>2. i \in graph.members[j] BY <1>1, <1>4, <2>1, GraphFacts
  <2>3. Group(i) = j /\ Group(j) = j BY <1>1, <1>4, <2>2, GroupFacts
  <2> QED BY <2>3 DEF Near
<1> QED BY <1>1, <1>2, <1>3, <1>4 DEF Calling

\* The end of a search that meets an item under way again.
LEMMA MetReports ==
    ASSUME LoopTypeOK, Searching, NEW i \in Items_, visited[i] = 1, NEW top,
           graph' = graph, loop' = <<i>>, stack # << >>,
           stack' \in Seq(Calls), Len(stack') = Len(stack), top.item = frame.item,
           \A k \in 1..Len(stack) : stack'[k] = IF k = Len(stack) THEN top ELSE stack[k],
           i \in frame.todo \/ (frame.in = i /\ frame.todo = {} /\ i # None_)
    PROVE  Reporting'
<1>0. PICK n : n = Len(stack) OBVIOUS
<1>1. n \in Nat /\ n >= 1 /\ DOMAIN stack = 1..n /\ frame = stack[n] /\ IsGraph(graph) /\ n \in 1..n
  BY <1>0, CallFacts
<1>2. DOMAIN stack' = 1..n /\ Len(stack') = n /\ stack' # << >> BY <1>0, <1>1
<1>3. \A k \in 1..n : stack'[k].item = stack[k].item
  <2> TAKE k \in 1..n
  <2>1. CASE k = n BY <1>0, <1>1, <2>1
  <2>2. CASE k # n BY <1>0, <2>2
  <2> QED BY <2>1, <2>2
<1>4. Circle' BY MetAgain, GraphKept DEF Searching
<1>5. \E k \in DOMAIN stack' : stack'[k].item = loop'[1]
  <2>1. PICK k \in 1..n : stack[k].item = i BY <1>1 DEF Searching, OnStack
  <2> QED BY <1>2, <1>3, <2>1
<1>6. \A k \in 1..n : k < n => Near(stack[k].item, stack[k+1].item)'
  <2> TAKE k \in 1..n
  <2> HAVE k < n
  <2>1. k + 1 \in 1..n BY <1>1
  <2>2. Near(stack[k].item, stack[k+1].item) BY <1>0, <1>1, CallsNear DEF Searching
  <2>3. stack'[k].item = stack[k].item /\ stack'[k+1].item = stack[k+1].item BY <1>3, <2>1
  <2> QED BY <2>2, <2>3 DEF Near, Group, ChoiceOf, Chos_
<1>7. Near(frame.item, i)
  <2>1. CASE i \in frame.todo /\ frame.item \in Chos_
    <3>1. i \in graph.members[frame.item] BY <1>1, <2>1 DEF Searching, Frames
    <3>2. Group(i) = frame.item /\ Group(frame.item) = frame.item BY <1>1, <2>1, <3>1, GroupFacts
    <3> QED BY <3>2 DEF Near
  <2>2. CASE i \in frame.todo /\ frame.item \in Symbols_
    <3>1. i \in graph.dep[frame.item] BY <1>1, <2>2 DEF Searching, Frames
    <3> QED BY <3>1 DEF Near
  <2>3. CASE frame.in = i /\ frame.todo = {} /\ i # None_
    <3>1. i \in Chos_ /\ i = ChoiceOf(frame.item) BY <2>3, ChoiceOpen
    <3>2. frame.item \in graph.members[i] BY <1>1, <2>3, <3>1, GraphFacts
    <3>3. Group(i) = i /\ Group(frame.item) = i BY <1>1, <3>1, <3>2, GroupFacts
    <3> QED BY <3>3 DEF Near
  <2>4. frame.item \in Chos_ \/ frame.item \in Symbols_ BY <1>0, <1>1, CallFacts
  <2> QED BY <2>1, <2>2, <2>3, <2>4
<1>8. Near(frame.item, loop[Len(loop)])'
  <2>1. stack'[Len(stack')].item = frame.item BY <1>1, <1>2, <1>3
  <2>2. loop'[Len(loop')] = i OBVIOUS
  <2>3. Near(stack'[Len(stack')].item, loop'[Len(loop')]) BY <1>7, <2>1, <2>2
  <2> HIDE DEF Near
  <2> QED BY <2>3 DEF Near, Group, ChoiceOf, Chos_, frame
<1>9. \A k \in DOMAIN loop' : ~(k < Len(loop'))
  <2>1. DOMAIN loop' = 1..1 /\ Len(loop') = 1 OBVIOUS
  <2> QED BY <2>1
<1> QED BY <1>2, <1>4, <1>5, <1>6, <1>8, <1>9 DEF Reporting

\* What is reported goes on being a chain of items that depend on each other.
LEMMA ReportKeeps ==
    ASSUME LoopTypeOK, Reporting, ReturnLoop
    PROVE  Reporting'
<1>0. PICK n : n = Len(stack) OBVIOUS
<1>1. /\ n \in Nat /\ n >= 1 /\ DOMAIN stack = 1..n /\ frame = stack[n] /\ IsGraph(graph) /\ n \in 1..n
      /\ graph' = graph /\ stack # << >> /\ frame.item \in Items_ /\ frame.item # loop[1]
  <2>1. stack # << >> /\ graph' = graph /\ frame.item # loop[1] BY DEF ReturnLoop
  <2>2. n \in Nat /\ n >= 1 /\ n \in 1..n BY <1>0, <2>1, CallFacts
  <2> QED BY <1>0, <2>1, <2>2, CallFacts
<1>2. /\ DOMAIN stack' = 1..(n - 1) /\ Len(stack') = n - 1 /\ (stack' # << >> <=> n > 1)
      /\ \A k \in 1..(n - 1) : stack'[k] = stack[k]
  <2>1. stack \in Seq(Calls) BY DEF LoopTypeOK
  <2>2. /\ stack' \in Seq(Calls) /\ Len(stack') = n - 1
        /\ \A k \in 1..(n - 1) : stack'[k] = stack[k]
    BY <1>0, <1>1, <2>1, Popped DEF ReturnLoop
  <2>3. DOMAIN stack' = 1..Len(stack') /\ (stack' # << >> <=> Len(stack') > 0) BY <2>2
  <2> QED BY <1>1, <2>2, <2>3
<1>3. PICK l : l = Len(loop) OBVIOUS
<1>4. /\ l \in Nat /\ l >= 1 /\ DOMAIN loop = 1..l /\ Len(loop') = l + 1 /\ DOMAIN loop' = 1..(l + 1)
      /\ \A k \in 1..l : loop'[k] = loop[k]
      /\ loop'[l + 1] = frame.item
  <2>1. loop \in Seq(Items_) /\ loop # << >> /\ loop' = Append(loop, frame.item) BY DEF LoopTypeOK, ReturnLoop
  <2>2. l \in Nat /\ l >= 1 /\ DOMAIN loop = 1..l BY <1>3, <2>1
  <2>3. /\ loop' \in Seq(Items_) /\ Len(loop') = l + 1
        /\ \A k \in 1..l : loop'[k] = loop[k]
        /\ loop'[l + 1] = frame.item
    BY <1>1, <1>3, <2>1, Appended
  <2>4. DOMAIN loop' = 1..Len(loop') BY <2>3
  <2> QED BY <2>2, <2>3, <2>4
<1>5. Circle' BY <1>1, GraphKept DEF Reporting
<1>6. \E k \in DOMAIN stack' : stack'[k].item = loop'[1]
  <2>1. PICK k \in 1..n : stack[k].item = loop[1] BY <1>1 DEF Reporting
  <2>2. k \in 1..(n - 1) BY <1>1, <2>1
  <2> QED BY <1>2, <1>4, <2>1, <2>2
<1>7. \A k \in 1..(n - 1) : k < n - 1 => Near(stack[k].item, stack[k+1].item)'
  <2> TAKE k \in 1..(n - 1)
  <2> HAVE k < n - 1
  <2>1. k + 1 \in 1..(n - 1) /\ k \in 1..n /\ k < n BY <1>1
  <2>2. Near(stack[k].item, stack[k+1].item) BY <1>0, <1>1, <2>1 DEF Reporting
  <2>3. stack'[k].item = stack[k].item /\ stack'[k+1].item = stack[k+1].item BY <1>2, <2>1
  <2> QED BY <1>1, <2>2, <2>3 DEF Near, Group, ChoiceOf, Chos_
<1>8. stack' # << >> => Near(frame.item, loop[Len(loop)])'
  <2> HAVE stack' # << >>
  <2>1. n > 1 /\ n - 1 \in 1..(n - 1) /\ n - 1 \in 1..n /\ n - 1 < n /\ n - 1 + 1 = n BY <1>1, <1>2
  <2>2. Near(stack[n-1].item, stack[n].item) BY <1>0, <1>1, <2>1 DEF Reporting
  <2>3. stack'[Len(stack')].item = stack[n-1].item BY <1>2, <2>1
  <2>4. loop'[Len(loop')] = stack[n].item BY <1>1, <1>4
  <2> QED BY <1>1, <2>2, <2>3, <2>4 DEF Near, Group, ChoiceOf, Chos_, frame
<1>9. \A k \in DOMAIN loop' : k < Len(loop') => Near(loop[k+1], loop[k])'
  <2> SUFFICES ASSUME NEW k \in 1..l PROVE Near(loop[k+1], loop[k])' BY <1>4
  <2>1. CASE k < l
    <3>1. Near(loop[k+1], loop[k]) BY <1>3, <1>4, <2>1 DEF Reporting
    <3>2. k + 1 \in 1..l BY <1>4, <2>1
    <3>3. loop'[k+1] = loop[k+1] /\ loop'[k] = loop[k] BY <1>4, <3>2
    <3> QED BY <1>1, <3>1, <3>3 DEF Near, Group, ChoiceOf, Chos_
  <2>2. CASE k = l
    <3>1. Near(frame.item, loop[l]) BY <1>1, <1>3 DEF Reporting
    <3>2. loop'[k+1] = frame.item /\ loop'[k] = loop[l] BY <1>4, <2>2
    <3> QED BY <1>1, <3>1, <3>2 DEF Near, Group, ChoiceOf, Chos_
  <2>3. k < l \/ k = l BY <1>4
  <2> QED BY <2>1, <2>2, <2>3
<1> QED BY <1>2, <1>5, <1>6, <1>7, <1>8, <1>9 DEF Reporting

\* What a call begins with.
LEMMA CallTypes ==
    ASSUME IsGraph(graph)
    PROVE  /\ \A s \in Symbols_ : \A b \in BOOLEAN : CallSym(s, b) \in Calls
           /\ \A c \in Chos_ : \A s : CallChoice(c, s) \in Calls
           /\ \A f \in Calls : \A i : [f EXCEPT !.todo = @ \ {i}] \in Calls
           /\ \A f \in Calls : [f EXCEPT !.in = None_] \in Calls
<1>1. ASSUME NEW s \in Symbols_, NEW b \in BOOLEAN PROVE CallSym(s, b) \in Calls
  <2>1. s \in Items_ /\ graph.dep[s] \in SUBSET Items_ BY GraphFacts
  <2>2. ChoiceOf(s) \in Items_ \cup {None_} BY GraphFacts
  <2> QED BY <2>1, <2>2 DEF CallSym, Calls
<1>2. ASSUME NEW c \in Chos_, NEW s PROVE CallChoice(c, s) \in Calls
  <2>1. c \in Items_ /\ graph.members[c] \in SUBSET Items_ BY GraphFacts
  <2> QED BY <2>1 DEF CallChoice, Calls
<1>3. ASSUME NEW f \in Calls, NEW i PROVE [f EXCEPT !.todo = @ \ {i}] \in Calls BY DEF Calls
<1>4. ASSUME NEW f \in Calls PROVE [f EXCEPT !.in = None_] \in Calls BY DEF Calls
<1> QED BY <1>1, <1>2, <1>3, <1>4

\* A call, whatever the mark it finds.
LEMMA CheckKeeps ==
    ASSUME LoopIInv, loop = << >>, graph' = graph,
           NEW i \in Items_, NEW call \in Calls, NEW top \in Calls, NEW below,
           CallBegins(i, call, top), Check(i, call, below),
           IF stack = << >> THEN below = << >> /\ visited[i] = 0
           ELSE below = [stack EXCEPT ![Len(stack)] = top] /\ top.item = frame.item
    PROVE  LoopIInv'
<1>1. LoopTypeOK /\ Searching /\ stack \in Seq(Calls) /\ visited \in [Items_ -> {0, 1, 2}] /\ IsGraph(graph)
  BY DEF LoopIInv, LoopTypeOK
<1>2. /\ below \in Seq(Calls) /\ Len(below) = Len(stack)
      /\ \A k \in 1..Len(stack) : below[k] = IF k = Len(stack) THEN top ELSE stack[k]
  <2>1. CASE stack = << >> BY <2>1
  <2>2. CASE stack # << >> BY <1>1, <2>2, Topped
  <2> QED BY <2>1, <2>2
<1>3. IsGraph(graph)' /\ Items_' = Items_ /\ Calls' = Calls BY <1>1, GraphKept DEF IsGraph
<1>4. CASE visited[i] = 0
  <2>1. /\ visited' = [visited EXCEPT ![i] = 1] /\ stack' = Append(below, call) /\ loop' = loop
    BY <1>4 DEF Check
  <2>2. /\ stack' \in Seq(Calls) /\ Len(stack') = Len(stack) + 1
        /\ \A k \in 1..Len(stack) : stack'[k] = below[k]
        /\ stack'[Len(stack) + 1] = call
    BY <1>2, <2>1, Appended
  <2>3. Pushes(i, call, top) BY <1>2, <1>4, <2>1, <2>2 DEF Pushes
  <2>4. Searching' BY <1>1, <2>3, PushKeeps
  <2>5. visited' \in [Items_ -> {0, 1, 2}] BY <1>1, <2>1
  <2>6. LoopTypeOK' BY <1>1, <1>3, <2>1, <2>2, <2>5 DEF LoopTypeOK
  <2> QED BY <2>1, <2>4, <2>6 DEF LoopIInv
<1>5. CASE visited[i] = 1
  <2>1. visited' = visited /\ stack' = below /\ loop' = <<i>> /\ stack # << >> BY <1>5 DEF Check
  <2>2. i \in frame.todo \/ (frame.in = i /\ frame.todo = {} /\ i # None_) BY <2>1 DEF CallBegins
  <2>3. Reporting' BY <1>1, <1>2, <1>5, <2>1, <2>2, MetReports
  <2>4. LoopTypeOK' BY <1>1, <1>2, <1>3, <2>1 DEF LoopTypeOK
  <2>5. loop' # << >> BY <2>1
  <2> QED BY <2>3, <2>4, <2>5 DEF LoopIInv
<1>6. CASE visited[i] = 2
  <2>1. visited' = visited /\ stack' = below /\ loop' = loop /\ stack # << >> BY <1>6 DEF Check
  <2>2. i \in frame.todo /\ top = [frame EXCEPT !.todo = @ \ {i}]
    <3> SUFFICES ASSUME frame.todo = {} /\ frame.in = i /\ i # None_ PROVE FALSE BY <2>1 DEF CallBegins
    <3> QED BY <1>1, <1>6, <2>1, ChoiceOpen
  <2>3. Drops(i, top) BY <1>2, <2>1, <2>2 DEF Drops
  <2>4. Searching' BY <1>1, <1>6, <2>3, DropKeeps
  <2>5. LoopTypeOK' BY <1>1, <1>2, <1>3, <2>1 DEF LoopTypeOK
  <2> QED BY <2>1, <2>4, <2>5 DEF LoopIInv
<1> QED BY <1>1, <1>4, <1>5, <1>6

\* Nothing has been searched yet.
LEMMA LoopStarts == ASSUME NEW g, IsGraph(g), LoopInit(g) PROVE LoopIInv
<1>1. graph = g /\ visited = [i \in Items_ |-> 0] /\ stack = << >> /\ loop = << >> BY DEF LoopInit, Items_
<1>2. LoopTypeOK BY <1>1 DEF LoopTypeOK
<1>3. DOMAIN stack = {} BY <1>1
<1>4. /\ Chos_ \subseteq Items_ /\ Symbols_ \subseteq Items_
      /\ \A c \in Chos_ : graph.members[c] \subseteq Items_
  BY <1>1, GraphFacts
<1>5. \A i \in Items_ : visited[i] = 0 BY <1>1
<1>6. OnStack BY <1>3, <1>5 DEF OnStack
<1>7. Frames /\ SymbolFrames /\ ChoiceFrames BY <1>3 DEF Frames, SymbolFrames, ChoiceFrames
<1>8. Marks BY <1>4, <1>5 DEF Marks
<1>9. \A i \in Items_ : ~Finished(i) BY <1>5 DEF Finished
<1>10. Behind BY <1>4, <1>5, <1>9 DEF Behind
<1> QED BY <1>1, <1>2, <1>6, <1>7, <1>8, <1>10 DEF LoopIInv, Searching

\* A step that changes nothing.
LEMMA StaysTheSame ==
    ASSUME graph' = graph, visited' = visited, stack' = stack, loop' = loop, LoopIInv
    PROVE  LoopIInv'
<1>1. /\ Items_' = Items_ /\ Chos_' = Chos_ /\ Symbols_' = Symbols_ /\ Calls' = Calls /\ Circle' = Circle
      /\ \A i : ChoiceOf(i)' = ChoiceOf(i)
      /\ \A i : PG(i)' = PG(i)
      /\ \A i : Plain(i)' = Plain(i)
      /\ \A a, b : LeadsTo(a, b)' = LeadsTo(a, b)
      /\ IsGraph(graph)' = IsGraph(graph)
  BY GraphKept DEF IsGraph
<1>2. LoopTypeOK' BY <1>1 DEF LoopIInv, LoopTypeOK
<1>3. OnStack' <=> OnStack BY <1>1 DEF OnStack
<1>4. \A k : /\ Under(k)' = Under(k) /\ Entered(k)' = Entered(k) BY <1>1 DEF Under, Entered
<1>5. Frames' <=> Frames BY <1>1, <1>4 DEF Frames, Calling
<1>6. \A i : Finished(i)' = Finished(i) BY <1>1 DEF Finished
<1>7. \A i : Finished(PG(i))' = Finished(PG(i)) BY <1>1, <1>6
<1>8. SymbolFrames' <=> SymbolFrames BY <1>1, <1>4, <1>7 DEF SymbolFrames
<1>9. ChoiceFrames' <=> ChoiceFrames BY <1>1, <1>4 DEF ChoiceFrames
<1>10. \A c : Returning(c)' = Returning(c) BY DEF Returning, frame
<1>11. Marks' <=> Marks BY <1>1, <1>6, <1>10 DEF Marks, frame
<1>12. Behind' <=> Behind BY <1>1, <1>6, <1>7 DEF Behind
<1>13. Reporting' <=> Reporting BY <1>1 DEF Reporting, Near, Group, ChoiceOf, Chos_, frame
<1> QED BY <1>2, <1>3, <1>5, <1>8, <1>9, <1>11, <1>12, <1>13 DEF LoopIInv, Searching

\* Every step of the search.
LEMMA LoopStep == LoopIInv /\ [LoopNext]_loopVars => LoopIInv'
<1> SUFFICES ASSUME LoopIInv, [LoopNext]_loopVars PROVE LoopIInv' OBVIOUS
<1>1. LoopTypeOK /\ stack \in Seq(Calls) /\ loop \in Seq(Items_) /\ visited \in [Items_ -> {0, 1, 2}] /\ IsGraph(graph)
  BY DEF LoopIInv, LoopTypeOK
<1>2. ASSUME NEW s \in Symbols_, CheckSym(s) PROVE LoopIInv'
  <2> DEFINE call == CallSym(s, FALSE)
  <2>1. /\ stack = << >> /\ loop = << >> /\ visited[s] = 0 /\ graph' = graph
        /\ Check(s, call, << >>)
    BY <1>2 DEF CheckSym
  <2>2. s \in Items_ /\ call \in Calls BY <1>1, GraphFacts, CallTypes
  <2>3. CallBegins(s, call, call) BY <2>1 DEF CallBegins
  <2> HIDE DEF call
  <2> QED BY <2>1, <2>2, <2>3, CheckKeeps
<1>3. CASE Examine
  <2>1. stack # << >> /\ loop = << >> /\ graph' = graph BY <1>3 DEF Examine
  <2>2. PICK i \in frame.todo :
          Check(i, IF i \in Chos_ THEN CallChoice(i, None_) ELSE CallSym(i, frame.item \in Chos_),
                [stack EXCEPT ![Len(stack)].todo = @ \ {i}])
    BY <1>3 DEF Examine
  <2> DEFINE call == IF i \in Chos_ THEN CallChoice(i, None_) ELSE CallSym(i, frame.item \in Chos_)
             top == [frame EXCEPT !.todo = @ \ {i}]
             below == [stack EXCEPT ![Len(stack)] = top]
  <2>3. frame \in Calls /\ Len(stack) \in DOMAIN stack BY <1>1, <2>1, CallFacts
  <2>4. i \in Items_ BY <2>2, <2>3 DEF Calls
  <2>5. top \in Calls /\ top.item = frame.item
    <3>1. top \in Calls BY <1>1, <2>3, CallTypes
    <3> QED BY <2>3, <3>1 DEF Calls
  <2>6. call \in Calls
    <3>1. CASE i \in Chos_ BY <1>1, <3>1, CallTypes
    <3>2. CASE i \notin Chos_
      <4>1. i \in Symbols_ BY <1>1, <2>4, <3>2, GraphFacts
      <4>2. (frame.item \in Chos_) \in BOOLEAN OBVIOUS
      <4> QED BY <1>1, <3>2, <4>1, <4>2, CallTypes
    <3> QED BY <3>1, <3>2
  <2>7. Check(i, call, below) BY <2>2 DEF frame
  <2>8. CallBegins(i, call, top) BY <2>1, <2>2 DEF CallBegins
  <2> HIDE DEF call, top
  <2> QED BY <2>1, <2>4, <2>5, <2>6, <2>7, <2>8, CheckKeeps
<1>4. CASE EnterChoice
  <2>1. /\ stack # << >> /\ loop = << >> /\ graph' = graph /\ frame.todo = {} /\ frame.in # None_
        /\ Check(frame.in, CallChoice(frame.in, frame.item), [stack EXCEPT ![Len(stack)].in = None_])
    BY <1>4 DEF EnterChoice
  <2> DEFINE call == CallChoice(frame.in, frame.item)
             top == [frame EXCEPT !.in = None_]
             below == [stack EXCEPT ![Len(stack)] = top]
  <2>2. frame.in \in Chos_ BY <2>1, ChoiceOpen DEF LoopIInv
  <2>3. frame \in Calls /\ Len(stack) \in DOMAIN stack BY <1>1, <2>1, CallFacts
  <2>4. frame.in \in Items_ BY <1>1, <2>2, GraphFacts
  <2>5. top \in Calls /\ top.item = frame.item
    <3>1. top \in Calls BY <1>1, <2>3, CallTypes
    <3> QED BY <2>3, <3>1 DEF Calls
  <2>6. call \in Calls BY <1>1, <2>2, CallTypes
  <2>7. Check(frame.in, call, below) BY <2>1 DEF frame
  <2>8. CallBegins(frame.in, call, top) BY <2>1 DEF CallBegins
  <2> HIDE DEF call, top
  <2> QED BY <2>1, <2>4, <2>5, <2>6, <2>7, <2>8, CheckKeeps
<1>5. CASE ReturnClean
  <2>1. /\ stack # << >> /\ loop = << >> /\ loop' = loop /\ graph' = graph
        /\ visited' = [visited EXCEPT ![frame.item] = 2]
        /\ stack' = SubSeq(stack, 1, Len(stack) - 1)
    BY <1>5 DEF ReturnClean
  <2>2. Searching' BY <1>1, <1>5, <2>1, ReturnKeeps DEF LoopIInv
  <2>3. visited' \in [Items_ -> {0, 1, 2}] BY <1>1, <2>1
  <2>4. stack' \in Seq(Calls) BY <1>1, <2>1, Popped
  <2>5. IsGraph(graph)' /\ Items_' = Items_ /\ Calls' = Calls BY <1>1, <2>1, GraphKept DEF IsGraph
  <2>6. LoopTypeOK' BY <1>1, <2>1, <2>3, <2>4, <2>5 DEF LoopTypeOK
  <2> QED BY <2>1, <2>2, <2>6 DEF LoopIInv
<1>6. CASE ReturnLoop
  <2>1. /\ stack # << >> /\ loop # << >> /\ graph' = graph /\ visited' = visited
        /\ loop' = Append(loop, frame.item)
        /\ stack' = SubSeq(stack, 1, Len(stack) - 1)
    BY <1>6 DEF ReturnLoop
  <2>2. Reporting' BY <1>1, <1>6, <2>1, ReportKeeps DEF LoopIInv
  <2>3. frame.item \in Items_ BY <1>1, <2>1, CallFacts
  <2>4. loop' \in Seq(Items_) /\ loop' # << >> BY <1>1, <2>1, <2>3, Appended
  <2>5. stack' \in Seq(Calls) BY <1>1, <2>1, Popped
  <2>6. IsGraph(graph)' /\ Items_' = Items_ /\ Calls' = Calls BY <1>1, <2>1, GraphKept DEF IsGraph
  <2>7. LoopTypeOK' BY <1>1, <2>1, <2>4, <2>5, <2>6 DEF LoopTypeOK
  <2> QED BY <2>2, <2>4, <2>7 DEF LoopIInv
<1>7. CASE UNCHANGED loopVars
  <2>1. graph' = graph /\ visited' = visited /\ stack' = stack /\ loop' = loop BY <1>7 DEF loopVars
  <2>2. LoopIInv => LoopIInv' BY <2>1, StaysTheSame
  <2> QED BY <2>2
<1> QED BY <1>2, <1>3, <1>4, <1>5, <1>6, <1>7 DEF LoopNext

\* What the invariant says of a search that is over.
LEMMA SearchIsRight == LoopIInv => LoopDetection
<1> SUFFICES ASSUME LoopIInv PROVE LoopDetection OBVIOUS
<1>0. LoopTypeOK /\ IsGraph(graph) /\ loop \in Seq(Items_) /\ visited \in [Items_ -> {0, 1, 2}] BY DEF LoopIInv, LoopTypeOK
<1>1. LoopIsReal
  <2>1. loop # << >> => \E k \in DOMAIN stack : stack[k].item = loop[1] BY DEF LoopIInv, Reporting
  <2>2. LoopFound => Circle BY DEF LoopIInv, Reporting, LoopFound
  <2>3. ASSUME LoopFound, NEW k \in DOMAIN loop
        PROVE  LET j == loop[k]
                   i == IF k = Len(loop) THEN loop[1] ELSE loop[k + 1]
               IN j \in graph.dep[i] \/ Group(i) = Group(j)
    <3>1. Reporting /\ stack # << >> /\ frame.item = loop[1] BY <2>3 DEF LoopIInv, LoopFound
    <3>2. CASE k = Len(loop) BY <3>1, <3>2 DEF Reporting, Near
    <3>3. CASE k # Len(loop)
      <4>1. k < Len(loop) BY <1>0, <3>3
      <4>2. Near(loop[k+1], loop[k]) BY <3>1, <4>1 DEF Reporting
      <4> QED BY <3>3, <4>2 DEF Near
    <3> QED BY <3>2, <3>3
  <2> QED BY <2>1, <2>2, <2>3 DEF LoopIsReal
<1>2. ASSUME Clean PROVE ~PlainCircle
  <2>1. stack = << >> /\ loop = << >> /\ Searching /\ \A s \in Symbols_ : visited[s] # 0
    BY <1>2 DEF Clean, LoopIInv
  <2>2. \A i \in Items_ : visited[i] # 1 BY <2>1 DEF Searching, OnStack
  <2>3. \A i \in Items_ : visited[i] \in {0, 2} BY <1>0, <2>2
  <2>4. \A s \in Symbols_ : visited[s] = 2 BY <1>0, <2>1, <2>3, GraphFacts
  <2>5. \A c \in Chos_ : ~Returning(c) BY <2>1 DEF Returning
  <2>6. ASSUME NEW x \in Items_, Searched(x) # {} PROVE Finished(PG(x))
    <3>1. CASE x \in Chos_
      <4>1. ~Plain(x) /\ PG(x) = x BY <1>0, <2>6, <3>1, GroupFacts DEF Searched
      <4>2. PICK m : m \in graph.members[x] BY <2>6, <3>1 DEF Searched
      <4>3. visited[m] = 2 BY <1>0, <2>4, <3>1, <4>2, GraphFacts
      <4>4. visited[x] = 2 BY <2>1, <2>3, <3>1, <4>2, <4>3 DEF Searching, Marks
      <4> QED BY <2>1, <2>5, <3>1, <4>1, <4>4 DEF Searching, Marks
    <3>2. CASE x \in Symbols_ /\ PG(x) = x BY <2>4, <3>2 DEF Finished, Symbols_
    <3>3. CASE x \in Symbols_ /\ PG(x) # x
      <4>1. PG(x) \in Chos_ /\ Plain(PG(x)) /\ x \in graph.members[PG(x)]
        BY <1>0, <3>3, GroupFacts, GraphFacts
      <4> QED BY <2>1, <2>4, <2>5, <3>3, <4>1 DEF Searching, Marks
    <3> QED BY <1>0, <3>1, <3>2, <3>3, GraphFacts
  <2> DEFINE next == [i \in Items_ |-> Searched(i)]
             group == [i \in Items_ |-> PlainGroup(i)]
  <2>7. ASSUME NEW S, S \in SUBSET {group[i] : i \in {k \in DOMAIN next : next[k] # {}}}, S # {},
               \A a \in S : \E i \in DOMAIN next : group[i] = a /\ \E j \in next[i] : group[j] \in S
        PROVE  FALSE
    <3>1. DOMAIN next = Items_ OBVIOUS
    <3>2. \A i \in Items_ : next[i] = Searched(i) /\ group[i] = PG(i) BY DEF PG
    <3>3. \A i \in Items_ : Searched(i) \subseteq Items_ BY <1>0, GraphFacts DEF Searched
    <3> HIDE DEF next, group
    <3>4. ASSUME NEW a \in S PROVE a \in Items_ /\ Finished(a)
      <4>1. PICK i \in {k \in DOMAIN next : next[k] # {}} : a = group[i] BY <2>7
      <4>2. i \in Items_ /\ Searched(i) # {} /\ a = PG(i) BY <3>1, <3>2, <4>1
      <4> QED BY <1>0, <2>6, <4>2, GroupFacts
    <3>5. PICK a \in S : \A b \in S : ~LeadsTo(a, b) BY <2>1, <2>7, <3>4 DEF Searching, Behind
    <3>6. PICK i \in Items_ : group[i] = a /\ \E j \in next[i] : group[j] \in S BY <2>7, <3>1
    <3>7. PICK j \in next[i] : group[j] \in S BY <3>6
    <3>8. j \in Searched(i) /\ j \in Items_ /\ PG(i) = a /\ group[j] = PG(j) BY <3>2, <3>3, <3>6, <3>7
    <3>9. LeadsTo(a, group[j]) BY <3>8 DEF LeadsTo
    <3> QED BY <3>5, <3>7, <3>9
  <2> QED BY <2>7 DEF PlainCircle, Circular
<1> QED BY <1>1, <1>2 DEF LoopDetection, PlainLoopFound

\* Whatever the graph, and in whatever order symbols are taken, _check_dep_loop_sym and _check_dep_loop_choice
\* report only loops that are there, as they are, and pass no graph with a loop of those that the order cannot
\* hide: every loop of dependents, and every one through a choice of at most two symbols that only they enter.
THEOREM LoopsDetected == LoopSpec => []LoopDetection
<1>1. (\E g : IsGraph(g) /\ LoopInit(g)) => LoopIInv BY LoopStarts
<1> QED BY <1>1, LoopStep, SearchIsRight, PTL DEF LoopSpec
=============================================================================
