----------------------------- MODULE MenuCursor -----------------------------
(***************************************************************************)
(* What a window of menuconfig.py on a list promises: whatever list it is  *)
(* given and whatever its height, the selected entry is in it.             *)
(***************************************************************************)
EXTENDS ScrollWindow

VARIABLE win

Window == [n : Nat \ {0}, rows : Nat \ {0}, sel : Nat, scroll : Nat]

WindowInit == win \in Window /\ win.sel = 0 /\ win.scroll = 0

Move ==
    \/ win' = select_next(win)
    \/ win' = select_prev(win)
    \/ win' = Paged(select_next, win)
    \/ win' = Paged(select_prev, win)
    \/ win' = select_last(win)
    \/ win' = select_first(win)

Resize == win'.rows \in Nat \ {0} /\ win' = resized(win, win'.rows)

\* Another list, or a changed one, and maybe another height: the selected entry goes on some row, or in
\* the middle.
Refill ==
    /\ win'.n \in Nat \ {0} /\ win'.sel \in 0..(win'.n - 1) /\ win'.rows \in Nat \ {0}
    /\ \/ win' = resized(center_vertically([win EXCEPT !.n = win'.n, !.sel = win'.sel]), win'.rows)
       \/ \E r \in 0..(win.rows - 1) : win' = resized(on_row(win, win'.n, win'.sel, r), win'.rows)

WindowNext == Move \/ Resize \/ Refill
WindowSpec == WindowInit /\ [][WindowNext]_win

\* The selected entry is one of the list, and is in the window.
OnScreen == win \in Window /\ InWindow(win)
=============================================================================
