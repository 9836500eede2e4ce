----------------------------- MODULE MenuConfig -----------------------------
(***************************************************************************)
(* The terminal interface menuconfig.py to the configuration: which        *)
(* entries are shown, the cursor on them, the dialogs, and what becomes of *)
(* the configuration and its file.                                         *)
(*                                                                         *)
(* m is the main display with the configuration m.st: the menu it shows,   *)
(* the list of its entries and the window on it (MenuCursor), the rows     *)
(* that the selected entries of the parent menus were on, the modes, and   *)
(* whether there is something to save.  The dialogs that are open are a    *)
(* stack, for the functions that are running, the innermost first.  A key  *)
(* goes to the innermost.  m.status is "running" until the program is      *)
(* quit, or ends with an exception, and all that was not saved is lost.    *)
(***************************************************************************)
EXTENDS KconfigLines, ScrollWindow
LOCAL INSTANCE SequencesExt

CONSTANT Scenarios      \* what is configured: the tree, its 'menuconfig' symbols, the files, what the user
                        \* types, the sizes that the terminal takes, and how many keys there are

VARIABLES scenario, m, dialogs, screen,
          disk,                              \* functions from names to [exists, lines]
          conf_filename, minconf_filename,
          broken,       \* the files whose last save failed, which the user was told
          keys

vars == <<scenario, m, dialogs, screen, disk, conf_filename, minconf_filename, broken, keys>>

Missing == [exists |-> FALSE, lines |-> << >>]
Holding(lines) == [exists |-> TRUE, lines |-> lines]

Node(x) == m.st.tree.node[x]

----------------------------------------------------------------------------
(* What is shown.                                                          *)

IsItemNode(c) == c.kind \in {"sym", "choice"}
is_menuconfig(x) == Node(x).kind \in {"menu", "choice"} \/ x \in scenario.menuconfig

\* 'visible if' takes effect on a menu itself here, and on what is in it through the prompts.
_visible(st, x) ==
    LET c == st.tree.node[x] IN
    /\ c.prompt # << >> /\ ExprValue(st, c.prompt[1]) # 0
    /\ c.kind = "menu" => ExprValue(st, c.visibility) # 0

\* A mutant: an invisible symbol is left out with its children.
RECURSIVE Listed_VisibleOnly(_, _, _)
Listed_VisibleOnly(st, all, x) ==
    IF x = Nil THEN << >>
    ELSE LET below == Listed_VisibleOnly(st, all, st.tree.node[x].list)
         IN (IF _visible(st, x) \/ all THEN <<x>> \o (IF is_menuconfig(x) THEN << >> ELSE below) ELSE << >>)
            \o Listed_VisibleOnly(st, all, st.tree.node[x].next)

\* The entries for x and the nodes after it.  An implicit menu is shown below its symbol, and an
\* invisible symbol for the sake of visible children.
RECURSIVE Listed(_, _, _)
Listed(st, all, x) ==
    IF x = Nil THEN << >>
    ELSE LET c == st.tree.node[x]
             below == Listed(st, all, c.list)
             shown == _visible(st, x) \/ all \/ (c.kind = "sym" /\ below # << >>)
         IN (IF shown THEN <<x>> \o (IF is_menuconfig(x) THEN << >> ELSE below) ELSE << >>)
            \o Listed(st, all, c.next)

\* In a choice the entries of all its locations, no symbol twice, and those of this location first in
\* importance.
_shown_nodes(st, all, menu) ==
    LET c == st.tree.node[menu]
        SymsOf(nodes) == {st.tree.node[x].item : x \in {y \in ToSet(nodes) : st.tree.node[y].kind = "sym"}}
        location(acc, at) ==
            LET add(a, x) ==
                    IF st.tree.node[x].kind = "sym" /\ st.tree.node[x].item \in a.seen /\ at # menu THEN a
                    ELSE [shown |-> Append(a.shown, x), seen |-> a.seen \cup SymsOf(<<x>>)]
            IN FoldLeft(add, acc, Listed(st, all, st.tree.node[at].list))
        here == SymsOf(Listed(st, all, c.list))
    IN IF c.kind # "choice" THEN Listed(st, all, c.list)
       ELSE FoldLeft(location, [shown |-> << >>, seen |-> here], st.tree.cho[c.item].nodes).shown

RECURSIVE _parent_menu(_)
_parent_menu(x) ==
    LET p == Node(x).parent IN IF is_menuconfig(p) THEN p ELSE _parent_menu(p)

Index(nodes, x) == SelectInSeq(nodes, LAMBDA y : y = x) - 1
Selected(d) == d.shown[d.sel + 1]

raise(d) == [d EXCEPT !.status = "ValueError"]

\* The display d with entries 'nodes' and the cursor on x, which has to be one of them.
Showing(d, nodes, x, Place(_, _, _)) ==
    IF x \notin ToSet(nodes) THEN raise(d)
    ELSE [Place(d, Len(nodes), Index(nodes, x)) EXCEPT !.shown = nodes]

KeepRow(d, n, k) == on_row(d, n, k, row(d))
Center(d, n, k)  == center_vertically([d EXCEPT !.n = n, !.sel = k])

\* The list of a menu from its top.
Opened(d, menu, nodes) ==
    [d EXCEPT !.menu = menu, !.shown = nodes, !.n = Len(nodes), !.sel = 0, !.scroll = 0]

----------------------------------------------------------------------------
(* Menus.                                                                  *)

\* After the values have changed: the selected node has to be shown still.
_update_menu(d) == Showing(d, _shown_nodes(d.st, d.show_all, d.menu), Selected(d), KeepRow)

\* In a choice the cursor goes to the selected symbol.
_select_selected_choice_sym(d) ==
    LET s == Value(d.st, <<"selection", d.st.tree.node[d.menu].item>>)
        at == IF s = NoSym THEN << >> ELSE SelectSeq(Sym(d.st, s).nodes, LAMBDA x : x \in ToSet(d.shown))
    IN IF at = << >> THEN d ELSE Center(d, d.n, Index(d.shown, at[1]))

CanEnter(d, x) == is_menuconfig(x) /\ _shown_nodes(d.st, d.show_all, x) # << >>

_enter_menu(d, x) ==
    LET in == [Opened(d, x, _shown_nodes(d.st, d.show_all, x)) EXCEPT !.parents = Append(@, row(d))]
    IN IF Node(x).kind = "choice" THEN _select_selected_choice_sym(in) ELSE in

\* A mutant: the row is the old one although the window may have become lower.
_leave_menu_OldRow(d) ==
    LET parent == _parent_menu(d.menu)
        nodes == _shown_nodes(d.st, d.show_all, parent)
        OnRow(w, n, k) == [on_row(w, n, k, Last(d.parents)) EXCEPT !.parents = Front(@)]
        back == IF d.parents = << >> THEN Showing(d, nodes, d.menu, Center) ELSE Showing(d, nodes, d.menu, OnRow)
    IN IF d.menu = Top THEN d ELSE [back EXCEPT !.menu = parent]

\* The menu that is left gets the row it was on, if there is such a row still.
_leave_menu(d) ==
    LET parent == _parent_menu(d.menu)
        nodes == _shown_nodes(d.st, d.show_all, parent)
        OnRow(w, n, k) == [on_row(w, n, k, min(Last(d.parents), d.rows - 1)) EXCEPT !.parents = Front(@)]
        back == IF d.parents = << >> THEN Showing(d, nodes, d.menu, Center) ELSE Showing(d, nodes, d.menu, OnRow)
    IN IF d.menu = Top THEN d ELSE [back EXCEPT !.menu = parent]

\* The cursor stays, or goes to the nearest entry before it that is shown still, else after it.  With
\* nothing to show nothing changes.
_toggle_show_all(d) ==
    LET nodes == _shown_nodes(d.st, ~d.show_all, d.menu)
        still == {k \in 1..d.n : d.shown[k] \in ToSet(nodes)}
        before == {k \in still : k <= d.sel + 1}
        to == IF before # {} THEN CHOOSE k \in before : \A j \in before : j <= k
              ELSE CHOOSE k \in still : \A j \in still : k <= j
    IN IF still = {} THEN [d EXCEPT !.show_all = TRUE]
       ELSE [Showing(d, nodes, d.shown[to], KeepRow) EXCEPT !.show_all = ~@]

\* Inside a choice or menu, show-all is tried to be turned off again, if it was turned on for the jump.
Inside(d, x, forced) ==
    LET in(w) == IF Node(x).kind = "choice" THEN _select_selected_choice_sym(center_vertically(w)) ELSE w
    IN IF forced THEN in(_toggle_show_all(d)) ELSE in(d)

\* To a node, or into a choice or menu, to its first node.  Show-all is turned on when the node is not
\* shown without.
_jump_to(d, x) ==
    LET into == Node(x).kind \in {"choice", "menu"} /\ Node(x).list # Nil
        menu == IF into THEN x ELSE _parent_menu(x)
        node == IF into THEN Node(x).list ELSE x
        forced == node \notin ToSet(_shown_nodes(d.st, d.show_all, menu))
        all == d.show_all \/ forced
        there(w) == IF into /\ w.status = "running" THEN Inside(w, x, forced /\ ~d.show_all) ELSE w
    IN center_vertically(there(Showing([d EXCEPT !.show_all = all, !.menu = menu, !.parents = << >>],
                                       _shown_nodes(d.st, all, menu), node, Center)))

----------------------------------------------------------------------------
(* Values.                                                                 *)

\* A mutant: the configuration is taken to be saved still after a choice was changed.
_set_val_SymbolsOnly(d, i, v) ==
    IF v = Value(d.st, <<IF IsSym(d.st, i) THEN "str" ELSE "tri", i>>) THEN d
    ELSE IF IsSym(d.st, i) THEN _update_menu([d EXCEPT !.st = Evaluated(set_value(@, i, v)), !.conf_changed = TRUE])
    ELSE _update_menu([d EXCEPT !.st = Evaluated(choice_set_value(@, i, v))])

_set_val(d, i, v) ==
    IF v = Value(d.st, <<IF IsSym(d.st, i) THEN "str" ELSE "tri", i>>) THEN d
    ELSE _update_menu([d EXCEPT !.st = Evaluated(IF IsSym(@, i) THEN set_value(@, i, v) ELSE choice_set_value(@, i, v)),
                                !.conf_changed = TRUE])

Assignable(st, i) == Value(st, <<"assignable", i>>)
_is_y_mode_choice_sym(st, i) == IsSym(st, i) /\ InChoice(st, i) /\ Vis(st, i) = 2
Typed(st, i) == OrigType(st, i) \in {"string", "int", "hex"}

_changeable(st, x) ==
    LET c == st.tree.node[x] IN
    /\ IsItemNode(c) /\ c.prompt # << >> /\ ExprValue(st, c.prompt[1]) # 0
    /\ \/ Typed(st, c.item)
       \/ Cardinality(Assignable(st, c.item)) > 1
       \/ _is_y_mode_choice_sym(st, c.item)

\* The value after the current one, the first after the last; a current value that cannot be assigned
\* is looked for in vain.
Cycled(d, i) ==
    LET values == Assignable(d.st, i)
        above == {v \in values : v > Tri(d.st, i)}
        next == IF above = {} THEN values ELSE above
    IN IF Cardinality(values) > 1 /\ Tri(d.st, i) \notin values THEN raise(d)
       ELSE _set_val(d, i, CHOOSE v \in next : \A w \in next : v <= w)

\* After a selection in a choice the choice is left, unless the entry has children.
Chosen(d, x) ==
    IF d.status = "running" /\ _is_y_mode_choice_sym(d.st, Node(x).item) /\ Node(x).list = Nil
    THEN _leave_menu(d) ELSE d

\* _change_node for a bool or tristate.
Toggled(d, x) == Chosen(Cycled(d, Node(x).item), x)

\* n, m or y; the node itself need not be changeable.
_set_sel_node_tri_val(d, v) ==
    LET c == Node(Selected(d)) IN
    IF IsItemNode(c) /\ v \in Assignable(d.st, c.item) THEN _set_val(d, c.item, v) ELSE d

\* What a value has to be.  A bound without a value is no number, which int() does not take.
ValidRange(st, s) ==
    LET i == Active(st, Sym(st, s).ranges) IN
    IF i = 0 THEN << >> ELSE <<StrOf(st, Sym(st, s).ranges[i][1]), StrOf(st, Sym(st, s).ranges[i][2])>>
_check_valid(st, s, v) ==
    OrigType(st, s) \in IntHex =>
        /\ v # Empty
        /\ ValidRange(st, s) = << >> \/ (ValidRange(st, s)[1] <= v /\ v <= ValidRange(st, s)[2])
\* A bound is only looked at when the value is a number, the upper one when the lower one holds.
BadBound(st, s, v) ==
    LET range == ValidRange(st, s)
        bad(b) == b \in {Empty, NameString}
    IN /\ OrigType(st, s) \in IntHex /\ v # Empty /\ range # << >>
       /\ bad(range[1]) \/ (range[1] <= v /\ bad(range[2]))

----------------------------------------------------------------------------
(* Windows and dialogs.                                                    *)

help_height(d) == IF d.show_help THEN 8 ELSE 4
_resize_main(d) == resized(d, max(screen.height - help_height(d) - 3, 1))
jump_rows == max(screen.height - 9, 1)
info_rows == max(screen.height - 3, 1)

Dialog(kind) == [kind |-> kind]
Message == Dialog("message")
\* What the save dialog does when its message is dismissed.
Saved(kind, f) == [kind |-> "saved", for |-> kind, file |-> f]
Input(for, len) ==
    [kind |-> "input", for |-> for] @@ opened(len, min(screen.width, 30) - 4)
Jump ==
    LET all == scenario.matches IN
    [kind |-> "jump", shown |-> all, n |-> Len(all), sel |-> 0, scroll |-> 0, rows |-> jump_rows]
    @@ [len |-> 0, i |-> 0, hscroll |-> 0, width |-> screen.width - 2]
Info(fromJump) ==
    [kind |-> "info", fromJump |-> fromJump, n |-> scenario.info, sel |-> 0, scroll |-> 0, rows |-> info_rows]

Dialog1 == Head(dialogs)
Open(kind) == dialogs # << >> /\ Dialog1.kind = kind
Replace(d) == dialogs' = <<d>> \o Tail(dialogs)
Close == dialogs' = Tail(dialogs)
\* A display that was covered by another, fitted to what the terminal has become.
Refit(d) ==
    CASE d.kind = "jump" -> [resized(d, jump_rows) EXCEPT !.width = screen.width - 2]
      [] d.kind = "info" -> [d EXCEPT !.rows = info_rows]
      [] OTHER -> d
Uncover == dialogs' = IF Len(dialogs) = 1 THEN << >> ELSE <<Refit(dialogs[2])>> \o SubSeq(dialogs, 3, Len(dialogs))

----------------------------------------------------------------------------
(* Starting, loading, saving.                                              *)

\* Would saving change the file just loaded?
_needs_save(st, lines) ==
    \/ \E k \in DOMAIN lines : lines[k][1] \notin defined_syms(st.tree)
    \/ \E s \in defined_syms(st.tree) :
         IF st.user[s] = None THEN write_to_conf(st, s) ELSE Str(st, s) # st.user[s]

Loaded(parsed) == LET t == Finalize(parsed) IN Ready(NewState(t, build_dep(t)))

\* menuconfig() and _init(); a configuration with nothing to show in show-all mode either is given up.
Start(st, files) ==
    LET old == files[".config"]
        now == IF old.exists THEN _load_config(st, old.lines, TRUE) ELSE st
    IN [st |-> now, menu |-> Top, shown |-> << >>, n |-> 0, sel |-> 0, scroll |-> 0, rows |-> 1, parents |-> << >>,
        show_all |-> FALSE, show_help |-> FALSE, conf_changed |-> ~old.exists \/ _needs_save(now, old.lines),
        status |-> "starting"]

Init ==
    /\ scenario \in ToSet(Scenarios)
    /\ screen \in scenario.screens
    /\ disk \in scenario.disks
    /\ m = Start(Loaded(scenario.tree), disk)
    /\ dialogs = << >> /\ conf_filename = ".config" /\ minconf_filename = "defconfig"
    /\ broken = {} /\ keys = 0

Shows(all) == _shown_nodes(m.st, all, Top)
Begin ==
    /\ m.status = "starting"
    /\ m' = IF Shows(TRUE) = << >> THEN [m EXCEPT !.status = "quit"]
            ELSE LET all == Shows(FALSE) = << >>
                     d == [Opened(m, Top, Shows(all)) EXCEPT !.show_all = all, !.status = "running"]
                 IN _resize_main(d)
    /\ UNCHANGED <<scenario, dialogs, screen, disk, conf_filename, minconf_filename, broken, keys>>

\* A key is read, by the main display or the innermost dialog.
Key(op) ==
    /\ m.status = "running" /\ op \in scenario.ops /\ keys < scenario.max /\ keys' = keys + 1
    /\ UNCHANGED scenario
AtMain(op) == dialogs = << >> /\ Key(op)
Files == <<disk, conf_filename, minconf_filename, broken>>
Display(d) == m' = d /\ UNCHANGED <<dialogs, screen, Files>>

----------------------------------------------------------------------------
(* Keys in the main display.                                               *)

MoveCursor ==
    /\ AtMain("move")
    /\ \E d \in {select_next(m), select_prev(m), Paged(select_next, m), Paged(select_prev, m),
                 select_last(m), select_first(m)} : d # m /\ Display(d)

\* Space changes the node if it can be changed, else enters it; Enter tries that the other way round.
Change(first) ==
    LET x == Selected(m) IN
    /\ _changeable(m.st, x) /\ (first \/ ~CanEnter(m, x))
    /\ IF Typed(m.st, Node(x).item)
       THEN /\ dialogs' = <<Input("value", scenario.typing)>>
            /\ UNCHANGED <<m, screen, Files>>
       ELSE Display(Toggled(m, x))
Enter(first) ==
    LET x == Selected(m) IN
    CanEnter(m, x) /\ (first \/ ~_changeable(m.st, x)) /\ Display(_enter_menu(m, x))
SpaceKey == AtMain("go") /\ (Change(TRUE) \/ Enter(FALSE))
EnterKey == AtMain("go") /\ (Enter(TRUE) \/ Change(FALSE))

SetKey == AtMain("go") /\ \E v \in 0..2 : LET d == _set_sel_node_tri_val(m, v) IN d # m /\ Display(d)
LeaveKey == AtMain("go") /\ m.menu # Top /\ Display(_leave_menu(m))
ToggleShowAll == AtMain("all") /\ Display(_toggle_show_all(m))
ToggleHelp == AtMain("resize") /\ Display(_resize_main([m EXCEPT !.show_help = ~@]))

\* The dialogs; loading over unsaved changes is asked about.
OpenDialog ==
    \/ /\ AtMain("load")
       /\ dialogs' = IF m.conf_changed THEN <<Dialog("load?")>> ELSE <<Input("load", scenario.typing)>>
       /\ UNCHANGED <<m, screen, Files>>
    \/ /\ AtMain("save") /\ \E for \in {"save", "min"} : dialogs' = <<Input(for, scenario.typing)>>
       /\ UNCHANGED <<m, screen, Files>>
    \/ /\ AtMain("jump") /\ \E d \in {Jump, Info(FALSE)} : dialogs' = <<d>>
       /\ UNCHANGED <<m, screen, Files>>

\* ESC in the top menu, or Q: nothing is asked without changes.
QuitKey ==
    /\ AtMain("quit")
    /\ IF m.conf_changed THEN dialogs' = <<Dialog("quit?")>> /\ UNCHANGED m
       ELSE m' = [m EXCEPT !.status = "quit"] /\ UNCHANGED dialogs
    /\ UNCHANGED <<screen, Files>>

----------------------------------------------------------------------------
(* Keys in the dialogs.                                                    *)

\* A message is dismissed.  Only then does the save dialog's caller note that the configuration is saved.
Dismiss ==
    /\ Key("go") /\ (Open("message") \/ Open("saved")) /\ Close
    /\ LET saved == Dialog1.kind = "saved" /\ Dialog1.for = "save" IN
       /\ conf_filename' = IF saved THEN Dialog1.file ELSE conf_filename
       /\ m' = IF saved THEN [m EXCEPT !.conf_changed = FALSE] ELSE m
       /\ minconf_filename' = IF ~saved /\ Dialog1.kind = "saved" THEN Dialog1.file ELSE minconf_filename
    /\ UNCHANGED <<screen, disk, broken>>

\* ESC, or C: the dialog is given up.  After the information or search display, which fill the screen,
\* the main display is fitted to what the terminal has become.
Cancel ==
    /\ Key("go") /\ dialogs # << >> /\ Dialog1.kind \in {"input", "load?", "quit?", "jump", "info"} /\ Uncover
    /\ m' = IF Dialog1.kind \in {"jump", "info"} /\ Len(dialogs) = 1 THEN _resize_main(m) ELSE m
    /\ UNCHANGED <<screen, Files>>

LoadAnyway ==
    /\ Key("go") /\ Open("load?") /\ Replace(Input("load", scenario.typing))
    /\ UNCHANGED <<m, screen, Files>>

\* A value was typed.  One that is not valid is asked for again, below the message.
ValueTyped ==
    /\ Key("go") /\ Open("input") /\ Dialog1.for = "value"
    /\ LET x == Selected(m)
           s == Node(x).item
       IN \E v \in scenario.values :
            IF BadBound(m.st, s, v) THEN m' = raise(m) /\ UNCHANGED dialogs
            ELSE IF _check_valid(m.st, s, v)
            THEN Close /\ m' = Chosen(_set_val(m, s, v), x)
            ELSE dialogs' = <<Message, Input("value", scenario.typing)>> /\ UNCHANGED m
    /\ UNCHANGED <<screen, Files>>

\* A mutant: show-all is left as it was when the selected node disappears.
AllAfterLoad_Kept(new) == m.show_all

AllAfterLoad(new) == m.show_all \/ Selected(m) \notin ToSet(_shown_nodes(new, m.show_all, m.menu))

\* A file name was typed for loading: the error of a file that cannot be read leads back to the dialog.
\* Show-all is turned on when the selected node is not visible any more.
LoadTyped ==
    /\ Key("go") /\ Open("input") /\ Dialog1.for = "load"
    /\ \E f \in DOMAIN disk :
         IF ~disk[f].exists
         THEN dialogs' = <<Message, Input("load", scenario.typing)>> /\ UNCHANGED <<m, conf_filename>>
         ELSE /\ \E new \in {_load_config(m.st, disk[f].lines, TRUE)} :
                   m' = _update_menu([m EXCEPT !.st = new, !.conf_changed = _needs_save(new, disk[f].lines),
                                               !.show_all = AllAfterLoad(new)])
              /\ conf_filename' = f /\ dialogs' = <<Message>>
    /\ UNCHANGED <<screen, disk, minconf_filename, broken>>

Contents(for) == IF for = "min" THEN _min_config_contents(m.st) ELSE _config_contents(m.st)

\* What a failed save leaves: the file, or none, as it was renamed before, or a part of the new one.
Spoilt(f, lines) == {disk[f], Missing} \cup {Holding(SubSeq(lines, 1, k)) : k \in 0..(Len(lines) - 1)}

SaveTyped ==
    /\ Key("go") /\ Open("input") /\ Dialog1.for \in {"save", "min"}
    /\ \E f \in DOMAIN disk :
         \/ /\ dialogs' = <<Saved(Dialog1.for, f)>> /\ broken' = broken \ {f}
            /\ disk' = [disk EXCEPT ![f] = Holding(Contents(Dialog1.for))]
         \/ /\ dialogs' = <<Message, Input(Dialog1.for, scenario.typing)>> /\ broken' = broken \cup {f}
            /\ \E rest \in Spoilt(f, Contents(Dialog1.for)) : disk' = [disk EXCEPT ![f] = rest]
    /\ UNCHANGED <<m, screen, conf_filename, minconf_filename>>

\* Y or N in the quit dialog.  A failed save leads back to it.
Quit ==
    /\ Key("quit") /\ Open("quit?")
    /\ LET f == conf_filename IN
       \/ /\ m' = [m EXCEPT !.status = "quit", !.conf_changed = FALSE] /\ Close
          /\ disk' = [disk EXCEPT ![f] = Holding(Contents("save"))] /\ broken' = broken \ {f}
       \/ /\ dialogs' = <<Message>> \o dialogs /\ UNCHANGED m
          /\ \E rest \in Spoilt(f, Contents("save")) : disk' = [disk EXCEPT ![f] = rest]
          /\ broken' = broken \cup {f}
       \/ m' = [m EXCEPT !.status = "quit"] /\ Close /\ UNCHANGED <<disk, broken>>
    /\ UNCHANGED <<screen, conf_filename, minconf_filename>>

\* Keys of the search display and, for what has a text, of the edit box.
JumpMove ==
    /\ Key("jump") /\ Open("jump")
    /\ \E d \in {select_next_match(Dialog1), select_prev_match(Dialog1), Paged(select_next_match, Dialog1),
                 Paged(select_prev_match, Dialog1), select_last(Dialog1), select_first(Dialog1)} :
          d # Dialog1 /\ Replace(d)
    /\ UNCHANGED <<m, screen, Files>>
InfoMove ==
    /\ Key("jump") /\ Open("info")
    /\ \E k \in {min(Dialog1.scroll + 1, max(max_scroll(Dialog1), Dialog1.scroll)), max(Dialog1.scroll - 1, 0),
                 min(Dialog1.scroll + PG_JUMP, max_scroll(Dialog1)), max(Dialog1.scroll - PG_JUMP, 0),
                 max_scroll(Dialog1), 0} :
          k # Dialog1.scroll /\ Replace([Dialog1 EXCEPT !.scroll = k])
    /\ UNCHANGED <<m, screen, Files>>

\* Another text finds other nodes, and the first of them is selected; the nodes keep their order.
Search(d) ==
    {[d EXCEPT !.shown = SelectSeq(scenario.matches, LAMBDA x : x \in found),
               !.n = Cardinality(found), !.sel = 0, !.scroll = 0] : found \in scenario.searches}
EditText ==
    /\ Key("edit") /\ (Open("input") \/ Open("jump"))
    /\ \/ \E d \in edit_moves(Dialog1) : d # Dialog1 /\ Replace(d)
       \/ \E d \in edit_changes(Dialog1) :
             d # Dialog1 /\ d.len <= scenario.longest /\ (IF d.kind = "jump" THEN \E e \in Search(d) : Replace(e) ELSE Replace(d))
    /\ UNCHANGED <<m, screen, Files>>

\* Ctrl-F and / open one of the two displays from the other, but not a search inside a search.
Nested ==
    /\ Key("jump")
    /\ \/ Open("jump") /\ Dialog1.n # 0 /\ dialogs' = <<Info(TRUE)>> \o dialogs
       \/ Open("info") /\ ~Dialog1.fromJump /\ dialogs' = <<Jump>> \o dialogs
       \/ Open("info") /\ Dialog1.fromJump /\ Uncover
    /\ UNCHANGED <<m, screen, Files>>

\* The jump closes the displays it was made from.
JumpTo ==
    /\ Key("jump") /\ Open("jump") /\ Dialog1.n # 0
    /\ \E d \in {_jump_to(m, Selected(Dialog1))} : m' = IF d.status = "running" THEN _resize_main(d) ELSE d
    /\ dialogs' = << >>
    /\ UNCHANGED <<screen, Files>>

\* The terminal gets another size.  The innermost display notices, and the main one below a dialog that
\* does not fill the screen.
Resized ==
    /\ Key("resize") /\ \E size \in scenario.screens : size # screen /\ screen' = size
    /\ LET main == resized(m, max(screen'.height - help_height(m) - 3, 1)) IN
       IF dialogs = << >> THEN m' = main /\ UNCHANGED dialogs
       ELSE LET d == Dialog1 IN
            CASE d.kind = "jump" -> Replace([resized(d, max(screen'.height - 9, 1)) EXCEPT !.width = screen'.width - 2]) /\ UNCHANGED m
              [] d.kind = "info" -> Replace([d EXCEPT !.rows = max(screen'.height - 3, 1)]) /\ UNCHANGED m
              [] d.kind = "input" -> Replace([d EXCEPT !.width = min(screen'.width, 30) - 4]) /\ m' = main
              [] OTHER -> m' = main /\ UNCHANGED dialogs
    /\ UNCHANGED Files

Next ==
    \/ Begin \/ MoveCursor \/ SpaceKey \/ EnterKey \/ SetKey \/ LeaveKey \/ ToggleShowAll \/ ToggleHelp
    \/ OpenDialog \/ QuitKey \/ Dismiss \/ Cancel \/ LoadAnyway \/ ValueTyped \/ LoadTyped \/ SaveTyped \/ Quit
    \/ JumpMove \/ InfoMove \/ EditText \/ Nested \/ JumpTo \/ Resized
Spec == Init /\ [][Next]_vars

----------------------------------------------------------------------------
(* Properties.                                                             *)

Running == m.status = "running"
Top1 == IF dialogs = << >> THEN Dialog("none") ELSE Dialog1
Covered == Top1.kind \in {"jump", "info"}

\* There always is a selected entry, it is one that the menu shows, and it is in the window, which has
\* the size that the terminal leaves it.  So it is in the search display, as long as something matches.
\* The cursor of a text does not leave its box, and keeps off the edges, if the box was not narrowed
\* since the last key.
CursorOnScreen ==
    Running =>
        /\ InWindow(m) /\ m.n = Len(m.shown) /\ m.shown = _shown_nodes(m.st, m.show_all, m.menu)
        /\ ~Covered => m.rows = max(screen.height - help_height(m) - 3, 1)
        /\ Top1.kind = "jump" /\ Top1.n # 0 => InWindow(Top1)

\* The text is as its box shows it after every key.
CursorInBox ==
    [][\A d \in {Top1'} : d.kind \in {"input", "jump"} /\ keys' # keys /\ screen' = screen => InBox(d)]_vars

\* The main display is the window of MenuCursor.
Cursor == INSTANCE MenuCursor WITH win <- [n |-> m.n, rows |-> m.rows, sel |-> m.sel, scroll |-> m.scroll]
ImplementsCursor ==
    [][Running /\ m'.status = "running" => [Cursor!WindowNext]_<<m.n, m.rows, m.sel, m.scroll>>]_vars

\* No cursor is ever out of sight, in a list or in a text.
CursorsKept == ImplementsCursor /\ CursorInBox

\* A program that says there is nothing to save is right: the file, loaded anew, gives every symbol its
\* value.  Not so if the user was told that a save there had failed, chose to save there a minimal
\* configuration that is silent on the mode of a choice, or if a default lies above a visibility of m.
NothingUnsaved ==
    Running /\ ~m.conf_changed /\ conf_filename \notin broken
    /\ (\A s \in defined_syms(m.st.tree) : ~Overshoots(m.st, s))
    /\ ~(/\ \E c \in DOMAIN m.st.tree.cho : ModeUnsaid(m.st, c)
         /\ disk[conf_filename] = Holding(_min_config_contents(m.st))) =>
        /\ disk[conf_filename].exists
        /\ SymValues(_load_config(Unset(m.st), disk[conf_filename].lines, TRUE)) = SymValues(m.st)

\* The nodes that can be reached from the main menu by entering what can be entered.
RECURSIVE Entered(_, _)
Entered(menu, seen) ==
    FoldLeft(LAMBDA acc, x : IF CanEnter(m, x) /\ x \notin acc THEN Entered(x, acc \cup {x}) ELSE acc \cup {x},
             seen, _shown_nodes(m.st, m.show_all, menu))

\* Every symbol and choice that is visible can be found in some menu, in show-all mode or not.
EverythingReachable ==
    Running =>
        LET found == {Node(x).item : x \in {y \in Entered(Top, {}) : IsItemNode(Node(y))}}
        IN \A i \in Defined(m.st.tree) : Vis(m.st, i) # 0 => i \in found

\* The program ends with an exception in these circumstances only: the selected node disappears with
\* the change, which takes one that is not changeable or a choice with several locations; a choice is
\* left at a location that is not shown in its parent; the value is above what can be assigned; or a
\* bound of the range is no number.
CrashOnlyThen ==
    [][Running /\ m'.status = "ValueError" =>
        LET x == Selected(m)
            i == Node(x).item
        IN \/ IsItemNode(Node(x)) /\ ~_changeable(m.st, x)
           \/ Node(m.menu).kind = "choice" /\ Len(Cho(m.st, Node(m.menu).item).nodes) > 1
           \/ IsItemNode(Node(x)) /\ Tri(m.st, i) \notin Assignable(m.st, i)
           \/ Open("input") /\ Dialog1.for = "value" /\ \E v \in scenario.values : BadBound(m.st, i, v)]_vars
=============================================================================
