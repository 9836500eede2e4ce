---------------------------- MODULE KconfigFiles ----------------------------
(***************************************************************************)
(* The files that kconfiglib.py reads and writes: configurations, minimal  *)
(* configurations, the C header, and the dependency directory of           *)
(* sync_deps.  Programs run one after the other; one that runs has a       *)
(* configuration st, and the steps on files that are left of the call it   *)
(* makes.  What a call writes depends on nothing that changes during the   *)
(* call, so its steps are known when it begins.  A program may be killed   *)
(* between two steps, and a step may fail, which ends the call.            *)
(*                                                                         *)
(* Values are computed anew here: that caching changes none of them is a   *)
(* property of KconfigSession.                                             *)
(***************************************************************************)
EXTENDS KconfigTools
LOCAL INSTANCE SequencesExt

CONSTANT Scenarios      \* what programs have to work on: the versions of the configuration, what they do,
                        \* what they set, the command lines of setconfig, the hand-written files, and how many calls and failures there are

VARIABLES scenario, kconfigs,  \* one of Scenarios, and its versions of the configuration with all at their defaults
          running, st,  \* whether a program runs, and its configuration
          disk,         \* the files, functions from names to [exists, lines]
          todo,         \* the steps left
          asking,       \* oldconfig: the node it has come to, 0 when it does not run, and whether a value has
                        \* changed on the way through the menus
          dirty,        \* symbols whose file in the dependency directory was touched since the last compilation
          compiled,     \* the value of each symbol that the object files were compiled with
          ready,        \* what the running program has done of a build since its configuration changed
          last,         \* the last configuration that was saved entirely
          hurt,         \* "backup": the current save could not keep .config or keeps a torn one; "auto": the
                        \* writing of auto.conf was cut off; symbols that lost their definition unnoticed
          steps

vars == <<scenario, kconfigs, running, st, disk, todo, asking, dirty, compiled, ready, last, hurt, steps>>

Missing == [exists |-> FALSE, lines |-> << >>]
Holding(lines) == [exists |-> TRUE, lines |-> lines]

FileNames == {".config", ".config.old", "min", "config.out", "auto.conf", "autoconf.h", "hand"}

----------------------------------------------------------------------------
(* Loading.                                                                *)

\* The first file of the defconfig_list whose condition holds and that can be opened.
defconfig_filename(s0) ==
    LET i == SelectInSeq(scenario.defconfigs, LAMBDA d : ExprValue(s0, d[2]) # 0 /\ disk[d[1]].exists)
    IN IF i = 0 THEN "none" ELSE scenario.defconfigs[i][1]

\* load_config() without a file name.
load_config(s0) ==
    LET filename == IF disk[".config"].exists THEN ".config" ELSE defconfig_filename(s0)
    IN IF filename = "none" THEN s0 ELSE _load_config(s0, disk[filename].lines, TRUE)

\* The file that KCONFIG_ALLCONFIG names, or the first there is of the command's own file and
\* all.config.
load_allconfig(s0) == _load_config(s0, disk["hand"].lines, FALSE)

----------------------------------------------------------------------------
(* Steps on files.                                                         *)

Keep             == [kind |-> "keep"]                       \* _save_old
Open(f)          == [kind |-> "open", file |-> f]           \* open(f, "w") empties the file
Write(f, lines)  == [kind |-> "write", file |-> f, lines |-> lines]
Touch(s)         == [kind |-> "touch", sym |-> s]

_contents_eq(f, lines) == disk[f] = Holding(lines)

_write_if_changed(f, lines) == IF _contents_eq(f, lines) THEN << >> ELSE <<Open(f), Write(f, lines)>>

\* A mutant: the old file is kept when the new one has been opened.
write_config_KeepLast(s0, save_old) ==
    LET writes == _write_if_changed(".config", _config_contents(s0))
    IN IF save_old /\ writes # << >> THEN <<writes[1], Keep, writes[2]>> ELSE writes

write_config(s0, save_old) ==
    LET writes == _write_if_changed(".config", _config_contents(s0))
    IN IF save_old /\ writes # << >> THEN <<Keep>> \o writes ELSE writes

\* The value that auto.conf has for a symbol, None if it has none.
_old_val(s) ==
    LET lines == disk["auto.conf"].lines
        i == SelectInSeq(lines, LAMBDA l : l[1] = s)
    IN IF i = 0 THEN None ELSE lines[i][2]

\* A mutant: auto.conf is written before the files are touched.
sync_deps_WriteFirst(s0) ==
    LET Changed(s) == IF write_to_conf(s0, s)
                      THEN /\ ~(_old_val(s) = None /\ OrigType(s0, s) \in BoolTristate /\ Str(s0, s) = 0)
                           /\ Str(s0, s) # _old_val(s)
                      ELSE _old_val(s) # None
        changed == SelectSeq(unique_defined_syms(s0.tree), Changed)
    IN _write_if_changed("auto.conf", _old_vals_contents(s0)) \o [i \in DOMAIN changed |-> Touch(changed[i])]

\* The symbols of auto.conf that no longer exist, then those that changed, are touched, and the new
\* values are written last.
sync_deps(s0) ==
    LET lines == disk["auto.conf"].lines
        gone == SelectSeq([i \in DOMAIN lines |-> lines[i][1]], LAMBDA s : s \notin DOMAIN s0.tree.sym)
        Changed(s) == IF write_to_conf(s0, s)
                      THEN /\ ~(_old_val(s) = None /\ OrigType(s0, s) \in BoolTristate /\ Str(s0, s) = 0)
                           /\ Str(s0, s) # _old_val(s)
                      ELSE _old_val(s) # None
        touched == gone \o SelectSeq(unique_defined_syms(s0.tree), Changed)
    IN [i \in DOMAIN touched |-> Touch(touched[i])]
         \o _write_if_changed("auto.conf", _old_vals_contents(s0))

----------------------------------------------------------------------------
(* Programs.                                                               *)

\* The end of Kconfig.__init__.
Loaded(parsed) == LET t == Finalize(parsed) IN Ready(NewState(t, build_dep(t)))

AllNames == UNION {DOMAIN kconfigs[k].tree.sym : k \in DOMAIN kconfigs}

NotAsking == [at |-> 0, changed |-> FALSE]

Init ==
    /\ scenario \in ToSet(Scenarios)
    /\ kconfigs = [k \in DOMAIN scenario.trees |-> Loaded(scenario.trees[k])]
    /\ running = FALSE /\ st = kconfigs[1]
    /\ disk \in {[f \in FileNames |-> IF f = "hand" THEN Holding(h) ELSE Missing] : h \in scenario.hand}
    /\ todo = << >> /\ asking = NotAsking /\ dirty = AllNames /\ compiled = [s \in AllNames |-> None] /\ ready = {}
    /\ last = Missing /\ hurt = {} /\ steps = 0

Can(op) == op \in scenario.ops /\ steps < scenario.max
Idle == running /\ todo = << >> /\ asking.at = 0
Count == steps' = steps + 1

\* A program starts, with any version of the Kconfig files, and loads the configuration.
Start ==
    /\ ~running /\ "set" \in scenario.ops
    /\ \E k \in DOMAIN kconfigs : st' = load_config(kconfigs[k])
    /\ running' = TRUE /\ ready' = {}
    /\ UNCHANGED <<scenario, kconfigs, disk, todo, asking, dirty, compiled, last, hurt, steps>>

Changes(new) ==
    /\ st' = new /\ ready' = {}
    /\ UNCHANGED <<scenario, kconfigs, running, disk, todo, asking, dirty, compiled, last, hurt, steps>>

\* A program that starts, makes a configuration of one it has just read, and writes it.
Makes(op, new, done) ==
    /\ ~running /\ Can(op) /\ running' = TRUE /\ Count
    /\ st' = new /\ todo' = write_config(new, TRUE) /\ ready' = done
    /\ hurt' = IF disk[".config"].exists /\ disk[".config"] # last THEN hurt \cup {"backup"} ELSE hurt
    /\ UNCHANGED <<scenario, kconfigs, disk, asking, dirty, compiled, last>>

\* The same, when KCONFIG_ALLCONFIG may be set; when it is not, ready tells what the values are.
MakesAll(op, new) ==
    \/ Makes(op, new, {op})
    \/ disk["hand"].exists /\ Makes(op, load_allconfig(new), {})

Alldefconfig == \E k \in DOMAIN kconfigs : MakesAll("alldefconfig", kconfigs[k])
Allnoconfig  == \E k \in DOMAIN kconfigs : MakesAll("allnoconfig", allnoconfig(kconfigs[k]))
Allyesconfig == \E k \in DOMAIN kconfigs : MakesAll("allyesconfig", allyesconfig(kconfigs[k]))
Allmodconfig == \E k \in DOMAIN kconfigs : MakesAll("allmodconfig", allmodconfig(kconfigs[k]))
Defconfig ==
    \E k \in DOMAIN kconfigs :
        disk["hand"].exists /\ Makes("defconfig", _load_config(kconfigs[k], disk["hand"].lines, TRUE), {})
Olddefconfig == \E k \in DOMAIN kconfigs : Makes("olddefconfig", load_config(kconfigs[k]), {"olddefconfig"})

\* An assignment that fails ends setconfig before it writes.
Setconfig ==
    \E k \in DOMAIN kconfigs, checkExists, checkValue \in BOOLEAN, assignments \in scenario.assignments :
        \E set \in {setconfig(load_config(kconfigs[k]), assignments, checkExists, checkValue)} :
            set.ok /\ Makes("setconfig", set.st, {})

\* oldconfig starts.
Oldconfig ==
    /\ ~running /\ Can("oldconfig") /\ running' = TRUE /\ Count
    /\ \E k \in DOMAIN kconfigs : st' = load_config(kconfigs[k])
    /\ asking' = [at |-> 1, changed |-> FALSE] /\ ready' = {}
    /\ UNCHANGED <<scenario, kconfigs, disk, todo, dirty, compiled, last, hurt>>

AskedNow == IF asking.at = 0 THEN 0 ELSE NextAsked(st, asking.at)
Answered(x, new, changed) ==
    /\ st' = new /\ asking' = [at |-> x + 1, changed |-> asking.changed \/ changed]
    /\ UNCHANGED <<scenario, kconfigs, running, disk, todo, dirty, compiled, ready, last, hurt, steps>>

AnswerSymbol ==
    \E x \in {AskedNow} \ {0} :
        /\ st.tree.node[x].kind = "sym"
        /\ \E v \in Answers(st, st.tree.node[x].item, {0, 1, 2, 5}) :
              \E new \in {Evaluated(set_value(st, st.tree.node[x].item, v))} :
                  Answered(x, new, Str(new, st.tree.node[x].item) # Str(st, st.tree.node[x].item))
AnswerChoice ==
    \E x \in {AskedNow} \ {0} :
        /\ st.tree.node[x].kind = "choice"
        /\ \E s \in options(st, st.tree.node[x].item) :
              Answered(x, Picked(st, st.tree.node[x].item, s), Tri(st, s) # 2)

\* A mutant: the menus are gone through once.
AskAgain_Never == FALSE

AskAgain == asking.changed

\* All menus are gone through again where a value has changed; else the configuration is written.
EndOfMenus ==
    /\ asking.at # 0 /\ AskedNow = 0
    /\ asking' = IF AskAgain THEN [at |-> 1, changed |-> FALSE] ELSE NotAsking
    /\ todo' = IF AskAgain THEN todo ELSE write_config(st, TRUE)
    /\ ready' = IF AskAgain THEN ready ELSE {"oldconfig"}
    /\ hurt' = IF disk[".config"].exists /\ disk[".config"] # last THEN hurt \cup {"backup"} ELSE hurt
    /\ UNCHANGED <<scenario, kconfigs, running, st, disk, dirty, compiled, last, steps>>

SetSymbol ==
    /\ Idle /\ Can("set")
    /\ \E s \in scenario.settable \cap defined_syms(st.tree), v \in {0, 1, 2, 5} :
          LET new == set_value(st, s, v) IN new # st /\ Changes(Evaluated(new))
SetChoice ==
    /\ Idle /\ Can("set")
    /\ \E c \in DOMAIN st.tree.cho, v \in 0..2 :
          LET new == choice_set_value(st, c, v) IN new # st /\ Changes(Evaluated(new))
Load ==
    /\ Idle /\ Can("load")
    /\ \E f \in {".config", "hand"}, replace \in BOOLEAN :
          disk[f].exists /\ Changes(_load_config(st, disk[f].lines, replace))

\* A program that starts, loads the configuration and writes other files.
Converts(op, new, calls, done) ==
    /\ ~running /\ Can(op) /\ running' = TRUE /\ Count
    /\ st' = new /\ todo' = calls /\ ready' = done
    /\ UNCHANGED <<scenario, kconfigs, disk, asking, dirty, compiled, last>>

Savedefconfig ==
    \E k \in DOMAIN kconfigs : \E new \in {load_config(kconfigs[k])} :
        /\ Converts("savedefconfig", new, _write_if_changed("min", _min_config_contents(new)), {})
        /\ UNCHANGED hurt

\* The symbols that sync_deps drops from auto.conf and does not touch.
Unnoticed(s0) == {s \in DOMAIN s0.tree.sym \ defined_syms(s0.tree) : _old_val(s) # None}

Genconfig ==
    \E k \in DOMAIN kconfigs, config_out, sync \in BOOLEAN : \E new \in {load_config(kconfigs[k])} :
        /\ Converts("genconfig", new,
                    _write_if_changed("autoconf.h", _autoconf_contents(new))
                      \o (IF config_out THEN _write_if_changed("config.out", _config_contents(new)) ELSE << >>)
                      \o (IF sync THEN sync_deps(new) ELSE << >>),
                    {"header"} \cup (IF sync THEN {"synced"} ELSE {}))
        /\ hurt' = IF sync THEN hurt \cup Unnoticed(new) ELSE hurt

Call(calls, done) ==
    /\ todo' = calls /\ ready' = ready \cup done /\ Count
    /\ UNCHANGED <<scenario, kconfigs, running, st, disk, asking, dirty, compiled, last>>

\* Between calls the files are as the last one left them.
WriteConfig ==
    /\ Idle /\ Can("save")
    /\ \E save_old \in BOOLEAN :
         /\ Call(write_config(st, save_old), {})
         /\ hurt' = (IF ~save_old \/ (disk[".config"].exists /\ disk[".config"] # last)
                     THEN hurt \cup {"backup"} ELSE hurt)
WriteMin      == Idle /\ Can("min") /\ Call(_write_if_changed("min", _min_config_contents(st)), {}) /\ UNCHANGED hurt
SyncDeps ==
    /\ Idle /\ Can("sync") /\ Call(sync_deps(st), {"synced"})
    /\ hurt' = hurt \cup Unnoticed(st)
WriteAutoconf == Idle /\ Can("sync") /\ Call(_write_if_changed("autoconf.h", _autoconf_contents(st)), {"header"}) /\ UNCHANGED hurt

----------------------------------------------------------------------------
(* The steps.                                                              *)

step == Head(todo)
Then == todo' = Tail(todo) /\ UNCHANGED <<scenario, kconfigs, running, st, asking, compiled, ready, steps>>

\* The file is renamed, or copied where it is a link; there may be none.
KeepOld ==
    /\ todo # << >> /\ step.kind = "keep" /\ Then
    /\ \E copied \in BOOLEAN :
         disk' = IF ~disk[".config"].exists THEN disk
                 ELSE [disk EXCEPT ![".config.old"] = disk[".config"],
                                   ![".config"] = IF copied THEN @ ELSE Missing]
    /\ UNCHANGED <<dirty, last, hurt>>

\* Errors are ignored here.
KeepFails ==
    /\ todo # << >> /\ step.kind = "keep" /\ Then
    /\ hurt' = hurt \cup {"backup"}
    /\ UNCHANGED <<disk, dirty, last>>

OpenFile ==
    /\ todo # << >> /\ step.kind = "open" /\ Then
    /\ disk' = [disk EXCEPT ![step.file] = Holding(<< >>)]
    /\ UNCHANGED <<dirty, last, hurt>>

WriteFile ==
    /\ todo # << >> /\ step.kind = "write" /\ Then
    /\ disk' = [disk EXCEPT ![step.file] = Holding(step.lines)]
    /\ last' = IF step.file = ".config" THEN Holding(step.lines) ELSE last
    /\ hurt' = IF step.file = ".config" THEN hurt \ {"backup"} ELSE hurt
    /\ UNCHANGED dirty

TouchFile ==
    /\ todo # << >> /\ step.kind = "touch" /\ Then
    /\ dirty' = dirty \cup {step.sym}
    /\ UNCHANGED <<disk, last, hurt>>

\* What the file has when its writing is cut off.
Torn ==
    IF step.kind # "write" THEN {disk}
    ELSE {[disk EXCEPT ![step.file] = Holding(SubSeq(step.lines, 1, k))] : k \in 0..(Len(step.lines) - 1)}

\* The call ends with an exception, or the program with it.
Interrupted(stillRunning) ==
    /\ todo # << >> /\ Can("crash") /\ Count
    /\ disk' \in Torn
    /\ hurt' = IF step.kind = "write" /\ step.file = "auto.conf" THEN hurt \cup {"auto"} ELSE hurt
    /\ todo' = << >> /\ ready' = {} /\ running' = stillRunning
    /\ UNCHANGED <<scenario, kconfigs, st, asking, dirty, compiled, last>>
StepFails == todo # << >> /\ step.kind # "keep" /\ Interrupted(TRUE)
Crash     == Interrupted(FALSE)

Quit ==
    /\ running /\ todo = << >> /\ running' = FALSE /\ asking' = NotAsking
    /\ UNCHANGED <<scenario, kconfigs, st, disk, todo, dirty, compiled, ready, last, hurt, steps>>

\* What the C compiler sees of a symbol.
InHeader(s) ==
    LET lines == disk["autoconf.h"].lines
        i == SelectInSeq(lines, LAMBDA l : l[1] = s)
    IN IF i = 0 THEN None ELSE lines[i][2]

\* The build compiles what depends on a touched symbol.
Compile ==
    /\ Idle /\ ready = {"synced", "header"}
    /\ compiled' = [s \in AllNames |-> IF s \in dirty THEN InHeader(s) ELSE compiled[s]]
    /\ dirty' = {} /\ ready' = {} /\ hurt' = hurt \ dirty
    /\ UNCHANGED <<scenario, kconfigs, running, st, disk, todo, asking, last, steps>>

Next ==
    \/ Alldefconfig \/ Allnoconfig \/ Allyesconfig \/ Allmodconfig \/ Defconfig
    \/ Olddefconfig \/ Setconfig \/ Savedefconfig \/ Genconfig
    \/ Oldconfig \/ AnswerSymbol \/ AnswerChoice \/ EndOfMenus
    \/ Start \/ SetSymbol \/ SetChoice \/ Load
    \/ WriteConfig \/ WriteMin \/ SyncDeps \/ WriteAutoconf
    \/ KeepOld \/ KeepFails \/ OpenFile \/ WriteFile \/ TouchFile \/ StepFails \/ Crash \/ Quit \/ Compile
Spec == Init /\ [][Next]_vars

----------------------------------------------------------------------------
(* Properties.                                                             *)

\* A configuration that is written and loaded by another program gives every symbol its value, unless
\* a symbol shows a default above its visibility, which a user value is cut down to.
FullRoundTrip ==
    Idle /\ (\A s \in defined_syms(st.tree) : ~Overshoots(st, s)) =>
        SymValues(_load_config(Unset(st), _config_contents(st), TRUE)) = SymValues(st)

\* So does a minimal configuration, unless it is silent on the mode of a choice.
MinRoundTrip ==
    Idle /\ (\A s \in defined_syms(st.tree) : ~Overshoots(st, s)) /\ (\A c \in DOMAIN st.tree.cho : ~ModeUnsaid(st, c)) =>
        SymValues(_load_config(Unset(st), _min_config_contents(st), TRUE)) = SymValues(st)

\* Nothing is lost on the way through either kind of file.
RoundTrip == FullRoundTrip /\ MinRoundTrip

\* A file that replaces the configuration leaves the user values that it gives a new program: nothing
\* of what was set before it remains, except which symbol of a choice was selected, when the file sets
\* the mode of the choice and no symbol to y.
ReplaceClears ==
    Idle /\ disk["hand"].exists =>
        LET lines == disk["hand"].lines
            now == _load_config(st, lines, TRUE)
            new == _load_config(Unset(st), lines, TRUE)
        IN /\ now.user = new.user
           /\ \A c \in DOMAIN now.selected :
                \/ now.selected[c] = new.selected[c]
                \/ new.selected[c] = NoSym /\ new.user[c] # None

\* The configuration that was last saved entirely is in .config or in .config.old at every moment of
\* the next save and after every failure of it: it takes two cut-off saves in a row, or one without a
\* copy, to lose it.
Recoverable ==
    last.exists /\ "backup" \notin hurt => last \in {disk[".config"], disk[".config.old"]}

\* When a build compiles, every symbol whose value differs from the one it was last compiled with has
\* been touched, whatever calls of sync_deps were cut off before, unless that was while auto.conf was
\* written, and whatever was added to or removed from the Kconfig files, unless a symbol lost its
\* definition while others still referred to it.
NothingStale ==
    Idle /\ ready = {"synced", "header"} /\ "auto" \notin hurt =>
        \A s \in AllNames \ (dirty \cup hurt) : compiled[s] = InHeader(s)

\* When oldconfig has come to its end, listnewconfig lists nothing, neither then nor in a program that
\* loads what was written.
NothingNewLeft ==
    "oldconfig" \in ready =>
        /\ listnewconfig(st) = {}
        /\ (\A s \in defined_syms(st.tree) : ~Overshoots(st, s)) =>
              listnewconfig(_load_config(Unset(st), _config_contents(st), TRUE)) = {}

\* After allnoconfig, allmodconfig and allyesconfig every symbol outside choices that can be changed
\* has the value that comes nearest to the one asked for.
Nearest(v, S) == IF \E w \in S : w >= v THEN CHOOSE w \in S : w >= v /\ \A u \in S : u >= v => w <= u
                 ELSE CHOOSE w \in S : \A u \in S : u <= w
Wanted(s) ==
    CASE "allnoconfig" \in ready -> 0
      [] "allmodconfig" \in ready /\ OrigType(st, s) = "tristate" -> 1
      [] OTHER -> 2
AsFarAsPossible ==
    ready \cap {"allnoconfig", "allyesconfig", "allmodconfig"} # {} =>
        \A s \in {x \in defined_syms(st.tree) : OrigType(st, x) \in BoolTristate /\ ~InChoice(st, x) /\ Vis(st, x) # 0} :
            Tri(st, s) = Nearest(Wanted(s), assignable(st, s))
=============================================================================
