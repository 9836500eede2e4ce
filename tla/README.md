# A verification project for the project template

This directory holds TLA+ models of the repository's own logic: the C library
`components/basic_pack`, the Python tools that configure and build a program (`tools/`), and the
Kconfig library and its front ends on which they rest (`tools/kconfig/Kconfiglib`). It has modules,
TLC configurations and TLAPS proofs. Paths are relative to the repository's root; `src/` in the
table rows on C means `components/basic_pack/src/`, and a Python file is named without its directory.

`PROJECT.json` lists the components with their status, the runs, the lines that each definition
models, one mutant per checked property, the hazards of the code with the properties that cover
them (or why none does), and the theorems.

## 1. The system

The repository is a template for embedded Linux programs in C. Three layers:

* a **library of small services** whose difficulty is threads that share lists, counters and
  process-wide settings without locks, callbacks that call back into the service that runs them, and
  error paths;
* **Kconfiglib**, which parses Kconfig files into a menu tree, computes the values of symbols that
  depend on each other, reads and writes configurations, and has front ends on a terminal. Its
  difficulty is long sequences of legal calls against caches, indices and files;
* **build tools** that drive CMake, make and Kconfiglib through a handful of files, each of which
  may be left from an earlier command or half written by one that was killed.

They meet in two places: `TimerTask` and `EventPoll` embed the list of `list.h`, and `project.py`
runs `genconfig.py`, which loads Kconfig files with Kconfiglib and starts `menuconfig.py`.

| Component | State | Operations | Interacts with | What is hard | What makes it correct |
|---|---|---|---|---|---|
| Intrusive list, `include/list.h` | `next`/`prev` words | add, delete, move, replace, splice, walks | timer service and event loop embed entries | order of the word writes, entries removed under a walk | it is a sequence in both directions; a removed entry is detached |
| Timer service, `src/timer_task.c` | task list; per task handler, period, counter, state | add, pause, cancel, modify; one service thread, a pass a second | list, threads, memory; handlers call the API | calls between the steps of a visit, blocks freed under the cursor | cursor never on freed memory; once a pass; due on time; dying tasks freed |
| Event loop, `src/epoll_event.c` | epoll set, node list, `fd_size`, `exit` | register, unregister, exit; a thread per loop | list, kernel; callbacks call the API | callbacks that change the list, reused descriptors, failures | live nodes for open files; the three books agree; ready is dispatched |
| Signal between threads, `src/inter_thread_comm.c` | a mutex, a condition variable, no predicate | send, broadcast, wait | application threads | a wait that unlocks a mutex it does not hold | mutual exclusion, no lost signal |
| Guarded commands, `my_system` in `src/utils.c` | dispositions, mask, the child | one call | kernel, terminal, handlers | signals at any step, every call failing, stolen status | everything restored but what a failing call leaves; the status is the command's |
| Sockets, `src/inet_socket.c` | open sockets, address list | connect with time-out, listen, bind | resolver, kernel | any call failing at any address | nothing leaked; what is returned is usable |
| Preprocessor and parser, `kconfiglib.py` | file stack, lines kept back, blocks open, tree, variables | one pass over the files | file system, environment | files within files within blocks, joined lines, help texts, precedence | tree, locations, conditions are those of the text |
| Menu tree, `kconfiglib.py` | nodes, symbols, choices, dependencies | `_finalize_node`, `_build_dep`, printing | parser, values, front ends | dependencies passed down, implicit menus, flattening | every reader declared; what is printed means the same |
| Loop check, `kconfiglib.py` | marks, recursion | once at load | tree | shared marks, detours through choices | only real loops are reported, and all but some that choices hide (section 6) |
| Values and caches, `kconfiglib.py` | user values, user selections, cached attributes | read, set, unset | front ends, files | invalidation along precomputed dependents, limits that move | a cached value is the value; offered values take effect |
| Configuration files, `kconfiglib.py` | `.config`, `.old`, header, `deps/` | load, write, minimal write, `sync_deps` | disk, build | kills and failures between system calls | round trip; a good copy always exists; no change missed |
| Command-line tools | none of their own | `oldconfig`, `setconfig`, `all*config`, ... | the two above | answers that make earlier questions appear | nothing new left; as far as limits allow |
| `menuconfig.py` | menu, list, cursor, dialogs, modified flag | keys | values, files, terminal size | list computed before the change, resizes, nested displays | cursor on screen; unsaved changes are known; all can be reached |
| `project.py`, `genconfig.py`, CMake scripts | `.config.mk`, generated configuration, `build/` | config, build, rebuild, menuconfig, clean, ... | CMake, make, Kconfiglib | stale and torn files | one configuration throughout; a rebuild is for the one last asked for, a build for that or the one of its makefiles |
| `update_build_info.py`, `sort_components.py`, `flash.py` | a marked block; an order; saved settings | once per build or flash | git, CMake | reruns, cut-off writes, duplicates, defaults | the version file ends in the version that was built; priority order; settings as asked |

Not modelled (section 7): processes by name, text and shell helpers, logging, time, ciphers,
`guiconfig.py`, examples and the demonstration programs.

## 2. The modules

| Module | Models | Uses |
|---|---|---|
| `LinkedList` | the operations of `list.h` on a memory of `next` and `prev` words | |
| `ListOps`, `SequenceLists` | clients that call the operations in any legal order; the sequences the heads are to denote | `LinkedList` |
| `TimerTask`, `TimerTaskHistory` | the timer service; the same with history variables | `LinkedList` |
| `TimerContract` | what the service promises of a task, without lists, counters and memory | |
| `EventPoll` | the event loop | `LinkedList` |
| `InterThreadComm`, `SignalGuard`, `InetSocket` | the C files of these names, `SignalGuard` for `my_system` | |
| `KconfigExpr`, `KconfigMenu` | expressions; the menu tree and what finalizing makes of it | |
| `KconfigPreprocessor`, `KconfigParser` | variables and macros; the parser, action by action | `KconfigMenu` |
| `KconfigPrinter` | the walk over the finished tree, and definitions as they are printed | `KconfigMenu` |
| `KconfigText` | what the same text means, read without the parser's state | `KconfigParser`, `KconfigPrinter` |
| `KconfigValues`, `KconfigCache` | the values computed anew; which caches a read fills and an assignment empties | `KconfigMenu` |
| `DepLoop` | the loop check, one call or return a step | |
| `KconfigSession` | a program that reads and sets in any order | `KconfigCache`, `DepLoop` |
| `KconfigLines`, `KconfigTools`, `KconfigFiles` | lines of the files; the scripts; programs, system calls, kills and builds | `KconfigCache` |
| `KconfigTrees` | the configurations that several runs work on | `KconfigMenu` |
| `ScrollWindow`, `MenuCursor`, `MenuConfig` | a list in a window and a text in a box; what such a window promises; `menuconfig.py` | `KconfigLines` |
| `BuildInfo`, `ComponentOrder`, `ProjectBuild` | `update_build_info.py`; `sort_components.py`; `project.py` with the rest | |
| `MC*` | values of the constants for TLC (`ListOps`, `InterThreadComm` and `SignalGuard` take theirs from the configuration alone) | |
| `LinkedListProofs` | lemmas on lists and walks of any length, for the next three | `LinkedList` |
| `ListOpsProofs`, `TimerTaskProofs`, `EventPollProofs` | theorems | `LinkedListProofs` |
| `InterThreadCommProofs`, `SignalGuardProofs`, `InetSocketProofs` | theorems | |
| `ToolProofs` | theorems on `ProjectBuild` with `BuildInfo` and `ComponentOrder`, on `MenuCursor` and on `DepLoop` | |

### How state and actions correspond to the code

*LinkedList.* An operator takes the memory and returns the memory after the call; each assignment
of the C function is one `EXCEPT`. `Poison` stands for both poison values and for words never
written. `Walk` follows the words from a head until it returns there; a walk that does not return in
as many steps as there are nodes yields what it saw, so a broken list shows as a wrong sequence.

*TimerTask.* `tk[n]` holds the fields of `task_t`, `used` the allocated blocks, `mem` the list. The
service has a program counter: `sleep`, `switch` (the state is about to be read), `work`, `call`
(due), `run` (inside a handler), `finish`, `dying`, `crash`. `cur` and `nxt` are `task` and `next` of
`list_for_each_entry_safe`, so `nxt` is read before the handler runs, as in the macro. Handlers may
call the API while they run, for calls are enabled at every point of the service; each call is one
step. `born` is auxiliary: the number of the call that added the block. `AddWithoutMemory` is the
crash in `security_zerolloc`, which clears the block before the pointer is tested; `DivideByZero` is
`cnt % 0`.

*EventPoll.* `event_register` and `event_unregister` are split at what another thread can see: check
and allocation, `epoll_ctl`, the list operation, the read of `fd_size` and its write. The dispatch
thread walks the list as the code does, reading the next word after the callback. Epoll sets, open
and readable descriptors are variables; closing a descriptor and getting its number back are actions
of the environment. `EpollFails` is the `break` after a failure of `epoll_wait` other than EINTR: the
thread closes its epoll descriptor and ends. `RegisterWithoutMemory` is the crash in `security_zerolloc`;
nothing happens after it (`alive`). `OneCallSpec` has the callers that begin a call when no other is open.

*InterThreadComm.* Unlocking a default mutex frees it whoever locked it. `pthread_cond_wait` is the
step that queues the thread and frees the mutex, and the later step that takes it again.

*SignalGuard.* Dispositions belong to the process, the mask to the thread. `wanted` is auxiliary: the
dispositions the application last set. A terminal signal reaches the process and its children. The
application's SIGCHLD handler may reap any child, in a thread that does not block the signal; where the
application ignores SIGCHLD the kernel reaps them. Any `sigaction` or `sigprocmask` may fail:
`IgnoreIntFails` and `GuardFails` are the caller's returns of -1 on the spot, and in the child, which looks
at no result, `unset` is what it did not put back. `left` and `stuck` are auxiliary: the signals
that such returns left ignored, and the threads they left with SIGCHLD blocked.

*InetSocket.* One step per system call, each with its outcomes. The results of `fcntl` are not looked
at: `SetOrNot` and `ClearOrNot` are what is left of the flag. `held` is what the callers own; `dropped`
(sockets whose `listen` failed) and `stuck` (connected ones whose `clr_fd_flag` failed) are auxiliary.

*KconfigParser.* A line is a sequence of words with its indentation and whether it is joined to the
next; characters are left out, as is quoting. The lines of a file are chosen when they are first read
and stay. Python's recursion of `_parse_block` is the stack `calls`; `props` is the node whose
properties are being parsed, `filestack` the files that enclose the current one. A line that is read
too far is kept (`mode`), as the code does with `_reuse_tokens`. An error ends the parse with a
status, the exception it stands for.

*KconfigMenu, KconfigValues.* `Finalize` is `_finalize_node` with implicit menus, propagation,
choices, flattening and reverse dependencies; `build_dep` is `_build_dep`. An attribute of an item
(`vis`, `tri`, `str`, `assignable`, `selection`) is an operator of the state. `KconfigCache` says which
attributes a read caches, in the code's order of evaluation with its short cuts, and how
`_rec_invalidate` empties them, so that `CacheSound` can compare the cached value with the one
computed anew.

*KconfigFiles.* A program has a configuration and the steps on files that are left of the call under
way: `rename` to `.old`, open, write, touch. Each may fail, and the program be killed before or
within it, leaving a torn file. A build is `Compile`: it compiles what the touched files say.
`compiled` is auxiliary, the value each symbol was last compiled with. The file that a user wrote is
`hand`; it stands for the first file that a tool finds (also for `load_allconfig`).

*MenuConfig.* `m` is the main display with the configuration and its list, window, modes and flag;
`dialogs` the stack of open dialogs, which are functions that run one within the other. Each key
handler is an action or an operator from display to display. An exception ends the program:
`m.status` names it.

*ProjectBuild.* A command of `project.py` is a sequence of named steps on files, in the order in
which the code and the scripts that it runs take them. The actions of CMake and make (when they
configure again, what they compile) are external. `Kill` may come before or within any step and
leaves the old content, the new one, a torn file, or for `global_config.mk`, which is renamed before it is
written, no file. `wanted` and `asked` are auxiliary: what the last successful configuring and saving, or
the flash command lines, asked for. `hurt` is auxiliary too: which of the things that the properties
speak of a kill or unsaved edits have left in doubt, until a command that goes through settles them;
`done` is the last command that came to its end, with `hurt` and whether there was a saved configuration
then. Every exception that a property makes is in its formula; `done` and `hurt` hold none back.

## 3. Abstract specifications

* `SequenceLists` is what `list.h` promises. `ListOps` implements it under the mapping that reads each
  head's sequence by walking it (`ImplementsSequences`): model-checked and proved.
* `TimerContract` gives each block a life (free, armed, held, ending) and the service a turn: a
  handler is called only of a task found armed, a block freed only of a task found ending, and one task
  is finished with before the next. `TimerTask` implements it under `LifeOf` and `TurnOf`
  (`ImplementsContract`): model-checked and proved.
* `MenuCursor` is what a window of `menuconfig.py` does and promises, whatever list it is given. The
  main display of `MenuConfig` implements it (`CursorsKept`), and what it promises is proved for every
  size.
* For pure algorithms the reference is a definition of another kind: `KconfigText` reads blocks and
  conditions by counting and by meaning under every assignment of the symbols instead of with a
  parser's state; `Circle` in `DepLoop` is a set of items
  that each lead into it; `InOrder` is a stable order by place.

## 4. What is checked

| Run | Shows | Bounds, and why they are enough |
|---|---|---|
| `list_ops` | `ImplementsSequences`: forward and backward walks denote the sequences, removed entries are detached | two heads, three entries: every pair of neighbours an operation can touch, splices of empty, single and longer lists into either |
| `timer` | `CursorSafe`; `VisitsSound` (each task at most once a pass, none left out, due on time, the period kept); `CallsBounded` (a one-shot runs once, at most one late call); `ImplementsContract`; `NothingStarves` | two blocks, one handler, periods 0, 2 and 3, three calls, one handler thread at a time: blocks freed under the cursor and reused, appended during a pass, a period made longer and shorter at every count, failing allocation and thread creation |
| `poll` | `DispatchSafe`, `BooksAgree`, `LoopServes` | three nodes, two descriptors and room for two (the limit is reached), two calls by callbacks and two by the application, so that an event comes before the second registration has listed its node; descriptors reused within a batch |
| `itc` | `NoSignalMissed`, `SendIsHeard` | one waiter, three senders, ten sends, spurious wake-ups |
| `system` | `CallSound`, `CallEnds` | two calls in turn, the second after whatever the first left behind, every initial disposition, of SIGCHLD too, two terminal signals, with and without a second thread that takes SIGCHLD, a failure at every step |
| `inet_socket` | `CallsSound` | three calls, two addresses, three descriptors: the first address fails and the second succeeds, descriptors run out, either `fcntl` fails |
| `kconfig_session` | `CacheSound`, `ReadsAreDeclared`, `AssignableTakesEffect`, `ChoiceConsistent`, `WithinBounds`, `LoopDetection` | seven configurations, each built around one hazard (modules switched, selects against dependencies, implies, optional and tristate choices, symbols of choices implied and selected from outside, a choice default that is not in the choice, menus with `visible if`, ranges from symbols) under all sequences of reads and assignments; 1080 configurations with and without loops |
| `kconfig_parse` | `TreeMatchesText`, `LocationsRight`, `ConditionsKept`, `MacrosExpand` | seven projects, every text of up to five or six lines from an alphabet that crosses blocks, sources files in themselves, joins lines, and has all expressions of up to five words, every property on every kind of node, and macros in circles |
| `kconfig_files` | `RoundTrip`, `ReplaceClears`, `Recoverable`, `NothingStale`, `NothingNewLeft`, `AsFarAsPossible` | sixteen scenarios: saves and builds with kills, failures and Kconfig files that change (five or six calls); every setting of seven configurations; each tool on them after each of several files |
| `menuconfig` | `CursorOnScreen`, `CursorsKept`, `NothingUnsaved`, `EverythingReachable`, `CrashOnlyThen` | eight scenarios of five to seven keys, each with the keys and sizes that its tree needs: entries that vanish, lists longer than windows, windows of one row, choices with two locations, texts longer than boxes |
| `project_build` | `OneConfiguration`, `BuildsJustThat`, `VersionReported`, `OrderedByPriority`, `FlashAsAsked` | eight projects of up to five or six commands, commits and kills: two toolchains and one that does not exist, an option, a changing repository, five components in two folders, flash settings, two commands cut off in turn |
| `kconfig_loop_missed` | a violation of `NoLoopMissed`, see section 6 | one configuration |

Constants whose name begins with `Max`, the `max` of a scenario or project, the lengths of texts and
the lists of lines are bounds of the models and not of the code (`MAX_EPOLL_SIZE` is the code's,
made small; `MaxExpansions` is the parser's limit on recursive expansions). Counters
of calls end the callers' part only: services go on. The loop configurations are those in which every
edge that the check distinguishes (dependency, select, the way through a choice, a symbol of the
choice on another) may be there or not, and the choice has two or three symbols. Values are not computed
in those whose loop the check misses: they are an endless recursion in the model too (`Computable`).

`CHECK_DEADLOCK FALSE` is given where the system may really stop: the timer service after a crash, a
closed event loop, a killed process, a program that has ended, the bounded calls used up.

Symmetry is declared in `inet_socket` only, which checks an invariant. Every property is also run
against a mutant, a changed definition written just before the one it replaces, and fails there.

### Properties with a precondition

Some properties name a case in which the code does otherwise, so that all other ways to violate them
are still found:

* `NothingStarves`: a pause after a cancel takes the cancel back. `LoopServes`: a loop with no
  descriptors does not look at `exit`, one whose `epoll_wait` fails ends and serves nothing more, and a
  process without memory crashes. `CallsSound`: a failed `listen` leaves its socket open, and a
  connected socket whose `clr_fd_flag` failed is returned in non-blocking mode.
* `CallSound`: a `sigaction` or `sigprocmask` that fails within a call leaves what the call had changed and
  not yet put back; later calls take that for what the application wants. The command runs without what
  its own `sigaction` and `sigprocmask` failed to restore. An application that ignores SIGCHLD, or
  one with another thread, may lose the status.
* `CacheSound`, `ReadsAreDeclared`, `ChoiceConsistent`: a default of a choice that is not one of its symbols
  is read for its visibility, and the dependency is not declared (`Undeclared`).
* `WithinBounds`: a symbol is above its visibility only by a default, a select or an imply. The symbols of a
  choice have `ChoiceConsistent` instead.
* `AssignableTakesEffect`: y is offered for a symbol selected or implied to y inside a choice in m mode,
  where it can have m at most.
* `RoundTrip`: a default above the symbol's visibility does not survive (a user value is cut down to
  it), and a minimal configuration is silent on the y mode of a tristate choice whose default
  selection is a bool symbol. `ReplaceClears`: the selected symbol of a choice remains if the file sets the
  mode only.
* `NothingStale`: a kill within the write of `auto.conf`, and a symbol that loses its definition while
  others still refer to it. `Recoverable`: two cut-off saves in a row, or one without a copy.
* `CrashOnlyThen` is the list of the circumstances in which `menuconfig.py` ends with `ValueError`.
* `LoopDetection`: a choice and its symbols count as one only where there are no more than two of them
  and no other item has the choice for a dependent (`Plain`). `NoLoopMissed` is without the exception.
* `NothingUnsaved`: the file holds a minimal configuration that is silent on the mode of a choice (the case
  of `RoundTrip`), a default above the symbol's visibility, or a save that failed and was reported.
* `BuildsJustThat`: kills between the files, and unsaved edits that were generated from. `build` after
  `config --toolchain` with makefiles in place: the saved configuration was removed, cmake does not run, and
  the build is for the toolchain of the makefiles. A second build may compile again if the first found
  no saved configuration or files upset in one of these ways.
* `VersionReported`: the first build after an update that was cut off finds a piece of a block and leaves
  it, with the lines of an old version that it may have, before the new block.
* `OneConfiguration`: a removal of `build/config` that is cut off and spares `global_config.cmake`, before
  a write of the header that is cut off too. `FlashAsAsked`: a kill before the settings were saved.

### Fairness

* `TimerTask`: weak fairness of the service thread, handlers included: the scheduler runs it and the
  handlers are the program's own. Nothing is assumed of callers. Their calls are finite by the bound,
  which `EveryPassEnds` needs: handlers that each arm a new one-shot task can keep a pass going for ever.
* `EventPoll`: weak fairness of the loop thread, callbacks included, and of calls in progress, as long as
  the process runs. Nothing makes `epoll_wait` fail or succeed.
* `InterThreadComm`: waiters and senders run, the waiter waits again after its work, and strong
  fairness of taking the mutex: senders may overtake the waiter but not always.
* `SignalGuard`: the caller and the child run, the command ends, and `waitpid` is not interrupted for
  ever (strong fairness of its success or failure).
* The Python programs are sequential. What must come about at the end of one (`NothingNewLeft`,
  `AsFarAsPossible`) is stated of the state in which it ends, without fairness. A user who never gives a
  valid answer, and a blank answer for a number without a value, keep `oldconfig` at its question.

### Disciplines of the callers

Some properties hold only of callers that keep to a discipline that the code does not enforce:

* `MayUnregister` (EventPoll): callbacks unregister other descriptors than their own, and application
  threads do not unregister. Without it the dispatch loop reads a freed node.
* One event loop uses the list of nodes (EventPoll, by its configuration; `OneLoop` in the theorems):
  the list is a global of `epoll_event.c` without a lock, and two loops read each other's freed nodes.
* One call at a time on a loop's `fd_size` (EventPoll: `OneCall`, kept by `OneCallSpec`, which the run
  and the theorem on the books have): with two at once the counter loses updates. This and the one before
  are properties of what the callers do, and `DispatchSafe` needs only the one before: any threads may
  register while the loop dispatches.
* `MaySend`, `SingleWaiter` (InterThreadComm): no send before the waiter's first wait, one waiter.
* `timer_task_init` once (TimerTask).
* No two calls of `my_system` at once (SignalGuard, by its configuration; `NoOverlap` in the theorems).
  The application may have other threads, which take its SIGCHLD.

## 5. What is proved

The theorems hold for every value of the constants that the named assumptions admit: finite sets of nodes
and disjoint heads, natural bounds, the disciplines above where they are assumptions. The disciplines
`OneLoop`, `OneCall` and `NoOverlap` are hypotheses of the theorems that need them, for the models also
have the behaviours without them.

* `LinkedListProofs`: lemmas. `IsList(m, head, s)` says that in the memory `m` the words of `head` and of
  the entries of the sequence `s` lead through `s` and back. A walk from such a head meets just `s`
  (`WalkMeets`, `ForEachMeets`, `ForEachPrevMeets`), and insertion, deletion, replacement and splicing
  turn one such list into the next and leave lists without common nodes alone. The walk is a function
  over numbers; what it yields is proved through a least number at which it would differ
  (`LeastNumber`, from the library's theorem that `<` is well founded), so that no induction theorem
  with an operator for parameter is needed.
* `ListOpsProofs`: `AlwaysSound` and `ListsAreSequences`, that `ListOps` implements `SequenceLists`. The
  invariant `IInv` is `Sound` of the sequences that the walks meet: every head that is in use has its list,
  no entry is in two of them, and an entry that is in none is detached. Each call of `list.h` is one
  lemma, and its step is shown to be the abstract step of the same name.
* `TimerTaskProofs`: `TypeCorrect`, `CursorIsSafe`, `Refinement`, `CallsAreBounded`, `VisitsAreSound`.
  `CursorSafe` is not inductive: when the cursor moves to `nxt`, its new `nxt` must be allocated and
  not the block about to be freed, which needs the shape of the list. `IInv` adds that the list holds the
  allocated blocks in the order in which they were added (`InOrder`), and that `nxt` was added after
  `cur` or is the head (`CursorOrdered`). `Refinement`, that `TimerTask` implements `TimerContract`, rests
  on `IInv`: the task whose turn it is is still allocated when the handler returns. For the history
  variables `HInv` adds where a pass stands (`PassInv`: what was seen lies before the cursor in the order of
  birth, what is still owed a visit at `nxt` or after it), how far a counter may be from the visits since
  a task was last due (`PeriodInv`), and what a halted or a one-shot task may still have before it
  (`CallsInv`).
* `EventPollProofs`: `DispatchIsSafe` and `BooksAlwaysAgree`. `DInv` says that the list holds the
  allocated nodes that no call has yet to list (`RingHolds`), that no two calls work on one node
  (`CallsApart`), that what is being unlinked is not the node whose callback does it (`UnlinkSafe`), that
  the dispatch loop stands on a listed node, in a callback on that of the event (`LoopOnList`), and that a
  node's descriptor is open unless `epoll_ctl` is yet to be asked about it (`FilesOpen`). `Books` gives
  the epoll set and the counter at every point of the one call that is open.
* `InterThreadCommProofs`: `Exclusion` and `SignalsArrive`. The invariant adds that as long as the
  waiter has never waited every sender is idle, which makes its first unlock harmless, and that the
  threads on the condition variable are those that wait.
* `SignalGuardProofs`: `CallsKeepTheirWord` and the action property `CallerSurvives`. The invariant gives
  the disposition of each signal at each point of a call (`Dispositions`: a call that ignores a signal has
  saved what the process had between calls), the threads that block SIGCHLD (`Blocks`), when there is a
  child (`Children`), and that the process is alive while it waits (`WaitsAlive`). What the process has
  between calls is what the application wants, but for what failed calls have left; the invariant carries
  that on, for a later call saves it and puts it back.
* `InetSocketProofs`: `CallsAreSound`. The invariant states at each point of a call which socket is
  neither the caller's nor dropped, in which mode it is, and when the address list is allocated.
* `ToolProofs`, the windows: `CursorStaysOnScreen` and `CursorStaysInBox`. The selected entry stays in a
  window of any height on a list of any length under any keys, resizes and new lists, and the cursor of a
  text in its box. `OnScreen` is inductive as it stands: no step relies on which row the entry is on. A page
  key is six steps in a row, each of which keeps the window as it should be. That `menuconfig.py` uses the
  window in this way is model-checked (`CursorsKept`).
* `ToolProofs`, the build: `CompiledForOneConfiguration`, `BuildsWhatIsWanted`, `ReportsTheVersion`,
  `FlashesAsAsked` and `ComponentsInOrder`, the five properties of `project_build`, for any projects,
  any number of commands and kills. They all follow from `ProjectInvariant`, whose parts need each
  other: `Types` has the course a command is on (`Flow`: which step may follow which in which command,
  so that a step is known by the few next to it and not by a list of all that may be left of all
  commands); `Control` says what a step finds, as `header` and `generate` find `global_config.cmake`
  equal to what `genconfig.py` has in memory; `Coherent` relates that file, the header and the makefiles
  whenever make would not run cmake again, which is what `OneConfiguration` needs of a `compile` that no
  configuring preceded; `Saved` relates the saved configuration to the one that is wanted and the one
  cmake reads, and says that only a kill tears it; `Told` says that the version file starts with a start
  mark, has an end mark nowhere but at its end, and there unless a kill came, and what is before the
  block of the last build; `AtRest` what the last command left if nothing happened since; `Settled` says what holds
  from one build to the next if nothing happens between them; `AsksFlash` where the settings of the
  command line are, before and after they were saved; `Sorted` that the order on disk is what
  `sort_components.py` prints. The lemmas on the algorithms stand by themselves: `DescriptionRead` (what
  `git describe` prints is read as tag, count, commit and mark), `BlockWritten` (the update leaves one
  block, and where an earlier one was cut off that piece before it), and `SortedInOrder` (the insertion
  by priority is the stable order by place). The folds and recursive functions in them are handled as
  the walk is: a function that satisfies the equations exists up to each number (`FromZero`, from the
  least one where it would not), and is the one that the definition chooses.
  `ProjectsAssumption` says what the models of files leave room for: commands and settings are those of
  the tools, no toolchain folder is called like the marks of a missing or torn file, a tag has three
  numbers after a v (section 6 has what `update_build_info.py` makes of others), no commit is called
  `dirty`, and CMake finds no component twice.
* `ToolProofs`, the loop check: `LoopsDetected`, `LoopDetection` for every dependency graph and every
  order in which symbols and dependents are taken. What must be shown is that an item marked 2 is on no
  circle, and that does not hold while calls are under way: a choice is marked before the symbol that entered
  it, and a symbol that its choice calls for does not look into the choice. `LoopIInv` therefore says of
  each call what it has been through (`SymbolFrames`, `ChoiceFrames`), which marks of a choice and its symbols go
  together (`Marks`), and that what a finished item leads to is finished and no set of finished groups closes
  a circle (`Behind`). A step that finishes a group closes no circle, for the way back to the group would
  start at a finished one, and these lead to finished ones only. In the other direction, the calls under
  way from the item that is met again to the last one are turned into a circle group by group
  (`MetAgain`), and after that the stack and what is reported stay one chain (`Reporting`). The one assumption on the graph,
  `IsGraph`, is that members of choices are symbols and no symbol belongs to two choices; the run's
  configurations satisfy it.

Each inductive invariant was checked by TLC before it was proved, in the states of the component's run;
`LoopIInv` in those of three families of small graphs.

Only model-checked: liveness, since the prover does not treat fairness (`NothingStarves`, `LoopServes`,
`SendIsHeard`, `CallEnds`); the Kconfig models, whose trees and expressions are RECURSIVE operators, which
the prover does not reach, and with them `MenuConfig`.

## 6. What the models show about the code

Finding, with a run: the loop check is meant to reject every configuration whose values would depend
on themselves. A choice that depends on a symbol which is in a menu within that choice passes it: the
symbol is a child of the choice's menu but not one of its symbols. The first read of a value then
recurses until Python gives up. Run `kconfig_loop_missed`; the finding in `PROJECT.json` quotes the lines.
The proof of `LoopsDetected` failed where two more kinds of loop pass, and `Plain` is the exception that was
left. A symbol that is called for by its choice is marked 2 without a look at the others of the choice
(`ignore_choice`, 6504 and 6469). So in a choice of S, J and M, where J depends on X and X on M, the search
that enters the choice from S marks J before it comes to M, and then takes what leads to J for checked. The same
happens with two symbols when the choice is first entered as a dependent of another symbol. Kconfiglib
accepts such files, and setting J recurses.

Met while modelling, each traced in the source; the models have the behaviour, and where it limits a
property the property names it:

* `my_system`: when a `sigaction` or `sigprocmask` fails, it returns at once and leaves SIGINT or SIGQUIT
  ignored, or SIGCHLD blocked (`src/utils.c:285-290`, 310-315, against the comment at 309), and the next
  call takes that for what is to be restored. In two threads at once: the second call saves the first one's `SIG_IGN`, and SIGINT or
  SIGQUIT may stay ignored (`src/utils.c:283-286`, against the comment at 309). `inetConnect` takes a
  connect that succeeds at once for a failure (`src/inet_socket.c:43`, against 96-97), and ignores the
  results of `fcntl` (40, 64). An event loop whose `epoll_wait` fails ends without telling anyone
  (`src/epoll_event.c:107-113`), and registering without memory crashes before the test for it (45-50).
* Kconfiglib, values: a default of a choice that is no symbol of the choice is accepted with a warning
  (`kconfiglib.py:3731-3735`); its visibility decides on the selection (5286-5289) without being declared
  (3405-3407, against the doc comment at 3348-3355), so that the selection may stay at an old value, and a circle through such a default is not met by the
  loop check, which goes by what is declared;
  `expr_depends_on` treats `x != y` as a requirement of `x`; y is
  offered for a symbol that is selected or implied to y in a choice in m mode, and has no effect.
* Kconfiglib, files: the round-trip exceptions of `RoundTrip` (the second against the doc comment at
  `kconfiglib.py:1563-1565`) and of `ReplaceClears` (against 1138-1139). `sync_deps` does not touch a symbol
  that has lost its definition and is still referred to (comment at 1774-1775). An `auto.conf` torn by a
  kill, followed by a change from y to n, is never noticed. `setconfig.py` checks each assignment when
  it is made: a later one may undo it silently.
* Kconfiglib, parsing: the line number is one too high after a joined line or a help text at the end of
  a file; an exception leaves a variable's count of expansions raised; `visible if` on a node that is no
  menu and a type on a menu end in `AttributeError`; a default of a comment and a range or select of a
  choice are accepted and do nothing.
* `menuconfig.py`, `ValueError`: n, m or y on a symbol that is shown only for its visible children, when
  the change hides it (1667 through 1617-1623); leaving a choice by a location that its parent does not
  show (1174); space on a tristate whose default is above what can be assigned (1584); a number checked
  against a range that ends at a symbol without a value (3083).
* `menuconfig.py`, otherwise: a resize while a text is typed may leave the cursor outside its box until
  the next key; an explicit n for an invisible symbol is not counted as something to save.
* Build tools: `config --toolchain NEW` removes `global_config.mk` so that the default takes effect
  (`project.py:112-113`, `genconfig.py:118-120`), but the next `build` does not run cmake where makefiles are
  (126): it compiles for the old toolchain and succeeds, until `rebuild` or `menuconfig`. The first build
  after a cut-off update of the version file leaves lines of the old version before the new block. An edit that is saved, undone and discarded leaves generated files that equal the old
  ones, so that `build` goes on with the old configuration while `global_config.mk` has the saved one,
  until `rebuild`; so does a kill between the two files. `config --toolchain` with the same content does
  nothing, even if the menu chose another toolchain since or a kill came before the old configuration
  was removed (`project.py:109-113`). A kill within the first write of `global_config.mk` loses
  `config_defaults.mk`. A `clean_conf` that is killed before it has removed `global_config.cmake`, and a
  `rebuild` that is killed while it writes the header anew, leave a header that breaks off, which the next
  build compiles. A bad toolchain path saved in the menu makes every build and the menu itself
  fail until the configuration is removed (`project.py:179` tests `build/Makefile` inside `build`). A
  changed toolchain drops all other choices. `--config_file` has no effect once makefiles exist.
* `update_build_info.py` misreads tags that contain a dash or have two fields (148-188); `flash.py`
  cannot set a saved argument back to its default.

## 7. What is not modelled

* C: single memory accesses of two list operations that overlap, two service threads, two event loops
  on the shared list, `itc_destroy`, `EPOLLET` and error-only events, failures of `event_poll_init`. The
  code promises nothing of overlapping calls there, and models of them fail at once. The overflow
  of a task's 32-bit counter: the counter stays below its period and is reset there.
* C: finding and killing processes by name, text, hex and path helpers, shell commands, logging, time
  and network time, buffers and ciphers: wrappers of the system and of OpenSSL or functions on
  characters, with their hazards listed where a run of threads or a missing result would matter.
* Kconfiglib: characters (tokenizing, quoting, escaping), warnings and messages, the built-in functions
  of the preprocessor, `allnoconfig_y`, `defconfig_list`, `env` and other legacy options.
  A string value is one of a small ordered set.
* `menuconfig.py`: styles, drawing and the matching of search texts, whose outcome is a choice of the
  scenario. `guiconfig.py`: the same operations over Tk's widgets, which keep list and cursor.
  The examples, `setup.py` and the test suite, which was read as a reference.
* Build tools: what CMake and make do is modelled from how the scripts use it: when they configure again
  and what they compile again. Targets, flags and the `dist` folder are left out; `--config_file` is
  fixed; `update_build_info.py` is modelled for headers with a time and a version file; a removal that
  is cut off leaves any part of the four files that matter.

Worth adding next: `Recoverable` from an abstract protocol of saving without the lines of the files, as
`MenuCursor` is for the windows, so that it could be proved for any number of saves, kills and failures.
