---------------------------- MODULE ProjectBuild ----------------------------
(***************************************************************************)
(* project.py and the scripts that it and the generated makefiles run:     *)
(* genconfig.py, update_build_info.py, sort_components.py and flash.py.    *)
(* A command is a sequence of steps on the files of a project; it may be   *)
(* killed before or in the middle of any of them.  What cmake and make do  *)
(* of themselves is external: make runs cmake again when                   *)
(* global_config.cmake is newer than the makefiles or missing, and         *)
(* compiles again what the written headers or changed options touch.       *)
(*                                                                         *)
(* A configuration is the toolchain path and one other option.             *)
(***************************************************************************)
EXTENDS BuildInfo, ComponentOrder

CONSTANT Projects       \* the projects and what is done with each: the commands, the toolchains a command line
                        \* and the menu give, the values of the option, what config_defaults.mk sets (Unset:
                        \* nothing), the states of the repository, components, priority file, flash arguments,
                        \* and how many commands, commits and kills there are

VARIABLES project, disk, repo,
          todo,         \* the steps left of the running command
          kconfig,      \* the configuration genconfig.py has in memory
          args,         \* the toolchain and the flash arguments of the command line, the latter as flash.py has them
          result,       \* of the last command: "none" while it runs or when it was cut off, else "ok" or "failed"
          done,         \* the last command, if it came to its end and no one changed a thing since, with whether
                        \* there was a saved configuration and what hurt was
          wanted,       \* the configuration the next configuring has to come to; its opt is Unset when
                        \* the defaults decide
          asked,        \* the port and baud rate last given
          hurt,         \* what a kill may have upset: "menu" (or edits that were not saved), "tool", "left" (a folder
                        \* that was to be removed), "info" (the version file when it was last written), "flash"
          steps

vars == <<project, disk, repo, todo, kconfig, args, result, done, wanted, asked, hurt, steps>>

Unset == -1
NoTool == "gcc"                             \* no CONFIG_TOOLCHAIN_PATH
BadTool == "bad"                            \* a path that is no folder
NoFile == [tool |-> "missing", opt |-> 0]
TornFile == [tool |-> "torn", opt |-> 0]
KconfigDefaults == [tool |-> NoTool, opt |-> 0]

Undone == [cmd |-> "none", saved |-> FALSE, hurt |-> {}]

DefaultFlash == [port |-> "", baudrate |-> 115200]
NoFlash == [port |-> "missing", baudrate |-> 0]

(***************************************************************************)
(* What the models of files leave room for: no folder is called like the   *)
(* marks of a file that is missing or cut off.  A tag is a version of      *)
(* three numbers after a v, and no component is found twice.               *)
(***************************************************************************)
Tool == STRING \ {"missing", "torn"}
Commands == {"config", "build", "rebuild", "menuconfig", "clean", "distclean", "clean_conf", "flash"}
FlashArgs == [port : STRING \ {"missing"}, baudrate : Nat]

Versioned(r) ==
    /\ r.n \in Nat /\ r.commit \in STRING \ {"dirty"} /\ r.dirty \in BOOLEAN
    /\ r.tag # << >> =>
          /\ Len(r.tag) = 1 /\ r.tag \in Seq([v : {TRUE}, fields : [1..3 -> Nat], text : STRING \ {"dirty"}])

ASSUME ProjectsAssumption ==
    \A p \in ToSet(Projects) :
        /\ p.cmds \subseteq Commands \cup {"kill", "commit"}
        /\ p.tools \subseteq Tool /\ p.menuTools \subseteq Tool
        /\ p.opts \subseteq Int /\ p.defaults \in Int
        /\ p.flash \subseteq FlashArgs
        /\ \A r \in p.repos : Versioned(r)
        /\ p.priority \in Seq(STRING) /\ p.components \in Seq(STRING \X STRING)
        /\ \A i, j \in DOMAIN p.components : p.components[i] = p.components[j] => i = j

Init ==
    /\ project \in ToSet(Projects)
    /\ disk = [conf |-> "missing",          \* .config.mk
               mk |-> NoFile, cmake |-> NoFile, header |-> NoFile,      \* build/config/global_config.*
               makefile |-> NoFile,         \* the makefiles, with the configuration cmake read for them
               newer |-> FALSE,             \* global_config.cmake was written or removed after the makefiles were
               objects |-> [made |-> NoFile, header |-> NoFile],        \* what is compiled, with what
               touched |-> FALSE,           \* a header was written since
               time |-> << >>, version |-> << >>,           \* global_build_info_time.h and _version.h
               order |-> << >>, flash |-> NoFlash]          \* of components; .flash.conf.json
    /\ repo \in project.repos
    /\ todo = << >> /\ kconfig = KconfigDefaults /\ args = [tool |-> NoTool, flash |-> DefaultFlash]
    /\ result = "ok" /\ done = Undone /\ wanted = [tool |-> NoTool, opt |-> Unset] /\ asked = DefaultFlash
    /\ hurt = {} /\ steps = 0

----------------------------------------------------------------------------
(* Commands.                                                               *)

Configure == <<"load", "mk", "cmake", "header", "generate">>        \* cmake
Make == <<"check", "info", "compile">>

\* A mutant: genconfig.py writes the header before what make looks at.
MakeMenuconfig_HeaderFirst == <<"check", "load", "ui", "header", "cmake">>

MakeMenuconfig == <<"check", "load", "ui", "cmake", "header">>

\* A mutant: a toolchain that is given leaves the saved configuration alone.
ConfigToolchain_KeepSaved(tool) == IF tool \in {NoTool, disk.conf} THEN << >> ELSE <<"conf">>

\* What every command does first when it is given a toolchain.
ConfigToolchain(tool) == IF tool \in {NoTool, disk.conf} THEN << >> ELSE <<"conf", "unsave">>

\* project.py tests for "build/Makefile" when it is in the build folder already: menuconfig always runs cmake.
Command(cmd) ==
    CASE cmd = "config"     -> << >>
      [] cmd = "build"      -> (IF disk.makefile = NoFile THEN Configure ELSE << >>) \o Make
      [] cmd = "rebuild"    -> Configure \o Make
      [] cmd = "menuconfig" -> Configure \o MakeMenuconfig
      [] cmd = "clean"      -> <<"clean">>
      [] cmd = "distclean"  -> <<"clean", "rmbuild">>
      [] cmd = "clean_conf" -> <<"rmconf", "rmconfig", "rmflash">>
      [] cmd = "flash"      -> <<"flashconf", "flash">>

Idle == todo = << >>
Can(cmd) == Idle /\ steps < project.max /\ cmd \in project.cmds

\* Only what differs from a default counts as given.
Given(new, old) == [k \in DOMAIN old |-> IF new[k] # DefaultFlash[k] THEN new[k] ELSE old[k]]

Run ==
    \E cmd \in project.cmds \ {"kill", "commit"}, tool \in project.tools, flash \in project.flash :
        /\ Can(cmd) /\ (cmd # "flash" => flash = DefaultFlash)
        /\ todo' = ConfigToolchain(tool) \o Command(cmd) \o <<cmd>>
        /\ args' = [tool |-> tool, flash |-> flash] /\ asked' = Given(flash, asked)
        /\ result' = "none" /\ steps' = steps + 1
        /\ done' = IF ConfigToolchain(tool) = << >> THEN done ELSE Undone
        /\ UNCHANGED <<project, disk, repo, kconfig, wanted, hurt>>

\* Someone changes the repository.
Commit ==
    /\ Can("commit") /\ repo' \in project.repos /\ repo' # repo
    /\ done' = Undone /\ steps' = steps + 1
    /\ UNCHANGED <<project, disk, todo, kconfig, args, result, wanted, asked, hurt>>

----------------------------------------------------------------------------
(* Steps.                                                                  *)

\* The last element of todo is the command, which has come to its end.
Now(step) == Len(todo) > 1 /\ Head(todo) = step
Then == todo' = Tail(todo) /\ UNCHANGED <<project, repo, asked, steps>>
Unmoved == UNCHANGED <<kconfig, args, result, done, wanted, hurt>>
Writes(new) == disk' = new /\ Then /\ Unmoved

WriteConf == Now("conf") /\ Writes([disk EXCEPT !.conf = args.tool])
RemoveSaved ==
    /\ Now("unsave") /\ disk' = [disk EXCEPT !.mk = NoFile] /\ Then
    /\ wanted' = [tool |-> disk.conf, opt |-> Unset] /\ hurt' = hurt \ {"tool"}
    /\ UNCHANGED <<kconfig, args, result, done>>

ConfTool == IF disk.conf \in {"missing", "torn"} THEN NoTool ELSE disk.conf
OptOver(opt) == IF project.defaults = Unset THEN opt ELSE project.defaults

\* .config.mk and config_defaults.mk are loaded where no configuration was saved.  Of a torn file
\* nothing is left.
LoadedConfig ==
    CASE disk.mk = NoFile   -> [tool |-> ConfTool, opt |-> OptOver(KconfigDefaults.opt)]
      [] disk.mk = TornFile -> KconfigDefaults
      [] OTHER              -> disk.mk

LoadConfig ==
    /\ Now("load") /\ kconfig' = LoadedConfig /\ Then
    /\ UNCHANGED <<disk, args, result, done, wanted, hurt>>

WriteMk == Now("mk") /\ Writes([disk EXCEPT !.mk = kconfig])

\* Where the content is what the file has, the file is left alone.
write_cmake(d) == IF d.cmake = kconfig THEN d ELSE [d EXCEPT !.cmake = kconfig, !.newer = TRUE]

write_header(d) == IF d.header = kconfig THEN d ELSE [d EXCEPT !.header = kconfig, !.touched = TRUE]

WriteCmake == Now("cmake") /\ Writes(write_cmake(disk))
WriteHeader == Now("header") /\ Writes(write_header(disk))

\* The user changes options, saves, changes on, and leaves; what is not saved stays in memory.
UiEdit ==
    /\ Now("ui")
    /\ \E tool \in project.menuTools, opt \in project.opts :
          LET new == [tool |-> tool, opt |-> opt] IN new # kconfig /\ kconfig' = new
    /\ UNCHANGED <<project, disk, repo, todo, args, result, done, wanted, asked, hurt, steps>>
UiSave ==
    /\ Now("ui") /\ disk.mk # kconfig
    /\ disk' = [disk EXCEPT !.mk = kconfig] /\ wanted' = kconfig
    /\ UNCHANGED <<project, repo, todo, kconfig, args, result, done, asked, hurt, steps>>
UiQuit ==
    /\ Now("ui") /\ Then
    /\ hurt' = IF disk.mk = kconfig THEN hurt ELSE hurt \cup {"menu"}
    /\ UNCHANGED <<disk, kconfig, args, result, done, wanted>>

Fails ==
    /\ todo' = << >> /\ result' = "failed" /\ done' = Undone
    /\ UNCHANGED <<project, repo, kconfig, args, wanted, asked, hurt, steps>>

\* The rest of project() in compile.cmake; the makefiles are written last.
Generate ==
    /\ Now("generate") /\ disk.cmake.tool # BadTool
    /\ disk' = [disk EXCEPT !.makefile = disk.cmake, !.newer = FALSE,
                            !.order = SortComponents(project.priority, project.components)]
    /\ Then /\ hurt' = hurt \ {"menu", "left"}
    /\ UNCHANGED <<kconfig, args, result, done, wanted>>
GenerateFails == Now("generate") /\ disk.cmake.tool = BadTool /\ Fails /\ UNCHANGED disk

\* make looks whether cmake has to run again.
CheckBuildSystem ==
    /\ Now("check")
    /\ todo' = (IF disk.newer \/ disk.cmake = NoFile THEN Configure ELSE << >>) \o Tail(todo)
    /\ UNCHANGED <<project, disk, repo, kconfig, args, result, done, wanted, asked, hurt, steps>>

\* Without the piece of a block that a cut-off update leaves.
Whole(content) == content = << >> \/ Last(content) = EndMark

\* The time file is always written, the version file when it changes.
UpdateInfo ==
    LET version == append_time_info(disk.version, <<VersionLines(Version(Describe(repo)))>>) IN
    /\ Now("info") /\ Then
    /\ disk' = [disk EXCEPT !.time = append_time_info(@, <<TimeLines(steps)>>),
                            !.version = version, !.touched = @ \/ version # disk.version]
    /\ hurt' = IF Whole(disk.version) THEN hurt \ {"info"} ELSE hurt
    /\ UNCHANGED <<kconfig, args, result, done, wanted>>

Compiled == [made |-> disk.makefile, header |-> disk.header]
Outdated == disk.touched \/ disk.objects.made # disk.makefile

Compile ==
    /\ Now("compile") /\ disk.header # NoFile
    /\ disk' = [disk EXCEPT !.objects = Compiled, !.touched = FALSE]
    /\ Then /\ UNCHANGED <<kconfig, args, result, done, wanted, hurt>>
CompileFails == Now("compile") /\ disk.header = NoFile /\ Fails /\ UNCHANGED disk

NoObjects == [made |-> NoFile, header |-> NoFile]
MakeClean == Now("clean") /\ Writes(IF disk.makefile = NoFile THEN disk ELSE [disk EXCEPT !.objects = NoObjects])
RemoveBuild ==
    /\ Now("rmbuild") /\ Then
    /\ disk' = [disk EXCEPT !.mk = NoFile, !.cmake = NoFile, !.header = NoFile, !.makefile = NoFile,
                            !.newer = FALSE, !.objects = NoObjects, !.touched = FALSE,
                            !.time = << >>, !.version = << >>, !.order = << >>]
    /\ wanted' = [tool |-> ConfTool, opt |-> Unset]
    /\ hurt' = hurt \cap {"flash"}
    /\ UNCHANGED <<kconfig, args, result, done>>
RemoveConf == Now("rmconf") /\ Writes([disk EXCEPT !.conf = "missing"])
RemoveBuildConfig ==
    /\ Now("rmconfig") /\ Then
    /\ disk' = [disk EXCEPT !.mk = NoFile, !.cmake = NoFile, !.header = NoFile, !.time = << >>, !.version = << >>]
    /\ wanted' = [tool |-> NoTool, opt |-> Unset] /\ hurt' = hurt \cap {"menu", "flash"}
    /\ UNCHANGED <<kconfig, args, result, done>>

\* A mutant: every argument replaces what was saved.
FlashConfig_All(saved) == args.flash

FlashConfig(saved) == IF saved = NoFlash THEN args.flash ELSE Given(args.flash, saved)

WriteFlashConf ==
    /\ Now("flashconf") /\ Then
    /\ args' = [args EXCEPT !.flash = FlashConfig(disk.flash)]
    /\ disk' = [disk EXCEPT !.flash = FlashConfig(disk.flash)]
    /\ UNCHANGED <<kconfig, result, done, wanted, hurt>>
Flash == Now("flash") /\ args.flash.port # "" /\ Then /\ Unmoved /\ UNCHANGED disk
FlashFails == Now("flash") /\ args.flash.port = "" /\ Fails /\ UNCHANGED disk
RemoveFlashConf ==
    /\ Now("rmflash") /\ todo' = Tail(todo)
    /\ disk' = [disk EXCEPT !.flash = NoFlash] /\ asked' = DefaultFlash /\ hurt' = hurt \ {"flash"}
    /\ UNCHANGED <<project, repo, kconfig, args, result, done, wanted, steps>>

Finish ==
    /\ Len(todo) = 1 /\ todo' = << >> /\ result' = "ok"
    /\ done' = [cmd |-> Head(todo), saved |-> disk.mk # NoFile, hurt |-> hurt]
    /\ UNCHANGED <<project, disk, repo, kconfig, args, wanted, asked, hurt, steps>>

----------------------------------------------------------------------------
(* Kills.                                                                  *)

CutOff(content) == Prefixes(content) \ {content}

\* Some of the files of a folder are removed.
SomeRemoved ==
    {[disk EXCEPT !.mk = IF "mk" \in gone THEN NoFile ELSE @, !.cmake = IF "cmake" \in gone THEN NoFile ELSE @,
                  !.header = IF "header" \in gone THEN NoFile ELSE @,
                  !.makefile = IF "makefile" \in gone THEN NoFile ELSE @,
                  !.time = IF "time" \in gone THEN << >> ELSE @, !.version = IF "version" \in gone THEN << >> ELSE @] :
        gone \in SUBSET ({"mk", "cmake", "header", "time", "version"} \cup (IF Now("rmbuild") THEN {"makefile"} ELSE {}))}

\* What the step that was under way may have left behind.
Left ==
    CASE Now("conf")   -> {disk, [disk EXCEPT !.conf = "torn"]}
      [] (Now("mk") \/ Now("ui")) /\ disk.mk # kconfig ->         \* the old file is renamed before the new one is written
           {disk, [disk EXCEPT !.mk = NoFile], [disk EXCEPT !.mk = TornFile]}
      [] Now("cmake") /\ disk.cmake # kconfig -> {disk, [disk EXCEPT !.cmake = TornFile, !.newer = TRUE]}
      [] Now("header") /\ disk.header # kconfig -> {disk, [disk EXCEPT !.header = TornFile, !.touched = TRUE]}
      [] Now("info")   ->
           LET lines == <<VersionLines(Version(Describe(repo)))>>
               time == append_time_info(disk.time, <<TimeLines(steps)>>)
               version == append_time_info(disk.version, lines)
           IN {[disk EXCEPT !.time = t] : t \in CutOff(time)}
              \cup (IF version = disk.version THEN {}
                    ELSE {[disk EXCEPT !.time = time, !.version = v, !.touched = TRUE] : v \in CutOff(version)})
      [] Now("compile") -> {[disk EXCEPT !.touched = Outdated]}
      [] Now("rmbuild") \/ Now("rmconfig") -> SomeRemoved
      [] Now("flashconf") -> {disk, [disk EXCEPT !.flash = NoFlash]}
      [] OTHER -> {disk}

Hurts ==
    (IF Now("ui") \/ Now("cmake") THEN {"menu"} ELSE {})
    \cup (IF Now("unsave") \/ Now("conf") \/ Now("mk") \/ Now("ui") \/ Now("rmbuild") \/ Now("rmconfig")
          THEN {"tool"} ELSE {})
    \cup (IF Now("rmbuild") \/ Now("rmconfig") THEN {"left"} ELSE {})
    \cup (IF "flashconf" \in ToSet(todo) \/ Now("rmflash") THEN {"flash"} ELSE {})

Kill ==
    /\ "kill" \in project.cmds /\ steps < project.max /\ Len(todo) > 1
    /\ disk' \in Left /\ hurt' = hurt \cup Hurts \cup (IF Whole(disk'.version) THEN {} ELSE {"info"})
    /\ todo' = << >> /\ result' = "none" /\ done' = Undone /\ steps' = steps + 1
    /\ UNCHANGED <<project, repo, kconfig, args, wanted, asked>>

Next ==
    \/ Run \/ Commit \/ WriteConf \/ RemoveSaved \/ LoadConfig \/ WriteMk \/ WriteCmake \/ WriteHeader
    \/ UiEdit \/ UiSave \/ UiQuit \/ Generate \/ GenerateFails \/ CheckBuildSystem \/ UpdateInfo
    \/ Compile \/ CompileFails \/ MakeClean \/ RemoveBuild \/ RemoveConf \/ RemoveBuildConfig
    \/ WriteFlashConf \/ Flash \/ FlashFails \/ RemoveFlashConf \/ Finish \/ Kill
Spec == Init /\ [][Next]_vars

----------------------------------------------------------------------------
(* Properties.                                                             *)

IsBuild(cmd) == cmd \in {"build", "rebuild"}
Built == Idle /\ result = "ok" /\ IsBuild(done.cmd)

\* All that is compiled is compiled for one configuration: what CMake chose the components and the
\* toolchain by is what the C sources see, whatever was killed and whatever menuconfig wrote unsaved.
\* Two kills can leave a header that breaks off: one within the removal of build/config that spares
\* what CMake reads, and one within the next write of the header.
OneConfiguration ==
    /\ Idle => disk.objects.header \in {disk.objects.made, TornFile}
    /\ Now("compile") => disk.header = disk.makefile \/ "left" \in hurt

\* A rebuild is made for what was last saved in the menu, or else for the toolchain last configured, unless
\* a kill came between the files that say so, or unsaved edits were left in them.  So is a build, with one
\* exception more: 'config' with a new toolchain removes the saved configuration, and a build that finds
\* makefiles does not run cmake, so that it is made for the old toolchain and leaves no configuration saved.
BuiltAsWanted ==
    Built /\ hurt \cap {"menu", "tool"} = {} /\ ~(done.cmd = "build" /\ disk.mk = NoFile) =>
        /\ disk.objects.made.tool = wanted.tool
        /\ wanted.opt # Unset => disk.objects.made.opt = wanted.opt

\* A build or rebuild after a build between which nothing changed compiles nothing but what shows the time,
\* unless that build had found no saved configuration or files that a kill or unsaved edits had upset.
NothingRecompiled ==
    Now("compile") /\ IsBuild(done.cmd) /\ done.saved /\ done.hurt \subseteq {"flash"} => ~Outdated

\* So a build compiles what it must and no more.
BuildsJustThat == BuiltAsWanted /\ NothingRecompiled

\* A tag of three numbers is reported as it is with the number of commits since, a repository
\* without tags by its commit.
VersionOf(r) ==
    [numbers |-> IF r.tag = << >> THEN <<0, 0, 0, 0>> ELSE Append(r.tag[1].fields, r.n),
     commit |-> r.commit, dirty |-> r.dirty]

\* A build leaves the version file with one block at its end, for the repository as it was built.  Nothing
\* is before it unless the update found the file cut off by a kill: then the piece that there was, with the
\* lines of an older version it may have, but without an end mark, stays until the next update.
VersionReported ==
    Built => \E k \in 0..Len(disk.version) :
        /\ disk.version = SubSeq(disk.version, 1, k) \o <<StartMark, VersionLines(VersionOf(repo)), EndMark>>
        /\ \A i \in 1..k : disk.version[i] # EndMark
        /\ "info" \notin hurt => k = 0

\* CMake takes the components in the order of the priority file.
OrderedByPriority == disk.order # << >> => InOrder(project.priority, project.components, disk.order)

\* What is flashed with is for each argument what was last given since the settings were cleared.
FlashAsAsked == Now("flash") /\ "flash" \notin hurt => args.flash = asked
=============================================================================
