--------------------------- MODULE MCProjectBuild ---------------------------
EXTENDS ProjectBuild

Clean == [tag |-> << >>, n |-> 0, commit |-> "c1", dirty |-> FALSE]
Tagged == [tag |-> <<Word(TRUE, <<1, 2, 3>>, "v1.2.3")>>, n |-> 4, commit |-> "gc1", dirty |-> FALSE]

Settings ==
    [cmds |-> {"config", "build", "rebuild", "menuconfig", "clean", "distclean", "clean_conf", "kill"},
     tools |-> {NoTool, "A"}, menuTools |-> {NoTool, "A", BadTool}, opts |-> {0, 1}, defaults |-> 1,
     repos |-> {Clean}, components |-> <<<<"sdk", "c1">>>>, priority |-> << >>, flash |-> {DefaultFlash}, max |-> 5]

Versions ==
    [Settings EXCEPT !.cmds = {"build", "commit", "kill"}, !.tools = {NoTool}, !.defaults = Unset,
        !.repos = {Clean, [Clean EXCEPT !.dirty = TRUE], Tagged, [Tagged EXCEPT !.dirty = TRUE],
                   [Tagged EXCEPT !.n = 0]}, !.max = 6]

Flashing ==
    [Settings EXCEPT !.cmds = {"flash", "clean_conf", "kill"},
        !.flash = [port : {"", "usb0", "usb1"}, baudrate : {115200, 9600}], !.max = 4]

\* Two commands that are cut off, one after the other.
CutOffTwice ==
    [Settings EXCEPT !.cmds = {"build", "rebuild", "clean_conf", "kill"}, !.tools = {NoTool}, !.max = 6]

\* Components of the SDK and of the project, one name twice, with and without priorities.
Folders == <<<<"sdk", "c1">>, <<"sdk", "c2">>, <<"sdk", "c3">>, <<"project", "c2">>, <<"project", "main">>>>
Ordered(priority) == [Settings EXCEPT !.cmds = {"build"}, !.tools = {NoTool}, !.components = Folders,
                                      !.priority = priority, !.max = 1]

ProjectsDef ==
    <<Settings, Versions, Flashing, CutOffTwice, Ordered(<< >>), Ordered(<<"c2", "c1">>), Ordered(<<"main", "c3", "none", "c2">>),
      Ordered(<<"c3", "c1", "c2", "c3">>)>>
=============================================================================
