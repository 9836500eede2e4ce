---------------------------- MODULE KconfigParser ----------------------------
(***************************************************************************)
(* The Kconfig parser of kconfiglib.py: Kconfig.__init__ from the opening  *)
(* of the top-level file to the finalized menu tree.                       *)
(*                                                                         *)
(* A physical line has its tokens, its indentation, and whether it ends in *)
(* a backslash and is joined with the next one.  A token is a word of the  *)
(* model; "str" stands for any quoted text.  The lines of a file are       *)
(* chosen as they are first read, and are the same ever after.  The calls  *)
(* of _parse_block under way are kept in 'calls'; a call has the token     *)
(* that ends the block, the node it fills, the last node linked, and the   *)
(* sourced files it has still to parse.                                    *)
(***************************************************************************)
EXTENDS KconfigMenu, KconfigPreprocessor, TLC
LOCAL INSTANCE SequencesExt

CONSTANTS Files,        \* the names of the Kconfig files
          MainFile,     \* the top-level one
          Glob,         \* from patterns to the sorted names of the files that match
          SymNames,     \* the words that are names of symbols
          Projects      \* of each project that is parsed, the lines that may be a file's k-th

VARIABLES project,      \* the project parsed
          text,         \* the lines of each file, as far as they were read
          ended,        \* the files whose end has been read
          at,           \* the current file and how many of its lines were read (_readline)
          place,        \* _filename, _linenr and _include_path
          filestack,    \* _filestack: the include path and position to return to
          mode,         \* what the parser does next
          tokens,       \* _tokens, without the None that ends them
          props,        \* the node whose properties are being parsed, Nil if none
          help,         \* the indentation of the help text under way and its lines so far
          calls,
          variables,    \* the preprocessor's
          tree,
          status        \* "parsing", "done", "finalized", or an error

input == <<project, text, ended>>
vars == <<project, text, ended, at, place, filestack, mode, tokens, props, help, calls, variables, tree, status>>

Eol == "eol"
NoEnd == "none"
Tok(i) == IF i <= Len(tokens) THEN tokens[i] ELSE Eol
top == calls[Len(calls)]
TopCall(f) == [calls EXCEPT ![Len(calls)] = f]
Words == {"n", "m", "y"}

Init ==
    /\ project \in DOMAIN Projects
    /\ text = [f \in Files |-> << >>] /\ ended = {} /\ at = [file |-> MainFile, pos |-> 0]
    /\ place = [filename |-> MainFile, linenr |-> 0, include_path |-> << >>] /\ filestack = << >>
    /\ mode = "fetch" /\ tokens = << >> /\ props = Nil /\ help = [indent |-> 0, lines |-> 0]
    /\ calls = <<[end |-> NoEnd, parent |-> Top, prev |-> Top, files |-> << >>]>>
    /\ variables = << >>
    /\ tree = [node |-> <<[NewNode("menu", "main", Nil) EXCEPT !.prompt = <<Yes>>]
                          @@ [loc |-> [file |-> MainFile, line |-> 1, path |-> << >>], raw |-> << >>]>>,
               sym |-> [s \in SymNames |-> NewSymbol], cho |-> << >>]
    /\ status = "parsing"

Fail(reason) ==
    status' = reason /\ UNCHANGED <<input, at, place, filestack, mode, tokens, props, help, calls, variables, tree>>

----------------------------------------------------------------------------
(* Lines.                                                                  *)

NextLines == IF at.pos < Len(Projects[project]) THEN Projects[project][at.pos + 1] ELSE {}

\* readline(): the next physical line, one that may still be chosen, or the end of the file.
ReadLine(line) ==
    /\ status = "parsing"
    /\ IF at.pos < Len(text[at.file])
       THEN line = text[at.file][at.pos + 1] /\ UNCHANGED <<text, ended>>
       ELSE /\ at.file \notin ended /\ Len(text[at.file]) < Len(Projects[project])
            /\ text' = [text EXCEPT ![at.file] = Append(@, line)] /\ UNCHANGED ended
    /\ at' = [at EXCEPT !.pos = @ + 1] /\ UNCHANGED project

ReadEof ==
    /\ status = "parsing" /\ at.pos = Len(text[at.file])
    /\ ended' = ended \cup {at.file}
    /\ UNCHANGED <<project, text, at>>

NextLine(k) == [place EXCEPT !.linenr = @ + k]

Tokenize(line, before) ==
    /\ tokens' = before \o line.tokens
    /\ mode' = IF line.cont THEN "join" ELSE "tokenized"

FetchLine ==
    /\ mode = "fetch"
    /\ \E line \in NextLines : ReadLine(line) /\ Tokenize(line, << >>)
    /\ place' = NextLine(1)
    /\ UNCHANGED <<filestack, props, help, calls, variables, tree, status>>

\* The line is joined with the next physical line, or with nothing at the end of the file.
JoinLine ==
    /\ mode = "join"
    /\ place' = NextLine(1)
    /\ \/ \E line \in NextLines : ReadLine(line) /\ Tokenize(line, tokens)
       \/ ReadEof /\ mode' = "tokenized" /\ UNCHANGED tokens
    /\ UNCHANGED <<filestack, props, help, calls, variables, tree, status>>

NextLineEof ==
    /\ mode = "fetch" /\ ReadEof /\ mode' = "eof"
    /\ UNCHANGED <<place, filestack, tokens, props, help, calls, variables, tree, status>>

\* A first word that is no keyword is an assignment, a symbol's name may come from a macro.
_tokenize ==
    /\ status = "parsing" /\ mode = "tokenized"
    /\ CASE Tok(1) = "text" -> Fail("syntax error")
         [] Tok(1) = "assign" ->
              LET after == Assigned(variables, tokens[2], tokens[3], tokens[4]) IN
              IF Len(tokens) > 4 THEN Fail("syntax error")
              ELSE IF ~after.ok THEN Fail("recursive variable")
              ELSE /\ variables' = after.variables /\ tokens' = << >> /\ mode' = "handle"
                   /\ UNCHANGED <<input, at, place, filestack, props, help, calls, tree, status>>
         [] Tok(1) = "config" /\ Tok(2) = "macro" ->
              LET name == _expand_whole(variables, tokens[3], << >>) IN
              IF ~name.ok THEN Fail("recursive variable")
              ELSE IF name.val = << >> THEN Fail("blank name")
              ELSE /\ tokens' = <<"config", name.val[1]>> /\ mode' = "handle"
                   /\ UNCHANGED <<input, at, place, filestack, props, help, calls, variables, tree, status>>
         [] OTHER -> mode' = "handle" /\ UNCHANGED <<input, at, place, filestack, tokens, props, help,
                                                     calls, variables, tree, status>>

----------------------------------------------------------------------------
(* Expressions.  A parse has the expression, the index of the next token,  *)
(* and whether it went well.                                               *)

Parse(ok, e, i) == [ok |-> ok, expr |-> e, next |-> i]
Failed == Parse(FALSE, No, 0)
SymOf(w) == IF w \in SymNames THEN Item(w) ELSE CASE w = "n" -> No [] w = "m" -> Mod [] w = "y" -> Yes

RECURSIVE _parse_expr(_, _), _parse_and_expr(_, _), _parse_factor(_, _)

_parse_expr(i, transform_m) ==
    LET and_expr == _parse_and_expr(i, transform_m)
        right == _parse_expr(and_expr.next + 1, transform_m)
    IN IF ~and_expr.ok \/ Tok(and_expr.next) # "||" THEN and_expr
       ELSE Parse(right.ok, Or(and_expr.expr, right.expr), right.next)

\* A mutant: && is parsed like ||, with everything to its right as the right operand.
_parse_and_expr_NoPrecedence(i, transform_m) ==
    LET factor == _parse_factor(i, transform_m)
        right == _parse_expr(factor.next + 1, transform_m)
    IN IF ~factor.ok \/ Tok(factor.next) # "&&" THEN factor
       ELSE Parse(right.ok, And(factor.expr, right.expr), right.next)

_parse_and_expr(i, transform_m) ==
    LET factor == _parse_factor(i, transform_m)
        right == _parse_and_expr(factor.next + 1, transform_m)
    IN IF ~factor.ok \/ Tok(factor.next) # "&&" THEN factor
       ELSE Parse(right.ok, And(factor.expr, right.expr), right.next)

_parse_factor(i, transform_m) ==
    LET inner == _parse_expr(i + 1, transform_m)
        negated == _parse_factor(i + 1, transform_m)
        IsSym(w) == w \in SymNames \cup Words
    IN CASE IsSym(Tok(i)) /\ Tok(i + 1) \in Relations ->
                IF IsSym(Tok(i + 2)) THEN Parse(TRUE, Rel(Tok(i + 1), SymOf(Tok(i)), SymOf(Tok(i + 2))), i + 3)
                ELSE Failed
         [] IsSym(Tok(i)) /\ Tok(i + 1) \notin Relations ->
                Parse(TRUE, IF transform_m /\ Tok(i) = "m" THEN And(Mod, Item("MODULES")) ELSE SymOf(Tok(i)), i + 1)
         [] Tok(i) = "!" -> Parse(negated.ok, Not(negated.expr), negated.next)
         [] Tok(i) = "(" -> IF inner.ok /\ Tok(inner.next) = ")" THEN Parse(TRUE, inner.expr, inner.next + 1) ELSE Failed
         [] OTHER -> Failed

_expect_expr_and_eol(i) ==
    LET e == _parse_expr(i, TRUE) IN IF e.ok /\ Tok(e.next) = Eol THEN e ELSE Failed

\* An optional condition at the end of a line.
_parse_cond(i) ==
    IF Tok(i) = "if" THEN _expect_expr_and_eol(i + 1)
    ELSE IF Tok(i) = Eol THEN Parse(TRUE, Yes, i) ELSE Failed

----------------------------------------------------------------------------
(* Blocks.                                                                 *)

Handle == status = "parsing" /\ mode = "handle" /\ props = Nil
new == Len(tree.node) + 1
Here == [loc |-> [file |-> place.filename, line |-> place.linenr, path |-> place.include_path], raw |-> << >>]
Added(kind, item) == [tree EXCEPT !.node = Append(@, Here @@ NewNode(kind, item, top.parent))]

\* prev.next = prev = node, in the call that is on top once 'below' are the calls.
Linked(t, below, x) ==
    /\ tree' = Set(t, below[Len(below)].prev, "next", x)
    /\ calls' = [below EXCEPT ![Len(below)].prev = x]

\* The block of node x begins: its children are linked to x itself first.
Inner(end, x) == [end |-> end, parent |-> x, prev |-> x, files |-> << >>]

BlankLine ==
    /\ status = "parsing" /\ mode = "handle" /\ Tok(1) = Eol
    /\ mode' = "fetch"
    /\ UNCHANGED <<input, at, place, filestack, tokens, props, help, calls, variables, tree, status>>

\* config and menuconfig: the node is linked once its properties are parsed.
ParseConfig ==
    /\ Handle /\ Tok(1) = "config"
    /\ IF Tok(2) \in SymNames /\ Tok(3) = Eol
       THEN /\ tree' = [Added("sym", Tok(2)) EXCEPT !.sym[Tok(2)].nodes = Append(@, new)]
            /\ props' = new /\ mode' = "fetch"
            /\ UNCHANGED <<input, at, place, filestack, tokens, help, calls, variables, status>>
       ELSE Fail("bad symbol")

ParseMenuOrComment ==
    /\ Handle /\ Tok(1) \in {"menu", "comment"}
    /\ IF Tok(2) = "str" /\ Tok(3) = Eol
       THEN /\ tree' = Set(Added(Tok(1), Tok(1)), new, "prompt", <<Yes>>)
            /\ props' = new /\ mode' = "fetch"
            /\ UNCHANGED <<input, at, place, filestack, tokens, help, calls, variables, status>>
       ELSE Fail("expected string")

\* A choice without a name is a new one each time.
ParseChoice ==
    /\ Handle /\ Tok(1) = "choice"
    /\ LET name == IF Tok(2) = Eol THEN ToString(new) ELSE Tok(2)
           cho == IF name \in DOMAIN tree.cho THEN tree.cho ELSE (name :> NewChoice) @@ tree.cho
       IN IF Tok(3) # Eol THEN Fail("extra tokens")
          ELSE /\ tree' = [Added("choice", name) EXCEPT !.cho = [cho EXCEPT ![name].nodes = Append(@, new)]]
               /\ props' = new /\ mode' = "fetch"
               /\ UNCHANGED <<input, at, place, filestack, tokens, help, calls, variables, status>>

ParseIf ==
    /\ Handle /\ Tok(1) = "if"
    /\ LET e == _expect_expr_and_eol(2) IN
       IF e.ok
       THEN /\ tree' = Set(Set(Added("if", "if"), new, "dep", e.expr), new, "raw", <<Tail(tokens)>>)
            /\ calls' = Append(calls, Inner("endif", new)) /\ mode' = "fetch"
            /\ UNCHANGED <<input, at, place, filestack, tokens, props, help, variables, status>>
       ELSE Fail("malformed expression")

\* The files that match the pattern are parsed one after the other, into the same block.
ParseSource ==
    /\ Handle /\ Tok(1) \in {"source", "osource"}
    /\ LET filenames == IF Tok(2) \in DOMAIN Glob THEN Glob[Tok(2)] ELSE << >> IN
       IF Tok(3) # Eol THEN Fail("extra tokens")
       ELSE IF filenames = << >> /\ Tok(1) = "source" THEN Fail("file not found")
       ELSE /\ calls' = TopCall([top EXCEPT !.files = filenames]) /\ mode' = "source"
            /\ UNCHANGED <<input, at, place, filestack, tokens, props, help, variables, tree, status>>

_enter_file(f) ==
    LET path == Append(place.include_path, <<place.filename, place.linenr>>) IN
    /\ filestack' = Append(filestack, [path |-> place.include_path, at |-> at])
    /\ IF \E k \in DOMAIN path : path[k][1] = f
       THEN status' = "recursive source" /\ UNCHANGED <<place, at>>
       ELSE /\ place' = [filename |-> f, linenr |-> 0, include_path |-> path]
            /\ at' = [file |-> f, pos |-> 0]
            /\ UNCHANGED status

EnterFile ==
    /\ status = "parsing" /\ mode = "source" /\ top.files # << >>
    /\ _enter_file(Head(top.files))
    /\ calls' = Append(TopCall([top EXCEPT !.files = Tail(@)]),
                       [end |-> NoEnd, parent |-> top.parent, prev |-> top.prev, files |-> << >>])
    /\ mode' = "fetch"
    /\ UNCHANGED <<input, tokens, props, help, variables, tree>>

SourceDone ==
    /\ status = "parsing" /\ mode = "source" /\ top.files = << >>
    /\ mode' = "fetch"
    /\ UNCHANGED <<input, at, place, filestack, tokens, props, help, calls, variables, tree, status>>

\* endif, endmenu or endchoice where it belongs: the children are tilted up and the node is linked.
EndBlock ==
    /\ Handle /\ Tok(1) = top.end
    /\ IF Tok(2) # Eol THEN Fail("extra tokens")
       ELSE LET t == Set(tree, top.prev, "next", Nil)
            IN /\ Linked(Set(t, top.parent, "list", t.node[top.parent].next), Front(calls), top.parent)
               /\ mode' = "fetch"
               /\ UNCHANGED <<input, at, place, filestack, tokens, props, help, variables, status>>

\* A mutant: the end of a file ends the blocks that it left open.
EndOfFile_ClosesBlocks ==
    /\ status = "parsing" /\ mode = "eof" /\ props = Nil
    /\ LET t == Set(tree, top.prev, "next", Nil) IN
       IF top.end # NoEnd
       THEN /\ Linked(Set(t, top.parent, "list", t.node[top.parent].next), Front(calls), top.parent)
            /\ UNCHANGED <<input, at, place, filestack, mode, tokens, props, help, variables, status>>
       ELSE IF Len(calls) = 1
       THEN /\ tree' = Set(Set(t, Top, "list", t.node[Top].next), Top, "next", Nil)
            /\ status' = "done"
            /\ UNCHANGED <<input, at, place, filestack, mode, tokens, props, help, calls, variables>>
       ELSE Fail("expected end")

_leave_file ==
    LET last == place.include_path[Len(place.include_path)]
        saved == filestack[Len(filestack)]
    IN /\ place' = [filename |-> last[1], linenr |-> last[2], include_path |-> saved.path]
       /\ at' = saved.at
       /\ filestack' = Front(filestack)

\* The end of a file ends its block, if no block inside it is open.
EndOfFile ==
    /\ status = "parsing" /\ mode = "eof" /\ props = Nil
    /\ LET t == Set(tree, top.prev, "next", Nil) IN
       IF top.end # NoEnd THEN Fail("expected end")
       ELSE IF Len(calls) = 1
       THEN /\ tree' = Set(Set(t, Top, "list", t.node[Top].next), Top, "next", Nil)
            /\ status' = "done"
            /\ UNCHANGED <<input, at, place, filestack, mode, tokens, props, help, calls, variables>>
       ELSE /\ tree' = t
            /\ calls' = [Front(calls) EXCEPT ![Len(calls) - 1].prev = top.prev]
            /\ _leave_file /\ mode' = "source"
            /\ UNCHANGED <<input, tokens, props, help, variables, status>>

Unrecognized ==
    /\ Handle
    /\ Tok(1) \notin {Eol, "config", "menu", "comment", "choice", "if", "source", "osource", top.end}
    /\ Fail("unrecognized construct")

----------------------------------------------------------------------------
(* Properties.                                                             *)

Property == status = "parsing" /\ mode = "handle" /\ props # Nil
node == tree.node[props]
IsSymNode == node.kind = "sym"

\* The next line of the properties, with the node's field set.
Got(t) ==
    /\ tree' = t /\ mode' = "fetch"
    /\ UNCHANGED <<input, at, place, filestack, tokens, props, help, calls, variables, status>>
With(field, v) == Set(tree, props, field, v)
Typed(t, type) == IF IsSymNode THEN [t EXCEPT !.sym[node.item].type = type]
                  ELSE [t EXCEPT !.cho[node.item].type = type]

\* bool and tristate, with or without a prompt, and prompt.
ParseTypeOrPrompt ==
    /\ Property /\ Tok(1) \in {"bool", "tristate", "prompt"}
    /\ LET t == IF Tok(1) = "prompt" THEN tree ELSE Typed(tree, Tok(1)) IN
       IF Tok(1) # "prompt" /\ node.kind \notin {"sym", "choice"} THEN Fail("type of a menu or comment")
       ELSE IF Tok(1) # "prompt" /\ Tok(2) = Eol THEN Got(t)
       ELSE IF Tok(2) = "str" /\ _parse_cond(3).ok
       THEN Got(Set(t, props, "prompt", <<_parse_cond(3).expr>>))
       ELSE Fail("bad prompt")

ParseDepends ==
    /\ Property /\ Tok(1) = "depends"
    /\ LET e == _expect_expr_and_eol(3) IN
       IF Tok(2) = "on" /\ e.ok
       THEN Got(Set(With("dep", make_and(node.dep, e.expr)), props, "raw",
                    Append(node.raw, SubSeq(tokens, 3, Len(tokens)))))
       ELSE Fail("bad depends")

ParseDefault ==
    /\ Property /\ Tok(1) = "default"
    /\ LET e == _parse_expr(2, FALSE) IN
       IF e.ok /\ _parse_cond(e.next).ok
       THEN Got(With("defaults", Append(node.defaults, <<e.expr, _parse_cond(e.next).expr>>)))
       ELSE Fail("bad default")

ParseSelectOrImply ==
    /\ Property /\ Tok(1) \in {"select", "imply"}
    /\ LET field == IF Tok(1) = "select" THEN "selects" ELSE "implies" IN
       IF IsSymNode /\ Tok(2) \in SymNames /\ _parse_cond(3).ok
       THEN Got(With(field, Append(node[field], <<Tok(2), _parse_cond(3).expr>>)))
       ELSE Fail("bad select")

ParseRange ==
    /\ Property /\ Tok(1) = "range"
    /\ IF {Tok(2), Tok(3)} \subseteq SymNames \cup Words /\ _parse_cond(4).ok
       THEN Got(With("ranges", Append(node.ranges, <<SymOf(Tok(2)), SymOf(Tok(3)), _parse_cond(4).expr>>)))
       ELSE Fail("bad range")

\* Only a menu has a visibility to add to: elsewhere the attribute does not exist.
ParseVisible ==
    /\ Property /\ Tok(1) = "visible"
    /\ LET e == _expect_expr_and_eol(3) IN
       IF Tok(2) = "if" /\ e.ok /\ node.kind = "menu"
       THEN Got(With("visibility", make_and(node.visibility, e.expr)))
       ELSE Fail("bad visible")

ParseOptional ==
    /\ Property /\ Tok(1) = "optional"
    /\ IF node.kind = "choice" THEN Got([tree EXCEPT !.cho[node.item].optional = TRUE])
       ELSE Fail("optional outside choice")

\* The text begins with the first line that is not blank.  One without indentation is no help text.
ParseHelp ==
    /\ Property /\ Tok(1) = "help"
    /\ mode' = "help" /\ help' = [indent |-> 0, lines |-> 0]
    /\ UNCHANGED <<input, at, place, filestack, tokens, props, calls, variables, tree, status>>

\* A mutant: the line after the help text is counted with its lines.
Counted_Twice(line) == help.lines + (IF line.indent < help.indent THEN 2 ELSE 1)

\* What the line number grows by at the line that ends the text: its own line, and the lines of the
\* text after the first.
Counted(line) == help.lines + 1

HelpLine ==
    /\ mode = "help"
    /\ \E line \in NextLines :
         /\ ReadLine(line)
         /\ LET blank == line.tokens = << >>
                first == help.indent = 0
            IN CASE first /\ (blank \/ line.indent > 0) ->
                        /\ place' = NextLine(1)
                        /\ help' = [help EXCEPT !.indent = IF blank THEN 0 ELSE line.indent]
                        /\ UNCHANGED <<mode, tokens>>
                 [] ~first /\ (blank \/ line.indent >= help.indent) ->
                        /\ help' = [help EXCEPT !.lines = @ + 1]
                        /\ UNCHANGED <<mode, tokens, place>>
                 [] OTHER ->
                        /\ place' = NextLine(Counted(line))
                        /\ Tokenize(line, << >>)
                        /\ UNCHANGED help
    /\ UNCHANGED <<filestack, props, calls, variables, tree, status>>

HelpEof ==
    /\ mode = "help" /\ ReadEof
    /\ place' = NextLine(help.lines + 1) /\ mode' = "eof"
    /\ UNCHANGED <<filestack, tokens, props, help, calls, variables, tree, status>>

PropertyWords == {"bool", "tristate", "prompt", "depends", "default", "select", "imply", "range",
                  "visible", "optional", "help", Eol}

\* A line that is no property, kept for the block, or the end of the file.  A symbol or comment is
\* linked, the block of a menu or choice begins.
EndProperties ==
    /\ status = "parsing" /\ props # Nil
    /\ mode = "eof" \/ (mode = "handle" /\ Tok(1) \notin PropertyWords)
    /\ IF node.kind \in {"sym", "comment"} THEN Linked(tree, calls, props)
       ELSE calls' = Append(calls, Inner(IF node.kind = "menu" THEN "endmenu" ELSE "endchoice", props)) /\ UNCHANGED tree
    /\ props' = Nil
    /\ UNCHANGED <<input, at, place, filestack, mode, tokens, help, variables, status>>

\* The rest of Kconfig.__init__ that changes the tree.
FinalizeTree ==
    /\ status = "done" /\ status' = "finalized"
    /\ tree' = Finalize(tree)
    /\ UNCHANGED <<input, at, place, filestack, mode, tokens, props, help, calls, variables>>

Next ==
    \/ FetchLine \/ JoinLine \/ NextLineEof \/ _tokenize
    \/ BlankLine \/ ParseConfig \/ ParseMenuOrComment \/ ParseChoice \/ ParseIf \/ ParseSource
    \/ EnterFile \/ SourceDone \/ EndBlock \/ EndOfFile \/ Unrecognized
    \/ ParseTypeOrPrompt \/ ParseDepends \/ ParseDefault \/ ParseSelectOrImply \/ ParseRange
    \/ ParseVisible \/ ParseOptional \/ ParseHelp \/ HelpLine \/ HelpEof \/ EndProperties
    \/ FinalizeTree
Spec == Init /\ [][Next]_vars
=============================================================================
