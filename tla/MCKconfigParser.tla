-------------------------- MODULE MCKconfigParser --------------------------
EXTENDS KconfigText

L(ts) == [tokens |-> ts, indent |-> 0, cont |-> FALSE]
Joined(ts) == [L(ts) EXCEPT !.cont = TRUE]
Text(k) == [tokens |-> <<"text">>, indent |-> k, cont |-> FALSE]
Times(k, lines) == [i \in 1..k |-> lines]

FilesDef == {"M", "F", "G"}
SymNamesDef == {"A", "B", "MODULES"}
GlobDef == "f" :> <<"F">> @@ "g" :> <<"G">> @@ "*" :> <<"F", "G">>
EnvironmentDef == <<"E">> :> <<"e">>

\* Blocks that are nested, that cross and that are not ended.
Blocks == Times(5, {L(<<"config", "A">>), L(<<"menu", "str">>), L(<<"endmenu">>), L(<<"if", "A">>), L(<<"endif">>),
                    L(<<"choice">>), L(<<"endchoice">>), L(<<"comment", "str">>), L(<<"depends", "on", "A">>)})

\* Files that are parsed once, twice, in a row, not at all and into themselves.
Sources == Times(2, {L(<<"config", "A">>), L(<<"source", "f">>), L(<<"source", "g">>), L(<<"osource", "*">>),
                     L(<<"osource", "none">>), L(<<"source", "none">>), L(<<"menu", "str">>), L(<<"endmenu">>)})

\* Help texts with blank lines, more and less indentation, backslashes, and what follows them.
Helps == Times(5, {L(<<"config", "A">>), L(<<"help">>), Text(2), Text(4), L(<< >>), [Text(2) EXCEPT !.cont = TRUE],
                   Joined(<<"depends">>), L(<<"on", "B">>), Joined(<<"config", "B">>)})

\* Conditions of several blocks.
Conditions == Times(6, {L(<<"config", "A">>), L(<<"menu", "str">>), L(<<"depends", "on", "!", "B">>),
                         L(<<"visible", "if", "B">>), L(<<"bool", "str", "if", "A">>),
                        L(<<"if", "B">>), L(<<"endif">>), L(<<"endmenu">>)})

\* All expressions of up to five words, longer ones with brackets, and what is none.
Bracketed == {<<"(", a, op, b, ")">> : a, b \in {"A", "B"}, op \in {"||", "&&"}}
Upto(k, words) == UNION {[1..i -> words] : i \in 1..k}
Expressions == <<{L(<<"config", "A">>)},
                 {L(<<"depends", "on">> \o e) : e \in Upto(5, {"A", "B", "&&", "||", "!", "(", ")"})
                                                  \cup Upto(4, {"A", "m", "!=", "&&", "!"})
                                                  \cup {<<"!">> \o e : e \in Bracketed}
                                                  \cup {e \o <<op, "A">> : e \in Bracketed, op \in {"||", "&&"}}}>>

\* Every property, on every kind of node that may have one.
Properties == <<{L(<<"config", "A">>), L(<<"choice", "named">>), L(<<"menu", "str">>), L(<<"comment", "str">>)}>>
              \o Times(2, {L(<<"bool">>), L(<<"tristate", "str">>), L(<<"prompt", "str", "if", "B">>), L(<<"prompt", "A">>),
                           L(<<"default", "y">>), L(<<"default", "B", "if", "!">>), L(<<"select", "B", "if", "A">>),
                           L(<<"imply", "B">>), L(<<"range", "A", "B">>), L(<<"range", "A">>), L(<<"optional">>),
                           L(<<"visible", "if", "A">>), L(<<"config", "A", "B">>)})
              \o <<{L(<<"endmenu">>), L(<<"endchoice">>), L(<<"choice", "named">>), L(<<"choice", "named", "A">>)},
                   {L(<<"config", "B">>), L(<<"endchoice">>), L(<<"endchoice", "A">>)}>>

Macro(v) == Call(<<<<Word(v)>>>>)
Assign(v, op, s) == L(<<"assign", <<v>>, op, s>>)
Macros == Times(4, {Assign("X", op, <<Macro("Y")>>) : op \in {"=", ":=", "+="}}
                   \cup {Assign("Y", op, <<Macro("X"), Word("A")>>) : op \in {"=", ":=", "+="}}
                   \cup {Assign("X", ":=", <<Word("B")>>), Assign("Y", "=", <<Macro("E")>>),
                         L(<<"config", "macro", <<Macro("X")>>>>)})

ProjectsDef == <<Blocks, Sources, Helps, Conditions, Expressions, Properties, Macros>>
=============================================================================
