----------------------------- MODULE BuildInfo -----------------------------
(***************************************************************************)
(* update_build_info.py: the version that a description of the repository  *)
(* stands for, and the block that the script keeps in a header file.       *)
(*                                                                         *)
(* A description is split at its dashes into words; of a word the model    *)
(* has whether it begins with v, its dot-separated fields (NotANumber for  *)
(* one that is none) and its text.  A file is a sequence of the start mark *)
(* and the end mark of the block and of the lines in between.              *)
(***************************************************************************)
EXTENDS Integers, Sequences, SequencesExt

NotANumber == -1
Word(v, fields, text) == [v |-> v, fields |-> fields, text |-> text]
NoTag == Word(FALSE, << >>, "")

----------------------------------------------------------------------------
(* The version.                                                            *)

\* git describe --long --tag --dirty --always, for a repository whose last tag is words (none: << >>)
\* and has n commits after it.
Describe(repo) ==
    (IF repo.tag = << >> THEN <<Word(FALSE, <<NotANumber>>, repo.commit)>>
     ELSE repo.tag \o <<Word(FALSE, <<repo.n>>, "n"), Word(FALSE, <<NotANumber>>, repo.commit)>>)
    \o (IF repo.dirty THEN <<Word(FALSE, <<NotANumber>>, "dirty")>> ELSE << >>)

\* The tag and the word after it make one name.
Joined(words) == Word(words[1].v, words[1].fields \o words[2].fields, "")

EndsDirty(words) == words[Len(words)].text = "dirty"

\* What name, commit and mark the number of words is taken to mean.
Parsed(words) ==
    CASE Len(words) = 1 -> [name |-> NoTag, commit |-> words[1].text, mark |-> ""]
      [] Len(words) = 2 /\ EndsDirty(words)  -> [name |-> NoTag, commit |-> words[1].text, mark |-> "dirty"]
      [] Len(words) = 2 /\ ~EndsDirty(words) -> [name |-> words[1], commit |-> words[2].text, mark |-> ""]
      [] Len(words) = 3 /\ EndsDirty(words)  -> [name |-> words[1], commit |-> words[2].text, mark |-> "dirty"]
      [] Len(words) = 3 /\ ~EndsDirty(words) -> [name |-> Joined(words), commit |-> words[3].text, mark |-> ""]
      [] OTHER -> [name |-> Joined(words), commit |-> words[3].text, mark |-> words[4].text]

\* The field in the place of a number: 0 when it is missing or no number.
Number(name, i) ==
    IF ~name.v \/ i > Len(name.fields) \/ name.fields[i] = NotANumber THEN 0 ELSE name.fields[i]

Version(words) ==
    [numbers |-> [i \in 1..4 |-> Number(Parsed(words).name, i)],
     commit |-> Parsed(words).commit, dirty |-> Parsed(words).mark = "dirty"]

----------------------------------------------------------------------------
(* The block.                                                              *)

StartMark == <<"start">>
EndMark == <<"end">>
TimeLines(t) == <<"time", t>>
VersionLines(v) == <<"version", v>>

\* A mutant: the old block is not looked for in a file that has something.
remove_old_config_info_Append(content) ==
    IF content # << >> THEN content ELSE <<StartMark, EndMark>>

\* From the first start mark to the last end mark everything goes; where there is no block one is added.
remove_old_config_info(content) ==
    LET first == SelectInSeq(content, LAMBDA k : k = StartMark)
        last == SelectLastInSeq(content, LAMBDA k : k = EndMark)
    IN IF first = 0 \/ last < first THEN content \o <<StartMark, EndMark>>
       ELSE SubSeq(content, 1, first) \o SubSeq(content, last, Len(content))

\* The split at every end mark, joined again with the lines and the mark.
Filled(content, lines) ==
    FlattenSeq([i \in DOMAIN content |-> IF content[i] = EndMark THEN lines \o <<EndMark>> ELSE <<content[i]>>])

append_time_info(content, lines) == Filled(remove_old_config_info(content), lines)
=============================================================================
