---------------------------- MODULE TokenSourceMC ----------------------------
(***************************************************************************)
(* Instances of TokenSource: families of small source texts.               *)
(***************************************************************************)
EXTENDS TokenSource, SequencesExt

(* All texts of at most `n` pieces, each piece a sequence of characters. *)
Texts(Pieces, n) == { FlattenSeq(t) : t \in UNION { [1..m -> Pieces] : m \in 0..n } }

(* Block structure: lines with an indentation, some of them empty, the     *)
(* last one perhaps not ended.                                             *)
Indents == { <<>>, <<"sp">>, <<"sp", "sp">>, <<"sp", "sp", "sp">>, <<"tab">>, <<"sp", "tab">> }
LayoutLines == { i \o b : i \in Indents, b \in { <<"word", "nl">>, <<"word">>, <<"hash", "nl">> } }

(* Brackets left open over several lines. *)
BracketPieces ==
    { <<"lpar">>, <<"lbrace">>, <<"rpar">>, <<"rbrace">>, <<"word">>, <<"nl">>, <<"nl", "sp">>,
      <<"hash", "nl">> }

(* f-strings with replacement fields and format specs. *)
FStringPieces ==
    { <<"f", "quote">>, <<"f", "quote", "lbrace">>, <<"quote">>, <<"lbrace">>, <<"rbrace">>, <<"rpar">>,
      <<"colon">>, <<"nl">> }

(* Every character, and the ones that only mean something together. *)
CharacterPieces ==
    { <<c>> : c \in Chars } \cup
    { <<"f", "quote">>, <<"quote", "quote", "quote">>, <<"bs", "N", "lbrace">> }

(* An f-string with a format spec over two lines inside the brackets of    *)
(* another one, and one that is unclosed in a list below two blocks.       *)
NestedFStrings ==
    { <<"f", "quote", "lbrace", "lpar", "f", "quote", "lbrace", "word", "colon", "word", "nl", "nl", "word">>,
      <<"word", "nl", "sp", "word", "nl", "sp", "sp", "lpar", "f", "quote", "lbrace", "word", "colon", "word",
        "nl", "lbrace", "quote", "nl", "word">>,
      <<"lpar", "lpar", "f", "quote", "lbrace", "word", "colon", "word", "nl", "nl", "nl", "hash", "nl", "word">> }

StructuredSources ==
    Texts(LayoutLines, 3) \cup Texts(BracketPieces, 4) \cup Texts(FStringPieces, 4) \cup NestedFStrings
AllSources == Texts(CharacterPieces, 3) \cup Texts(FStringPieces, 4)

(* The parser leaves a list at any token that it can do so at. *)
AllPoints == {"Word", "Name", "Rpar", "Rbrace", "Newline", "Dedent", "Colon", "Equal", "String",
              "FStringMiddle", "FStringEnd", "IpyEscapeCommand", "Lpar", "Lbrace", "FStringStart"}
=============================================================================
