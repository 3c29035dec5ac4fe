---------------------------- MODULE MCEntityValue ----------------------------
EXTENDS EntityValueProperties

Piece(c)    == [k |-> "data", c |-> c]
Use(e)     == [k |-> "ref", e |-> e]
Escaped(e) == [k |-> "escaped", e |-> e]
Bad        == [k |-> "bad"]
Internal(e, value) == [name |-> e, kind |-> "internal", value |-> value]
External(e) == [name |-> e, kind |-> "external", value |-> <<>>]

MCNames == {"i", "j", "x", "y", "p", "q"}

(* x reads y in the middle of its text; p and q read each other. *)
MCFiles == [i |-> <<>>, j |-> <<>>,
            x |-> <<Piece(3), Use("y"), Piece(4)>>, y |-> <<Piece(5)>>,
            p |-> <<Piece(7), Use("q")>>, q |-> <<Use("p"), Piece(8)>>]

MCHandlers ==
    [i : {"parse"}, j : {"parse"}, x : {"none", "parse", "skip", "fail"},
     y : {"none", "parse", "skip", "fail"}, p : {"parse"}, q : {"parse", "skip"}]

(* Nested internal text by way of an escaped reference, used twice, with   *)
(* external text inside; a second declaration; a late and an empty one.    *)
Nested == << External("y"), External("x"),
             Internal("i", <<Piece(1), Escaped("x"), Piece(2), Escaped("x")>>),
             Internal("j", <<Use("i"), Piece(6), Use("x"), Use("i")>>),
             Internal("i", <<Use("j"), Use("y")>>) >>
(* i refers to j, which refers to i: found when i is used again. *)
Mutual == << Internal("i", <<Escaped("j"), Piece(1)>>),
             Internal("j", <<Piece(2), Use("i")>>),
             Internal("j", <<Use("i")>>) >>
Itself == << External("y"), Internal("i", <<Use("y"), Escaped("i")>>),
             Internal("j", <<Use("y"), Use("i")>>) >>
Itself1 == << Internal("i", <<Piece(1), Use("i")>>) >>
(* References to what is not declared yet, and what follows them. *)
Early == << Internal("i", <<Piece(1), Use("j"), Piece(2)>>),
            Internal("j", <<>>),
            Internal("x", <<Use("j"), Use("i"), Use("j")>>),
            Internal("y", <<Bad>>) >>
(* External text that contains itself, in a value and in internal text. *)
Looping == << External("p"), External("q"), Internal("i", <<Piece(1), Use("q")>>) >>
LoopInText == << External("p"), External("q"), Internal("i", <<Escaped("p")>>),
                 Internal("j", <<Use("i"), Piece(1)>>) >>
(* Internal text three deep, each reference in the middle of a text, one   *)
(* of them used twice; and the same with a reference to nothing inside.    *)
Deep == << Internal("j", <<Piece(1)>>),
           Internal("i", <<Piece(2), Escaped("j"), Piece(3)>>),
           Internal("y", <<Piece(4), Escaped("i"), Piece(5)>>),
           Internal("x", <<Use("y"), Piece(6), Use("i")>>) >>
DeepUndeclared == << Internal("i", <<Piece(2), Escaped("j"), Piece(3)>>),
                     Internal("y", <<Escaped("i"), Piece(5)>>),
                     Internal("x", <<Use("y"), Piece(6)>>) >>
MCDTDs == {Deep, DeepUndeclared, Nested, Mutual, Itself, Itself1, Early, Looping, LoopInText}

(* External text that refers to an internal entity. *)
MixedFiles == [MCFiles EXCEPT !["x"] = <<Piece(3), Use("i"), Piece(4)>>]
MixedDTDs == {<< External("x"), Internal("i", <<Piece(1)>>),
                 Internal("j", <<Piece(2), Use("x"), Piece(5)>>) >>}
=============================================================================
