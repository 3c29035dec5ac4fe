------------------------- MODULE RegularExpressions -------------------------
(***************************************************************************)
(* Regular expressions over any alphabet.  An expression is read one       *)
(* character at a time: its derivative by a character is the expression    *)
(* for what may follow it.                                                 *)
(***************************************************************************)
EXTENDS Integers, Sequences, SequencesExt, FiniteSets

Never == <<"none">>
Empty == <<"empty">>
One(set) == <<"one", set>>
Ch(c) == One({c})
Seq2(r, s) == IF r = Never \/ s = Never THEN Never ELSE IF r = Empty THEN s
              ELSE IF s = Empty THEN r ELSE <<"seq", r, s>>
\* alternatives are a set, so the derivatives of an expression are finite
Alts(r) == IF r = Never THEN {} ELSE IF r[1] = "or" THEN r[2] ELSE {r}
OneOf(set) == IF set = {} THEN Never
              ELSE IF Cardinality(set) = 1 THEN CHOOSE r \in set : TRUE ELSE <<"or", set>>
Or2(r, s) == OneOf(Alts(r) \cup Alts(s))
Many(r) == <<"many", r>>
Cat(rs) == FoldRight(Seq2, rs, Empty)
Maybe(r) == Or2(r, Empty)
Some(r) == Seq2(r, Many(r))

RECURSIVE Nullable(_)
Nullable(r) ==
    CASE r[1] \in {"empty", "many"} -> TRUE
      [] r[1] \in {"none", "one"}   -> FALSE
      [] r[1] = "seq" -> Nullable(r[2]) /\ Nullable(r[3])
      [] r[1] = "or"  -> \E q \in r[2] : Nullable(q)
RECURSIVE After(_, _)
After(r, c) ==
    CASE r[1] \in {"empty", "none"} -> Never
      [] r[1] = "one"  -> IF c \in r[2] THEN Empty ELSE Never
      [] r[1] = "or"   -> OneOf(UNION { Alts(After(q, c)) : q \in r[2] })
      [] r[1] = "many" -> Seq2(After(r[2], c), r)
      [] r[1] = "seq"  -> Or2(Seq2(After(r[2], c), r[3]),
                              IF Nullable(r[2]) THEN After(r[3], c) ELSE Never)
Read(r, u) == FoldLeft(After, r, u)
=============================================================================
