----------------------------- MODULE Normalize ------------------------------
(***************************************************************************)
(* The two rewritings that are made in place in a stored string: line ends *)
(* of comments and processing instructions, and white space of public      *)
(* identifiers.  p is what has been written when s has been read; writing  *)
(* never overtakes reading, since Len(p) is at most the characters read.   *)
(***************************************************************************)
EXTENDS Integers, Sequences

\* Everything up to the first CR is left as it is, which writing each
\* character over itself does too.
normalizeLines(str) ==
    LET \* <<what is written, the index of the next character to read>>
        after[n \in 0 .. Len(str)] ==
            IF n = 0 THEN <<<<>>, 1>>
            ELSE LET p == after[n - 1][1]
                     s == after[n - 1][2]
                 IN IF s > Len(str) THEN after[n - 1]
                    ELSE IF str[s] # "CR" THEN <<Append(p, str[s]), s + 1>>
                    ELSE <<Append(p, "LF"),
                           IF s < Len(str) /\ str[s + 1] = "LF" THEN s + 2 ELSE s + 1>>
    IN after[Len(str)][1]

normalizePublicId(str) ==
    LET EndsInSpace(p) == p # <<>> /\ p[Len(p)] = "SP"
        p[s \in 0 .. Len(str)] ==
            IF s = 0 THEN <<>>
            ELSE IF str[s] \notin {"SP", "CR", "LF"} THEN Append(p[s - 1], str[s])
            ELSE IF p[s - 1] # <<>> /\ ~EndsInSpace(p[s - 1]) THEN Append(p[s - 1], "SP")
            ELSE p[s - 1]
        all == p[Len(str)]
    IN IF EndsInSpace(all) THEN SubSeq(all, 1, Len(all) - 1) ELSE all
=============================================================================
