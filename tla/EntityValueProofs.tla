------------------------- MODULE EntityValueProofs -------------------------
(***************************************************************************)
(* The open marks of the parameter entities, which the parsers of a stack  *)
(* set and clear in the DTD they share, are exact for every DTD, every     *)
(* text and every application.                                             *)
(*                                                                         *)
(* MarksAreExact is not inductive: it does not say that the entities on    *)
(* the list of a parser differ from each other and from those the parsers  *)
(* above it read, so that closing one would leave the mark of another.     *)
(***************************************************************************)
EXTENDS EntityValue, FiniteSetTheorems, TLAPS

EntityKinds == {"undeclared", "internal", "external"}
Positions == Nat \ {0}
ParserFields == {"input", "next", "values", "s", "declEntity"}
IsSeq(s) == s \in Seq(Range(s))
Distinct(s) == \A i, j \in 1 .. Len(s) : s[i] = s[j] => i = j

(* RefOf, with the texts of the entities as a parameter. *)
RefIn(texts, p) == (IF p.values = <<>> THEN p.input ELSE texts[p.values[1]])[p.s].e

(* One parser: the entities on its list are internal and differ. *)
ParserOK(kinds, p) ==
    /\ DOMAIN p = ParserFields /\ IsValueText(p.input)
    /\ p.next \in Positions /\ p.s \in Positions
    /\ p.values \in Seq(Names) /\ Distinct(p.values)
    /\ \A j \in 1 .. Len(p.values) : kinds[p.values[j]] = "internal"

(* The parsers of a stack that wait for a handler. *)
Waiting(ps, pc) == { i \in 1 .. Len(ps) : i >= 2 \/ pc = "handler" }

(* A stack: every parser above the first reads the text of an external     *)
(* entity and has opened none itself; the parsers that wait for a handler  *)
(* refer to external entities that differ.                                 *)
Stack(kinds, texts, ps, pc) ==
    /\ IsSeq(ps)
    /\ \A i \in 1 .. Len(ps) : ParserOK(kinds, ps[i])
    /\ \A i \in 1 .. Len(ps) : i < Len(ps) =>
         /\ ps[i].values = <<>>
         /\ \E e \in Names : kinds[e] = "external" /\ ps[i].input = Files[e]
    /\ \A i \in Waiting(ps, pc) :
         RefIn(texts, ps[i]) \in Names /\ kinds[RefIn(texts, ps[i])] = "external"
    /\ \A i, k \in Waiting(ps, pc) : RefIn(texts, ps[i]) = RefIn(texts, ps[k]) => i = k

(* The entities a stack has open. *)
Listed(ps, x) == \E i \in 1 .. Len(ps) : \E j \in 1 .. Len(ps[i].values) : ps[i].values[j] = x
Read(texts, ps, pc, x) == \E i \in Waiting(ps, pc) : RefIn(texts, ps[i]) = x
Marked(texts, ps, pc, marks) == \A x : x \in marks <=> Listed(ps, x) \/ Read(texts, ps, pc, x)

PcOK(ps, pc) ==
    /\ pc \in {"prolog", "call", "store", "handler", "returned", "value", "error", "failed"}
    /\ pc \in {"prolog", "failed"} <=> Len(ps) = 0
    /\ pc \in {"call", "value"} => Len(ps) = 1
    /\ pc = "returned" => Len(ps) >= 2
    /\ pc = "value" => ps[1].values = <<>>

DtdOK ==
    /\ decls \in DTDs /\ at \in Positions /\ handler \in Handlers
    /\ kind \in [Names -> EntityKinds]
    /\ \A e \in Names : kind[e] # "undeclared" =>
         \E i \in 1 .. Len(decls) : decls[i].name = e /\ decls[i].kind = kind[e]
    /\ \A e \in Names : IsValueText(text[e])
    /\ IsValueText(pool)
    /\ valueProcessed \in [Names -> Positions]

ValueInv ==
    /\ DtdOK
    /\ PcOK(valueParsers, valuePc)
    /\ Stack(kind, text, valueParsers, valuePc)
    /\ IsFiniteSet(open) /\ valueDepth = Cardinality(open)
    /\ valuePc # "failed" => Marked(text, valueParsers, valuePc, open)
-----------------------------------------------------------------------------
(* Sequences.                                                              *)

LEMMA SeqIs ==
    ASSUME NEW s
    PROVE  /\ IsSeq(s) => Len(s) \in Nat /\ DOMAIN s = 1 .. Len(s)
           /\ \A S : s \in Seq(S) => IsSeq(s)
<1>1. ASSUME IsSeq(s) PROVE Len(s) \in Nat /\ DOMAIN s = 1 .. Len(s)
  BY <1>1 DEF IsSeq
<1>2. ASSUME NEW S, s \in Seq(S) PROVE IsSeq(s)
  <2>1. Len(s) \in Nat /\ DOMAIN s = 1 .. Len(s) /\ \A i \in 1 .. Len(s) : s[i] \in Range(s)
    BY <1>2 DEF Range
  <2>2. s = [i \in 1 .. Len(s) |-> s[i]]
    BY <1>2
  <2> QED BY <2>1, <2>2 DEF IsSeq
<1> QED BY <1>1, <1>2

LEMMA OneIs ==
    ASSUME NEW x
    PROVE  IsSeq(<<x>>) /\ Len(<<x>>) = 1 /\ <<x>>[1] = x
<1>1. <<x>> \in Seq({x}) /\ Len(<<x>>) = 1 /\ <<x>>[1] = x
  OBVIOUS
<1> QED BY <1>1, SeqIs, Zenon

LEMMA PushIs ==
    ASSUME NEW s, IsSeq(s), NEW x
    PROVE  /\ IsSeq(<<x>> \o s) /\ Len(<<x>> \o s) = Len(s) + 1 /\ (<<x>> \o s)[1] = x
           /\ \A i \in 1 .. Len(s) : (<<x>> \o s)[i + 1] = s[i]
<1> DEFINE S == Range(s) \cup {x}
<1>1. s \in Seq(S) /\ <<x>> \in Seq(S)
  <2>1. Len(s) \in Nat /\ DOMAIN s = 1 .. Len(s) /\ s \in Seq(Range(s))
    BY SeqIs DEF IsSeq
  <2>2. \A i \in 1 .. Len(s) : s[i] \in S
    BY <2>1 DEF Range
  <2> QED BY <2>1, <2>2
<1> HIDE DEF S
<1>2. <<x>> \o s \in Seq(S) /\ Len(<<x>> \o s) = Len(s) + 1
  BY <1>1
<1>3. /\ (<<x>> \o s)[1] = x
      /\ \A i \in 1 .. Len(s) : (<<x>> \o s)[i + 1] = s[i]
  BY <1>1
<1> QED BY <1>2, <1>3, SeqIs, Zenon

LEMMA TailIs ==
    ASSUME NEW s, IsSeq(s), Len(s) # 0
    PROVE  /\ IsSeq(Tail(s)) /\ Len(Tail(s)) = Len(s) - 1 /\ Len(s) \in Nat /\ Len(s) >= 1
           /\ \A i \in 1 .. Len(s) - 1 : Tail(s)[i] = s[i + 1]
<1>1. s \in Seq(Range(s)) /\ Len(s) \in Nat
  BY SeqIs DEF IsSeq
<1>2. s # <<>>
  OBVIOUS
<1>3. /\ Tail(s) \in Seq(Range(s)) /\ Len(Tail(s)) = Len(s) - 1
      /\ \A i \in 1 .. Len(s) - 1 : Tail(s)[i] = s[i + 1]
  BY <1>1, <1>2
<1>4. IsSeq(Tail(s))
  BY <1>3, SeqIs, Zenon
<1> QED BY <1>1, <1>3, <1>4

LEMMA TailOfOne ==
    ASSUME NEW s, IsSeq(s), Len(s) = 1
    PROVE  Tail(s) = <<>>
<1>1. Len(s) # 0
  OBVIOUS
<1>2. IsSeq(Tail(s)) /\ Len(Tail(s)) = 0
  BY <1>1, TailIs
<1>3. PICK t : t = Tail(s)
  BY Zenon
<1>4. t \in Seq(Range(t)) /\ Len(t) = 0
  BY <1>2, <1>3 DEF IsSeq
<1>5. t = <<>>
  BY <1>4
<1> QED BY <1>3, <1>5

(* The head of a stack, replaced. *)
LEMMA HeadIs ==
    ASSUME NEW s, IsSeq(s), Len(s) # 0, NEW x
    PROVE  /\ IsSeq(<<x>> \o Tail(s)) /\ Len(<<x>> \o Tail(s)) = Len(s)
           /\ (<<x>> \o Tail(s))[1] = x
           /\ \A i \in 2 .. Len(s) : (<<x>> \o Tail(s))[i] = s[i]
<1> DEFINE t == Tail(s)
           n == <<x>> \o t
<1>1. /\ IsSeq(t) /\ Len(t) = Len(s) - 1 /\ Len(s) \in Nat
      /\ \A i \in 1 .. Len(s) - 1 : t[i] = s[i + 1]
  BY TailIs
<1> HIDE DEF t
<1>2. /\ IsSeq(n) /\ Len(n) = Len(t) + 1 /\ n[1] = x
      /\ \A i \in 1 .. Len(t) : n[i + 1] = t[i]
  BY <1>1, PushIs
<1> HIDE DEF n
<1>3. ASSUME NEW i \in 2 .. Len(s) PROVE n[i] = s[i]
  <2>1. i - 1 \in 1 .. Len(t) /\ (i - 1) + 1 = i /\ i - 1 \in 1 .. Len(s) - 1
    BY <1>1
  <2> QED BY <1>1, <1>2, <2>1, Zenon
<1>4. /\ IsSeq(n) /\ Len(n) = Len(s) /\ n[1] = x /\ \A i \in 2 .. Len(s) : n[i] = s[i]
  BY <1>1, <1>2, <1>3
<1> QED BY <1>4 DEF n, t

-----------------------------------------------------------------------------
(* What the steps do to a stack and its marks.                             *)

(* The head goes on, with the same text and the same list. *)
LEMMA HeadKept ==
    ASSUME NEW kinds, NEW texts, NEW ps, NEW pc, NEW marks, NEW n, NEW pc2,
           Stack(kinds, texts, ps, pc), Marked(texts, ps, pc, marks),
           pc # "handler", pc2 # "handler", Len(ps) # 0,
           IsSeq(n), Len(n) = Len(ps), ParserOK(kinds, n[1]),
           n[1].input = ps[1].input, n[1].values = ps[1].values,
           \A i \in 2 .. Len(ps) : n[i] = ps[i]
    PROVE  Stack(kinds, texts, n, pc2) /\ Marked(texts, n, pc2, marks)
<1>1. Len(ps) \in Nat /\ 1 \in 1 .. Len(ps)
  BY SeqIs DEF Stack
<1>2. \A i \in 1 .. Len(ps) : i = 1 \/ n[i] = ps[i]
  BY <1>1
<1>3. Waiting(n, pc2) = Waiting(ps, pc) /\ \A i \in Waiting(ps, pc) : n[i] = ps[i]
  BY <1>1 DEF Waiting
<1>4. \A i \in 1 .. Len(ps) : ParserOK(kinds, n[i])
  BY <1>1, <1>2, Zenon DEF Stack
<1>5. \A i \in 1 .. Len(ps) : n[i].input = ps[i].input /\ n[i].values = ps[i].values
  BY <1>2, Zenon
<1>6. Stack(kinds, texts, n, pc2)
  <2>1. ASSUME NEW i \in 1 .. Len(n), i < Len(n)
        PROVE  /\ n[i].values = <<>>
               /\ \E e \in Names : kinds[e] = "external" /\ n[i].input = Files[e]
    <3>1. i \in 1 .. Len(ps) /\ i < Len(ps)
      BY <2>1
    <3>2. /\ ps[i].values = <<>>
          /\ \E e \in Names : kinds[e] = "external" /\ ps[i].input = Files[e]
      BY <3>1 DEF Stack
    <3> QED BY <1>5, <3>1, <3>2
  <2>2. ASSUME NEW i \in Waiting(n, pc2)
        PROVE  RefIn(texts, n[i]) \in Names /\ kinds[RefIn(texts, n[i])] = "external"
    BY <1>3, Zenon DEF Stack
  <2>3. ASSUME NEW i \in Waiting(n, pc2), NEW k \in Waiting(n, pc2),
               RefIn(texts, n[i]) = RefIn(texts, n[k])
        PROVE  i = k
    BY <1>3, <2>3, Zenon DEF Stack
  <2> QED BY <1>4, <2>1, <2>2, <2>3, Zenon DEF Stack
<1>7. \A x : Listed(n, x) <=> Listed(ps, x)
  <2>1. \A x : Listed(n, x) <=> \E i \in 1 .. Len(ps) :
                                  \E j \in 1 .. Len(n[i].values) : n[i].values[j] = x
    BY DEF Listed
  <2> QED BY <1>5, <2>1, SMTT(30) DEF Listed
<1>8. \A x : Read(texts, n, pc2, x) <=> Read(texts, ps, pc, x)
  BY <1>3, Zenon DEF Read
<1> QED BY <1>6, <1>7, <1>8, Zenon DEF Marked

(* The head waits for a handler. *)
LEMMA HeadWaits ==
    ASSUME NEW kinds, NEW texts, NEW ps, NEW pc, NEW marks, NEW e \in Names,
           Stack(kinds, texts, ps, pc), Marked(texts, ps, pc, marks),
           pc # "handler", Len(ps) # 0, e \notin marks, kinds[e] = "external",
           e = RefIn(texts, ps[1])
    PROVE  /\ Stack(kinds, texts, ps, "handler")
           /\ Marked(texts, ps, "handler", marks \cup {e})
<1>1. Len(ps) \in Nat /\ 1 \in 1 .. Len(ps)
  BY SeqIs DEF Stack
<1>2. Waiting(ps, "handler") = Waiting(ps, pc) \cup {1}
  BY <1>1 DEF Waiting
<1>3. \A i \in Waiting(ps, pc) : RefIn(texts, ps[i]) # e
  BY Zenon DEF Marked, Read
<1>4. ASSUME NEW i \in Waiting(ps, "handler")
      PROVE  RefIn(texts, ps[i]) \in Names /\ kinds[RefIn(texts, ps[i])] = "external"
  BY <1>2, Zenon DEF Stack
<1>5. ASSUME NEW i \in Waiting(ps, "handler"), NEW k \in Waiting(ps, "handler"),
             RefIn(texts, ps[i]) = RefIn(texts, ps[k])
      PROVE  i = k
  BY <1>2, <1>3, <1>5, Zenon DEF Stack
<1>6. Stack(kinds, texts, ps, "handler")
  BY <1>4, <1>5, Zenon DEF Stack
<1>7. \A x : Read(texts, ps, "handler", x) <=> Read(texts, ps, pc, x) \/ x = e
  BY <1>2, Zenon DEF Read
<1>8. Marked(texts, ps, "handler", marks \cup {e})
  BY <1>7, Zenon DEF Marked
<1> QED BY <1>6, <1>8

(* The handler returns to the head: its entity loses the mark. *)
LEMMA HeadReturns ==
    ASSUME NEW kinds, NEW texts, NEW ps, NEW marks, NEW pc2,
           Stack(kinds, texts, ps, "handler"), Marked(texts, ps, "handler", marks),
           pc2 # "handler", Len(ps) # 0
    PROVE  /\ Stack(kinds, texts, ps, pc2)
           /\ Marked(texts, ps, pc2, marks \ {RefIn(texts, ps[1])})
           /\ RefIn(texts, ps[1]) \in marks
<1>1. Len(ps) \in Nat /\ 1 \in 1 .. Len(ps)
  BY SeqIs DEF Stack
<1>2. 1 \in Waiting(ps, "handler") /\ Waiting(ps, pc2) = Waiting(ps, "handler") \ {1}
  BY <1>1 DEF Waiting
<1> DEFINE e == RefIn(texts, ps[1])
<1>3. e \in marks
  BY <1>2, Zenon DEF Marked, Read
<1>4. Stack(kinds, texts, ps, pc2)
  BY <1>2, Zenon DEF Stack
<1>5. \A i \in Waiting(ps, pc2) : RefIn(texts, ps[i]) # e
  BY <1>2, Zenon DEF Stack
<1>6. ~Listed(ps, e)
  <2>1. kinds[e] = "external"
    BY <1>2, Zenon DEF Stack
  <2>2. \A i \in 1 .. Len(ps) : \A j \in 1 .. Len(ps[i].values) : kinds[ps[i].values[j]] = "internal"
    BY Zenon DEF Stack, ParserOK
  <2> HIDE DEF e
  <2> QED BY <2>1, <2>2 DEF Listed
<1>7. \A x : Read(texts, ps, "handler", x) <=> Read(texts, ps, pc2, x) \/ x = e
  BY <1>2, Zenon DEF Read
<1>8. \A x : Read(texts, ps, pc2, x) => x # e
  BY <1>5, Zenon DEF Read
<1> HIDE DEF e
<1>9. Marked(texts, ps, pc2, marks \ {e})
  BY <1>6, <1>7, <1>8, Zenon DEF Marked
<1> QED BY <1>3, <1>4, <1>9 DEF e

(* n is ps with a parser on top that is about to read an external entity. *)
Pushed(kinds, ps, n) ==
    /\ ParserOK(kinds, n[1]) /\ n[1].values = <<>>
    /\ \E f \in Names : kinds[f] = "external" /\ n[1].input = Files[f]
    /\ IsSeq(n) /\ Len(n) = Len(ps) + 1
    /\ \A i \in 1 .. Len(ps) : n[i + 1] = ps[i]

(* A handler creates a parser, which reads the entity the head refers to. *)
LEMMA ParserPushed ==
    ASSUME NEW kinds, NEW texts, NEW ps, NEW marks, NEW pc2, NEW n,
           Stack(kinds, texts, ps, "handler"), Marked(texts, ps, "handler", marks),
           pc2 # "handler", Len(ps) # 0, Pushed(kinds, ps, n)
    PROVE  Stack(kinds, texts, n, pc2) /\ Marked(texts, n, pc2, marks)
<1>0. /\ ParserOK(kinds, n[1]) /\ n[1].values = <<>>
      /\ \E f \in Names : kinds[f] = "external" /\ n[1].input = Files[f]
      /\ IsSeq(n) /\ Len(n) = Len(ps) + 1
      /\ \A i \in 1 .. Len(ps) : n[i + 1] = ps[i]
  BY Zenon DEF Pushed
<1>1. Len(ps) \in Nat /\ 1 \in 1 .. Len(ps)
  BY SeqIs DEF Stack
<1>2. \A i \in 1 .. Len(n) : i = 1 \/ (i - 1 \in 1 .. Len(ps) /\ n[i] = ps[i - 1])
  <2> SUFFICES ASSUME NEW i \in 1 .. Len(n), i # 1
               PROVE  i - 1 \in 1 .. Len(ps) /\ n[i] = ps[i - 1]
    OBVIOUS
  <2>1. i - 1 \in 1 .. Len(ps) /\ (i - 1) + 1 = i
    BY <1>0, <1>1
  <2> QED BY <1>0, <2>1
<1>3. /\ \A i \in Waiting(n, pc2) : i - 1 \in Waiting(ps, "handler") /\ n[i] = ps[i - 1] /\ i \in Int
      /\ \A i \in Waiting(ps, "handler") : i + 1 \in Waiting(n, pc2) /\ n[i + 1] = ps[i]
  BY <1>0, <1>1, <1>2 DEF Waiting
<1>4. Stack(kinds, texts, n, pc2)
  <2>1. ASSUME NEW i \in 1 .. Len(n) PROVE ParserOK(kinds, n[i])
    BY <1>0, <1>2, Zenon DEF Stack
  <2>2. ASSUME NEW i \in 1 .. Len(n), i < Len(n)
        PROVE  /\ n[i].values = <<>>
               /\ \E f \in Names : kinds[f] = "external" /\ n[i].input = Files[f]
    <3>1. CASE i = 1
      BY <1>0, <3>1, Zenon
    <3>2. CASE i # 1
      <4>1. i - 1 \in 1 .. Len(ps) /\ i - 1 < Len(ps) /\ n[i] = ps[i - 1]
        BY <1>0, <1>1, <1>2, <2>2, <3>2
      <4> QED BY <4>1 DEF Stack
    <3> QED BY <3>1, <3>2
  <2>3. ASSUME NEW i \in Waiting(n, pc2)
        PROVE  RefIn(texts, n[i]) \in Names /\ kinds[RefIn(texts, n[i])] = "external"
    BY <1>3 DEF Stack
  <2>4. ASSUME NEW i \in Waiting(n, pc2), NEW k \in Waiting(n, pc2),
               RefIn(texts, n[i]) = RefIn(texts, n[k])
        PROVE  i = k
    <3>1. i - 1 = k - 1
      BY <1>3, <2>4 DEF Stack
    <3> QED BY <1>3, <3>1
  <2> QED BY <1>0, <2>1, <2>2, <2>3, <2>4, Zenon DEF Stack
<1>5. ASSUME NEW x PROVE Listed(n, x) <=> Listed(ps, x)
  <2>1. ASSUME Listed(n, x) PROVE Listed(ps, x)
    <3>1. PICK i \in 1 .. Len(n) : \E j \in 1 .. Len(n[i].values) : n[i].values[j] = x
      BY <2>1 DEF Listed
    <3>2. i # 1
      BY <1>0, <3>1
    <3> QED BY <1>2, <3>1, <3>2, Zenon DEF Listed
  <2>2. ASSUME Listed(ps, x) PROVE Listed(n, x)
    <3>1. PICK i \in 1 .. Len(ps) : \E j \in 1 .. Len(ps[i].values) : ps[i].values[j] = x
      BY <2>2 DEF Listed
    <3>2. i + 1 \in 1 .. Len(n) /\ n[i + 1] = ps[i]
      BY <1>0, <1>1
    <3> QED BY <3>1, <3>2, Zenon DEF Listed
  <2> QED BY <2>1, <2>2
<1>6. \A x : Read(texts, n, pc2, x) <=> Read(texts, ps, "handler", x)
  BY <1>3 DEF Read
<1> QED BY <1>4, <1>5, <1>6, Zenon DEF Marked

(* The parser on top, which has opened nothing, is freed: the parser below *)
(* waits for the handler that ran it.                                      *)
LEMMA ParserFreed ==
    ASSUME NEW kinds, NEW texts, NEW ps, NEW pc, NEW marks, NEW n,
           Stack(kinds, texts, ps, pc), Marked(texts, ps, pc, marks),
           pc # "handler", Len(ps) >= 2,
           IsSeq(n), Len(n) = Len(ps) - 1, \A i \in 1 .. Len(ps) - 1 : n[i] = ps[i + 1]
    PROVE  Stack(kinds, texts, n, "handler") /\ Marked(texts, n, "handler", marks)
<1>1. Len(ps) \in Nat /\ 1 \in 1 .. Len(ps) /\ Len(ps) # 1
  BY SeqIs DEF Stack
<1>2. /\ \A i \in 1 .. Len(n) : i + 1 \in 1 .. Len(ps) /\ n[i] = ps[i + 1] /\ i \in Int
      /\ \A i \in 1 .. Len(ps) : i = 1 \/ (i - 1 \in 1 .. Len(n) /\ n[i - 1] = ps[i])
  <2>1. ASSUME NEW i \in 1 .. Len(ps), i # 1 PROVE i - 1 \in 1 .. Len(n) /\ n[i - 1] = ps[i]
    <3>1. i - 1 \in 1 .. Len(ps) - 1 /\ (i - 1) + 1 = i
      BY <1>1, <2>1
    <3> QED BY <3>1
  <2> QED BY <1>1, <2>1
<1>3. /\ \A i \in Waiting(n, "handler") : i + 1 \in Waiting(ps, pc) /\ n[i] = ps[i + 1] /\ i \in Int
      /\ \A i \in Waiting(ps, pc) : i - 1 \in Waiting(n, "handler") /\ n[i - 1] = ps[i]
  BY <1>1, <1>2 DEF Waiting
<1>4. ps[1].values = <<>>
  <2>1. 1 < Len(ps)
    BY <1>1
  <2> QED BY <1>1, <2>1, Zenon DEF Stack
<1>5. Stack(kinds, texts, n, "handler")
  <2>1. ASSUME NEW i \in 1 .. Len(n) PROVE ParserOK(kinds, n[i])
    BY <1>2, Zenon DEF Stack
  <2>2. ASSUME NEW i \in 1 .. Len(n), i < Len(n)
        PROVE  /\ n[i].values = <<>>
               /\ \E f \in Names : kinds[f] = "external" /\ n[i].input = Files[f]
    <3>1. i + 1 \in 1 .. Len(ps) /\ i + 1 < Len(ps) /\ n[i] = ps[i + 1]
      BY <1>1, <1>2, <2>2
    <3> QED BY <3>1, Zenon DEF Stack
  <2>3. ASSUME NEW i \in Waiting(n, "handler")
        PROVE  RefIn(texts, n[i]) \in Names /\ kinds[RefIn(texts, n[i])] = "external"
    BY <1>3 DEF Stack
  <2>4. ASSUME NEW i \in Waiting(n, "handler"), NEW k \in Waiting(n, "handler"),
               RefIn(texts, n[i]) = RefIn(texts, n[k])
        PROVE  i = k
    <3>1. i + 1 = k + 1
      BY <1>3, <2>4 DEF Stack
    <3> QED BY <1>3, <3>1
  <2> QED BY <2>1, <2>2, <2>3, <2>4, Zenon DEF Stack
<1>6. ASSUME NEW x PROVE Listed(n, x) <=> Listed(ps, x)
  <2>1. ASSUME Listed(ps, x) PROVE Listed(n, x)
    <3>1. PICK i \in 1 .. Len(ps) : \E j \in 1 .. Len(ps[i].values) : ps[i].values[j] = x
      BY <2>1 DEF Listed
    <3>2. i # 1
      BY <1>4, <3>1
    <3> QED BY <1>2, <3>1, <3>2 DEF Listed
  <2>2. ASSUME Listed(n, x) PROVE Listed(ps, x)
    BY <1>2, <2>2 DEF Listed
  <2> QED BY <2>1, <2>2
<1>7. \A x : Read(texts, n, "handler", x) <=> Read(texts, ps, pc, x)
  BY <1>3, Zenon DEF Read
<1> QED BY <1>5, <1>6, <1>7, Zenon DEF Marked

(* The only parser opens an internal entity. *)
LEMMA EntityOpened ==
    ASSUME NEW kinds, NEW texts, NEW ps, NEW pc, NEW marks, NEW e \in Names, NEW n, NEW pc2,
           Stack(kinds, texts, ps, pc), Marked(texts, ps, pc, marks),
           pc # "handler", pc2 # "handler", Len(ps) = 1, e \notin marks,
           kinds[e] = "internal", IsSeq(n), Len(n) = 1,
           DOMAIN n[1] = ParserFields, n[1].input = ps[1].input, n[1].s = ps[1].s,
           n[1].next \in Positions, n[1].values = <<e>> \o ps[1].values
    PROVE  Stack(kinds, texts, n, pc2) /\ Marked(texts, n, pc2, marks \cup {e})
<1> DEFINE v == ps[1].values
           w == n[1].values
<1>1. 1 .. Len(ps) = {1} /\ 1 .. Len(n) = {1}
  OBVIOUS
<1>2. ParserOK(kinds, ps[1])
  BY <1>1 DEF Stack
<1>3. v \in Seq(Names) /\ IsSeq(v) /\ Len(v) \in Nat
  BY <1>2, SeqIs, Zenon DEF ParserOK
<1>4. /\ w \in Seq(Names) /\ Len(w) = Len(v) + 1 /\ w[1] = e
      /\ \A i \in 1 .. Len(v) : w[i + 1] = v[i]
  BY <1>3, PushIs
<1>5. \A i \in 1 .. Len(w) : i = 1 \/ (i - 1 \in 1 .. Len(v) /\ w[i] = v[i - 1])
  <2> SUFFICES ASSUME NEW i \in 1 .. Len(w), i # 1
               PROVE  i - 1 \in 1 .. Len(v) /\ w[i] = v[i - 1]
    BY Zenon
  <2>1. i - 1 \in 1 .. Len(v) /\ (i - 1) + 1 = i
    BY <1>3, <1>4
  <2> QED BY <1>4, <2>1
<1>6. \A j \in 1 .. Len(v) : v[j] # e
  <2>1. \A j \in 1 .. Len(v) : Listed(ps, v[j])
    BY <1>1 DEF Listed
  <2> QED BY <2>1, Zenon DEF Marked
<1>7. \A x : Listed(n, x) <=> Listed(ps, x) \/ x = e
  <2>1. \A x : Listed(n, x) <=> \E j \in 1 .. Len(w) : w[j] = x
    BY <1>1, Zenon DEF Listed
  <2>2. \A x : Listed(ps, x) <=> \E j \in 1 .. Len(v) : v[j] = x
    BY <1>1 DEF Listed
  <2>3. ASSUME NEW x, NEW j \in 1 .. Len(v), v[j] = x PROVE \E i \in 1 .. Len(w) : w[i] = x
    <3>1. j + 1 \in 1 .. Len(w) /\ w[j + 1] = x
      BY <1>3, <1>4, <2>3
    <3> QED BY <3>1
  <2>4. 1 \in 1 .. Len(w)
    BY <1>3, <1>4
  <2> HIDE DEF v, w
  <2>5. ASSUME NEW x, NEW i \in 1 .. Len(w), w[i] = x
        PROVE  (\E j \in 1 .. Len(v) : v[j] = x) \/ x = e
    <3>1. CASE i = 1
      BY <1>4, <2>5, <3>1, Zenon
    <3>2. CASE i # 1
      <4>1. i - 1 \in 1 .. Len(v) /\ v[i - 1] = x
        BY <1>5, <2>5, <3>2
      <4> QED BY <4>1, Zenon
    <3> QED BY <3>1, <3>2
  <2>6. \E i \in 1 .. Len(w) : w[i] = e
    BY <1>4, <2>4, Zenon
  <2> QED BY <2>1, <2>2, <2>3, <2>5, <2>6, Zenon
<1>8. ParserOK(kinds, n[1])
  <2>1. Distinct(w)
    <3> SUFFICES ASSUME NEW i \in 1 .. Len(w), NEW j \in 1 .. Len(w), w[i] = w[j] PROVE i = j
      BY Zenon DEF Distinct
    <3>1. CASE i = 1 \/ j = 1
      <4> HIDE DEF v, w
      <4> QED BY <1>4, <1>5, <1>6, <3>1, Zenon
    <3>2. CASE i # 1 /\ j # 1
      <4>1. /\ i - 1 \in 1 .. Len(v) /\ w[i] = v[i - 1]
            /\ j - 1 \in 1 .. Len(v) /\ w[j] = v[j - 1]
        BY <1>5, <3>2, Zenon
      <4>2. i - 1 = j - 1
        BY <1>2, <4>1, Zenon DEF ParserOK, Distinct
      <4> QED BY <4>2
    <3> QED BY <3>1, <3>2
  <2>2. \A j \in 1 .. Len(v) : kinds[v[j]] = "internal"
    BY <1>2 DEF ParserOK
  <2>3. \A j \in 1 .. Len(w) : kinds[w[j]] = "internal"
    <3> HIDE DEF v, w
    <3> QED BY <1>4, <1>5, <2>2, Zenon
  <2>4. IsValueText(n[1].input) /\ n[1].s \in Positions
    BY <1>2 DEF ParserOK
  <2> QED BY <1>4, <2>1, <2>3, <2>4, Zenon DEF ParserOK
<1>9. Waiting(ps, pc) = {} /\ Waiting(n, pc2) = {}
  BY <1>1 DEF Waiting
<1>10. Stack(kinds, texts, n, pc2)
  BY <1>1, <1>8, <1>9 DEF Stack
<1>11. Marked(texts, n, pc2, marks \cup {e})
  BY <1>7, <1>9, Zenon DEF Marked, Read
<1> QED BY <1>10, <1>11, Zenon

(* The only parser closes the entity at the head of its list. *)
LEMMA EntityClosed ==
    ASSUME NEW kinds, NEW texts, NEW ps, NEW pc, NEW marks, NEW n, NEW pc2,
           Stack(kinds, texts, ps, pc), Marked(texts, ps, pc, marks),
           pc # "handler", pc2 # "handler", Len(ps) = 1, ps[1].values # <<>>,
           IsSeq(n), Len(n) = 1,
           DOMAIN n[1] = ParserFields, n[1].input = ps[1].input, n[1].s = ps[1].s,
           n[1].next = ps[1].next, n[1].values = Tail(ps[1].values)
    PROVE  /\ Stack(kinds, texts, n, pc2)
           /\ Marked(texts, n, pc2, marks \ {ps[1].values[1]})
           /\ ps[1].values[1] \in marks
<1> DEFINE v == ps[1].values
           w == n[1].values
           e == v[1]
<1>1. 1 .. Len(ps) = {1} /\ 1 .. Len(n) = {1}
  OBVIOUS
<1>2. ParserOK(kinds, ps[1])
  BY <1>1 DEF Stack
<1>3. v \in Seq(Names) /\ IsSeq(v) /\ Len(v) \in Nat /\ Len(v) # 0 /\ Distinct(v)
  <2>1. v \in Seq(Names) /\ Distinct(v)
    BY <1>2, Zenon DEF ParserOK
  <2> QED BY <2>1, SeqIs
<1>4. /\ w \in Seq(Names) /\ Len(w) = Len(v) - 1
      /\ \A i \in 1 .. Len(v) - 1 : w[i] = v[i + 1]
  BY <1>3
<1>5. /\ 1 \in 1 .. Len(v)
      /\ \A i \in 1 .. Len(w) : i + 1 \in 1 .. Len(v) /\ w[i] = v[i + 1] /\ i + 1 # 1
  BY <1>3, <1>4
<1>6. \A j \in 1 .. Len(v) : j = 1 \/ (j - 1 \in 1 .. Len(w) /\ w[j - 1] = v[j])
  <2> SUFFICES ASSUME NEW j \in 1 .. Len(v), j # 1
               PROVE  j - 1 \in 1 .. Len(w) /\ w[j - 1] = v[j]
    BY Zenon
  <2>1. j - 1 \in 1 .. Len(v) - 1 /\ (j - 1) + 1 = j
    BY <1>3
  <2> QED BY <1>4, <2>1
<1>7. \A j \in 1 .. Len(w) : w[j] # e
  BY <1>3, <1>5, Zenon DEF Distinct
<1>8. /\ \A x : Listed(ps, x) <=> Listed(n, x) \/ x = e
      /\ ~Listed(n, e)
  <2>1. \A x : Listed(n, x) <=> \E j \in 1 .. Len(w) : w[j] = x
    BY <1>1, Zenon DEF Listed
  <2>2. \A x : Listed(ps, x) <=> \E j \in 1 .. Len(v) : v[j] = x
    BY <1>1 DEF Listed
  <2> HIDE DEF v, w
  <2>3. ASSUME NEW x, NEW j \in 1 .. Len(v), v[j] = x
        PROVE  (\E i \in 1 .. Len(w) : w[i] = x) \/ x = e
    <3>1. CASE j = 1
      BY <2>3, <3>1, Zenon
    <3>2. CASE j # 1
      <4>1. j - 1 \in 1 .. Len(w) /\ w[j - 1] = x
        BY <1>6, <2>3, <3>2
      <4> QED BY <4>1, Zenon
    <3> QED BY <3>1, <3>2
  <2>4. ASSUME NEW x, NEW i \in 1 .. Len(w), w[i] = x PROVE \E j \in 1 .. Len(v) : v[j] = x
    <3>1. i + 1 \in 1 .. Len(v) /\ v[i + 1] = x
      BY <1>5, <2>4
    <3> QED BY <3>1, Zenon
  <2>5. \E j \in 1 .. Len(v) : v[j] = e
    BY <1>5, Zenon
  <2>6. ~ \E j \in 1 .. Len(w) : w[j] = e
    BY <1>7, Zenon
  <2> HIDE DEF e
  <2> QED BY <2>1, <2>2, <2>3, <2>4, <2>5, <2>6, Zenon
<1>9. ParserOK(kinds, n[1])
  <2>1. Distinct(w)
    <3> SUFFICES ASSUME NEW i \in 1 .. Len(w), NEW j \in 1 .. Len(w), w[i] = w[j] PROVE i = j
      BY Zenon DEF Distinct
    <3>1. i + 1 = j + 1
      BY <1>3, <1>5, Zenon DEF Distinct
    <3> QED BY <3>1
  <2>2. \A j \in 1 .. Len(v) : kinds[v[j]] = "internal"
    BY <1>2 DEF ParserOK
  <2>3. \A j \in 1 .. Len(w) : kinds[w[j]] = "internal"
    BY <1>5, <2>2, Zenon
  <2>4. IsValueText(n[1].input) /\ n[1].s \in Positions /\ n[1].next \in Positions
    BY <1>2 DEF ParserOK
  <2> QED BY <1>4, <2>1, <2>3, <2>4, Zenon DEF ParserOK
<1>10. Waiting(ps, pc) = {} /\ Waiting(n, pc2) = {}
  BY <1>1 DEF Waiting
<1>11. Stack(kinds, texts, n, pc2)
  BY <1>1, <1>9, <1>10 DEF Stack
<1>12. Marked(texts, n, pc2, marks \ {e}) /\ e \in marks
  <2> HIDE DEF e
  <2> QED BY <1>8, <1>10, Zenon DEF Marked, Read
<1> QED BY <1>11, <1>12, Zenon

-----------------------------------------------------------------------------
(* The running parser and the token it is at.                              *)

LEMMA Running ==
    ASSUME ValueInv, Len(valueParsers) # 0
    PROVE  /\ IsSeq(valueParsers) /\ Len(valueParsers) \in Nat /\ ParserOK(kind, P)
           /\ IsValueText(Reading) /\ valuePc \notin {"prolog", "failed"}
<1>1. IsSeq(valueParsers) /\ Len(valueParsers) \in Nat /\ 1 \in 1 .. Len(valueParsers)
  BY SeqIs DEF ValueInv, Stack
<1>2. ParserOK(kind, P)
  BY <1>1, Zenon DEF ValueInv, Stack, P
<1>3. ASSUME P.values # <<>> PROVE P.values[1] \in Names
  BY <1>2, <1>3 DEF ParserOK
<1>4. IsValueText(Reading)
  BY <1>2, <1>3, Zenon DEF Reading, InValueEntity, ParserOK, ValueInv, DtdOK
<1> QED BY <1>1, <1>2, <1>4 DEF ValueInv, PcOK

LEMMA TokenIs ==
    ASSUME ValueInv, NEW k, Storing(k)
    PROVE  /\ Len(valueParsers) # 0 /\ valuePc = "store"
           /\ IsToken(Token) /\ Token.k = k /\ Token.e = RefIn(text, P)
<1>1. Len(valueParsers) # 0 /\ valuePc = "store"
  BY DEF Storing, ValueInv, PcOK
<1>2. P.s \in Nat \ {0} /\ P.s <= Len(Reading) /\ Len(Reading) \in Nat
  <2>1. P.s \in Positions /\ IsSeq(Reading)
    BY <1>1, Running, Zenon DEF ParserOK, IsValueText, IsSeq
  <2> QED BY <2>1, SeqIs DEF Storing, Positions
<1>3. P.s \in 1 .. Len(Reading)
  BY <1>2
<1>4. IsToken(Token)
  BY <1>1, <1>3, Running, Zenon DEF Token, IsValueText
<1>5. Token.e = RefIn(text, P)
  BY Zenon DEF Token, Reading, InValueEntity, RefIn
<1> QED BY <1>1, <1>4, <1>5 DEF Storing

(* What a step leaves of the declarations. *)
LEMMA DtdKept ==
    ASSUME DtdOK, decls' = decls, handler' = handler, kind' = kind, text' = text,
           at' \in Positions, IsValueText(pool'), valueProcessed' \in [Names -> Positions]
    PROVE  DtdOK'
BY DEF DtdOK

LEMMA Counts ==
    ASSUME NEW S, IsFiniteSet(S), NEW e
    PROVE  /\ IsFiniteSet(S \cup {e}) /\ IsFiniteSet(S \ {e})
           /\ e \notin S => Cardinality(S \cup {e}) = Cardinality(S) + 1
           /\ e \in S => Cardinality(S \ {e}) = Cardinality(S) - 1
<1>1. IsFiniteSet(S \cup {e}) /\ (e \notin S => Cardinality(S \cup {e}) = Cardinality(S) + 1)
  BY FS_AddElement
<1>2. IsFiniteSet(S \ {e}) /\ (e \in S => Cardinality(S \ {e}) = Cardinality(S) - 1)
  BY FS_RemoveElement
<1> QED BY <1>1, <1>2

(* A text stays one when a token is put behind it. *)
LEMMA TextGrows ==
    ASSUME NEW tokens, IsValueText(tokens), NEW t, IsToken(t)
    PROVE  IsValueText(Append(tokens, t))
<1> DEFINE n == Append(tokens, t)
           S == Range(tokens) \cup {t}
<1>1. tokens \in Seq(Range(tokens)) /\ \A i \in 1 .. Len(tokens) : IsToken(tokens[i])
  BY Zenon DEF IsValueText
<1>2. tokens \in Seq(S) /\ t \in S
  <2>1. IsSeq(tokens) /\ Len(tokens) \in Nat /\ DOMAIN tokens = 1 .. Len(tokens)
    BY <1>1, SeqIs DEF IsSeq
  <2>2. \A i \in 1 .. Len(tokens) : tokens[i] \in S
    BY <2>1 DEF Range
  <2> QED BY <1>1, <2>1, <2>2
<1> HIDE DEF S
<1>3. /\ n \in Seq(S) /\ Len(n) = Len(tokens) + 1 /\ Len(tokens) \in Nat
      /\ \A i \in 1 .. Len(tokens) : n[i] = tokens[i]
      /\ n[Len(tokens) + 1] = t
  BY <1>2
<1> HIDE DEF n
<1>4. IsSeq(n)
  BY <1>3, SeqIs, Zenon
<1>5. ASSUME NEW i \in 1 .. Len(n) PROVE IsToken(n[i])
  <2>1. CASE i = Len(tokens) + 1
    BY <1>3, <2>1, Zenon
  <2>2. CASE i # Len(tokens) + 1
    <3>1. i \in 1 .. Len(tokens)
      BY <1>3, <2>2
    <3> QED BY <1>1, <1>3, <3>1
  <2> QED BY <2>1, <2>2
<1>6. IsValueText(n)
  BY <1>4, <1>5, Zenon DEF IsValueText, IsSeq
<1> QED BY <1>6 DEF n

LEMMA NoText == IsValueText(<<>>)
BY DEF IsValueText, Range

(* A step after which the running parser is where it was, or further on in *)
(* the same text.                                                          *)
LEMMA StepKept ==
    ASSUME ValueInv, DtdOK', kind' = kind, text' = text,
           open' = open, valueDepth' = valueDepth, Len(valueParsers) # 0,
           valuePc # "handler", valuePc' # "handler",
           IsSeq(valueParsers'), Len(valueParsers') = Len(valueParsers),
           ParserOK(kind, valueParsers'[1]), valueParsers'[1].input = valueParsers[1].input,
           valueParsers'[1].values = valueParsers[1].values,
           \A i \in 2 .. Len(valueParsers) : valueParsers'[i] = valueParsers[i],
           PcOK(valueParsers', valuePc')
    PROVE  ValueInv'
<1>1. valuePc # "failed"
  BY Running, Zenon
<1>2. /\ Stack(kind, text, valueParsers', valuePc')
      /\ Marked(text, valueParsers', valuePc', open)
  BY <1>1, HeadKept, Zenon DEF ValueInv
<1>3. Stack(kind', text', valueParsers', valuePc') /\ Marked(text', valueParsers', valuePc', open')
  BY <1>2
<1>4. IsFiniteSet(open') /\ valueDepth' = Cardinality(open')
  BY Zenon DEF ValueInv
<1> QED BY <1>3, <1>4, Zenon DEF ValueInv

-----------------------------------------------------------------------------
(* The steps of doProlog.                                                  *)

LEMMA EmptyStack ==
    ASSUME NEW kinds, NEW texts, NEW ps, NEW pc, IsSeq(ps), Len(ps) = 0
    PROVE  /\ Stack(kinds, texts, ps, pc)
           /\ \A marks : Marked(texts, ps, pc, marks) <=> marks = {}
<1>1. 1 .. Len(ps) = {} /\ Waiting(ps, pc) = {}
  BY DEF Waiting
<1> QED BY <1>1, Zenon DEF Stack, Marked, Listed, Read

(* A name that is declared now is the name of the declaration. *)
LEMMA NewKind ==
    ASSUME ValueAssumption, DtdOK, Declaring, NEW k \in EntityKinds, decls[at].kind = k,
           decls' = decls, kind' = [e \in Names |-> IF e = NewName THEN k ELSE kind[e]]
    PROVE  /\ kind' \in [Names -> EntityKinds]
           /\ \A e \in Names : kind'[e] # "undeclared" =>
                \E i \in 1 .. Len(decls') : decls'[i].name = e /\ decls'[i].kind = kind'[e]
           /\ decls[at].name \in Names /\ IsValueText(decls[at].value)
<1>1. at \in 1 .. Len(decls) /\ decls \in DTDs
  BY DEF DtdOK, Declaring, Positions
<1>2. kind' \in [Names -> EntityKinds]
  BY DEF DtdOK
<1>3. ASSUME NEW e \in Names, kind'[e] # "undeclared"
      PROVE  \E i \in 1 .. Len(decls') : decls'[i].name = e /\ decls'[i].kind = kind'[e]
  <2>1. CASE e = NewName
    <3>1. decls[at].name = e
      BY <2>1, ValueAssumption, Zenon DEF NewName, ValueAssumption
    <3>2. kind'[e] = k
      BY <2>1
    <3> QED BY <1>1, <3>1, <3>2
  <2>2. CASE e # NewName
    <3>1. kind'[e] = kind[e]
      BY <2>2
    <3> QED BY <1>3, <3>1 DEF DtdOK
  <2> QED BY <2>1, <2>2
<1>4. decls[at].name \in Names /\ IsValueText(decls[at].value)
  BY <1>1, Zenon DEF ValueAssumption
<1> QED BY <1>2, <1>3, <1>4, Zenon

LEMMA DeclareKeeps ==
    ASSUME ValueAssumption, ValueInv, DeclareIgnored \/ DeclareExternal
    PROVE  ValueInv'
<1>1. /\ Declaring /\ at' = at + 1 /\ at' \in Positions
      /\ decls' = decls /\ handler' = handler /\ text' = text /\ pool' = pool
      /\ open' = open /\ valueDepth' = valueDepth /\ valueProcessed' = valueProcessed
      /\ valueParsers' = valueParsers /\ valuePc' = valuePc
  BY DEF DeclareIgnored, DeclareExternal, valueEntityVars, ValueInv, DtdOK, Positions
<1>2. valuePc = "prolog" /\ Len(valueParsers) = 0 /\ IsSeq(valueParsers)
  BY <1>1, Zenon DEF Declaring, ValueInv, PcOK, Stack
<1>3. Stack(kind', text', valueParsers', valuePc') /\ PcOK(valueParsers', valuePc')
  BY <1>1, <1>2, EmptyStack DEF ValueInv
<1>4. Marked(text', valueParsers', valuePc', open')
  BY <1>1, <1>2 DEF ValueInv
<1>5. DtdOK'
  <2>1. CASE DeclareIgnored
    <3>1. kind' = kind
      BY <2>1 DEF DeclareIgnored
    <3> QED BY <1>1, <3>1, DtdKept DEF ValueInv, DtdOK
  <2>2. CASE DeclareExternal
    <3>1. /\ kind' = [e \in Names |-> IF e = NewName THEN "external" ELSE kind[e]]
          /\ decls[at].kind = "external"
      BY <2>2 DEF DeclareExternal
    <3>2. DtdOK /\ "external" \in EntityKinds
      BY DEF ValueInv, EntityKinds
    <3>3. /\ kind' \in [Names -> EntityKinds]
          /\ \A e \in Names : kind'[e] # "undeclared" =>
               \E i \in 1 .. Len(decls') : decls'[i].name = e /\ decls'[i].kind = kind'[e]
      BY <1>1, <3>1, <3>2, NewKind, Zenon
    <3>4. /\ decls' \in DTDs /\ at' \in Positions /\ handler' \in Handlers
          /\ \A e \in Names : IsValueText(text'[e])
          /\ IsValueText(pool') /\ valueProcessed' \in [Names -> Positions]
      BY <1>1, <3>2 DEF DtdOK
    <3> QED BY <3>3, <3>4, Zenon DEF DtdOK
  <2> QED BY <2>1, <2>2, Zenon
<1>6. IsFiniteSet(open') /\ valueDepth' = Cardinality(open')
  BY <1>1 DEF ValueInv
<1> QED BY <1>3, <1>4, <1>5, <1>6, Zenon DEF ValueInv

(* A new parser has opened nothing. *)
LEMMA NewParser ==
    ASSUME NEW kinds, NEW input, IsValueText(input), NEW declEntity
    PROVE  /\ ParserOK(kinds, Parser(input, declEntity))
           /\ Parser(input, declEntity).values = <<>>
           /\ Parser(input, declEntity).input = input
<1> DEFINE p == Parser(input, declEntity)
<1>1. /\ DOMAIN p = ParserFields /\ p.input = input /\ p.next = 1 /\ p.s = 1
      /\ p.values = <<>>
  BY DEF Parser, ParserFields
<1> HIDE DEF p
<1>2. p.values \in Seq(Names) /\ Distinct(p.values) /\ 1 .. Len(p.values) = {} /\ 1 \in Positions
  BY <1>1 DEF Distinct, Positions
<1>3. ParserOK(kinds, p)
  BY <1>1, <1>2, Zenon DEF ParserOK
<1> QED BY <1>1, <1>3 DEF p

LEMMA DeclareInternalKeeps ==
    ASSUME ValueAssumption, ValueInv, DeclareInternal
    PROVE  ValueInv'
<1> DEFINE q == Parser(decls[at].value, NewName)
<1>1. /\ Declaring /\ at' = at /\ decls[at].kind = "internal"
      /\ kind' = [e \in Names |-> IF e = NewName THEN "internal" ELSE kind[e]]
      /\ decls' = decls /\ handler' = handler /\ text' = text /\ pool' = pool
      /\ open' = open /\ valueDepth' = valueDepth /\ valueProcessed' = valueProcessed
      /\ valueParsers' = <<q>> /\ valuePc' = "call"
  BY Zenon DEF DeclareInternal, valueEntityVars
<1>2. valuePc = "prolog" /\ Len(valueParsers) = 0 /\ IsSeq(valueParsers)
  BY <1>1 DEF Declaring, ValueInv, PcOK, Stack
<1>3. open = {}
  <2>1. Marked(text, valueParsers, valuePc, open)
    BY <1>2, Zenon DEF ValueInv
  <2> QED BY <1>2, <2>1, EmptyStack, Zenon
<1>4. DtdOK /\ "internal" \in EntityKinds
  BY DEF ValueInv, EntityKinds
<1>5. /\ kind' \in [Names -> EntityKinds]
      /\ \A e \in Names : kind'[e] # "undeclared" =>
           \E i \in 1 .. Len(decls') : decls'[i].name = e /\ decls'[i].kind = kind'[e]
      /\ IsValueText(decls[at].value)
  BY <1>1, <1>4, NewKind, Zenon
<1>6. DtdOK'
  <2>1. /\ decls' \in DTDs /\ at' \in Positions /\ handler' \in Handlers
        /\ \A e \in Names : IsValueText(text'[e])
        /\ IsValueText(pool') /\ valueProcessed' \in [Names -> Positions]
    BY <1>1, <1>4 DEF DtdOK
  <2> QED BY <1>5, <2>1, Zenon DEF DtdOK
<1>7. ParserOK(kind', q) /\ q.values = <<>>
  BY <1>5, NewParser, SMTT(30)
<1> HIDE DEF q
<1>8. IsSeq(valueParsers') /\ Len(valueParsers') = 1 /\ valueParsers'[1] = q
  BY <1>1, OneIs
<1>9. 1 .. Len(valueParsers') = {1} /\ Waiting(valueParsers', valuePc') = {}
  BY <1>1, <1>8, SMTT(30) DEF Waiting
<1>10. Stack(kind', text', valueParsers', valuePc')
  BY <1>7, <1>8, <1>9, SMTT(30) DEF Stack
<1>11. PcOK(valueParsers', valuePc')
  BY <1>1, <1>8 DEF PcOK
<1>12. Marked(text', valueParsers', valuePc', open')
  <2>1. \A x : ~Listed(valueParsers', x)
    BY <1>7, <1>8, <1>9 DEF Listed
  <2>2. \A x : ~Read(text', valueParsers', valuePc', x)
    BY <1>9, Zenon DEF Read
  <2> QED BY <1>1, <1>3, <2>1, <2>2, Zenon DEF Marked
<1>13. IsFiniteSet(open') /\ valueDepth' = Cardinality(open')
  BY <1>1 DEF ValueInv
<1> QED BY <1>6, <1>10, <1>11, <1>12, <1>13, Zenon DEF ValueInv

LEMMA ValueStoredKeeps ==
    ASSUME ValueInv, ValueStored
    PROVE  ValueInv'
<1>1. /\ valuePc \in {"value", "error"} /\ Len(valueParsers) = 1
      /\ text' = [e \in Names |-> IF e = P.declEntity THEN pool ELSE text[e]]
      /\ pool' = <<>> /\ valueParsers' = <<>>
      /\ decls' = decls /\ handler' = handler /\ kind' = kind
      /\ open' = open /\ valueDepth' = valueDepth /\ valueProcessed' = valueProcessed
  BY DEF ValueStored, valueEntityVars, StoredText, OnlyParser
<1>2. /\ valuePc = "value" => at' = at + 1 /\ valuePc' = "prolog"
      /\ valuePc = "error" => at' = at /\ valuePc' = "failed"
  BY DEF ValueStored
<1>3. DtdOK'
  <2>1. at' \in Positions
    BY <1>1, <1>2 DEF ValueInv, DtdOK, Positions
  <2>2. ASSUME NEW e \in Names PROVE IsValueText(text'[e])
    <3>1. text'[e] = pool \/ text'[e] = text[e]
      BY <1>1, Zenon
    <3> QED BY <3>1, Zenon DEF ValueInv, DtdOK
  <2>3. /\ decls' \in DTDs /\ handler' \in Handlers /\ kind' \in [Names -> EntityKinds]
        /\ \A e \in Names : kind'[e] # "undeclared" =>
             \E i \in 1 .. Len(decls') : decls'[i].name = e /\ decls'[i].kind = kind'[e]
        /\ valueProcessed' \in [Names -> Positions]
    BY <1>1 DEF ValueInv, DtdOK
  <2>4. IsValueText(pool')
    BY <1>1, NoText, Zenon
  <2> QED BY <2>1, <2>2, <2>3, <2>4, Zenon DEF DtdOK
<1>4. IsSeq(valueParsers') /\ Len(valueParsers') = 0
  <2>1. <<>> \in Seq({}) /\ Len(<<>>) = 0
    OBVIOUS
  <2> QED BY <1>1, <2>1, SeqIs, Zenon
<1>5. Stack(kind', text', valueParsers', valuePc')
  BY <1>4, EmptyStack, Zenon
<1>6. PcOK(valueParsers', valuePc')
  BY <1>1, <1>2, <1>4 DEF PcOK
<1>7. ASSUME valuePc' # "failed" PROVE Marked(text', valueParsers', valuePc', open')
  <2>1. valuePc = "value"
    BY <1>1, <1>2, <1>7, Zenon
  <2>2. valueParsers[1].values = <<>> /\ 1 .. Len(valueParsers) = {1}
    BY <1>1, <2>1 DEF ValueInv, PcOK
  <2>3. Waiting(valueParsers, valuePc) = {} /\ Marked(text, valueParsers, valuePc, open)
    BY <1>1, <2>1 DEF Waiting, ValueInv
  <2>4. \A x : ~Listed(valueParsers, x)
    BY <2>2 DEF Listed
  <2>5. \A x : ~Read(text, valueParsers, valuePc, x)
    BY <2>3, Zenon DEF Read
  <2>6. open' = {}
    BY <1>1, <2>3, <2>4, <2>5, Zenon DEF Marked
  <2> QED BY <1>4, <2>6, EmptyStack, Zenon
<1>8. IsFiniteSet(open') /\ valueDepth' = Cardinality(open')
  BY <1>1 DEF ValueInv
<1> QED BY <1>3, <1>5, <1>6, <1>7, <1>8, Zenon DEF ValueInv

-----------------------------------------------------------------------------
(* The steps of callStoreEntityValue and storeEntityValue.                 *)

LEMMA ParserAt ==
    ASSUME NEW kinds, NEW p, ParserOK(kinds, p), NEW v \in Positions, NEW q,
           q = [p EXCEPT !.s = v]
    PROVE  ParserOK(kinds, q) /\ q.input = p.input /\ q.values = p.values
<1>1. /\ DOMAIN p = ParserFields /\ IsValueText(p.input)
      /\ p.next \in Positions /\ p.values \in Seq(Names) /\ Distinct(p.values)
      /\ \A j \in 1 .. Len(p.values) : kinds[p.values[j]] = "internal"
  BY Zenon DEF ParserOK
<1>2. /\ DOMAIN q = ParserFields /\ q.s = v
      /\ q.input = p.input /\ q.next = p.next /\ q.values = p.values
  BY <1>1 DEF ParserFields
<1> QED BY <1>1, <1>2 DEF ParserOK

LEMMA AdvanceIs ==
    ASSUME NEW rest, IsSeq(rest), Len(rest) # 0, ParserOK(kind, rest[1]), Advance(rest)
    PROVE  /\ IsSeq(valueParsers') /\ Len(valueParsers') = Len(rest)
           /\ ParserOK(kind, valueParsers'[1])
           /\ valueParsers'[1].input = rest[1].input
           /\ valueParsers'[1].values = rest[1].values
           /\ \A i \in 2 .. Len(rest) : valueParsers'[i] = rest[i]
<1>1. PICK q : q = [rest[1] EXCEPT !.s = rest[1].s + 1]
  BY Zenon
<1>2. valueParsers' = <<q>> \o Tail(rest)
  BY <1>1 DEF Advance
<1>3. /\ IsSeq(valueParsers') /\ Len(valueParsers') = Len(rest) /\ valueParsers'[1] = q
      /\ \A i \in 2 .. Len(rest) : valueParsers'[i] = rest[i]
  BY <1>2, HeadIs
<1>4. rest[1].s + 1 \in Positions
  BY DEF ParserOK, Positions
<1>5. ParserOK(kind, q) /\ q.input = rest[1].input /\ q.values = rest[1].values
  BY <1>1, <1>4, ParserAt
<1> QED BY <1>3, <1>5

LEMMA CallStoresKeeps ==
    ASSUME ValueInv, CallStores
    PROVE  ValueInv'
<1> DEFINE v == IF InValueEntity THEN valueProcessed[P.values[1]] ELSE P.next
<1>1. /\ valuePc = "call" /\ valuePc' = "store" /\ valueParsers' = <<[P EXCEPT !.s = v]>>
      /\ decls' = decls /\ at' = at /\ handler' = handler /\ kind' = kind /\ text' = text
      /\ pool' = pool /\ open' = open /\ valueDepth' = valueDepth
      /\ valueProcessed' = valueProcessed
  BY DEF CallStores, dtdVars, valueEntityVars
<1>2. Len(valueParsers) = 1 /\ P = valueParsers[1]
  BY <1>1 DEF ValueInv, PcOK, P
<1>3. ParserOK(kind, P)
  BY <1>2, Running
<1>4. v \in Positions
  <2>1. P.next \in Positions /\ P.values \in Seq(Names)
    BY <1>3, Zenon DEF ParserOK
  <2>2. CASE P.values = <<>>
    BY <2>1, <2>2, Zenon DEF InValueEntity
  <2>3. CASE P.values # <<>>
    <3>1. P.values[1] \in Names
      BY <2>1, <2>3
    <3>2. v = valueProcessed[P.values[1]]
      BY <2>3, Zenon DEF InValueEntity
    <3>3. valueProcessed \in [Names -> Positions]
      BY Zenon DEF ValueInv, DtdOK
    <3> QED BY <3>1, <3>2, <3>3
  <2> QED BY <2>2, <2>3
<1>5. PICK q : q = [P EXCEPT !.s = v]
  BY Zenon
<1> HIDE DEF v
<1>6. ParserOK(kind, q) /\ q.input = P.input /\ q.values = P.values
  BY <1>3, <1>4, <1>5, ParserAt
<1>7. IsSeq(valueParsers') /\ Len(valueParsers') = 1 /\ valueParsers'[1] = q
  BY <1>1, <1>5, OneIs
<1>8. DtdOK'
  BY <1>1, DtdKept DEF ValueInv, DtdOK
<1>9. PcOK(valueParsers', valuePc')
  BY <1>1, <1>7 DEF PcOK
<1>10. \A i \in 2 .. Len(valueParsers) : valueParsers'[i] = valueParsers[i]
  BY <1>2
<1>11. Len(valueParsers) # 0 /\ Len(valueParsers') = Len(valueParsers)
  BY <1>2, <1>7
<1>12. /\ ParserOK(kind, valueParsers'[1]) /\ valueParsers'[1].input = valueParsers[1].input
       /\ valueParsers'[1].values = valueParsers[1].values
  BY <1>2, <1>6, <1>7
<1>13. valuePc # "handler" /\ valuePc' # "handler"
  BY <1>1
<1> QED BY <1>1, <1>7, <1>8, <1>9, <1>10, <1>11, <1>12, <1>13, StepKept, Zenon

(* A token is stored or skipped. *)
LEMMA TokenKeeps ==
    ASSUME ValueInv, NEW k, Storing(k), Advance(valueParsers), IsValueText(pool'),
           UNCHANGED <<dtdVars, valueEntityVars, valuePc>>
    PROVE  ValueInv'
<1>1. Len(valueParsers) # 0 /\ valuePc = "store"
  BY TokenIs, Zenon
<1>2. /\ decls' = decls /\ at' = at /\ handler' = handler /\ kind' = kind /\ text' = text
      /\ open' = open /\ valueDepth' = valueDepth /\ valueProcessed' = valueProcessed
      /\ valuePc' = "store"
  BY <1>1 DEF dtdVars, valueEntityVars
<1>3. IsSeq(valueParsers) /\ Len(valueParsers) \in Nat /\ ParserOK(kind, valueParsers[1])
  BY <1>1, Running, Zenon DEF P
<1>4. /\ IsSeq(valueParsers') /\ Len(valueParsers') = Len(valueParsers)
      /\ ParserOK(kind, valueParsers'[1])
      /\ valueParsers'[1].input = valueParsers[1].input
      /\ valueParsers'[1].values = valueParsers[1].values
      /\ \A i \in 2 .. Len(valueParsers) : valueParsers'[i] = valueParsers[i]
  BY <1>1, <1>3, AdvanceIs, Zenon
<1>5. DtdOK'
  BY <1>2, DtdKept, Zenon DEF ValueInv, DtdOK
<1>6. PcOK(valueParsers', valuePc')
  BY <1>1, <1>2, <1>4 DEF PcOK
<1>7. valuePc # "handler" /\ valuePc' # "handler"
  BY <1>1, <1>2
<1> QED BY <1>1, <1>2, <1>4, <1>5, <1>6, <1>7, StepKept, Zenon

LEMMA StoreKeeps ==
    ASSUME ValueInv, StoreData \/ StoreEscaped \/ StoreNoHandler
    PROVE  ValueInv'
<1>1. CASE StoreData
  <2>1. Storing("data") /\ pool' = Append(pool, Token) /\ Advance(valueParsers)
        /\ UNCHANGED <<dtdVars, valueEntityVars, valuePc>>
    BY <1>1 DEF StoreData
  <2>2. IsToken(Token)
    BY <2>1, TokenIs, Zenon
  <2>3. IsValueText(pool')
    BY <2>1, <2>2, TextGrows, Zenon DEF ValueInv, DtdOK
  <2> QED BY <2>1, <2>3, TokenKeeps, Zenon
<1>2. CASE StoreEscaped
  <2>1. Storing("escaped") /\ pool' = Append(pool, [k |-> "ref", e |-> Token.e])
        /\ Advance(valueParsers) /\ UNCHANGED <<dtdVars, valueEntityVars, valuePc>>
    BY <1>2 DEF StoreEscaped
  <2>2. Token.e \in Names
    BY <2>1, TokenIs DEF IsToken
  <2>3. IsToken([k |-> "ref", e |-> Token.e])
    BY <2>2 DEF IsToken
  <2>4. IsValueText(pool')
    BY <2>1, <2>3, TextGrows, Zenon DEF ValueInv, DtdOK
  <2> QED BY <2>1, <2>4, TokenKeeps, Zenon
<1>3. CASE StoreNoHandler
  <2>1. Storing("ref") /\ pool' = pool /\ Advance(valueParsers)
        /\ UNCHANGED <<dtdVars, valueEntityVars, valuePc>>
    BY <1>3 DEF StoreNoHandler, Referring
  <2>2. IsValueText(pool')
    BY <2>1, Zenon DEF ValueInv, DtdOK
  <2> QED BY <2>1, <2>2, TokenKeeps, Zenon
<1> QED BY <1>1, <1>2, <1>3

LEMMA FailKeeps ==
    ASSUME ValueInv, StoreInvalid \/ StoreExhausted \/ StoreRefError
    PROVE  ValueInv'
<1>1. PICK code : ValueFails(code)
  BY Zenon DEF StoreInvalid, StoreExhausted, StoreRefError
<1>2. valuePc = "store"
  BY DEF StoreInvalid, StoreExhausted, StoreRefError, Storing
<1>3. /\ decls' = decls /\ at' = at /\ handler' = handler /\ kind' = kind /\ text' = text
      /\ open' = open /\ valueDepth' = valueDepth /\ valueProcessed' = valueProcessed
      /\ valuePc' = "error" /\ valueParsers' = valueParsers /\ pool' = pool
  BY <1>1 DEF ValueFails, ValueFailing, dtdVars, valueEntityVars
<1>4. Len(valueParsers) # 0
  BY <1>2 DEF ValueInv, PcOK
<1>5. IsSeq(valueParsers') /\ ParserOK(kind, valueParsers'[1])
  BY <1>3, <1>4, Running, Zenon DEF P
<1>6. DtdOK'
  BY <1>3, DtdKept, Zenon DEF ValueInv, DtdOK
<1>7. PcOK(valueParsers', valuePc')
  BY <1>3, <1>4 DEF PcOK
<1>8. /\ valuePc # "handler" /\ valuePc' # "handler"
      /\ Len(valueParsers') = Len(valueParsers)
      /\ valueParsers'[1].input = valueParsers[1].input
      /\ valueParsers'[1].values = valueParsers[1].values
      /\ \A i \in 2 .. Len(valueParsers) : valueParsers'[i] = valueParsers[i]
  BY <1>2, <1>3
<1> QED BY <1>3, <1>4, <1>5, <1>6, <1>7, <1>8, StepKept, Zenon

(* The parser storeEntityValue leaves when it returns without an error. *)
Returned(q, opened) ==
    /\ valueParsers' = <<q>> \o Tail(valueParsers)
    /\ DOMAIN q = ParserFields /\ q.input = P.input /\ q.s = P.s /\ q.next \in Positions
    /\ q.values = IF opened = NoName THEN P.values ELSE <<opened>> \o P.values
    /\ valuePc' = "value" => q.values = <<>>

LEMMA ReturnsIs ==
    ASSUME ValueInv, valuePc = "store", NEW next \in Positions, NEW opened,
           StoreValueReturns(next, opened)
    PROVE  /\ DtdOK' /\ kind' = kind /\ text' = text
           /\ open' = open \cup ({opened} \ {NoName})
           /\ valueDepth' = valueDepth + (IF opened = NoName THEN 0 ELSE 1)
           /\ \E q : Returned(q, opened)
           /\ valuePc' \in {"returned", "call", "value"}
           /\ valuePc' = "returned" <=> ~OnlyParser
<1>1. Len(valueParsers) # 0 /\ ParserOK(kind, P)
  <2>1. Len(valueParsers) # 0
    BY DEF ValueInv, PcOK
  <2> QED BY <2>1, Running, Zenon
<1>2. PICK values : values = IF opened = NoName THEN P.values ELSE <<opened>> \o P.values
  BY Zenon
<1>3. PICK n : n = IF OnlyParser /\ ~InValueEntity THEN next ELSE P.next
  BY Zenon
<1>4. n \in Positions
  BY <1>1, <1>3, Zenon DEF ParserOK
<1>5. PICK q : q = [P EXCEPT !.values = values, !.next = n]
  BY Zenon
<1>6. /\ DOMAIN q = ParserFields /\ q.input = P.input /\ q.s = P.s
      /\ q.next = n /\ q.values = values
  <2>1. PICK p : p = P
    BY Zenon
  <2>2. DOMAIN p = ParserFields /\ q = [p EXCEPT !.values = values, !.next = n]
    BY <1>1, <1>5, <2>1, Zenon DEF ParserOK
  <2>3. /\ DOMAIN q = ParserFields /\ q.input = p.input /\ q.s = p.s
        /\ q.next = n /\ q.values = values
    BY <2>2 DEF ParserFields
  <2> QED BY <2>1, <2>3
<1>7. valueParsers' = <<q>> \o Tail(valueParsers)
  BY <1>2, <1>3, <1>5, Zenon DEF StoreValueReturns
<1>8. /\ valuePc' \in {"returned", "call", "value"}
      /\ valuePc' = "returned" <=> ~OnlyParser
      /\ valuePc' = "value" => values = <<>>
  <2>1. valuePc' = CASE ~OnlyParser -> "returned"
                     [] (OnlyParser /\ ~InValueEntity) /\ values = <<>> /\ next > Len(P.input)
                          -> "value"
                     [] OTHER -> "call"
    BY <1>2, Zenon DEF StoreValueReturns
  <2> QED BY <2>1 DEF OnlyParser
<1>9. /\ open' = open \cup ({opened} \ {NoName})
      /\ valueDepth' = valueDepth + (IF opened = NoName THEN 0 ELSE 1)
      /\ decls' = decls /\ at' = at /\ handler' = handler /\ kind' = kind /\ text' = text
      /\ pool' = pool /\ ValueProgress(next, opened)
  BY DEF StoreValueReturns, dtdVars
<1>10. valueProcessed' \in [Names -> Positions]
  <2>1. valueProcessed \in [Names -> Positions] /\ 1 \in Positions
    BY DEF ValueInv, DtdOK, Positions
  <2>2. DEFINE f == [e \in Names |->
              CASE e = opened -> 1
                [] OnlyParser /\ InValueEntity /\ e = P.values[1] /\ next <= Len(Reading) -> next
                [] OTHER -> valueProcessed[e]]
  <2>3. valueProcessed' = f
    BY <1>9 DEF ValueProgress
  <2>4. ASSUME NEW e \in Names PROVE f[e] \in Positions
    BY <2>1, Zenon
  <2> QED BY <2>3, <2>4, Zenon
<1>11. DtdOK'
  BY <1>9, <1>10, DtdKept, Zenon DEF ValueInv, DtdOK
<1>12. Returned(q, opened)
  BY <1>2, <1>4, <1>6, <1>7, <1>8, Zenon DEF Returned
<1> QED BY <1>8, <1>9, <1>11, <1>12, Zenon

LEMMA ReturnKeeps ==
    ASSUME ValueInv, valuePc = "store", NEW next \in Positions, StoreValueReturns(next, NoName)
    PROVE  ValueInv'
<1>1. /\ DtdOK' /\ kind' = kind /\ text' = text
      /\ open' = open \cup ({NoName} \ {NoName})
      /\ valueDepth' = valueDepth + (IF NoName = NoName THEN 0 ELSE 1)
      /\ valuePc' \in {"returned", "call", "value"}
      /\ valuePc' = "returned" <=> ~OnlyParser
  BY ReturnsIs, Zenon
<1>2. PICK q : /\ valueParsers' = <<q>> \o Tail(valueParsers)
               /\ DOMAIN q = ParserFields /\ q.input = P.input /\ q.s = P.s
               /\ q.next \in Positions
               /\ q.values = IF NoName = NoName THEN P.values ELSE <<NoName>> \o P.values
               /\ valuePc' = "value" => q.values = <<>>
  <2>1. PICK q : Returned(q, NoName)
    BY ReturnsIs, Zenon
  <2> QED BY <2>1, Zenon DEF Returned
<1>3. Len(valueParsers) # 0
  BY DEF ValueInv, PcOK
<1>4. IsSeq(valueParsers) /\ Len(valueParsers) \in Nat /\ ParserOK(kind, P)
  BY <1>3, Running, Zenon
<1>5. /\ IsSeq(valueParsers') /\ Len(valueParsers') = Len(valueParsers)
      /\ valueParsers'[1] = q
      /\ \A i \in 2 .. Len(valueParsers) : valueParsers'[i] = valueParsers[i]
  BY <1>2, <1>3, <1>4, HeadIs
<1>6. q.values = P.values
  BY <1>2, Zenon
<1>7. ParserOK(kind, q)
  BY <1>2, <1>4, <1>6 DEF ParserOK
<1>8. open' = open /\ valueDepth' = valueDepth
  <2>1. Cardinality(open) \in Nat
    BY FS_CardinalityType DEF ValueInv
  <2> QED BY <1>1, <2>1 DEF ValueInv
<1>9. PcOK(valueParsers', valuePc')
  <2>1. OnlyParser <=> Len(valueParsers) = 1
    BY DEF OnlyParser
  <2> QED BY <1>1, <1>2, <1>3, <1>4, <1>5, <2>1 DEF PcOK
<1>10. /\ ParserOK(kind, valueParsers'[1]) /\ valueParsers'[1].input = valueParsers[1].input
       /\ valueParsers'[1].values = valueParsers[1].values
  BY <1>2, <1>5, <1>6, <1>7 DEF P
<1>11. valuePc # "handler" /\ valuePc' # "handler"
  BY <1>1
<1> QED BY <1>1, <1>3, <1>5, <1>8, <1>9, <1>10, <1>11, StepKept, Zenon

LEMMA ReturnStepKeeps ==
    ASSUME ValueInv, StoreNone \/ StoreUndeclared
    PROVE  ValueInv'
<1>1. valuePc = "store"
  BY DEF StoreNone, StoreUndeclared, Referring, Storing
<1>2. P.s \in Positions
  <2>1. Len(valueParsers) # 0
    BY <1>1 DEF ValueInv, PcOK
  <2> QED BY <2>1, Running, Zenon DEF ParserOK
<1>3. P.s + 1 \in Positions
  BY <1>2 DEF Positions
<1>4. PICK next \in Positions : StoreValueReturns(next, NoName)
  BY <1>2, <1>3, Zenon DEF StoreNone, StoreUndeclared
<1> QED BY <1>1, <1>4, ReturnKeeps, Zenon

LEMMA OneOf == ASSUME NEW n \in Nat, n # 0, n < 2 PROVE n = 1
OBVIOUS

(* A parser for an external entity meets no internal one. *)
LEMMA OnlyParserOpens ==
    ASSUME FilesReferToFiles, ValueInv, Referring("internal")
    PROVE  Len(valueParsers) = 1 /\ Token.e \in Names /\ Token.e \notin open
<1>1. /\ Storing("ref") /\ kind[Token.e] = "internal" /\ Token.e \notin open
  BY DEF Referring, IsRecursive
<1>2. /\ Len(valueParsers) # 0 /\ IsToken(Token) /\ Token.k = "ref"
      /\ Token.e \in Names
  BY <1>1, TokenIs DEF IsToken
<1>3. Len(valueParsers) \in Nat
  BY <1>2, Running, Zenon
<1>4. Len(valueParsers) < 2
  <2> SUFFICES ASSUME Len(valueParsers) >= 2 PROVE FALSE
    BY <1>3
  <2>1. 1 \in 1 .. Len(valueParsers) /\ 1 < Len(valueParsers)
    BY <1>3
  <2>2. PICK e \in Names : P.values = <<>> /\ kind[e] = "external" /\ P.input = Files[e]
    BY <2>1, Zenon DEF ValueInv, Stack, P
  <2>3. Reading = Files[e]
    BY <2>2, Zenon DEF Reading, InValueEntity
  <2>4. P.s \in 1 .. Len(Reading) /\ DOMAIN Reading = 1 .. Len(Reading)
    <3>1. P.s \in Positions /\ IsSeq(Reading)
      BY <1>2, Running, Zenon DEF ParserOK, IsValueText, IsSeq
    <3> QED BY <1>1, <3>1, SeqIs DEF Storing, Positions
  <2>5. Token \in Range(Reading)
    BY <2>4 DEF Token, Range
  <2>6. Token.e \in Refs(Files[e])
    BY <1>2, <2>3, <2>5 DEF Refs
  <2>7. /\ decls \in DTDs
        /\ \A f \in Names : kind[f] # "undeclared" =>
             \E i \in 1 .. Len(decls) : decls[i].name = f /\ decls[i].kind = kind[f]
    BY Zenon DEF ValueInv, DtdOK
  <2>8. PICK i \in 1 .. Len(decls) : decls[i].name = e /\ decls[i].kind = "external"
    BY <2>2, <2>7
  <2>9. PICK j \in 1 .. Len(decls) : decls[j].name = Token.e /\ decls[j].kind = "internal"
    BY <1>1, <1>2, <2>7
  <2> QED BY <2>6, <2>7, <2>8, <2>9 DEF FilesReferToFiles
<1>5. Len(valueParsers) = 1
  <2>1. Len(valueParsers) # 0
    BY <1>2, Zenon
  <2> QED BY <1>3, <1>4, <2>1, OneOf, Zenon
<1> QED BY <1>1, <1>2, <1>5, Zenon

LEMMA InternalKeeps ==
    ASSUME ValueAssumption, FilesReferToFiles, ValueInv, StoreInternal
    PROVE  ValueInv'
<1>1. Referring("internal") /\ StoreValueReturns(P.s + 1, Token.e)
  BY DEF StoreInternal
<1>2. Len(valueParsers) = 1 /\ Token.e \in Names /\ Token.e \notin open
  BY <1>1, OnlyParserOpens, Zenon
<1>3. valuePc = "store" /\ kind[Token.e] = "internal"
  BY <1>1 DEF Referring, Storing
<1>4. Len(valueParsers) # 0 /\ 1 \in Nat
  BY <1>2
<1>5. IsSeq(valueParsers) /\ ParserOK(kind, P)
  BY <1>4, Running, Zenon
<1>6. P.s + 1 \in Positions /\ Token.e # NoName
  BY <1>2, <1>5, ValueAssumption DEF ParserOK, Positions, ValueAssumption
<1>7. PICK e \in Names, next \in Positions : e = Token.e /\ StoreValueReturns(next, e)
  BY <1>1, <1>2, <1>6, Zenon
<1>8. /\ DtdOK' /\ kind' = kind /\ text' = text
      /\ open' = open \cup ({e} \ {NoName})
      /\ valueDepth' = valueDepth + (IF e = NoName THEN 0 ELSE 1)
      /\ valuePc' \in {"returned", "call", "value"}
      /\ valuePc' = "returned" <=> ~OnlyParser
  BY <1>3, <1>7, ReturnsIs, Zenon
<1>9. PICK q : Returned(q, e)
  BY <1>3, <1>7, ReturnsIs, Zenon
<1>10. IsSeq(valueParsers') /\ Len(valueParsers') = 1 /\ valueParsers'[1] = q
  BY <1>2, <1>4, <1>5, <1>9, HeadIs DEF Returned
<1>11. q.values = <<e>> \o P.values
  BY <1>6, <1>7, <1>9, Zenon DEF Returned
<1>12. open' = open \cup {e} /\ valueDepth' = valueDepth + 1
  BY <1>6, <1>7, <1>8
<1>13. valuePc # "handler" /\ valuePc' # "handler" /\ valuePc # "failed"
  BY <1>3, <1>8
<1>14. /\ Stack(kind, text, valueParsers, valuePc) /\ Marked(text, valueParsers, valuePc, open)
  BY <1>13, Zenon DEF ValueInv
<1>15. /\ DOMAIN valueParsers'[1] = ParserFields /\ valueParsers'[1].input = valueParsers[1].input
       /\ valueParsers'[1].s = valueParsers[1].s /\ valueParsers'[1].next \in Positions
       /\ valueParsers'[1].values = <<e>> \o valueParsers[1].values
  BY <1>9, <1>10, <1>11, Zenon DEF P, Returned
<1>16. e \notin open /\ kind[e] = "internal"
  BY <1>2, <1>3, <1>7
<1>17. /\ Stack(kind, text, valueParsers', valuePc')
       /\ Marked(text, valueParsers', valuePc', open \cup {e})
  BY <1>2, <1>10, <1>13, <1>14, <1>15, <1>16, EntityOpened, Zenon
<1>18. /\ Stack(kind', text', valueParsers', valuePc')
       /\ Marked(text', valueParsers', valuePc', open')
  BY <1>8, <1>12, <1>17, Zenon
<1>19. PcOK(valueParsers', valuePc')
  BY <1>2, <1>8, <1>9, <1>10 DEF PcOK, OnlyParser, Returned
<1>20. IsFiniteSet(open') /\ valueDepth' = Cardinality(open')
  BY <1>12, <1>16, Counts DEF ValueInv
<1> QED BY <1>8, <1>18, <1>19, <1>20, Zenon DEF ValueInv


LEMMA ClosesKeeps ==
    ASSUME ValueInv, CallCloses
    PROVE  ValueInv'
<1>1. /\ valuePc = "call" /\ P.values # <<>> /\ open' = open \ {P.values[1]}
      /\ valueDepth' = valueDepth - 1 /\ valuePc' \in {"value", "call"}
      /\ valuePc' = "value" => Len(P.values) = 1
      /\ decls' = decls /\ at' = at /\ handler' = handler /\ kind' = kind /\ text' = text
      /\ pool' = pool /\ valueProcessed' = valueProcessed
  BY DEF CallCloses, InValueEntity, dtdVars
<1>2. PICK p : p = P
  BY Zenon
<1>3. PICK q : q = [p EXCEPT !.values = Tail(p.values)]
  BY Zenon
<1>4. valueParsers' = <<q>>
  BY <1>2, <1>3 DEF CallCloses
<1>5. Len(valueParsers) = 1 /\ Len(valueParsers) # 0
  BY <1>1 DEF ValueInv, PcOK
<1>6. DOMAIN p = ParserFields /\ p.values \in Seq(Names)
  BY <1>2, <1>5, Running, Zenon DEF ParserOK
<1>7. /\ DOMAIN q = ParserFields /\ q.input = p.input /\ q.s = p.s /\ q.next = p.next
      /\ q.values = Tail(p.values)
  BY <1>3, <1>6 DEF ParserFields
<1>8. IsSeq(valueParsers') /\ Len(valueParsers') = 1 /\ valueParsers'[1] = q
  BY <1>4, OneIs
<1>9. /\ DOMAIN valueParsers'[1] = ParserFields /\ valueParsers'[1].input = valueParsers[1].input
      /\ valueParsers'[1].s = valueParsers[1].s /\ valueParsers'[1].next = valueParsers[1].next
      /\ valueParsers'[1].values = Tail(valueParsers[1].values)
  BY <1>2, <1>7, <1>8, Zenon DEF P
<1>10. /\ valuePc # "handler" /\ valuePc' # "handler" /\ valuePc # "failed"
       /\ valueParsers[1].values # <<>>
  BY <1>1 DEF P
<1>11. Stack(kind, text, valueParsers, valuePc) /\ Marked(text, valueParsers, valuePc, open)
  BY <1>10, Zenon DEF ValueInv
<1>12. /\ Stack(kind, text, valueParsers', valuePc')
       /\ Marked(text, valueParsers', valuePc', open \ {valueParsers[1].values[1]})
       /\ valueParsers[1].values[1] \in open
  BY <1>5, <1>8, <1>9, <1>10, <1>11, EntityClosed, Zenon
<1>13. /\ Stack(kind', text', valueParsers', valuePc')
       /\ Marked(text', valueParsers', valuePc', open')
  BY <1>1, <1>12, Zenon DEF P
<1>14. DtdOK'
  BY <1>1, DtdKept, Zenon DEF ValueInv, DtdOK
<1>15. PcOK(valueParsers', valuePc')
  <2>1. IsSeq(p.values)
    BY <1>6, SeqIs, Zenon
  <2>2. valuePc' = "value" => Tail(p.values) = <<>>
    BY <1>1, <1>2, <2>1, TailOfOne, Zenon
  <2>3. valuePc' = "value" => q.values = <<>>
    BY <1>7, <2>2, Zenon
  <2> QED BY <1>1, <1>8, <2>3 DEF PcOK
<1>16. IsFiniteSet(open') /\ valueDepth' = Cardinality(open')
  <2>1. P.values[1] \in open
    BY <1>12 DEF P
  <2> QED BY <1>1, <2>1, Counts DEF ValueInv
<1> QED BY <1>13, <1>14, <1>15, <1>16, Zenon DEF ValueInv

LEMMA ExternalKeeps ==
    ASSUME ValueInv, StoreExternal
    PROVE  ValueInv'
<1>1. Storing("ref") /\ kind[Token.e] = "external" /\ Token.e \notin open
  BY DEF StoreExternal, Referring, IsRecursive
<1>2. /\ open' = open \cup {Token.e} /\ valueDepth' = valueDepth + 1 /\ valuePc' = "handler"
      /\ decls' = decls /\ at' = at /\ handler' = handler /\ kind' = kind /\ text' = text
      /\ pool' = pool /\ valueProcessed' = valueProcessed /\ valueParsers' = valueParsers
  BY DEF StoreExternal, dtdVars
<1>3. /\ Len(valueParsers) # 0 /\ valuePc = "store" /\ Token.e \in Names
      /\ Token.e = RefIn(text, P)
  BY <1>1, TokenIs DEF IsToken
<1>4. PICK e \in Names : e = Token.e
  BY <1>3, Zenon
<1>5. /\ e \notin open /\ kind[e] = "external" /\ e = RefIn(text, valueParsers[1])
  BY <1>1, <1>3, <1>4 DEF P
<1>6. valuePc # "handler" /\ valuePc # "failed"
  BY <1>3
<1>7. Stack(kind, text, valueParsers, valuePc) /\ Marked(text, valueParsers, valuePc, open)
  BY <1>6, Zenon DEF ValueInv
<1>8. /\ Stack(kind, text, valueParsers, "handler")
      /\ Marked(text, valueParsers, "handler", open \cup {e})
  BY <1>3, <1>5, <1>6, <1>7, HeadWaits, Zenon
<1>9. /\ Stack(kind', text', valueParsers', valuePc')
      /\ Marked(text', valueParsers', valuePc', open')
  BY <1>2, <1>4, <1>8, Zenon
<1>10. DtdOK'
  BY <1>2, DtdKept, Zenon DEF ValueInv, DtdOK
<1>11. PcOK(valueParsers', valuePc')
  BY <1>2, <1>3, Zenon DEF PcOK
<1>12. IsFiniteSet(open') /\ valueDepth' = Cardinality(open')
  BY <1>2, <1>4, <1>5, Counts DEF ValueInv
<1> QED BY <1>9, <1>10, <1>11, <1>12, Zenon DEF ValueInv

LEMMA ParsesKeeps ==
    ASSUME ValueAssumption, ValueInv, HandlerParses
    PROVE  ValueInv'
<1>1. /\ valuePc = "handler" /\ valuePc' \in {"store", "error"}
      /\ valueParsers' = <<Parser(Files[Token.e], NoName)>> \o valueParsers
      /\ decls' = decls /\ at' = at /\ handler' = handler /\ kind' = kind /\ text' = text
      /\ pool' = pool /\ valueProcessed' = valueProcessed
      /\ open' = open /\ valueDepth' = valueDepth
  BY Zenon DEF HandlerParses, ValueFailing, dtdVars, valueEntityVars
<1>2. Len(valueParsers) # 0
  BY <1>1 DEF ValueInv, PcOK
<1>3. IsSeq(valueParsers) /\ Len(valueParsers) \in Nat
  BY <1>2, Running, Zenon
<1>4. Stack(kind, text, valueParsers, "handler") /\ Marked(text, valueParsers, "handler", open)
  BY <1>1 DEF ValueInv
<1>5. PICK e \in Names : kind[e] = "external" /\ e = Token.e
  <2>1. 1 \in Waiting(valueParsers, "handler")
    BY <1>2, <1>3 DEF Waiting
  <2>2. RefIn(text, P) \in Names /\ kind[RefIn(text, P)] = "external"
    BY <1>4, <2>1, Zenon DEF Stack, P
  <2>3. RefIn(text, P) = Token.e
    BY Zenon DEF RefIn, Token, Reading, InValueEntity
  <2> QED BY <2>2, <2>3
<1>6. PICK q : q = Parser(Files[e], NoName)
  BY Zenon
<1>7. ParserOK(kind, q) /\ q.input = Files[e] /\ q.values = <<>>
  <2>1. IsValueText(Files[e])
    BY Zenon DEF ValueAssumption
  <2> QED BY <1>6, <2>1, NewParser, Zenon
<1>8. valueParsers' = <<q>> \o valueParsers
  BY <1>1, <1>5, <1>6
<1>9. /\ IsSeq(valueParsers') /\ Len(valueParsers') = Len(valueParsers) + 1
      /\ valueParsers'[1] = q
      /\ \A i \in 1 .. Len(valueParsers) : valueParsers'[i + 1] = valueParsers[i]
  BY <1>3, <1>8, PushIs
<1>10. valuePc' # "handler"
  BY <1>1
<1>11. Stack(kind, text, valueParsers', valuePc') /\ Marked(text, valueParsers', valuePc', open)
  <2>1. /\ ParserOK(kind, valueParsers'[1]) /\ valueParsers'[1].input = Files[e]
        /\ valueParsers'[1].values = <<>>
    BY <1>7, <1>9, Zenon
  <2>2. Pushed(kind, valueParsers, valueParsers')
    BY <1>5, <1>9, <2>1, Zenon DEF Pushed
  <2> QED BY <1>2, <1>4, <1>10, <2>2, ParserPushed, Zenon
<1>12. /\ Stack(kind', text', valueParsers', valuePc')
       /\ Marked(text', valueParsers', valuePc', open')
  BY <1>1, <1>11, Zenon
<1>13. DtdOK'
  BY <1>1, DtdKept, Zenon DEF ValueInv, DtdOK
<1>14. PcOK(valueParsers', valuePc')
  BY <1>1, <1>3, <1>9, SMTT(30) DEF PcOK
<1>15. IsFiniteSet(open') /\ valueDepth' = Cardinality(open')
  BY <1>1 DEF ValueInv
<1> QED BY <1>12, <1>13, <1>14, <1>15, Zenon DEF ValueInv

(* The handler returns to the parser at the head of rest, which waited for *)
(* it: either no parser ran, or the parser above rest is freed.            *)
LEMMA HandlerBack ==
    ASSUME ValueInv, NEW rest, IsSeq(rest), Len(rest) # 0,
           Stack(kind, text, rest, "handler"), Marked(text, rest, "handler", open),
           HandlerReturns(rest) \/ HandlerFails(rest)
    PROVE  ValueInv'
<1>1. /\ open' = open \ {RefOf(rest[1])} /\ valueDepth' = valueDepth - 1
      /\ decls' = decls /\ at' = at /\ handler' = handler /\ kind' = kind /\ text' = text
      /\ pool' = pool /\ valueProcessed' = valueProcessed
      /\ \/ Advance(rest) /\ valuePc' = "store"
         \/ valueParsers' = rest /\ valuePc' = "error"
  BY DEF HandlerReturns, HandlerFails, Close, ValueFailing, dtdVars
<1>2. RefOf(rest[1]) = RefIn(text, rest[1])
  BY Zenon DEF RefOf, RefIn
<1>3. valuePc' # "handler" /\ valuePc' \in {"store", "error"}
  BY <1>1
<1>4. /\ Stack(kind, text, rest, valuePc') /\ RefIn(text, rest[1]) \in open
      /\ Marked(text, rest, valuePc', open \ {RefIn(text, rest[1])})
  BY <1>3, HeadReturns, Zenon
<1>5. open' = open \ {RefIn(text, rest[1])}
  BY <1>1, <1>2
<1>6. ParserOK(kind, rest[1])
  <2>1. 1 \in 1 .. Len(rest)
    BY SeqIs
  <2> QED BY <2>1, Zenon DEF Stack
<1>7. /\ Stack(kind, text, valueParsers', valuePc') /\ Marked(text, valueParsers', valuePc', open')
      /\ Len(valueParsers') = Len(rest)
  <2>1. CASE Advance(rest)
    <3>1. /\ IsSeq(valueParsers') /\ Len(valueParsers') = Len(rest)
          /\ ParserOK(kind, valueParsers'[1])
          /\ valueParsers'[1].input = rest[1].input
          /\ valueParsers'[1].values = rest[1].values
          /\ \A i \in 2 .. Len(rest) : valueParsers'[i] = rest[i]
      BY <1>6, <2>1, AdvanceIs, Zenon
    <3>2. Marked(text, rest, valuePc', open')
      BY <1>4, <1>5, Zenon
    <3>3. Stack(kind, text, valueParsers', valuePc') /\ Marked(text, valueParsers', valuePc', open')
      BY <1>3, <1>4, <3>1, <3>2, HeadKept, Zenon
    <3> QED BY <3>1, <3>3, Zenon
  <2>2. CASE valueParsers' = rest
    BY <1>4, <1>5, <2>2
  <2> QED BY <1>1, <2>1, <2>2, Zenon
<1>8. /\ Stack(kind', text', valueParsers', valuePc')
      /\ Marked(text', valueParsers', valuePc', open')
  BY <1>1, <1>7, Zenon
<1>9. DtdOK'
  BY <1>1, DtdKept, Zenon DEF ValueInv, DtdOK
<1>10. PcOK(valueParsers', valuePc')
  BY <1>3, <1>7 DEF PcOK
<1>11. IsFiniteSet(open') /\ valueDepth' = Cardinality(open')
  BY <1>1, <1>4, <1>5, Counts DEF ValueInv
<1> QED BY <1>8, <1>9, <1>10, <1>11, Zenon DEF ValueInv

LEMMA HandlerKeeps ==
    ASSUME ValueInv, HandlerSkips \/ HandlerRefuses
    PROVE  ValueInv'
<1>1. /\ valuePc = "handler"
      /\ HandlerReturns(valueParsers) \/ HandlerFails(valueParsers)
  BY Zenon DEF HandlerSkips, HandlerRefuses
<1>2. Len(valueParsers) # 0
  BY <1>1 DEF ValueInv, PcOK
<1>3. IsSeq(valueParsers)
  BY <1>2, Running, Zenon
<1>4. Stack(kind, text, valueParsers, "handler") /\ Marked(text, valueParsers, "handler", open)
  BY <1>1 DEF ValueInv
<1> QED BY <1>1, <1>2, <1>3, <1>4, HandlerBack, Zenon

LEMMA FreedKeeps ==
    ASSUME ValueInv, ParserDone \/ ParserFailed
    PROVE  ValueInv'
<1>1. PICK rest : rest = Tail(valueParsers)
  BY Zenon
<1>2. HandlerReturns(rest) \/ HandlerFails(rest)
  BY <1>1, Zenon DEF ParserDone, ParserFailed
<1>3. /\ valuePc # "handler" /\ valuePc # "failed" /\ Len(valueParsers) # 0
      /\ valuePc = "returned" => Len(valueParsers) >= 2
      /\ valuePc = "returned" \/ Len(valueParsers) # 1
  BY DEF ParserDone, ParserFailed, OnlyParser, ValueInv, PcOK
<1>4. /\ IsSeq(rest) /\ Len(rest) = Len(valueParsers) - 1 /\ Len(valueParsers) \in Nat
      /\ \A i \in 1 .. Len(valueParsers) - 1 : rest[i] = valueParsers[i + 1]
  <2>1. IsSeq(valueParsers)
    BY <1>3, Running, Zenon
  <2> QED BY <1>1, <1>3, <2>1, TailIs, Zenon
<1>5. Len(valueParsers) >= 2 /\ Len(rest) # 0
  <2>1. PICK n : n = Len(valueParsers)
    BY Zenon
  <2>2. n \in Nat /\ n # 0 /\ (n >= 2 \/ n # 1)
    BY <1>3, <1>4, <2>1, Zenon
  <2>3. n >= 2 /\ n - 1 # 0
    BY <2>2
  <2> QED BY <1>4, <2>1, <2>3, Zenon
<1>6. Stack(kind, text, valueParsers, valuePc) /\ Marked(text, valueParsers, valuePc, open)
  BY <1>3, Zenon DEF ValueInv
<1>7. Stack(kind, text, rest, "handler") /\ Marked(text, rest, "handler", open)
  BY <1>3, <1>4, <1>5, <1>6, ParserFreed, Zenon
<1> QED BY <1>2, <1>4, <1>5, <1>7, HandlerBack, Zenon

-----------------------------------------------------------------------------
LEMMA ValueStart == ASSUME ValueInit PROVE ValueInv
<1>1. /\ decls \in DTDs /\ at = 1 /\ handler \in Handlers
      /\ kind = [e \in Names |-> "undeclared"] /\ text = [e \in Names |-> <<>>]
      /\ open = {} /\ valueProcessed = [e \in Names |-> 1] /\ pool = <<>>
      /\ valueDepth = 0 /\ valueParsers = <<>> /\ valuePc = "prolog"
  BY DEF ValueInit
<1>2. DtdOK
  BY <1>1, NoText DEF DtdOK, EntityKinds, Positions
<1>3. IsSeq(valueParsers) /\ Len(valueParsers) = 0
  BY <1>1 DEF IsSeq
<1>4. Stack(kind, text, valueParsers, valuePc) /\ Marked(text, valueParsers, valuePc, open)
  BY <1>1, <1>3, EmptyStack, Zenon
<1>5. PcOK(valueParsers, valuePc)
  BY <1>1, <1>3 DEF PcOK
<1>6. IsFiniteSet(open) /\ valueDepth = Cardinality(open)
  BY <1>1, FS_EmptySet
<1> QED BY <1>2, <1>4, <1>5, <1>6, Zenon DEF ValueInv

LEMMA ValueStep ==
    ASSUME ValueAssumption, FilesReferToFiles, ValueInv, [ValueNext]_valueVars
    PROVE  ValueInv'
<1>1. CASE DeclareIgnored \/ DeclareExternal
  BY <1>1, DeclareKeeps, Zenon
<1>2. CASE DeclareInternal
  BY <1>2, DeclareInternalKeeps, Zenon
<1>3. CASE ValueStored
  BY <1>3, ValueStoredKeeps, Zenon
<1>4. CASE CallStores
  BY <1>4, CallStoresKeeps, Zenon
<1>5. CASE CallCloses
  BY <1>5, ClosesKeeps, Zenon
<1>6. CASE StoreNone \/ StoreUndeclared
  BY <1>6, ReturnStepKeeps, Zenon
<1>7. CASE StoreData \/ StoreEscaped \/ StoreNoHandler
  BY <1>7, StoreKeeps, Zenon
<1>8. CASE StoreInvalid \/ StoreExhausted \/ StoreRefError
  BY <1>8, FailKeeps, Zenon
<1>9. CASE StoreInternal
  BY <1>9, InternalKeeps, Zenon
<1>10. CASE StoreExternal
  BY <1>10, ExternalKeeps, Zenon
<1>11. CASE HandlerParses
  BY <1>11, ParsesKeeps, Zenon
<1>12. CASE HandlerSkips \/ HandlerRefuses
  BY <1>12, HandlerKeeps, Zenon
<1>13. CASE ParserDone \/ ParserFailed
  BY <1>13, FreedKeeps, Zenon
<1>14. CASE UNCHANGED valueVars
  BY <1>14, Zenon DEF valueVars, ValueInv, DtdOK
<1> QED BY <1>1, <1>2, <1>3, <1>4, <1>5, <1>6, <1>7, <1>8, <1>9, <1>10, <1>11, <1>12, <1>13,
           <1>14, Zenon DEF ValueNext

LEMMA MarksFollow == ASSUME ValueInv PROVE MarksAreExact
<1>1. valueDepth = Cardinality(open)
  BY DEF ValueInv
<1>2. ASSUME valuePc = "prolog" PROVE open = {}
  <2>1. IsSeq(valueParsers) /\ Len(valueParsers) = 0
    BY <1>2 DEF ValueInv, PcOK, Stack
  <2>2. Marked(text, valueParsers, valuePc, open)
    BY <1>2 DEF ValueInv
  <2> QED BY <2>1, <2>2, EmptyStack, Zenon
<1>3. ASSUME valuePc \notin {"error", "failed"} PROVE open = OnLists \cup BeingRead
  <2>1. IsSeq(valueParsers) /\ \A i \in 1 .. Len(valueParsers) : ParserOK(kind, valueParsers[i])
    BY Zenon DEF ValueInv, Stack
  <2>2. Len(valueParsers) \in Nat
    BY <2>1, SeqIs, Zenon
  <2>3. valuePc = "handler" => Len(valueParsers) # 0
    BY DEF ValueInv, PcOK
  <2>4. ASSUME NEW x PROVE x \in OnLists <=> Listed(valueParsers, x)
    <3>1. ASSUME NEW i \in 1 .. Len(valueParsers)
          PROVE  x \in Range(valueParsers[i].values) <=>
                   \E j \in 1 .. Len(valueParsers[i].values) : valueParsers[i].values[j] = x
      <4>1. PICK s : s = valueParsers[i].values
        BY Zenon
      <4>2. s \in Seq(Names)
        BY <2>1, <4>1, Zenon DEF ParserOK
      <4>3. DOMAIN s = 1 .. Len(s)
        BY <4>2
      <4>4. x \in Range(s) <=> \E j \in 1 .. Len(s) : s[j] = x
        BY <4>3, Zenon DEF Range
      <4> QED BY <4>1, <4>4, Zenon
    <3>2. x \in OnLists <=>
            \E i \in 1 .. Len(valueParsers) : x \in Range(valueParsers[i].values)
      BY Zenon DEF OnLists
    <3> QED BY <3>1, <3>2, Zenon DEF Listed
  <2>5. ASSUME NEW x PROVE x \in BeingRead <=> Read(text, valueParsers, valuePc, x)
    <3>1. \A p : RefOf(p) = RefIn(text, p)
      BY Zenon DEF RefOf, RefIn
    <3>2. \A i : i \in Waiting(valueParsers, valuePc) <=>
                   i \in 2 .. Len(valueParsers) \/ (i = 1 /\ valuePc = "handler")
      BY <2>2, <2>3 DEF Waiting
    <3>3. x \in BeingRead <=>
            \/ \E i \in 2 .. Len(valueParsers) : RefOf(valueParsers[i]) = x
            \/ valuePc = "handler" /\ RefOf(valueParsers[1]) = x
      BY Zenon DEF BeingRead, P
    <3> QED BY <3>1, <3>2, <3>3, Zenon DEF Read
  <2>6. Marked(text, valueParsers, valuePc, open)
    BY <1>3 DEF ValueInv
  <2> QED BY <2>4, <2>5, <2>6, Zenon DEF Marked
<1> QED BY <1>1, <1>2, <1>3, Zenon DEF MarksAreExact

(* An entity of which storeEntityValue sets the open mark is on the list   *)
(* of one parser or read by the next parser of the stack, whatever the     *)
(* DTD, the texts and the handlers: each mark is cleared by the parser     *)
(* that set it, and a declaration leaves none behind.  The hypothesis      *)
(* excludes the text of an external entity that refers to an internal one: *)
(* the parser that reads it opens the entity and is freed with it open.    *)
THEOREM MarksExact == FilesReferToFiles => (ValueSpec => []MarksAreExact)
<1> SUFFICES ASSUME FilesReferToFiles PROVE ValueSpec => []MarksAreExact
  OBVIOUS
<1>1. ValueInit => ValueInv
  BY ValueStart, Zenon
<1>2. ValueInv /\ [ValueNext]_valueVars => ValueInv'
  BY ValueStep, ValueAssumption, Zenon
<1>3. ValueInv => MarksAreExact
  BY MarksFollow, Zenon
<1> QED BY <1>1, <1>2, <1>3, PTL DEF ValueSpec
=============================================================================
