--------------------------- MODULE ScaffoldProofs ---------------------------
(***************************************************************************)
(* No index of a content model leaves its array, for every sequence of     *)
(* roles, every size the arrays start with and every IntMax.               *)
(***************************************************************************)
EXTENDS Scaffold, TLAPS

Types == {"unset", "SEQ", "CHOICE", "MIXED", "NAME"}
Connectors == {"unset", "none", "COMMA", "PIPE"}
Node == [type : Types, quant : Quants \cup {"unset"}, name : DOMAIN NameLen \cup {NoName},
         firstchild : Int, lastchild : Int, childcnt : Int, nextsib : Int]

Linkage(sc, count) ==
    \A i \in 0 .. count - 1 :
        /\ sc[i].firstchild \in 0 .. count - 1
        /\ sc[i].lastchild \in 0 .. count - 1
        /\ sc[i].nextsib \in 0 .. count - 1

\* The scaffold without the grammar.
ScaffoldOK ==
    /\ scaffCount \in Nat /\ scaffSize \in Nat /\ scaffIndexSize \in Nat
    /\ scaffLevel \in Nat /\ contentStringLen \in Nat
    /\ scaffold \in [0 .. scaffSize - 1 -> Node]
    /\ scaffIndex \in [0 .. scaffIndexSize - 1 -> Int]
    /\ scaffCount <= scaffSize /\ scaffCount <= IntMax + 1
    /\ scaffSize <= UintMax /\ contentStringLen <= UintMax
    /\ scaffLevel <= scaffIndexSize
    /\ in_eldecl => \A i \in 0 .. scaffLevel - 1 : scaffIndex[i] \in 0 .. scaffCount - 1
    /\ Linkage(scaffold, scaffCount)

ConnectorsOK ==
    /\ groupSize \in Nat /\ groupConnector \in [0 .. groupSize - 1 -> Connectors]
    /\ phase = "groups" => level < groupSize

\* The scaffold and the grammar together.
GrammarOK ==
    /\ phase \in Phases /\ level \in Nat
    /\ elementDecl \in BOOLEAN /\ in_eldecl \in BOOLEAN
    /\ phase = "groups" => level >= 1
    /\ in_eldecl => phase # "idle"
    /\ in_eldecl /\ phase = "name" => scaffLevel = 0
    /\ in_eldecl /\ phase = "groups" => scaffLevel = level

IInv == ScaffoldOK /\ ConnectorsOK /\ GrammarOK

USE DEF UintMax

\* Relinked changes the links of a node and nothing else.
LEMMA RelinkedOK ==
    ASSUME NEW n \in Node, NEW first \in Int, NEW last \in Int, NEW cnt \in Int, NEW sib \in Int
    PROVE  /\ Relinked(n, first, last, cnt, sib) \in Node
           /\ Relinked(n, first, last, cnt, sib).firstchild = first
           /\ Relinked(n, first, last, cnt, sib).lastchild = last
           /\ Relinked(n, first, last, cnt, sib).nextsib = sib
  BY DEF Relinked, Node

\* Initially the arrays are empty.
LEMMA InitOK == ASSUME ScaffoldAssumption PROVE ScaffoldInit => IInv
<1> SUFFICES ASSUME ScaffoldInit PROVE IInv
  OBVIOUS
<1>1. /\ <<>> \in [0 .. 0 - 1 -> Node] /\ <<>> \in [0 .. 0 - 1 -> Int]
      /\ <<>> \in [0 .. 0 - 1 -> Connectors]
  OBVIOUS
<1>2. ScaffoldOK
  BY <1>1 DEF ScaffoldInit, ScaffoldOK, ScaffoldAssumption, Linkage
<1>3. ConnectorsOK
  BY <1>1 DEF ScaffoldInit, ConnectorsOK
<1>4. GrammarOK
  BY DEF ScaffoldInit, GrammarOK, Phases
<1> QED
  BY <1>2, <1>3, <1>4 DEF IInv

\* A node linked by nextScaffoldPart: the array grows to hold it, it is a
\* Node without links, and the links that change are to it.
LEMMA LinkedOK ==
    ASSUME ScaffoldAssumption, ScaffoldOK, in_eldecl, ~PartRefused
    PROVE  /\ PartSize \in Nat /\ scaffCount < PartSize /\ PartSize <= UintMax
           /\ Linked \in [0 .. PartSize - 1 -> Node]
           /\ Linkage(Linked, scaffCount + 1)
<1> DEFINE old(i) == IF i < scaffSize THEN scaffold[i] ELSE Unset
           next == scaffCount
           nested == scaffLevel # 0
           parent == OpenNode(scaffLevel)
           last == old(parent).lastchild
           node(i) == IF i = next
                      THEN Relinked(old(i), 0, 0, 0, 0)
                      ELSE IF nested /\ i = parent
                      THEN Relinked(old(i), IF old(i).childcnt = 0 THEN next ELSE old(i).firstchild,
                                    next, old(i).childcnt + 1, old(i).nextsib)
                      ELSE IF nested /\ last # 0 /\ i = last
                      THEN Relinked(old(i), old(i).firstchild, old(i).lastchild, old(i).childcnt, next)
                      ELSE old(i)
<1>1. PartSize \in Nat /\ scaffCount < PartSize /\ PartSize <= UintMax
  <2>1. UintMax \div 2 = IntMax
    BY DEF ScaffoldAssumption
  <2>2. /\ scaffCount \in Nat /\ scaffSize \in Nat /\ scaffSize <= UintMax
        /\ IntMax \in Nat /\ InitScaffold \in 1 .. IntMax /\ scaffCount <= scaffSize
    BY DEF ScaffoldOK, ScaffoldAssumption
  <2> QED
    BY <2>1, <2>2 DEF PartSize, PartRefused
<1>2. Unset \in Node
  BY DEF Unset, Node, Types
<1>3. \A i \in 0 .. PartSize - 1 : old(i) \in Node
  BY <1>1, <1>2 DEF ScaffoldOK
<1>4. scaffCount \in Nat
  BY DEF ScaffoldOK
<1>5. \A i \in 0 .. PartSize - 1 : node(i) \in Node
  <2> SUFFICES ASSUME NEW i \in 0 .. PartSize - 1 PROVE node(i) \in Node
    OBVIOUS
  <2>1. old(i) \in Node
    BY <1>3
  <2> HIDE DEF old, nested, parent, last
  <2>2. CASE i = next
    BY <2>1, <2>2, RelinkedOK
  <2>3. CASE i # next
    BY <2>1, <2>3, <1>4, RelinkedOK DEF Node
  <2> QED
    BY <2>2, <2>3
<1>6. Linked = [i \in 0 .. PartSize - 1 |-> node(i)]
  BY DEF Linked
<1>7. ASSUME NEW i \in 0 .. scaffCount - 1
      PROVE  /\ old(i) \in Node
             /\ old(i).firstchild \in 0 .. scaffCount - 1
             /\ old(i).lastchild \in 0 .. scaffCount - 1
             /\ old(i).nextsib \in 0 .. scaffCount - 1
  BY DEF ScaffoldOK, Linkage
<1>8. \A i \in 0 .. scaffCount : /\ node(i).firstchild \in 0 .. scaffCount
                                 /\ node(i).lastchild \in 0 .. scaffCount
                                 /\ node(i).nextsib \in 0 .. scaffCount
  <2> SUFFICES ASSUME NEW i \in 0 .. scaffCount
               PROVE  /\ node(i).firstchild \in 0 .. scaffCount
                      /\ node(i).lastchild \in 0 .. scaffCount
                      /\ node(i).nextsib \in 0 .. scaffCount
    OBVIOUS
  <2>1. i \in 0 .. PartSize - 1
    BY <1>1, <1>4
  <2>2. old(i) \in Node
    BY <1>3, <2>1
  <2>3. CASE i = next
    <3> HIDE DEF old, nested, parent, last
    <3> QED BY <2>2, <2>3, <1>4, RelinkedOK
  <2>4. CASE i # next
    <3>1. i \in 0 .. scaffCount - 1
      BY <2>4, <1>4
    <3>2. /\ old(i).firstchild \in 0 .. scaffCount - 1
          /\ old(i).lastchild \in 0 .. scaffCount - 1
          /\ old(i).nextsib \in 0 .. scaffCount - 1
      BY <1>7, <3>1
    <3> HIDE DEF old, nested, parent, last
    <3> QED BY <2>2, <2>4, <3>2, <1>4, RelinkedOK DEF Node
  <2> QED BY <2>3, <2>4
<1>9. Linkage(Linked, scaffCount + 1)
  <2> SUFFICES ASSUME NEW i \in 0 .. scaffCount
               PROVE  /\ Linked[i].firstchild \in 0 .. scaffCount
                      /\ Linked[i].lastchild \in 0 .. scaffCount
                      /\ Linked[i].nextsib \in 0 .. scaffCount
    BY <1>4 DEF Linkage
  <2>1. i \in 0 .. PartSize - 1
    BY <1>1, <1>4
  <2> HIDE DEF node
  <2>2. Linked[i] = node(i)
    BY <1>6, <2>1
  <2> QED BY <1>8, <2>2
<1> HIDE DEF node
<1> QED
  BY <1>1, <1>5, <1>6, <1>9

\* The type or the quantifier of a node is not a link, and a new node that
\* is a name has none.
LEMMA FieldOK ==
    ASSUME NEW size \in Nat, NEW count \in Nat, NEW sc \in [0 .. size - 1 -> Node],
           Linkage(sc, count), count <= size, NEW k \in 0 .. size - 1
    PROVE  /\ \A t \in Types :
                /\ [sc EXCEPT ![k].type = t] \in [0 .. size - 1 -> Node]
                /\ Linkage([sc EXCEPT ![k].type = t], count)
           /\ \A q \in Quants :
                /\ [sc EXCEPT ![k].quant = q] \in [0 .. size - 1 -> Node]
                /\ Linkage([sc EXCEPT ![k].quant = q], count)
<1>1. ASSUME NEW t \in Types
      PROVE  /\ [sc EXCEPT ![k].type = t] \in [0 .. size - 1 -> Node]
             /\ Linkage([sc EXCEPT ![k].type = t], count)
  <2>1. /\ [sc[k] EXCEPT !.type = t] \in Node
        /\ [sc[k] EXCEPT !.type = t].firstchild = sc[k].firstchild
        /\ [sc[k] EXCEPT !.type = t].lastchild = sc[k].lastchild
        /\ [sc[k] EXCEPT !.type = t].nextsib = sc[k].nextsib
    <3>1. sc[k] \in Node
      OBVIOUS
    <3> QED BY <3>1 DEF Node
  <2> DEFINE n == [sc[k] EXCEPT !.type = t]
  <2>2. [sc EXCEPT ![k].type = t] = [sc EXCEPT ![k] = n]
    OBVIOUS
  <2> HIDE DEF n
  <2> QED BY <2>1, <2>2 DEF Linkage, n
<1>2. ASSUME NEW q \in Quants
      PROVE  /\ [sc EXCEPT ![k].quant = q] \in [0 .. size - 1 -> Node]
             /\ Linkage([sc EXCEPT ![k].quant = q], count)
  <2>1. /\ [sc[k] EXCEPT !.quant = q] \in Node
        /\ [sc[k] EXCEPT !.quant = q].firstchild = sc[k].firstchild
        /\ [sc[k] EXCEPT !.quant = q].lastchild = sc[k].lastchild
        /\ [sc[k] EXCEPT !.quant = q].nextsib = sc[k].nextsib
    <3>1. sc[k] \in Node
      OBVIOUS
    <3> QED BY <3>1 DEF Node
  <2> DEFINE n == [sc[k] EXCEPT !.quant = q]
  <2>2. [sc EXCEPT ![k].quant = q] = [sc EXCEPT ![k] = n]
    OBVIOUS
  <2> HIDE DEF n
  <2> QED BY <2>1, <2>2 DEF Linkage, n
<1> QED
  BY <1>1, <1>2

\* The connectors have room for the level that a group opens.
LEMMA OpenConnectorOK ==
    ASSUME ScaffoldAssumption, ConnectorsOK, NEW lev \in Nat, lev >= 1,
           lev = 1 \/ lev - 1 < groupSize, OpenConnector(lev)
    PROVE  /\ groupSize' \in Nat /\ lev < groupSize' /\ groupSize' > 1
           /\ groupSize' = GroupSizeFor(lev)
           /\ groupConnector' \in [0 .. groupSize' - 1 -> Connectors]
<1>1. groupSize \in Nat /\ groupConnector \in [0 .. groupSize - 1 -> Connectors]
  BY DEF ConnectorsOK
<1>2. InitGroup \in Nat /\ InitGroup > 1
  BY DEF ScaffoldAssumption
<1>3. groupSize' = GroupSizeFor(lev)
  BY DEF OpenConnector
<1>4. groupSize' \in Nat /\ lev < groupSize' /\ groupSize' > 1
  BY <1>1, <1>2, <1>3 DEF GroupSizeFor
<1>5. groupConnector' \in [0 .. groupSize' - 1 -> Connectors]
  <2> DEFINE c(i) == IF i = lev THEN "none" ELSE IF i < groupSize THEN groupConnector[i] ELSE "unset"
  <2>1. \A i \in 0 .. groupSize' - 1 : c(i) \in Connectors
    BY <1>1, <1>4 DEF Connectors
  <2>2. groupConnector' = [i \in 0 .. groupSize' - 1 |-> c(i)]
    BY <1>3 DEF OpenConnector
  <2> HIDE DEF c
  <2> QED BY <2>1, <2>2
<1> QED
  BY <1>3, <1>4, <1>5

\* GROUP_OPEN keeps the scaffold in order, and opens one level of it.
LEMMA GroupOpenOK ==
    ASSUME ScaffoldAssumption, ScaffoldOK, in_eldecl \in BOOLEAN, NEW lev \in Nat,
           GroupSizeFor(lev) \in Nat, GroupSizeFor(lev) > 1, GroupOpen(lev)
    PROVE  /\ ScaffoldOK' /\ in_eldecl' = in_eldecl
           /\ in_eldecl => scaffLevel' = scaffLevel + 1
<1>1. CASE ~in_eldecl
  BY <1>1 DEF GroupOpen, ScaffoldOK, scaffVars
<1>2. CASE in_eldecl
  <2> DEFINE isize == IndexSizeFor(GroupSizeFor(lev))
             grown == IF scaffLevel >= isize THEN 2 * isize ELSE isize
  <2>1. /\ ~PartRefused
        /\ scaffIndexSize' = grown
        /\ scaffIndex' = [i \in 0 .. grown - 1 |->
                            IF i = scaffLevel THEN scaffCount
                            ELSE IF i < scaffIndexSize THEN scaffIndex[i] ELSE UnsetIndex]
        /\ scaffLevel' = scaffLevel + 1
        /\ scaffSize' = PartSize
        /\ scaffold' = [Linked EXCEPT ![scaffCount].type = "SEQ"]
        /\ scaffCount' = scaffCount + 1
        /\ in_eldecl' = in_eldecl /\ contentStringLen' = contentStringLen
    BY <1>2 DEF GroupOpen
  <2>2. /\ scaffCount \in Nat /\ scaffIndexSize \in Nat /\ scaffLevel \in Nat
        /\ scaffLevel <= scaffIndexSize /\ contentStringLen \in Nat
        /\ contentStringLen <= UintMax /\ IntMax \in Nat
        /\ scaffIndex \in [0 .. scaffIndexSize - 1 -> Int]
        /\ \A i \in 0 .. scaffLevel - 1 : scaffIndex[i] \in 0 .. scaffCount - 1
    BY <1>2 DEF ScaffoldOK, ScaffoldAssumption
  <2>3. /\ PartSize \in Nat /\ scaffCount < PartSize /\ PartSize <= UintMax
        /\ Linked \in [0 .. PartSize - 1 -> Node] /\ Linkage(Linked, scaffCount + 1)
    BY <1>2, <2>1, LinkedOK
  <2>4. /\ scaffold' \in [0 .. PartSize - 1 -> Node]
        /\ Linkage(scaffold', scaffCount + 1)
    <3>1. "SEQ" \in Types /\ scaffCount \in 0 .. PartSize - 1 /\ scaffCount + 1 <= PartSize
      BY <2>2, <2>3 DEF Types
    <3>2. scaffCount + 1 \in Nat
      BY <2>2
    <3> QED BY <2>1, <2>3, <3>1, <3>2, FieldOK
  <2>5. /\ isize \in Nat /\ isize > 0 /\ scaffLevel <= isize
        /\ (isize = scaffIndexSize \/ scaffIndexSize = 0)
    BY <2>2 DEF IndexSizeFor
  <2>6. grown \in Nat /\ scaffLevel + 1 <= grown
    BY <2>2, <2>5
  <2>7. scaffIndex' \in [0 .. grown - 1 -> Int]
    BY <2>1, <2>2 DEF UnsetIndex
  <2>8. \A i \in 0 .. scaffLevel : scaffIndex'[i] \in 0 .. scaffCount
    <3> SUFFICES ASSUME NEW i \in 0 .. scaffLevel PROVE scaffIndex'[i] \in 0 .. scaffCount
      OBVIOUS
    <3>1. i \in 0 .. grown - 1
      BY <2>2, <2>6
    <3>2. scaffIndex'[i] = IF i = scaffLevel THEN scaffCount
                           ELSE IF i < scaffIndexSize THEN scaffIndex[i] ELSE UnsetIndex
      BY <2>1, <3>1
    <3>3. i = scaffLevel \/ (i \in 0 .. scaffLevel - 1 /\ i < scaffIndexSize)
      BY <2>2
    <3> QED BY <2>2, <3>2, <3>3
  <2>9. scaffCount + 1 <= IntMax + 1
    BY <2>1, <2>2 DEF PartRefused
  <2> HIDE DEF grown
  <2>a. /\ scaffIndexSize' = grown /\ scaffLevel' = scaffLevel + 1 /\ scaffSize' = PartSize
        /\ scaffCount' = scaffCount + 1 /\ contentStringLen' = contentStringLen
    BY <2>1
  <2>b. /\ scaffCount \in Nat /\ scaffLevel \in Nat /\ contentStringLen \in Nat
        /\ contentStringLen <= UintMax /\ IntMax \in Nat
    BY <2>2
  <2>c. PartSize \in Nat /\ scaffCount < PartSize /\ PartSize <= UintMax
    BY <2>3
  <2>10. /\ scaffCount' \in Nat /\ scaffSize' \in Nat /\ scaffIndexSize' \in Nat
         /\ scaffLevel' \in Nat /\ contentStringLen' \in Nat
         /\ scaffCount' <= scaffSize' /\ scaffCount' <= IntMax + 1
         /\ scaffSize' <= UintMax /\ contentStringLen' <= UintMax
         /\ scaffLevel' <= scaffIndexSize'
    BY <2>a, <2>b, <2>c, <2>6, <2>9
  <2>11. \A i \in 0 .. scaffLevel' - 1 : scaffIndex'[i] \in 0 .. scaffCount' - 1
    BY <2>a, <2>b, <2>8
  <2> QED
    BY <2>1, <2>4, <2>7, <2>10, <2>11 DEF ScaffoldOK
<1> QED
  BY <1>1, <1>2

\* A name adds a node and its length, and neither wraps.
LEMMA ContentElementOK ==
    ASSUME ScaffoldAssumption, ScaffoldOK, in_eldecl \in BOOLEAN,
           NEW name \in DOMAIN NameLen, NEW quant \in Quants, ContentElement(name, quant)
    PROVE  ScaffoldOK' /\ in_eldecl' = in_eldecl /\ scaffLevel' = scaffLevel
<1>1. CASE ~in_eldecl
  BY <1>1 DEF ContentElement, ScaffoldOK, scaffVars
<1>2. CASE in_eldecl
  <2> DEFINE node == [type |-> "NAME", quant |-> quant, name |-> name,
                      firstchild |-> 0, lastchild |-> 0, childcnt |-> 0, nextsib |-> 0]
  <2>1. /\ ~PartRefused /\ ~(NameLen[name] + 1 > UintMax - contentStringLen)
        /\ scaffold' = [Linked EXCEPT ![scaffCount] = node]
        /\ scaffSize' = PartSize /\ scaffCount' = scaffCount + 1
        /\ contentStringLen' = contentStringLen + NameLen[name] + 1
        /\ in_eldecl' = in_eldecl /\ scaffIndex' = scaffIndex
        /\ scaffIndexSize' = scaffIndexSize /\ scaffLevel' = scaffLevel
    BY <1>2 DEF ContentElement, NameRefused
  <2>2. /\ scaffCount \in Nat /\ scaffIndexSize \in Nat /\ scaffLevel \in Nat
        /\ scaffLevel <= scaffIndexSize /\ contentStringLen \in Nat
        /\ contentStringLen <= UintMax /\ IntMax \in Nat /\ NameLen[name] \in Nat
    BY DEF ScaffoldOK, ScaffoldAssumption
  <2>3. /\ scaffIndex \in [0 .. scaffIndexSize - 1 -> Int]
        /\ \A i \in 0 .. scaffLevel - 1 : scaffIndex[i] \in 0 .. scaffCount - 1
    BY <1>2 DEF ScaffoldOK
  <2>4. /\ PartSize \in Nat /\ scaffCount < PartSize /\ PartSize <= UintMax
        /\ Linked \in [0 .. PartSize - 1 -> Node] /\ Linkage(Linked, scaffCount + 1)
    BY <1>2, <2>1, LinkedOK
  <2>5. /\ node \in Node /\ node.firstchild = 0 /\ node.lastchild = 0 /\ node.nextsib = 0
    BY DEF Node, Types
  <2> HIDE DEF node
  <2>6. scaffold' \in [0 .. PartSize - 1 -> Node]
    BY <2>1, <2>4, <2>5
  <2>7. Linkage(scaffold', scaffCount + 1)
    BY <2>1, <2>2, <2>4, <2>5 DEF Linkage
  <2>8. scaffCount + 1 <= IntMax + 1
    BY <2>1, <2>2 DEF PartRefused
  <2>9. /\ scaffSize' = PartSize /\ scaffCount' = scaffCount + 1 /\ scaffLevel' = scaffLevel
        /\ scaffIndexSize' = scaffIndexSize
        /\ contentStringLen' = contentStringLen + NameLen[name] + 1
        /\ ~(NameLen[name] + 1 > UintMax - contentStringLen)
    BY <2>1
  <2>10. PartSize \in Nat /\ scaffCount < PartSize /\ PartSize <= UintMax
    BY <2>4
  <2>11. /\ scaffCount' \in Nat /\ scaffSize' \in Nat /\ scaffIndexSize' \in Nat
         /\ scaffLevel' \in Nat /\ contentStringLen' \in Nat
         /\ scaffCount' <= scaffSize' /\ scaffCount' <= IntMax + 1
         /\ scaffSize' <= UintMax /\ contentStringLen' <= UintMax
         /\ scaffLevel' <= scaffIndexSize'
    BY <2>2, <2>8, <2>9, <2>10
  <2>12. \A i \in 0 .. scaffLevel' - 1 : scaffIndex'[i] \in 0 .. scaffCount' - 1
    BY <2>1, <2>2, <2>3
  <2> QED
    BY <2>1, <2>3, <2>6, <2>7, <2>9, <2>11, <2>12 DEF ScaffoldOK
<1> QED
  BY <1>1, <1>2

\* The open group has a node.
LEMMA OpenNodeOK ==
    ASSUME IInv, in_eldecl, phase = "groups"
    PROVE  /\ scaffLevel = level /\ level >= 1 /\ level \in Nat
           /\ OpenNode(scaffLevel) \in 0 .. scaffCount - 1
           /\ OpenNode(scaffLevel) \in 0 .. scaffSize - 1
<1>1. scaffLevel = level /\ level >= 1 /\ level \in Nat
  BY DEF IInv, GrammarOK
<1>2. /\ scaffCount \in Nat /\ scaffSize \in Nat /\ scaffCount <= scaffSize
      /\ \A i \in 0 .. scaffLevel - 1 : scaffIndex[i] \in 0 .. scaffCount - 1
  BY DEF IInv, ScaffoldOK
<1>3. scaffLevel - 1 \in 0 .. scaffLevel - 1
  BY <1>1
<1> QED
  BY <1>1, <1>2, <1>3 DEF OpenNode

\* Setting a field of the open group's node, as | and #PCDATA do.
LEMMA OpenTypeOK ==
    ASSUME IInv, in_eldecl, phase = "groups", NEW t \in Types,
           scaffold' = [scaffold EXCEPT ![OpenNode(scaffLevel)].type = t],
           UNCHANGED <<in_eldecl, scaffCount, scaffSize, scaffIndex,
                       scaffIndexSize, scaffLevel, contentStringLen>>
    PROVE  ScaffoldOK'
<1>1. OpenNode(scaffLevel) \in 0 .. scaffSize - 1
  BY OpenNodeOK
<1>2. /\ scaffSize \in Nat /\ scaffCount \in Nat /\ scaffCount <= scaffSize
      /\ scaffold \in [0 .. scaffSize - 1 -> Node] /\ Linkage(scaffold, scaffCount)
  BY DEF IInv, ScaffoldOK
<1> DEFINE k == OpenNode(scaffLevel)
<1> HIDE DEF k
<1>3. scaffold' = [scaffold EXCEPT ![k].type = t] /\ k \in 0 .. scaffSize - 1
  BY <1>1 DEF k
<1>4. scaffold' \in [0 .. scaffSize - 1 -> Node] /\ Linkage(scaffold', scaffCount)
  <2>1. /\ [scaffold EXCEPT ![k].type = t] \in [0 .. scaffSize - 1 -> Node]
        /\ Linkage([scaffold EXCEPT ![k].type = t], scaffCount)
    BY <1>2, <1>3, FieldOK
  <2> QED BY <1>3, <2>1
<1>5. Linkage(scaffold, scaffCount)' /\ scaffold' \in [0 .. scaffSize' - 1 -> Node]
  BY <1>4
<1>6. /\ scaffCount' \in Nat /\ scaffSize' \in Nat /\ scaffIndexSize' \in Nat
      /\ scaffLevel' \in Nat /\ contentStringLen' \in Nat
      /\ scaffIndex' \in [0 .. scaffIndexSize' - 1 -> Int]
      /\ scaffCount' <= scaffSize' /\ scaffCount' <= IntMax + 1
      /\ scaffSize' <= UintMax /\ contentStringLen' <= UintMax
      /\ scaffLevel' <= scaffIndexSize'
      /\ in_eldecl' => \A i \in 0 .. scaffLevel' - 1 : scaffIndex'[i] \in 0 .. scaffCount' - 1
  BY DEF IInv, ScaffoldOK
<1> QED
  BY <1>5, <1>6 DEF ScaffoldOK

-----------------------------------------------------------------------------
(* Every step.                                                             *)

LEMMA InGroupOK == ASSUME ScaffoldAssumption, IInv, InGroup PROVE IInv'
<1> USE DEF InGroup
<1>1. /\ phase = "groups" /\ level \in Nat /\ level < groupSize /\ groupSize \in Nat
      /\ groupConnector \in [0 .. groupSize - 1 -> Connectors]
  BY DEF IInv, GrammarOK, ConnectorsOK
<1>2. in_eldecl \in BOOLEAN /\ ScaffoldOK
  BY DEF IInv, GrammarOK
<1>3. CASE GroupSequence(level)
  <2>1. ScaffoldOK' /\ UNCHANGED <<in_eldecl, scaffLevel, groupSize>>
    BY <1>2, <1>3 DEF GroupSequence, ScaffoldOK, scaffVars
  <2>2. groupConnector' \in [0 .. groupSize - 1 -> Connectors]
    BY <1>1, <1>3 DEF GroupSequence, Connectors
  <2> QED BY <1>1, <2>1, <2>2 DEF IInv, ConnectorsOK, GrammarOK
<1>4. CASE GroupChoice(level)
  <2>1. UNCHANGED <<in_eldecl, scaffCount, scaffSize, scaffIndex, scaffIndexSize,
                    scaffLevel, contentStringLen, groupSize>>
    BY <1>4 DEF GroupChoice
  <2>2. ScaffoldOK'
    <3>1. CASE BecomesChoice(level)
      <4>1. "CHOICE" \in Types /\ in_eldecl
            /\ scaffold' = [scaffold EXCEPT ![OpenNode(scaffLevel)].type = "CHOICE"]
        BY <1>4, <3>1 DEF GroupChoice, BecomesChoice, Types
      <4> QED BY <1>1, <2>1, <4>1, OpenTypeOK
    <3>2. CASE ~BecomesChoice(level)
      <4>1. scaffold' = scaffold
        BY <1>4, <3>2 DEF GroupChoice
      <4> QED BY <1>2, <2>1, <4>1 DEF ScaffoldOK
    <3> QED BY <3>1, <3>2
  <2>3. groupConnector' \in [0 .. groupSize - 1 -> Connectors]
    BY <1>1, <1>4 DEF GroupChoice, Connectors
  <2> QED BY <1>1, <2>1, <2>2, <2>3 DEF IInv, ConnectorsOK, GrammarOK
<1>5. CASE ContentPcdata
  <2>1. UNCHANGED <<in_eldecl, scaffCount, scaffSize, scaffIndex, scaffIndexSize,
                    scaffLevel, contentStringLen, groupSize, groupConnector>>
    BY <1>5 DEF ContentPcdata, groupVars
  <2>2. ScaffoldOK'
    <3>1. CASE in_eldecl
      <4>1. /\ "MIXED" \in Types
            /\ scaffold' = [scaffold EXCEPT ![OpenNode(scaffLevel)].type = "MIXED"]
        BY <1>5, <3>1 DEF ContentPcdata, Types
      <4> QED BY <1>1, <2>1, <3>1, <4>1, OpenTypeOK
    <3>2. CASE ~in_eldecl
      <4>1. scaffold' = scaffold
        BY <1>5, <3>2 DEF ContentPcdata
      <4> QED BY <1>2, <2>1, <4>1 DEF ScaffoldOK
    <3> QED BY <1>2, <3>1, <3>2
  <2> QED BY <1>1, <2>1, <2>2 DEF IInv, ConnectorsOK, GrammarOK
<1>6. ASSUME NEW n \in DOMAIN NameLen, NEW q \in Quants, ContentElement(n, q) PROVE IInv'
  <2>1. ScaffoldOK' /\ in_eldecl' = in_eldecl /\ scaffLevel' = scaffLevel
    BY <1>2, <1>6, ContentElementOK
  <2>2. UNCHANGED groupVars
    BY <1>6 DEF ContentElement
  <2> QED BY <1>1, <2>1, <2>2 DEF IInv, ConnectorsOK, GrammarOK, groupVars
<1> QED
  BY <1>3, <1>4, <1>5, <1>6

LEMMA OpenGroupOK == ASSUME ScaffoldAssumption, IInv, OpenGroup PROVE IInv'
<1>1. /\ level' \in Nat /\ level' >= 1 /\ (level' = 1 \/ level' - 1 < groupSize)
      /\ phase' = "groups" /\ elementDecl' = elementDecl /\ GroupOpen(level')
  BY DEF OpenGroup, IInv, GrammarOK, ConnectorsOK
<1>l. PICK lev \in Nat : lev = level'
  BY <1>1
<1>2. /\ groupSize' \in Nat /\ lev < groupSize' /\ groupSize' > 1
      /\ groupSize' = GroupSizeFor(lev)
      /\ groupConnector' \in [0 .. groupSize' - 1 -> Connectors]
  <2>1. OpenConnector(lev) /\ ConnectorsOK
    BY <1>1, <1>l DEF GroupOpen, IInv
  <2> QED BY <1>1, <1>l, <2>1, OpenConnectorOK
<1>3. in_eldecl \in BOOLEAN /\ ScaffoldOK
  BY DEF IInv, GrammarOK
<1>4. /\ ScaffoldOK' /\ in_eldecl' = in_eldecl
      /\ in_eldecl => scaffLevel' = scaffLevel + 1
  BY <1>1, <1>l, <1>2, <1>3, GroupOpenOK
<1>5. in_eldecl => scaffLevel' = level'
  BY <1>4 DEF OpenGroup, IInv, GrammarOK
<1>6. ConnectorsOK'
  BY <1>2, <1>l DEF ConnectorsOK
<1>7. GrammarOK'
  <2>1. elementDecl \in BOOLEAN
    BY DEF IInv, GrammarOK
  <2> QED BY <1>1, <1>3, <1>4, <1>5, <2>1 DEF GrammarOK, Phases
<1> QED
  BY <1>4, <1>6, <1>7 DEF IInv

LEMMA CloseGroupOK == ASSUME ScaffoldAssumption, IInv, CloseGroup PROVE IInv'
<1>1. PICK q \in Quants : GroupClose(q)
  BY DEF CloseGroup
<1>2. /\ phase = "groups" /\ level \in Nat /\ level >= 1 /\ level < groupSize /\ groupSize \in Nat
      /\ groupConnector \in [0 .. groupSize - 1 -> Connectors]
      /\ elementDecl' = elementDecl /\ elementDecl \in BOOLEAN /\ in_eldecl \in BOOLEAN
      /\ groupSize' = groupSize /\ groupConnector' = groupConnector
  BY <1>1 DEF IInv, GrammarOK, ConnectorsOK, CloseGroup, GroupClose, groupVars
<1>3. /\ level' \in Nat /\ level' < groupSize
      /\ \/ level' = level - 1 /\ phase' = IF level' = 0 THEN "idle" ELSE "groups"
         \/ level = 1 /\ level' = 1 /\ phase' = "idle"
  BY <1>2 DEF CloseGroup
<1>4. ConnectorsOK'
  BY <1>2, <1>3 DEF ConnectorsOK
<1>5. CASE ~in_eldecl
  <2>1. UNCHANGED scaffVars
    BY <1>1, <1>5 DEF GroupClose
  <2>2. ScaffoldOK'
    BY <2>1 DEF IInv, ScaffoldOK, scaffVars
  <2>3. GrammarOK'
    BY <1>2, <1>3, <1>5, <2>1 DEF GrammarOK, scaffVars, Phases
  <2> QED BY <1>4, <2>2, <2>3 DEF IInv
<1>6. CASE in_eldecl
  <2>1. /\ scaffLevel = level /\ OpenNode(scaffLevel) \in 0 .. scaffSize - 1
    BY <1>2, <1>6, OpenNodeOK
  <2>2. /\ scaffLevel' = scaffLevel - 1
        /\ scaffold' = [scaffold EXCEPT ![OpenNode(scaffLevel)].quant = q]
        /\ IF scaffLevel = 1 THEN in_eldecl' = FALSE /\ contentStringLen' = 0
           ELSE in_eldecl' = in_eldecl /\ contentStringLen' = contentStringLen
        /\ UNCHANGED <<scaffCount, scaffSize, scaffIndex, scaffIndexSize>>
    BY <1>1, <1>6 DEF GroupClose, OpenNode
  <2>3. /\ scaffSize \in Nat /\ scaffCount \in Nat /\ scaffCount <= scaffSize
        /\ scaffold \in [0 .. scaffSize - 1 -> Node] /\ Linkage(scaffold, scaffCount)
    BY DEF IInv, ScaffoldOK
  <2>4. scaffold' \in [0 .. scaffSize - 1 -> Node] /\ Linkage(scaffold', scaffCount)
    <3> DEFINE k == OpenNode(scaffLevel)
    <3>1. scaffold' = [scaffold EXCEPT ![k].quant = q] /\ k \in 0 .. scaffSize - 1
      BY <2>1, <2>2
    <3> HIDE DEF k
    <3> QED BY <2>3, <3>1, FieldOK
  <2>5. Linkage(scaffold, scaffCount)' /\ scaffold' \in [0 .. scaffSize' - 1 -> Node]
    BY <2>2, <2>4
  <2>6. /\ scaffCount' \in Nat /\ scaffSize' \in Nat /\ scaffIndexSize' \in Nat
        /\ scaffIndex' \in [0 .. scaffIndexSize' - 1 -> Int]
        /\ scaffCount' <= scaffSize' /\ scaffCount' <= IntMax + 1 /\ scaffSize' <= UintMax
    BY <2>2 DEF IInv, ScaffoldOK
  <2>7. /\ scaffLevel' \in Nat /\ scaffLevel' <= scaffIndexSize'
        /\ contentStringLen' \in Nat /\ contentStringLen' <= UintMax
    <3>1. /\ scaffLevel \in Nat /\ scaffIndexSize \in Nat /\ scaffLevel <= scaffIndexSize
          /\ contentStringLen \in Nat /\ contentStringLen <= UintMax /\ IntMax \in Nat
      BY DEF IInv, ScaffoldOK, ScaffoldAssumption
    <3>2. /\ scaffLevel' = scaffLevel - 1 /\ scaffIndexSize' = scaffIndexSize
          /\ (contentStringLen' = 0 \/ contentStringLen' = contentStringLen)
      BY <2>2
    <3> QED BY <1>2, <2>1, <3>1, <3>2
  <2>8. \A i \in 0 .. scaffLevel' - 1 : scaffIndex'[i] \in 0 .. scaffCount' - 1
    BY <1>2, <1>6, <2>1, <2>2, SMTT(30) DEF IInv, ScaffoldOK
  <2>9. ScaffoldOK'
    BY <2>5, <2>6, <2>7, <2>8 DEF ScaffoldOK
  <2>10. GrammarOK'
    <3>1. in_eldecl' => scaffLevel # 1
      BY <2>2
    <3>2. in_eldecl' \in BOOLEAN
      BY <1>2, <2>2
    <3> QED BY <1>2, <1>3, <2>1, <2>2, <3>1, <3>2 DEF GrammarOK, Phases
  <2> QED BY <1>4, <2>9, <2>10 DEF IInv
<1> QED
  BY <1>2, <1>5, <1>6

LEMMA FailOK == ASSUME ScaffoldAssumption, IInv, Fail PROVE IInv'
<1>1. phase' = "failed" /\ UNCHANGED <<elementDecl, scaffVars, model>>
  BY DEF Fail
<1>2. ScaffoldOK'
  BY <1>1 DEF IInv, ScaffoldOK, scaffVars
<1>3. CASE UNCHANGED <<level, groupVars>>
  BY <1>1, <1>2, <1>3 DEF IInv, ConnectorsOK, GrammarOK, scaffVars, groupVars, Phases
<1>4. CASE /\ phase \in {"name", "groups"}
           /\ level' = IF phase = "name" THEN 1 ELSE level + 1
           /\ OpenConnector(level')
  <2>1. level' \in Nat /\ level' >= 1 /\ (level' = 1 \/ level' - 1 < groupSize)
    BY <1>4 DEF IInv, GrammarOK, ConnectorsOK
  <2>l. PICK lev \in Nat : lev = level'
    BY <2>1
  <2>2. groupSize' \in Nat /\ groupConnector' \in [0 .. groupSize' - 1 -> Connectors]
    <3>1. ConnectorsOK
      BY DEF IInv
    <3> QED BY <1>4, <2>1, <2>l, <3>1, OpenConnectorOK
  <2> QED BY <1>1, <1>2, <2>1, <2>2 DEF IInv, ConnectorsOK, GrammarOK, scaffVars, Phases
<1> QED
  BY <1>3, <1>4 DEF Fail

LEMMA OtherOK ==
    ASSUME ScaffoldAssumption, IInv,
           SetElementDeclHandler \/ BeginDeclaration \/ NoGroups \/ ResetParser
           \/ UNCHANGED scaffoldVars
    PROVE  IInv'
<1>1. CASE SetElementDeclHandler
  BY <1>1 DEF SetElementDeclHandler, IInv, ScaffoldOK, ConnectorsOK, GrammarOK, scaffVars, groupVars
<1>2. CASE BeginDeclaration
  <2>1. /\ ConnectorsOK' /\ ~in_eldecl /\ elementDecl \in BOOLEAN /\ elementDecl' = elementDecl
        /\ level \in Nat /\ level' = level /\ phase' = "name"
    BY <1>2 DEF BeginDeclaration, IInv, ConnectorsOK, GrammarOK, ElementName, groupVars
  <2>2. CASE elementDecl
    <3>1. /\ in_eldecl' = TRUE /\ scaffLevel' = 0 /\ scaffCount' = 0
          /\ UNCHANGED <<scaffold, scaffSize, scaffIndex, scaffIndexSize, contentStringLen>>
      BY <1>2, <2>2 DEF BeginDeclaration, ElementName
    <3>2. ScaffoldOK'
      BY <3>1 DEF IInv, ScaffoldOK, Linkage, ScaffoldAssumption
    <3> QED BY <2>1, <3>1, <3>2 DEF IInv, GrammarOK, Phases
  <2>3. CASE ~elementDecl
    <3>1. UNCHANGED scaffVars
      BY <1>2, <2>3 DEF BeginDeclaration, ElementName
    <3> QED BY <2>1, <3>1 DEF IInv, GrammarOK, Phases, scaffVars, ScaffoldOK
  <2> QED BY <2>1, <2>2, <2>3
<1>3. CASE NoGroups
  BY <1>3 DEF NoGroups, ContentAnyOrEmpty, IInv, ScaffoldOK, ConnectorsOK, GrammarOK,
              groupVars, Phases
<1>4. CASE ResetParser
  <2>1. /\ <<>> \in [0 .. 0 - 1 -> Node] /\ <<>> \in [0 .. 0 - 1 -> Int]
    OBVIOUS
  <2>2. ScaffoldOK'
    BY <1>4, <2>1 DEF ResetParser, ResetScaffold, ScaffoldOK, Linkage, ScaffoldAssumption
  <2>3. ConnectorsOK'
    BY <1>4 DEF ResetParser, ResetScaffold, IInv, ConnectorsOK, groupVars
  <2> QED BY <1>4, <2>2, <2>3 DEF ResetParser, ResetScaffold, IInv, GrammarOK, Phases
<1>5. CASE UNCHANGED scaffoldVars
  BY <1>5 DEF IInv, ScaffoldOK, ConnectorsOK, GrammarOK, scaffVars, groupVars, scaffoldVars
<1> QED
  BY <1>1, <1>2, <1>3, <1>4, <1>5

\* The inductive invariant says that no index leaves its array.
LEMMA InvImpliesInRange == ASSUME ScaffoldAssumption, IInv PROVE IndicesInRange
<1>1. phase = "groups" => level \in DOMAIN groupConnector
  BY DEF IInv, ConnectorsOK, GrammarOK
<1>2. in_eldecl /\ phase = "groups" =>
         /\ scaffLevel = level
         /\ scaffLevel - 1 \in DOMAIN scaffIndex
         /\ OpenNode(scaffLevel) \in 0 .. scaffCount - 1
  BY OpenNodeOK DEF IInv, ScaffoldOK
<1>3. /\ scaffCount <= scaffSize /\ DOMAIN scaffold = 0 .. scaffSize - 1
      /\ scaffCount <= IntMax + 1 /\ scaffSize <= UintMax /\ contentStringLen <= UintMax
  BY DEF IInv, ScaffoldOK
<1>4. \A i \in 0 .. scaffCount - 1 :
         {scaffold[i].firstchild, scaffold[i].lastchild, scaffold[i].nextsib}
           \subseteq 0 .. scaffCount - 1
  BY DEF IInv, ScaffoldOK, Linkage
<1> QED
  BY <1>1, <1>2, <1>3, <1>4 DEF IndicesInRange

\* The arrays of a content model, the connectors, the open groups and the
\* nodes, are never indexed outside their bounds, and no count of
\* nextScaffoldPart or of the names' length wraps.
THEOREM ScaffoldStaysInRange ==
    ASSUME ScaffoldAssumption PROVE ScaffoldSpec => []IndicesInRange
<1>1. ScaffoldInit => IInv
  BY InitOK
<1>2. IInv /\ [ScaffoldNext]_scaffoldVars => IInv'
  BY InGroupOK, OpenGroupOK, CloseGroupOK, FailOK, OtherOK DEF ScaffoldNext
<1>3. IInv => IndicesInRange
  BY InvImpliesInRange
<1> QED
  BY <1>1, <1>2, <1>3, PTL DEF ScaffoldSpec
=============================================================================
