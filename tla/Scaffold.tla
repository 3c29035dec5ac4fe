------------------------------ MODULE Scaffold ------------------------------
(***************************************************************************)
(* The content model of an element declaration while it is being read:     *)
(* the connectors of the open groups, one char per level, which belong to  *)
(* the parser, and the scaffold, a tree of CONTENT_SCAFFOLD nodes in an    *)
(* array that doubles, which belongs to the DTD.  doProlog drives them     *)
(* with the roles GROUP_OPEN, CONTENT_ELEMENT, GROUP_CLOSE ...; the handler*)
(* is given the tree that build_model makes of the scaffold.               *)
(*                                                                         *)
(* Arrays are functions from their indices, so an access out of bounds is  *)
(* an application outside the domain.                                      *)
(***************************************************************************)
EXTENDS Integers, Sequences

CONSTANTS NameLen,        \* the length of every element name
          InitGroup,      \* connectors allocated first (32 in the code)
          InitScaffold,   \* INIT_SCAFFOLD_ELEMENTS
          IntMax          \* INT_MAX; UINT_MAX is twice that and one

ScaffoldAssumption ==
    /\ InitGroup \in Nat /\ InitGroup > 1
    /\ IntMax \in Nat /\ IntMax > 0
    /\ InitScaffold \in 1 .. IntMax
    /\ NameLen \in [DOMAIN NameLen -> Nat \ {0}]

VARIABLES
    phase,             \* where the declaration is: see Phases
    level,             \* m_prologState.level, behind the token
    groupSize, groupConnector,
    elementDecl,       \* is an element declaration handler installed
    in_eldecl, scaffold, scaffCount, scaffSize,
    scaffIndex, scaffIndexSize, scaffLevel, contentStringLen,
    model              \* the model the handler was given, NoModel before

groupVars == <<groupSize, groupConnector>>
scaffVars == <<in_eldecl, scaffold, scaffCount, scaffSize,
               scaffIndex, scaffIndexSize, scaffLevel, contentStringLen>>
scaffoldVars == <<phase, level, groupVars, elementDecl, scaffVars, model>>

UintMax == 2 * IntMax + 1
Quants == {"", "?", "*", "+"}
NoModel == <<>>
NoName == "NULL"

\* "name" is the handler element1, "groups" element2 to element7, "failed"
\* a parse that has ended in an error, "idle" everything else.
Phases == {"idle", "name", "groups", "failed"}

\* What malloc leaves in the arrays.
UnsetIndex == -1
Unset == [type |-> "unset", quant |-> "unset", name |-> NoName,
          firstchild |-> 0, lastchild |-> 0, childcnt |-> 0, nextsib |-> 0]

ScaffoldInit ==
    /\ phase = "idle" /\ level = 0
    /\ groupSize = 0 /\ groupConnector = <<>>
    /\ elementDecl \in BOOLEAN
    /\ in_eldecl = FALSE
    /\ scaffold = <<>> /\ scaffCount = 0 /\ scaffSize = 0
    /\ scaffIndex = <<>> /\ scaffIndexSize = 0 /\ scaffLevel = 0
    /\ contentStringLen = 0
    /\ model = NoModel

-----------------------------------------------------------------------------
(* nextScaffoldPart.                                                       *)

\* The index array is allocated with as many entries as there are
\* connectors, once.
IndexSizeFor(groups) == IF scaffIndexSize = 0 THEN groups ELSE scaffIndexSize

\* The array of nodes has no room left, and doubling it would overflow.
PartRefused ==
    \/ scaffCount > IntMax
    \/ scaffCount >= scaffSize /\ scaffSize > UintMax \div 2

PartSize ==
    IF scaffCount < scaffSize THEN scaffSize
    ELSE IF scaffSize = 0 THEN InitScaffold ELSE 2 * scaffSize

\* The node of the group that is open at a scaffold level.
OpenNode(lev) == scaffIndex[lev - 1]

Relinked(node, first, last, cnt, sib) ==
    [type |-> node.type, quant |-> node.quant, name |-> node.name,
     firstchild |-> first, lastchild |-> last, childcnt |-> cnt, nextsib |-> sib]

\* The scaffold with one more node, linked as the last child of the open
\* group.  The node keeps the type, quant and name its memory held.
Linked ==
    LET next == scaffCount
        old(i) == IF i < scaffSize THEN scaffold[i] ELSE Unset
        nested == scaffLevel # 0
        parent == OpenNode(scaffLevel)
        last == old(parent).lastchild
    IN [i \in 0 .. PartSize - 1 |->
          IF i = next
          THEN Relinked(old(i), 0, 0, 0, 0)
          ELSE IF nested /\ i = parent
          THEN Relinked(old(i), IF old(i).childcnt = 0 THEN next ELSE old(i).firstchild,
                        next, old(i).childcnt + 1, old(i).nextsib)
          ELSE IF nested /\ last # 0 /\ i = last
          THEN Relinked(old(i), old(i).firstchild, old(i).lastchild, old(i).childcnt, next)
          ELSE old(i)]

-----------------------------------------------------------------------------
(* build_model: the scaffold rewritten as the array the handler owns, in   *)
(* which siblings are adjacent.  jobs is the order in which the nodes are  *)
(* written, each one's children being appended when it is its turn.        *)

Children(sc, n) ==
    LET nth[k \in 0 .. sc[n].childcnt] ==
            IF k = 0 THEN sc[n].firstchild ELSE sc[nth[k - 1]].nextsib
    IN [k \in 1 .. sc[n].childcnt |-> nth[k - 1]]

IsName(node) == node.type = "NAME"

Jobs(sc, count) ==
    LET upTo[k \in 0 .. count] ==
            IF k = 0 THEN <<0>>
            ELSE LET n == upTo[k - 1][k]
                 IN IF IsName(sc[n]) THEN upTo[k - 1]
                    ELSE upTo[k - 1] \o Children(sc, n)
    IN upTo[count]

\* The children of a group start where jobDest stood: behind the root and
\* the children of the groups before it.
FirstJob(sc, jobs, k) ==
    LET before[i \in 0 .. k - 1] ==
            IF i = 0 THEN 1
            ELSE before[i - 1] + (IF IsName(sc[jobs[i]]) THEN 0 ELSE sc[jobs[i]].childcnt)
    IN before[k - 1]

build_model(sc, count) ==
    LET jobs == Jobs(sc, count)
    IN [k \in 1 .. count |->
          LET node == sc[jobs[k]] IN
          [type |-> node.type, quant |-> node.quant,
           name |-> IF IsName(node) THEN node.name ELSE NoName,
           numchildren |-> IF IsName(node) THEN 0 ELSE node.childcnt,
           children |-> IF IsName(node) THEN 0 ELSE FirstJob(sc, jobs, k) + 1]]

-----------------------------------------------------------------------------
(* The roles, as doProlog handles them.  lev is the level behind the token.*)

GroupSizeFor(lev) ==
    IF lev < groupSize THEN groupSize
    ELSE IF groupSize = 0 THEN InitGroup ELSE 2 * groupSize

\* XML_ROLE_ELEMENT_NAME
ElementName ==
    /\ IF elementDecl
       THEN /\ in_eldecl' = TRUE /\ scaffLevel' = 0 /\ scaffCount' = 0
            /\ UNCHANGED <<scaffold, scaffSize, scaffIndex, scaffIndexSize, contentStringLen>>
       ELSE UNCHANGED scaffVars
    /\ model' = NoModel
    /\ UNCHANGED groupVars

\* XML_ROLE_CONTENT_ANY and XML_ROLE_CONTENT_EMPTY
ContentAnyOrEmpty(type) ==
    /\ model' = IF in_eldecl /\ elementDecl
                THEN << [type |-> type, quant |-> "", name |-> NoName,
                         numchildren |-> 0, children |-> 0] >>
                ELSE model
    /\ in_eldecl' = FALSE
    /\ UNCHANGED <<groupVars, scaffold, scaffCount, scaffSize, scaffIndex,
                   scaffIndexSize, scaffLevel, contentStringLen>>

\* XML_ROLE_GROUP_OPEN: the connector of the new level, then its node.
OpenConnector(lev) ==
    /\ groupSize' = GroupSizeFor(lev)
    /\ groupConnector' = [i \in 0 .. GroupSizeFor(lev) - 1 |->
                            IF i = lev THEN "none"
                            ELSE IF i < groupSize THEN groupConnector[i] ELSE "unset"]

GroupOpen(lev) ==
    LET size == GroupSizeFor(lev)
        isize == IndexSizeFor(size)
        grown == IF scaffLevel >= isize THEN 2 * isize ELSE isize
    IN /\ OpenConnector(lev)
       /\ IF in_eldecl
          THEN /\ ~PartRefused
               /\ scaffIndexSize' = grown
               /\ scaffIndex' = [i \in 0 .. grown - 1 |->
                                   IF i = scaffLevel THEN scaffCount
                                   ELSE IF i < scaffIndexSize THEN scaffIndex[i] ELSE UnsetIndex]
               /\ scaffLevel' = scaffLevel + 1
               /\ scaffSize' = PartSize
               /\ scaffold' = [Linked EXCEPT ![scaffCount].type = "SEQ"]
               /\ scaffCount' = scaffCount + 1
               /\ UNCHANGED <<in_eldecl, contentStringLen>>
          ELSE UNCHANGED scaffVars
       /\ UNCHANGED model

\* XML_ROLE_GROUP_SEQUENCE; a group with a | in it is a syntax error.
SequenceAllowed(lev) == groupConnector[lev] # "PIPE"
GroupSequence(lev) ==
    /\ SequenceAllowed(lev)
    /\ groupConnector' = [groupConnector EXCEPT ![lev] = "COMMA"]
    /\ UNCHANGED <<groupSize, scaffVars, model>>

\* XML_ROLE_GROUP_CHOICE
ChoiceAllowed(lev) == groupConnector[lev] # "COMMA"
BecomesChoice(lev) ==
    /\ in_eldecl /\ groupConnector[lev] = "none"
    /\ scaffold[OpenNode(scaffLevel)].type # "MIXED"
GroupChoice(lev) ==
    /\ ChoiceAllowed(lev)
    /\ IF BecomesChoice(lev)
       THEN scaffold' = [scaffold EXCEPT ![OpenNode(scaffLevel)].type = "CHOICE"]
       ELSE UNCHANGED scaffold
    /\ groupConnector' = [groupConnector EXCEPT ![lev] = "PIPE"]
    /\ UNCHANGED <<groupSize, in_eldecl, scaffCount, scaffSize, scaffIndex,
                   scaffIndexSize, scaffLevel, contentStringLen, model>>

\* XML_ROLE_CONTENT_PCDATA
ContentPcdata ==
    /\ IF in_eldecl
       THEN scaffold' = [scaffold EXCEPT ![OpenNode(scaffLevel)].type = "MIXED"]
       ELSE UNCHANGED scaffold
    /\ UNCHANGED <<groupVars, in_eldecl, scaffCount, scaffSize, scaffIndex,
                   scaffIndexSize, scaffLevel, contentStringLen, model>>

\* XML_ROLE_CONTENT_ELEMENT and its variants with a quantifier
NameRefused(name) ==
    in_eldecl /\ (PartRefused \/ NameLen[name] + 1 > UintMax - contentStringLen)
ContentElement(name, quant) ==
    /\ ~NameRefused(name)
    /\ IF in_eldecl
       THEN /\ scaffold' = [Linked EXCEPT ![scaffCount] =
                              [type |-> "NAME", quant |-> quant, name |-> name,
                               firstchild |-> 0, lastchild |-> 0, childcnt |-> 0, nextsib |-> 0]]
            /\ scaffSize' = PartSize
            /\ scaffCount' = scaffCount + 1
            /\ contentStringLen' = contentStringLen + NameLen[name] + 1
            /\ UNCHANGED <<in_eldecl, scaffIndex, scaffIndexSize, scaffLevel>>
       ELSE UNCHANGED scaffVars
    /\ UNCHANGED <<groupVars, model>>

\* XML_ROLE_GROUP_CLOSE and its variants with a quantifier
GroupClose(quant) ==
    /\ IF in_eldecl
       THEN LET closed == [scaffold EXCEPT ![scaffIndex[scaffLevel - 1]].quant = quant] IN
            /\ scaffLevel' = scaffLevel - 1
            /\ scaffold' = closed
            /\ IF scaffLevel = 1
               THEN /\ model' = IF elementDecl THEN build_model(closed, scaffCount) ELSE model
                    /\ in_eldecl' = FALSE
                    /\ contentStringLen' = 0
               ELSE UNCHANGED <<model, in_eldecl, contentStringLen>>
            /\ UNCHANGED <<scaffCount, scaffSize, scaffIndex, scaffIndexSize>>
       ELSE UNCHANGED <<scaffVars, model>>
    /\ UNCHANGED groupVars

\* dtdReset, as part of XML_ParserReset; the connectors stay.
ResetScaffold ==
    /\ in_eldecl' = FALSE
    /\ scaffold' = <<>> /\ scaffCount' = 0 /\ scaffSize' = 0
    /\ scaffIndex' = <<>> /\ scaffIndexSize' = 0 /\ scaffLevel' = 0
    /\ contentStringLen' = 0
    /\ model' = NoModel
    /\ UNCHANGED groupVars

-----------------------------------------------------------------------------
(* The component by itself: the roles in any order the handlers element0   *)
(* to element7 give them, on any names.                                    *)

SetElementDeclHandler ==
    /\ elementDecl' = ~elementDecl
    /\ UNCHANGED <<phase, level, groupVars, scaffVars, model>>

BeginDeclaration ==
    /\ phase = "idle" /\ phase' = "name"
    /\ ElementName
    /\ UNCHANGED <<level, elementDecl>>

NoGroups ==
    /\ phase = "name" /\ phase' = "idle"
    /\ \E type \in {"ANY", "EMPTY"} : ContentAnyOrEmpty(type)
    /\ UNCHANGED <<level, elementDecl>>

OpenGroup ==
    /\ phase \in {"name", "groups"} /\ phase' = "groups"
    /\ level' = IF phase = "name" THEN 1 ELSE level + 1
    /\ GroupOpen(level')
    /\ UNCHANGED elementDecl

InGroup ==
    /\ phase = "groups"
    /\ \/ GroupSequence(level) \/ GroupChoice(level) \/ ContentPcdata
       \/ \E n \in DOMAIN NameLen, q \in Quants : ContentElement(n, q)
    /\ UNCHANGED <<phase, level, elementDecl>>

\* The only group of a mixed model is closed without level being counted down.
CloseGroup ==
    /\ phase = "groups"
    /\ \/ level' = level - 1 /\ phase' = IF level' = 0 THEN "idle" ELSE "groups"
       \/ level = 1 /\ level' = 1 /\ phase' = "idle"
    /\ \E q \in Quants : GroupClose(q)
    /\ UNCHANGED elementDecl

\* An error, of the grammar or of an allocation: doProlog returns and is not
\* called again.  The connectors may have been written before it; this parser
\* does not read what the DTD holds again before dtdReset.
Fail ==
    /\ phase # "failed" /\ phase' = "failed"
    /\ \/ UNCHANGED <<level, groupVars>>
       \/ /\ phase \in {"name", "groups"}
          /\ level' = IF phase = "name" THEN 1 ELSE level + 1
          /\ OpenConnector(level')
    /\ UNCHANGED <<elementDecl, scaffVars, model>>

ResetParser ==
    /\ phase' = "idle" /\ level' = 0
    /\ ResetScaffold
    /\ elementDecl' = FALSE

ScaffoldNext ==
    \/ SetElementDeclHandler \/ BeginDeclaration \/ NoGroups \/ OpenGroup
    \/ InGroup \/ CloseGroup \/ Fail \/ ResetParser

ScaffoldSpec == ScaffoldInit /\ [][ScaffoldNext]_scaffoldVars

-----------------------------------------------------------------------------
\* No array is indexed outside its bounds: the connector of the open level,
\* the index of the open group, the node it names and every link of a node in
\* use exist, the depth of the scaffold being the level of the grammar; and
\* the counts stay inside the int and the unsigned int that hold them.
IndicesInRange ==
    /\ phase = "groups" => level \in DOMAIN groupConnector
    /\ in_eldecl /\ phase = "groups" =>
         /\ scaffLevel = level
         /\ scaffLevel - 1 \in DOMAIN scaffIndex
         /\ OpenNode(scaffLevel) \in 0 .. scaffCount - 1
    /\ scaffCount <= scaffSize /\ DOMAIN scaffold = 0 .. scaffSize - 1
    /\ \A i \in 0 .. scaffCount - 1 :
         {scaffold[i].firstchild, scaffold[i].lastchild, scaffold[i].nextsib}
           \subseteq 0 .. scaffCount - 1
    /\ scaffCount <= IntMax + 1 /\ scaffSize <= UintMax /\ contentStringLen <= UintMax
=============================================================================
