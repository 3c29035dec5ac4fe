---------------------------- MODULE PrologProofs ----------------------------
(***************************************************************************)
(* doProlog on every document, whatever its tokens, handlers and depth:    *)
(* its content models are the component Scaffold, the first declaration of *)
(* an attribute binds, and an entity that is not read stops the DTD.       *)
(***************************************************************************)
EXTENDS Prolog, TLAPS

-----------------------------------------------------------------------------
(* The grammar: where the rows of the handlers lead.                       *)

Outside ==
    { "error", "declClose", "externalSubset0", "externalSubset1", "internalSubset",
      "prolog0", "prolog1", "prolog2", "doctype0", "doctype1", "doctype2",
      "doctype3", "doctype4", "doctype5", "condSect0", "condSect1",
      "condSect2", "entity0", "entity1", "entity2", "entity3", "entity4",
      "entity5", "entity6", "entity7", "entity8", "entity9", "entity10",
      "notation0", "notation1", "notation2", "notation3", "notation4",
      "attlist0", "attlist1", "attlist2", "attlist3", "attlist4", "attlist5",
      "attlist6", "attlist7", "attlist8", "attlist9", "element0" }
Inside == { "element1", "element2", "element3", "element4", "element5", "element6", "element7" }
FirstLevel == { "element2", "element3", "element4", "element5" }
NoneRoles == { "NONE", "ENTITY_NONE", "NOTATION_NONE", "ELEMENT_NONE" }

(* A PROLOG_STATE: the handlers of the first group of a model have level 1,*)
(* and prolog0 reads the document entity.                                  *)
States == [handler : Outside \cup Inside, documentEntity : BOOLEAN, includeLevel : Int,
           level : Int, role_none : NoneRoles]
StateOK(s) ==
    /\ s \in States
    /\ s.handler \in FirstLevel => s.level = 1
    /\ s.handler = "prolog0" => s.documentEntity

PhaseOf(s) ==
    IF s.handler = "element1" THEN "name" ELSE IF Idle(s) THEN "idle" ELSE "groups"

ModelRoles ==
    { "ERROR", "ELEMENT_NAME", "CONTENT_ANY", "CONTENT_EMPTY", "CONTENT_PCDATA",
      "GROUP_OPEN", "GROUP_SEQUENCE", "GROUP_CHOICE" } \cup NameRoles \cup CloseRoles
Plain(role) == role \notin ModelRoles

(* What a row of handler h may be. *)
Special == { "same", "topLevel", "endEntity", "endNotation", "openSection", "closeSection" }
RowOK(h, row) ==
    /\ \/ h \notin Inside /\ row[3] \in Outside \cup Special /\ Plain(row[4])
       \/ h = "element0" /\ row[3] = "element1" /\ row[4] = "ELEMENT_NAME"
       \/ h = "element1" /\ row[3] = "element1" /\ Plain(row[4])
       \/ h = "element1" /\ row[3] = "endElement" /\ row[4] \in {"CONTENT_ANY", "CONTENT_EMPTY"}
       \/ h = "element1" /\ row[3] = "firstGroup" /\ row[4] = "GROUP_OPEN"
       \/ h = "element2" /\ row[3] = "secondGroup" /\ row[4] = "GROUP_OPEN"
       \/ h = "element6" /\ row[3] = "openGroup" /\ row[4] = "GROUP_OPEN"
       \/ /\ \/ h \in FirstLevel /\ row[3] \in FirstLevel
             \/ h \in Inside \ {"element1"} /\ row[3] \in {"element6", "element7"}
          /\ \/ Plain(row[4])
             \/ row[4] \in {"GROUP_SEQUENCE", "GROUP_CHOICE", "CONTENT_PCDATA"}
             \/ row[4] \in NameRoles /\ row[1] \in NameKinds
       \/ h \in {"element3", "element5"} /\ row[3] = "endElement" /\ row[4] \in CloseRoles
       \/ h = "element7" /\ row[3] = "closeGroup" /\ row[4] \in CloseRoles
    /\ row[4] \in ModelRoles => row[1] # "NONE"
    /\ row[4] = "XML_DECL" => h = "prolog0"
    /\ row[3] = "prolog0" => h = "prolog0" /\ row[4] = "NONE"
    /\ row[3] = "same" => h # "prolog0" /\ h \notin Inside
    /\ row[3] = "error" => h \notin Inside

LEMMA RowsOfSubsets ==
    ASSUME NEW s, NEW row \in Rows(s),
           s.handler \in {"internalSubset", "externalSubset0", "externalSubset1"}
    PROVE  RowOK(s.handler, row)
<1> USE DEF Space, RowOK, Plain, ModelRoles, NameRoles, CloseRoles, Inside, Outside, Special
<1>1. ASSUME NEW h \in {"internalSubset", "externalSubset0", "externalSubset1"},
             NEW r \in internalSubset
      PROVE  RowOK(h, r)
  BY <1>1 DEF internalSubset
<1>2. ASSUME NEW h \in {"externalSubset0", "externalSubset1"},
             NEW r \in externalSubset1(s)
      PROVE  RowOK(h, r)
  BY <1>1, <1>2 DEF externalSubset1
<1> HIDE DEF Space, RowOK, Plain, ModelRoles, NameRoles, CloseRoles, Inside, Outside, Special
<1>3. CASE s.handler = "internalSubset"
  BY <1>1, <1>3 DEF Rows
<1>4. CASE s.handler = "externalSubset1"
  BY <1>2, <1>4 DEF Rows
<1>5. CASE s.handler = "externalSubset0"
  <2>1. \/ row \in externalSubset1(s)
        \/ row = <<"XML_DECL", AnyWord, "externalSubset1", "TEXT_DECL">>
    BY <1>5 DEF Rows, externalSubset0
  <2>2. CASE row \in externalSubset1(s)
    BY <1>2, <1>5, <2>2
  <2>3. CASE row = <<"XML_DECL", AnyWord, "externalSubset1", "TEXT_DECL">>
    BY <1>5, <2>3 DEF RowOK, Plain, ModelRoles, NameRoles, CloseRoles, Inside, Outside
  <2> QED BY <2>1, <2>2, <2>3, Zenon
<1> QED BY <1>3, <1>4, <1>5

LEMMA TableOfProlog ==
    ASSUME NEW s
    PROVE  /\ s.handler = "prolog0" => Rows(s) = prolog0
           /\ s.handler = "prolog1" => Rows(s) = prolog1
           /\ s.handler = "prolog2" => Rows(s) = prolog2
           /\ s.handler = "doctype0" => Rows(s) = doctype0
           /\ s.handler = "doctype1" => Rows(s) = doctype1
           /\ s.handler = "doctype2" => Rows(s) = doctype2
           /\ s.handler = "doctype3" => Rows(s) = doctype3
           /\ s.handler = "doctype4" => Rows(s) = doctype4
           /\ s.handler = "doctype5" => Rows(s) = doctype5
<1>1. s.handler = "prolog0" => Rows(s) = prolog0
  BY DEF Rows
<1>2. s.handler = "prolog1" => Rows(s) = prolog1
  BY DEF Rows
<1>3. s.handler = "prolog2" => Rows(s) = prolog2
  BY DEF Rows
<1>4. s.handler = "doctype0" => Rows(s) = doctype0
  BY DEF Rows
<1>5. s.handler = "doctype1" => Rows(s) = doctype1
  BY DEF Rows
<1>6. s.handler = "doctype2" => Rows(s) = doctype2
  BY DEF Rows
<1>7. s.handler = "doctype3" => Rows(s) = doctype3
  BY DEF Rows
<1>8. s.handler = "doctype4" => Rows(s) = doctype4
  BY DEF Rows
<1>9. s.handler = "doctype5" => Rows(s) = doctype5
  BY DEF Rows
<1> QED BY <1>1, <1>2, <1>3, <1>4, <1>5, <1>6, <1>7, <1>8, <1>9

LEMMA RowsOfProlog ==
    ASSUME NEW s, NEW row \in Rows(s),
           s.handler \in {
             "prolog0", "prolog1", "prolog2", "doctype0", "doctype1",
             "doctype2", "doctype3", "doctype4", "doctype5"}
    PROVE  RowOK(s.handler, row)
<1> USE DEF Space, RowOK, Plain, ModelRoles, NameRoles, CloseRoles,
            Inside, Outside, Special
<1>1. CASE s.handler = "prolog0"
  BY <1>1, TableOfProlog DEF prolog0
<1>2. CASE s.handler = "prolog1"
  BY <1>2, TableOfProlog DEF prolog1
<1>3. CASE s.handler = "prolog2"
  BY <1>3, TableOfProlog DEF prolog2
<1>4. CASE s.handler = "doctype0"
  BY <1>4, TableOfProlog DEF doctype0
<1>5. CASE s.handler = "doctype1"
  BY <1>5, TableOfProlog DEF doctype1
<1>6. CASE s.handler = "doctype2"
  BY <1>6, TableOfProlog DEF doctype2
<1>7. CASE s.handler = "doctype3"
  BY <1>7, TableOfProlog DEF doctype3
<1>8. CASE s.handler = "doctype4"
  BY <1>8, TableOfProlog DEF doctype4
<1>9. CASE s.handler = "doctype5"
  BY <1>9, TableOfProlog DEF doctype5
<1> HIDE DEF Space, RowOK, Plain, ModelRoles, NameRoles, CloseRoles,
             Inside, Outside, Special
<1> QED BY <1>1, <1>2, <1>3, <1>4, <1>5, <1>6, <1>7, <1>8, <1>9

LEMMA TableOfSections ==
    ASSUME NEW s
    PROVE  /\ s.handler = "condSect0" => Rows(s) = condSect0
           /\ s.handler = "condSect1" => Rows(s) = condSect1
           /\ s.handler = "condSect2" => Rows(s) = condSect2
<1>1. s.handler = "condSect0" => Rows(s) = condSect0
  BY DEF Rows
<1>2. s.handler = "condSect1" => Rows(s) = condSect1
  BY DEF Rows
<1>3. s.handler = "condSect2" => Rows(s) = condSect2
  BY DEF Rows
<1> QED BY <1>1, <1>2, <1>3

LEMMA RowsOfSections ==
    ASSUME NEW s, NEW row \in Rows(s),
           s.handler \in {
             "condSect0", "condSect1", "condSect2"}
    PROVE  RowOK(s.handler, row)
<1> USE DEF Space, RowOK, Plain, ModelRoles, NameRoles, CloseRoles,
            Inside, Outside, Special
<1>1. CASE s.handler = "condSect0"
  BY <1>1, TableOfSections DEF condSect0
<1>2. CASE s.handler = "condSect1"
  BY <1>2, TableOfSections DEF condSect1
<1>3. CASE s.handler = "condSect2"
  BY <1>3, TableOfSections DEF condSect2
<1> HIDE DEF Space, RowOK, Plain, ModelRoles, NameRoles, CloseRoles,
             Inside, Outside, Special
<1> QED BY <1>1, <1>2, <1>3

LEMMA TableOfEntity ==
    ASSUME NEW s
    PROVE  /\ s.handler = "entity0" => Rows(s) = entity0
           /\ s.handler = "entity1" => Rows(s) = entity1
           /\ s.handler = "entity2" => Rows(s) = entity2
           /\ s.handler = "entity3" => Rows(s) = entity3
           /\ s.handler = "entity4" => Rows(s) = entity4
           /\ s.handler = "entity5" => Rows(s) = entity5
           /\ s.handler = "entity6" => Rows(s) = entity6
           /\ s.handler = "entity7" => Rows(s) = entity7
           /\ s.handler = "entity8" => Rows(s) = entity8
           /\ s.handler = "entity9" => Rows(s) = entity9
           /\ s.handler = "entity10" => Rows(s) = entity10
<1>1. s.handler = "entity0" => Rows(s) = entity0
  BY DEF Rows
<1>2. s.handler = "entity1" => Rows(s) = entity1
  BY DEF Rows
<1>3. s.handler = "entity2" => Rows(s) = entity2
  BY DEF Rows
<1>4. s.handler = "entity3" => Rows(s) = entity3
  BY DEF Rows
<1>5. s.handler = "entity4" => Rows(s) = entity4
  BY DEF Rows
<1>6. s.handler = "entity5" => Rows(s) = entity5
  BY DEF Rows
<1>7. s.handler = "entity6" => Rows(s) = entity6
  BY DEF Rows
<1>8. s.handler = "entity7" => Rows(s) = entity7
  BY DEF Rows
<1>9. s.handler = "entity8" => Rows(s) = entity8
  BY DEF Rows
<1>10. s.handler = "entity9" => Rows(s) = entity9
  BY DEF Rows
<1>11. s.handler = "entity10" => Rows(s) = entity10
  BY DEF Rows
<1> QED BY <1>1, <1>2, <1>3, <1>4, <1>5, <1>6, <1>7, <1>8, <1>9, <1>10, <1>11, Zenon

LEMMA RowsOfEntity ==
    ASSUME NEW s, NEW row \in Rows(s),
           s.handler \in {
             "entity0", "entity1", "entity2", "entity3", "entity4", "entity5",
             "entity6", "entity7", "entity8", "entity9", "entity10"}
    PROVE  RowOK(s.handler, row)
<1> USE DEF Space, RowOK, Plain, ModelRoles, NameRoles, CloseRoles,
            Inside, Outside, Special
<1>1. CASE s.handler = "entity0"
  BY <1>1, TableOfEntity DEF entity0
<1>2. CASE s.handler = "entity1"
  BY <1>2, TableOfEntity DEF entity1
<1>3. CASE s.handler = "entity2"
  BY <1>3, TableOfEntity DEF entity2
<1>4. CASE s.handler = "entity3"
  BY <1>4, TableOfEntity DEF entity3
<1>5. CASE s.handler = "entity4"
  BY <1>5, TableOfEntity DEF entity4
<1>6. CASE s.handler = "entity5"
  BY <1>6, TableOfEntity DEF entity5
<1>7. CASE s.handler = "entity6"
  BY <1>7, TableOfEntity DEF entity6
<1>8. CASE s.handler = "entity7"
  BY <1>8, TableOfEntity DEF entity7
<1>9. CASE s.handler = "entity8"
  BY <1>9, TableOfEntity DEF entity8
<1>10. CASE s.handler = "entity9"
  BY <1>10, TableOfEntity DEF entity9
<1>11. CASE s.handler = "entity10"
  BY <1>11, TableOfEntity DEF entity10
<1> HIDE DEF Space, RowOK, Plain, ModelRoles, NameRoles, CloseRoles,
             Inside, Outside, Special
<1> QED BY <1>1, <1>2, <1>3, <1>4, <1>5, <1>6, <1>7, <1>8, <1>9, <1>10, <1>11, Zenon

LEMMA TableOfNotation ==
    ASSUME NEW s
    PROVE  /\ s.handler = "notation0" => Rows(s) = notation0
           /\ s.handler = "notation1" => Rows(s) = notation1
           /\ s.handler = "notation2" => Rows(s) = notation2
           /\ s.handler = "notation3" => Rows(s) = notation3
           /\ s.handler = "notation4" => Rows(s) = notation4
<1>1. s.handler = "notation0" => Rows(s) = notation0
  BY DEF Rows
<1>2. s.handler = "notation1" => Rows(s) = notation1
  BY DEF Rows
<1>3. s.handler = "notation2" => Rows(s) = notation2
  BY DEF Rows
<1>4. s.handler = "notation3" => Rows(s) = notation3
  BY DEF Rows
<1>5. s.handler = "notation4" => Rows(s) = notation4
  BY DEF Rows
<1> QED BY <1>1, <1>2, <1>3, <1>4, <1>5

LEMMA RowsOfNotation ==
    ASSUME NEW s, NEW row \in Rows(s),
           s.handler \in {
             "notation0", "notation1", "notation2", "notation3", "notation4"}
    PROVE  RowOK(s.handler, row)
<1> USE DEF Space, RowOK, Plain, ModelRoles, NameRoles, CloseRoles,
            Inside, Outside, Special
<1>1. CASE s.handler = "notation0"
  BY <1>1, TableOfNotation DEF notation0
<1>2. CASE s.handler = "notation1"
  BY <1>2, TableOfNotation DEF notation1
<1>3. CASE s.handler = "notation2"
  BY <1>3, TableOfNotation DEF notation2
<1>4. CASE s.handler = "notation3"
  BY <1>4, TableOfNotation DEF notation3
<1>5. CASE s.handler = "notation4"
  BY <1>5, TableOfNotation DEF notation4
<1> HIDE DEF Space, RowOK, Plain, ModelRoles, NameRoles, CloseRoles,
             Inside, Outside, Special
<1> QED BY <1>1, <1>2, <1>3, <1>4, <1>5

LEMMA TableOfAttlist ==
    ASSUME NEW s
    PROVE  /\ s.handler = "attlist0" => Rows(s) = attlist0
           /\ s.handler = "attlist1" => Rows(s) = attlist1
           /\ s.handler = "attlist2" => Rows(s) = attlist2
           /\ s.handler = "attlist3" => Rows(s) = attlist3
           /\ s.handler = "attlist4" => Rows(s) = attlist4
           /\ s.handler = "attlist5" => Rows(s) = attlist5
           /\ s.handler = "attlist6" => Rows(s) = attlist6
           /\ s.handler = "attlist7" => Rows(s) = attlist7
           /\ s.handler = "attlist8" => Rows(s) = attlist8
           /\ s.handler = "attlist9" => Rows(s) = attlist9
<1>1. s.handler = "attlist0" => Rows(s) = attlist0
  BY DEF Rows
<1>2. s.handler = "attlist1" => Rows(s) = attlist1
  BY DEF Rows
<1>3. s.handler = "attlist2" => Rows(s) = attlist2
  BY DEF Rows
<1>4. s.handler = "attlist3" => Rows(s) = attlist3
  BY DEF Rows
<1>5. s.handler = "attlist4" => Rows(s) = attlist4
  BY DEF Rows
<1>6. s.handler = "attlist5" => Rows(s) = attlist5
  BY DEF Rows
<1>7. s.handler = "attlist6" => Rows(s) = attlist6
  BY DEF Rows
<1>8. s.handler = "attlist7" => Rows(s) = attlist7
  BY DEF Rows
<1>9. s.handler = "attlist8" => Rows(s) = attlist8
  BY DEF Rows
<1>10. s.handler = "attlist9" => Rows(s) = attlist9
  BY DEF Rows
<1> QED BY <1>1, <1>2, <1>3, <1>4, <1>5, <1>6, <1>7, <1>8, <1>9, <1>10, Zenon

LEMMA RowsOfAttlist ==
    ASSUME NEW s, NEW row \in Rows(s),
           s.handler \in {
             "attlist0", "attlist1", "attlist2", "attlist3", "attlist4",
             "attlist5", "attlist6", "attlist7", "attlist8", "attlist9"}
    PROVE  RowOK(s.handler, row)
<1> USE DEF Space, RowOK, Plain, ModelRoles, NameRoles, CloseRoles,
            Inside, Outside, Special
<1>1. CASE s.handler = "attlist0"
  BY <1>1, TableOfAttlist DEF attlist0
<1>2. CASE s.handler = "attlist1"
  BY <1>2, TableOfAttlist DEF attlist1
<1>3. CASE s.handler = "attlist2"
  BY <1>3, TableOfAttlist DEF attlist2
<1>4. CASE s.handler = "attlist3"
  BY <1>4, TableOfAttlist DEF attlist3
<1>5. CASE s.handler = "attlist4"
  BY <1>5, TableOfAttlist DEF attlist4
<1>6. CASE s.handler = "attlist5"
  BY <1>6, TableOfAttlist DEF attlist5
<1>7. CASE s.handler = "attlist6"
  BY <1>7, TableOfAttlist DEF attlist6
<1>8. CASE s.handler = "attlist7"
  BY <1>8, TableOfAttlist DEF attlist7
<1>9. CASE s.handler = "attlist8"
  BY <1>9, TableOfAttlist DEF attlist8
<1>10. CASE s.handler = "attlist9"
  BY <1>10, TableOfAttlist DEF attlist9
<1> HIDE DEF Space, RowOK, Plain, ModelRoles, NameRoles, CloseRoles,
             Inside, Outside, Special
<1> QED BY <1>1, <1>2, <1>3, <1>4, <1>5, <1>6, <1>7, <1>8, <1>9, <1>10, ZenonT(40)

LEMMA TableOfElement ==
    ASSUME NEW s
    PROVE  /\ s.handler = "element0" => Rows(s) = element0
           /\ s.handler = "element1" => Rows(s) = element1
           /\ s.handler = "element2" => Rows(s) = element2
           /\ s.handler = "element3" => Rows(s) = element3
           /\ s.handler = "element4" => Rows(s) = element4
           /\ s.handler = "element5" => Rows(s) = element5
           /\ s.handler = "element6" => Rows(s) = element6
           /\ s.handler = "element7" => Rows(s) = element7
<1>1. s.handler = "element0" => Rows(s) = element0
  BY SMTT(30) DEF Rows
<1>2. s.handler = "element1" => Rows(s) = element1
  BY DEF Rows
<1>3. s.handler = "element2" => Rows(s) = element2
  BY DEF Rows
<1>4. s.handler = "element3" => Rows(s) = element3
  BY DEF Rows
<1>5. s.handler = "element4" => Rows(s) = element4
  BY SMTT(30) DEF Rows
<1>6. s.handler = "element5" => Rows(s) = element5
  BY DEF Rows
<1>7. s.handler = "element6" => Rows(s) = element6
  BY DEF Rows
<1>8. s.handler = "element7" => Rows(s) = element7
  BY DEF Rows
<1> QED BY <1>1, <1>2, <1>3, <1>4, <1>5, <1>6, <1>7, <1>8, Zenon

LEMMA RowsOfElement ==
    ASSUME NEW s, NEW row \in Rows(s),
           s.handler \in {
             "element0", "element1", "element2", "element3", "element4",
             "element5", "element6", "element7"}
    PROVE  RowOK(s.handler, row)
<1> USE DEF Space, RowOK, Plain, ModelRoles, NameRoles, CloseRoles,
            Inside, Outside, Special, FirstLevel, ModelNames, NameKinds
<1>1. CASE s.handler = "element0"
  BY <1>1, TableOfElement DEF element0
<1>2. CASE s.handler = "element1"
  BY <1>2, TableOfElement DEF element1
<1>3. CASE s.handler = "element2"
  BY <1>3, TableOfElement DEF element2
<1>4. CASE s.handler = "element3"
  BY <1>4, TableOfElement DEF element3
<1>5. CASE s.handler = "element4"
  BY <1>5, TableOfElement DEF element4
<1>6. CASE s.handler = "element5"
  BY <1>6, TableOfElement DEF element5
<1>7. CASE s.handler = "element6"
  BY <1>7, TableOfElement DEF element6
<1>8. CASE s.handler = "element7"
  BY <1>8, TableOfElement DEF element7
<1> HIDE DEF Space, RowOK, Plain, ModelRoles, NameRoles, CloseRoles,
             Inside, Outside, Special, FirstLevel, ModelNames, NameKinds
<1> QED BY <1>1, <1>2, <1>3, <1>4, <1>5, <1>6, <1>7, <1>8, Zenon

LEMMA RowsOfDeclClose ==
    ASSUME NEW s, StateOK(s), NEW row \in Rows(s), s.handler = "declClose"
    PROVE  RowOK(s.handler, row)
<1>1. s.role_none \in NoneRoles
  BY DEF StateOK, States
<1>2. row \in declClose(s)
  BY Zenon DEF Rows
<1> QED BY <1>1, <1>2 DEF declClose, NoneRoles, Space, RowOK, Plain, ModelRoles,
                          NameRoles, CloseRoles, Inside, Outside, Special

(* Every row of every handler. *)
LEMMA RowsLead ==
    ASSUME NEW s, StateOK(s), s.handler # "error", NEW row \in Rows(s)
    PROVE  RowOK(s.handler, row)
<1>1. s.handler \in Outside \cup Inside
  BY DEF StateOK, States
<1> QED BY <1>1, RowsOfSubsets, RowsOfProlog, RowsOfSections, RowsOfEntity, RowsOfNotation,
           RowsOfAttlist, RowsOfElement, RowsOfDeclClose DEF Outside, Inside

(* The roles of a content model, by the state s and the state n behind the *)
(* token: every other role but ERROR leaves the model alone.               *)
ModelShape(s, kind, role, n) ==
    \/ Plain(role) /\ n.level = s.level /\ PhaseOf(n) = PhaseOf(s)
    \/ role = "ERROR" /\ n.level = s.level
    \/ role = "ELEMENT_NAME" /\ n.level = s.level /\ PhaseOf(s) = "idle" /\ PhaseOf(n) = "name"
    \/ /\ role \in {"CONTENT_ANY", "CONTENT_EMPTY"} /\ n.level = s.level
       /\ PhaseOf(s) = "name" /\ PhaseOf(n) = "idle"
    \/ /\ role = "GROUP_OPEN" /\ PhaseOf(n) = "groups"
       /\ \/ PhaseOf(s) = "name" /\ n.level = 1
          \/ PhaseOf(s) = "groups" /\ n.level = s.level + 1
    \/ /\ PhaseOf(s) = "groups" /\ PhaseOf(n) = "groups" /\ n.level = s.level
       /\ \/ role \in {"GROUP_SEQUENCE", "GROUP_CHOICE", "CONTENT_PCDATA"}
          \/ role \in NameRoles /\ kind \in NameKinds
    \/ /\ role \in CloseRoles /\ PhaseOf(s) = "groups"
       /\ \/ n.level = s.level - 1 /\ PhaseOf(n) = IF n.level = 0 THEN "idle" ELSE "groups"
          \/ s.level = 1 /\ n.level = 1 /\ PhaseOf(n) = "idle"

(* What XmlTokenRole may answer for a token of a kind in state s. *)
Shape(s, kind, role, n) ==
    /\ StateOK(n)
    /\ kind = "NONE" => Plain(role) \/ role = "ERROR"
    /\ role = "XML_DECL" => s.handler = "prolog0"
    /\ n.handler = "prolog0" => s.handler = "prolog0" /\ role = "NONE"
    /\ ModelShape(s, kind, role, n)

(* The targets that are names of handlers. *)
LEMMA StepTo ==
    ASSUME NEW s, NEW to \in Outside \cup Inside
    PROVE  Step(s, to) = [s EXCEPT !.handler = to]
BY DEF Step, Outside, Inside

LEMMA StepIs ==
    ASSUME NEW s
    PROVE  /\ Step(s, "endEntity") = [s EXCEPT !.handler = "declClose", !.role_none = "ENTITY_NONE"]
           /\ Step(s, "endNotation") = [s EXCEPT !.handler = "declClose", !.role_none = "NOTATION_NONE"]
           /\ Step(s, "endElement") = [s EXCEPT !.handler = "declClose", !.role_none = "ELEMENT_NONE"]
           /\ Step(s, "firstGroup") = [s EXCEPT !.handler = "element2", !.level = 1]
           /\ Step(s, "secondGroup") = [s EXCEPT !.handler = "element6", !.level = 2]
           /\ Step(s, "openGroup") = [s EXCEPT !.handler = "element6", !.level = s.level + 1]
           /\ Step(s, "closeGroup") =
                IF s.level = 1
                THEN [s EXCEPT !.handler = "declClose", !.role_none = "ELEMENT_NONE", !.level = 0]
                ELSE [s EXCEPT !.handler = "element7", !.level = s.level - 1]
           /\ Step(s, "openSection") =
                [s EXCEPT !.handler = "externalSubset1", !.includeLevel = s.includeLevel + 1]
           /\ Step(s, "closeSection") =
                [s EXCEPT !.handler = "externalSubset1", !.includeLevel = s.includeLevel - 1]
BY DEF Step

(* The others change what they say and no more. *)
LEMMA StepSpecial ==
    ASSUME NEW s, StateOK(s), s.handler \in Outside, NEW to \in Special,
           to = "same" => s.handler # "prolog0"
    PROVE  /\ StateOK(Step(s, to)) /\ Step(s, to).level = s.level
           /\ Step(s, to).handler \in Outside \ {"prolog0"}
<1> DEFINE n == Step(s, to)
<1>0. /\ s \in States /\ s.handler \in Outside
      /\ s.includeLevel + 1 \in Int /\ s.includeLevel - 1 \in Int
      /\ {"declClose", "externalSubset1", "internalSubset"} \subseteq Outside
      /\ {"ENTITY_NONE", "NOTATION_NONE"} \subseteq NoneRoles
  BY DEF StateOK, States, Outside, NoneRoles
<1>1. CASE to = "same"
  <2>1. n = IF s.handler = "externalSubset0" THEN [s EXCEPT !.handler = "externalSubset1"] ELSE s
    BY <1>1 DEF Step
  <2> HIDE DEF n
  <2>2. n \in States /\ n.level = s.level /\ n.handler \in Outside \ {"prolog0"}
    BY <1>0, <1>1, <2>1 DEF States
  <2> QED BY <2>2 DEF n, StateOK, FirstLevel, Outside
<1>2. CASE to = "topLevel"
  <2>1. PICK h \in {"internalSubset", "externalSubset1"} : n = [s EXCEPT !.handler = h]
    BY <1>2 DEF Step, setTopLevel
  <2> HIDE DEF n
  <2>2. n \in States /\ n.level = s.level /\ n.handler \in Outside \ {"prolog0"}
    BY <1>0, <2>1 DEF States
  <2> QED BY <2>2 DEF n, StateOK, FirstLevel, Outside
<1>3. CASE to \in {"endEntity", "endNotation"}
  <2>1. PICK none \in {"ENTITY_NONE", "NOTATION_NONE"} :
          n = [s EXCEPT !.handler = "declClose", !.role_none = none]
    BY <1>3, StepIs, ZenonT(40)
  <2> HIDE DEF n
  <2>2. n \in States /\ n.level = s.level /\ n.handler \in Outside \ {"prolog0"}
    BY <1>0, <2>1, Zenon DEF States
  <2> QED BY <2>2 DEF n, StateOK, FirstLevel, Outside
<1>4. CASE to \in {"openSection", "closeSection"}
  <2>1. PICK l \in Int, h \in {"externalSubset1"} : n = [s EXCEPT !.handler = h, !.includeLevel = l]
    <3>1. CASE to = "openSection"
      <4>1. n = [s EXCEPT !.handler = "externalSubset1", !.includeLevel = s.includeLevel + 1]
        BY <3>1, StepIs, Zenon
      <4> QED BY <1>0, <4>1, Zenon
    <3>2. CASE to = "closeSection"
      <4>1. n = [s EXCEPT !.handler = "externalSubset1", !.includeLevel = s.includeLevel - 1]
        BY <3>2, StepIs, Zenon
      <4> QED BY <1>0, <4>1, Zenon
    <3> QED BY <1>4, <3>1, <3>2, Zenon
  <2> HIDE DEF n
  <2>2. n \in States /\ n.level = s.level /\ n.handler \in Outside \ {"prolog0"}
    BY <1>0, <2>1, Zenon DEF States
  <2> QED BY <2>2 DEF n, StateOK, FirstLevel, Outside
<1> QED BY <1>1, <1>2, <1>3, <1>4 DEF Special

LEMMA StepGroup ==
    ASSUME NEW s, StateOK(s)
    PROVE  /\ LET n == Step(s, "endElement") IN
              StateOK(n) /\ n.level = s.level /\ n.handler = "declClose"
           /\ LET n == Step(s, "firstGroup") IN
              StateOK(n) /\ n.level = 1 /\ n.handler = "element2"
           /\ LET n == Step(s, "secondGroup") IN
              StateOK(n) /\ n.level = 2 /\ n.handler = "element6"
           /\ LET n == Step(s, "openGroup") IN
              StateOK(n) /\ n.level = s.level + 1 /\ n.handler = "element6"
           /\ LET n == Step(s, "closeGroup") IN
              /\ StateOK(n) /\ n.level = s.level - 1
              /\ n.handler = IF s.level = 1 THEN "declClose" ELSE "element7"
<1>0. /\ s \in States
      /\ "declClose" \in Outside \cup Inside /\ "element2" \in Outside \cup Inside
      /\ "element6" \in Outside \cup Inside /\ "element7" \in Outside \cup Inside
      /\ "ELEMENT_NONE" \in NoneRoles
  BY DEF StateOK, Outside, Inside, NoneRoles
<1>a. /\ 0 \in Int /\ 1 \in Int /\ 2 \in Int
      /\ s.level \in Int /\ s.level + 1 \in Int /\ s.level - 1 \in Int
  BY DEF StateOK, States
<1>1. LET n == Step(s, "endElement") IN
      n \in States /\ n.level = s.level /\ n.handler = "declClose"
  <2> DEFINE n == [s EXCEPT !.handler = "declClose", !.role_none = "ELEMENT_NONE"]
  <2>1. n \in States /\ n.level = s.level /\ n.handler = "declClose"
    BY <1>0, Zenon DEF States
  <2> QED BY <2>1, StepIs, Zenon
<1>2. LET n == Step(s, "firstGroup") IN
      n \in States /\ n.level = 1 /\ n.handler = "element2"
  <2> DEFINE n == Step(s, "firstGroup")
  <2>1. PICK h \in {"element2"}, l \in {1} : n = [s EXCEPT !.handler = h, !.level = l]
    BY StepIs, Zenon
  <2> HIDE DEF n
  <2>2. n \in States /\ n.level = l /\ n.handler = h
    BY <1>0, <1>a, <2>1, Zenon DEF States
  <2> QED BY <2>1, <2>2 DEF n
<1>3. LET n == Step(s, "secondGroup") IN
      n \in States /\ n.level = 2 /\ n.handler = "element6"
  <2> DEFINE n == Step(s, "secondGroup")
  <2>1. PICK h \in {"element6"}, l \in {2} : n = [s EXCEPT !.handler = h, !.level = l]
    BY StepIs, Zenon
  <2> HIDE DEF n
  <2>2. n \in States /\ n.level = l /\ n.handler = h
    BY <1>0, <1>a, <2>1, Zenon DEF States
  <2> QED BY <2>1, <2>2 DEF n
<1>4. LET n == Step(s, "openGroup") IN
      n \in States /\ n.level = s.level + 1 /\ n.handler = "element6"
  <2> DEFINE n == Step(s, "openGroup")
  <2>1. PICK h \in {"element6"}, l \in {s.level + 1} : n = [s EXCEPT !.handler = h, !.level = l]
    BY StepIs, Zenon
  <2> HIDE DEF n
  <2>2. n \in States /\ n.level = l /\ n.handler = h
    BY <1>0, <1>a, <2>1, Zenon DEF States
  <2> QED BY <2>1, <2>2 DEF n
<1>5. LET n == Step(s, "closeGroup") IN
      /\ n \in States /\ n.level = s.level - 1
      /\ n.handler = IF s.level = 1 THEN "declClose" ELSE "element7"
  <2> DEFINE n == Step(s, "closeGroup")
  <2>0. n = IF s.level = 1
            THEN [s EXCEPT !.handler = "declClose", !.role_none = "ELEMENT_NONE", !.level = 0]
            ELSE [s EXCEPT !.handler = "element7", !.level = s.level - 1]
    BY StepIs, Zenon
  <2> HIDE DEF n
  <2>1. CASE s.level = 1
    <3>1. PICK h \in {"declClose"}, none \in {"ELEMENT_NONE"}, l \in {0} :
            n = [s EXCEPT !.handler = h, !.role_none = none, !.level = l]
      BY <2>0, <2>1, Zenon
    <3>2. n \in States /\ n.level = l /\ n.handler = h
      BY <1>0, <1>a, <3>1, Zenon DEF States
    <3> QED BY <2>1, <3>1, <3>2 DEF n
  <2>2. CASE s.level # 1
    <3>1. PICK h \in {"element7"}, l \in {s.level - 1} : n = [s EXCEPT !.handler = h, !.level = l]
      BY <2>0, <2>2, Zenon
    <3>2. n \in States /\ n.level = l /\ n.handler = h
      BY <1>0, <1>a, <3>1, Zenon DEF States
    <3> QED BY <2>2, <3>1, <3>2 DEF n
  <2> QED BY <2>1, <2>2
<1> QED BY <1>1, <1>2, <1>3, <1>4, <1>5 DEF StateOK, FirstLevel

LEMMA TakesShape ==
    ASSUME NEW s, StateOK(s), NEW row, RowOK(s.handler, row)
    PROVE  Shape(s, row[1], row[4], Step(s, row[3]))
<1> DEFINE h == s.handler
           to == row[3]
           role == row[4]
           n == Step(s, to)
           Goal == /\ StateOK(n) /\ (n.handler = "prolog0" => to = "prolog0")
                   /\ ModelShape(s, row[1], role, n)
<1>0. /\ h \in Outside \cup Inside /\ s.level \in Int
      /\ h \in FirstLevel => s.level = 1
  BY DEF StateOK, States
<1>a. /\ role \in ModelRoles => row[1] # "NONE"
      /\ role = "XML_DECL" => h = "prolog0"
      /\ to = "prolog0" => h = "prolog0" /\ role = "NONE"
  BY DEF RowOK
<1> SUFFICES Goal
  <2> HIDE DEF n, to
  <2>1. ASSUME Goal PROVE Shape(s, row[1], role, n)
    BY <1>a, <2>1 DEF Shape, Plain
  <2> QED BY <2>1 DEF n, to
<1>1. CASE h \notin Inside /\ to \in Outside \cup Special /\ Plain(role)
  <2>1. h \in Outside /\ (to = "same" => h # "prolog0")
    BY <1>0, <1>1 DEF RowOK
  <2>2. /\ StateOK(n) /\ n.level = s.level /\ n.handler \in Outside
        /\ n.handler = "prolog0" => to = "prolog0"
    <3>1. CASE to \in Outside
      <4>1. n = [s EXCEPT !.handler = to]
        BY <3>1, StepTo
      <4>2. to = "prolog0" => h = "prolog0"
        BY <3>1 DEF RowOK
      <4> HIDE DEF n, to
      <4> QED BY <3>1, <4>1, <4>2 DEF StateOK, States, Outside, FirstLevel
    <3>2. CASE to \in Special
      BY <2>1, <3>2, StepSpecial
    <3> QED BY <1>1, <3>1, <3>2
  <2> HIDE DEF n, to
  <2>3. PhaseOf(s) = "idle" /\ PhaseOf(n) = "idle"
    BY <2>1, <2>2 DEF PhaseOf, Idle, Outside
  <2> QED BY <1>1, <2>2, <2>3 DEF ModelShape
<1>2. CASE \/ h = "element0" /\ to = "element1" /\ role = "ELEMENT_NAME"
           \/ h = "element1" /\ to = "element1" /\ Plain(role)
  <2>1. n = [s EXCEPT !.handler = "element1"]
    BY <1>2, StepTo DEF Inside
  <2> HIDE DEF n, to
  <2>2. StateOK(n) /\ n.level = s.level /\ n.handler = "element1"
    BY <2>1 DEF StateOK, States, FirstLevel, Inside
  <2>3. PhaseOf(n) = "name" /\ PhaseOf(s) = IF h = "element0" THEN "idle" ELSE "name"
    BY <1>2, <2>2 DEF PhaseOf, Idle
  <2> QED BY <1>2, <2>2, <2>3 DEF ModelShape
<1>3. CASE \/ h = "element1" /\ to = "endElement" /\ role \in {"CONTENT_ANY", "CONTENT_EMPTY"}
           \/ h \in {"element3", "element5"} /\ to = "endElement" /\ role \in CloseRoles
  <2>1. StateOK(n) /\ n.level = s.level /\ n.handler = "declClose"
    BY <1>3, StepGroup
  <2> HIDE DEF n, to
  <2>2. PhaseOf(n) = "idle" /\ PhaseOf(s) = IF h = "element1" THEN "name" ELSE "groups"
    BY <1>3, <2>1 DEF PhaseOf, Idle
  <2> QED BY <1>0, <1>3, <2>1, <2>2 DEF ModelShape, FirstLevel
<1>4. CASE \/ h = "element1" /\ to = "firstGroup" /\ role = "GROUP_OPEN"
           \/ h = "element2" /\ to = "secondGroup" /\ role = "GROUP_OPEN"
           \/ h = "element6" /\ to = "openGroup" /\ role = "GROUP_OPEN"
  <2>1. /\ StateOK(n)
        /\ \/ h = "element1" /\ n.level = 1 /\ n.handler = "element2"
           \/ h = "element2" /\ n.level = 2 /\ n.handler = "element6"
           \/ h = "element6" /\ n.level = s.level + 1 /\ n.handler = "element6"
    BY <1>4, StepGroup
  <2> HIDE DEF n, to
  <2>2. PhaseOf(n) = "groups" /\ PhaseOf(s) = IF h = "element1" THEN "name" ELSE "groups"
    BY <1>4, <2>1 DEF PhaseOf, Idle
  <2> QED BY <1>0, <1>4, <2>1, <2>2 DEF ModelShape, FirstLevel
<1>5. CASE /\ \/ h \in FirstLevel /\ to \in FirstLevel
              \/ h \in Inside \ {"element1"} /\ to \in {"element6", "element7"}
           /\ \/ Plain(role)
              \/ role \in {"GROUP_SEQUENCE", "GROUP_CHOICE", "CONTENT_PCDATA"}
              \/ role \in NameRoles /\ row[1] \in NameKinds
  <2>1. n = [s EXCEPT !.handler = to]
    BY <1>5, StepTo DEF Inside, FirstLevel
  <2> HIDE DEF n, to
  <2>2. StateOK(n) /\ n.level = s.level /\ n.handler = to
    BY <1>0, <1>5, <2>1 DEF StateOK, States, FirstLevel, Inside
  <2>3. PhaseOf(s) = "groups" /\ PhaseOf(n) = "groups"
    BY <1>5, <2>2 DEF PhaseOf, Idle, FirstLevel, Inside
  <2> QED BY <1>5, <2>2, <2>3 DEF ModelShape
<1>6. CASE h = "element7" /\ to = "closeGroup" /\ role \in CloseRoles
  <2>1. /\ StateOK(n) /\ n.level = s.level - 1
        /\ n.handler = IF s.level = 1 THEN "declClose" ELSE "element7"
    BY <1>6, StepGroup
  <2> HIDE DEF n, to
  <2>2. PhaseOf(s) = "groups" /\ PhaseOf(n) = IF s.level = 1 THEN "idle" ELSE "groups"
    BY <1>6, <2>1 DEF PhaseOf, Idle
  <2> QED BY <1>0, <1>6, <2>1, <2>2 DEF ModelShape
<1> QED BY <1>1, <1>2, <1>3, <1>4, <1>5, <1>6 DEF RowOK

(* XmlTokenRole keeps PROLOG_STATE well formed and gives the roles of a    *)
(* content model only where there is one.                                  *)
LEMMA RoleShape ==
    ASSUME NEW s, StateOK(s), NEW tok
    PROVE  LET r == XmlTokenRole(s, tok) IN Shape(s, tok.kind, r.role, r.state)
<1> DEFINE rows == { row \in Rows(s) : row[1] = tok.kind /\ row[2] \in {AnyWord, tok.word} }
<1>0. s.handler # "error" => XmlTokenRole(s, tok) = FirstOf(s, tok, rows)
  BY Zenon DEF XmlTokenRole
<1>1. CASE s.handler = "error"
  <2>1. XmlTokenRole(s, tok) = [state |-> s, role |-> "NONE"]
    BY <1>1 DEF XmlTokenRole, error
  <2> QED BY <1>1, <2>1 DEF Shape, ModelShape, Plain, ModelRoles, NameRoles, CloseRoles
<1>2. CASE s.handler # "error" /\ rows = {}
  <2> HIDE DEF rows
  <2>1. XmlTokenRole(s, tok) = common(s, tok)
    BY <1>0, <1>2 DEF FirstOf
  <2>2. CASE ~s.documentEntity /\ tok.kind = "PARAM_ENTITY_REF"
    <3>1. common(s, tok) = [state |-> s, role |-> "INNER_PARAM_ENTITY_REF"]
      BY <2>2 DEF common
    <3>2. s.handler # "prolog0"
      BY <2>2 DEF StateOK
    <3>3. Shape(s, tok.kind, "INNER_PARAM_ENTITY_REF", s)
      BY <3>2 DEF Shape, ModelShape, Plain, ModelRoles, NameRoles, CloseRoles
    <3> QED BY <2>1, <3>1, <3>3
  <2>3. CASE ~(~s.documentEntity /\ tok.kind = "PARAM_ENTITY_REF")
    <3> DEFINE n == [s EXCEPT !.handler = "error"]
    <3>1. common(s, tok) = [state |-> n, role |-> "ERROR"]
      BY <2>3 DEF common
    <3>2. StateOK(n) /\ n.level = s.level /\ n.handler = "error"
      BY DEF StateOK, States, Outside, FirstLevel
    <3> HIDE DEF n
    <3>3. Shape(s, tok.kind, "ERROR", n)
      BY <3>2 DEF Shape, ModelShape
    <3> QED BY <2>1, <3>1, <3>3
  <2> QED BY <2>2, <2>3
<1>3. CASE s.handler # "error" /\ rows # {}
  <2> DEFINE row == CHOOSE x \in rows : TRUE
  <2> HIDE DEF rows
  <2>1. row \in rows
    BY <1>3
  <2>2. XmlTokenRole(s, tok) = Takes(s, row)
    BY <1>0, <1>3 DEF FirstOf
  <2> HIDE DEF row
  <2>3. row \in Rows(s) /\ row[1] = tok.kind
    BY <2>1 DEF rows
  <2>4. Shape(s, row[1], row[4], Step(s, row[3]))
    BY <1>3, <2>3, RowsLead, TakesShape
  <2> QED BY <2>2, <2>3, <2>4 DEF Takes
<1> QED BY <1>1, <1>2, <1>3

-----------------------------------------------------------------------------
(* Content models are the component Scaffold.                              *)

ModelInv == scenario \in Scenarios /\ elementDecl \in BOOLEAN /\ StateOK(st)

Running == {"parsing", "ABORTED", "content", "complete"}

LEMMA LeaveRuns ==
    ASSUME NEW made, NEW handleDefault, Leave(made, handleDefault)
    PROVE  status' \in {"parsing", "ABORTED"}
BY DEF Leave

(* The roles that are not of a content model leave it alone. *)
LEMMA PlainActions ==
    ASSUME NEW role, NEW tok, NEW to,
           \/ XmlDecl(role, tok) \/ DoctypeName(role, tok) \/ DoctypeInternalSubset(role)
           \/ PublicId(role, tok) \/ DoctypeSystemId(role, tok)
           \/ EndOfDtd(role) \/ DoctypeCloseInEntity(role)
           \/ ParamEntityRef(role, tok)
           \/ AttlistName(role, tok) \/ AttributeType(role, tok)
           \/ AttributeEnumValue(role, tok) \/ AttributeValue(role, tok)
           \/ EntityName(role, tok) \/ EntityValue(role, tok) \/ EntitySystemId(role, tok)
           \/ EntityComplete(role) \/ EntityNotationName(role, tok)
           \/ NotationName(role, tok) \/ NotationPublicId(role, tok) \/ NotationEnd(role, tok)
           \/ Report(role, tok) \/ IgnoreSect(role) \/ NoneRole(role, tok)
    PROVE  Plain(role) /\ SameScaffold
<1> USE DEF Plain, ModelRoles, NameRoles, CloseRoles
<1>1. CASE XmlDecl(role, tok)
  BY <1>1 DEF XmlDecl
<1>2. CASE DoctypeName(role, tok)
  BY <1>2 DEF DoctypeName
<1>3. CASE DoctypeInternalSubset(role)
  BY <1>3 DEF DoctypeInternalSubset
<1>4. CASE PublicId(role, tok)
  BY <1>4, Zenon DEF PublicId
<1>5. CASE DoctypeSystemId(role, tok)
  BY <1>5 DEF DoctypeSystemId
<1>6. CASE EndOfDtd(role)
  BY <1>6, Zenon DEF EndOfDtd
<1>7. CASE DoctypeCloseInEntity(role)
  BY <1>7, Zenon DEF DoctypeCloseInEntity, OnlyCalls
<1>8. CASE ParamEntityRef(role, tok)
  BY <1>8, Zenon DEF ParamEntityRef
<1>9. CASE AttlistName(role, tok)
  BY <1>9 DEF AttlistName
<1>10. CASE AttributeType(role, tok)
  BY <1>10 DEF AttributeType, TypeRoles
<1>11. CASE AttributeEnumValue(role, tok)
  BY <1>11 DEF AttributeEnumValue
<1>12. CASE AttributeValue(role, tok)
  BY <1>12 DEF AttributeValue
<1>13. CASE EntityName(role, tok)
  BY <1>13 DEF EntityName
<1>14. CASE EntityValue(role, tok)
  BY <1>14 DEF EntityValue
<1>15. CASE EntitySystemId(role, tok)
  BY <1>15 DEF EntitySystemId
<1>16. CASE EntityComplete(role)
  BY <1>16 DEF EntityComplete, OnlyCalls
<1>17. CASE EntityNotationName(role, tok)
  BY <1>17 DEF EntityNotationName
<1>18. CASE NotationName(role, tok)
  BY <1>18 DEF NotationName
<1>19. CASE NotationPublicId(role, tok)
  BY <1>19, Zenon DEF NotationPublicId
<1>20. CASE NotationEnd(role, tok)
  BY <1>20 DEF NotationEnd
<1>21. CASE Report(role, tok)
  BY <1>21 DEF Report
<1>22. CASE IgnoreSect(role)
  BY <1>22 DEF IgnoreSect, OnlyCalls
<1>23. CASE NoneRole(role, tok)
  BY <1>23 DEF NoneRole, OnlyCalls
<1> QED BY <1>1, <1>2, <1>3, <1>4, <1>5, <1>6, <1>7, <1>8, <1>9, <1>10, <1>11, <1>12, <1>13, <1>14, <1>15, <1>16, <1>17, <1>18, <1>19, <1>20, <1>21, <1>22, <1>23, Zenon

(* What the instance's phase is while doProlog runs, and once it failed. *)
LEMMA PlainStep ==
    ASSUME status = "parsing", SameScaffold, UNCHANGED elementDecl,
           st'.level = st.level,
           PhaseOf(st') = PhaseOf(st) \/ status' \notin Running
    PROVE  [Scaff!ScaffoldNext]_(Scaff!scaffoldVars)
<1>1. CASE status' \in Running
  BY <1>1 DEF Running, PhaseOf, SameScaffold, scaffoldVars, Scaff!scaffoldVars,
              Scaff!groupVars, Scaff!scaffVars
<1>2. CASE status' \notin Running
  <2>1. Scaff!Fail
    BY <1>2 DEF Running, SameScaffold, scaffoldVars, Scaff!Fail, Scaff!groupVars, Scaff!scaffVars
  <2> QED BY <2>1 DEF Scaff!ScaffoldNext
<1> QED BY <1>1, <1>2

LEMMA ModelStep ==
    ASSUME ModelInv, status = "parsing", UNCHANGED elementDecl,
           NEW tok, tok.kind \in NameKinds => tok.word \in DOMAIN NameLen,
           NEW role, Shape(st, tok.kind, role, st'),
           ElementName(role, tok) \/ ElementModel(role, tok, st')
    PROVE  Scaff!ScaffoldNext
<1> DEFINE ph == PhaseOf(st)
<1>1. CASE ElementName(role, tok)
  <2>1. role = "ELEMENT_NAME" /\ Scaff!ElementName /\ status' \in {"parsing", "ABORTED"}
    BY <1>1, LeaveRuns, Zenon DEF ElementName
  <2>2. st'.level = st.level /\ PhaseOf(st) = "idle" /\ PhaseOf(st') = "name"
    BY <2>1, Zenon DEF Shape, ModelShape, Plain, ModelRoles, NameRoles, CloseRoles
  <2>3. Scaff!BeginDeclaration
    BY <2>1, <2>2 DEF Scaff!BeginDeclaration, PhaseOf
  <2> QED BY <2>3 DEF Scaff!ScaffoldNext
<1>2. CASE ElementModel(role, tok, st')
  <2>0. ModelRole(role, tok, st')
    BY <1>2 DEF ElementModel
  <2>1. CASE role = "GROUP_OPEN"
    <3>1. Scaff!GroupOpen(st'.level) /\ status' \in {"parsing", "ABORTED"}
      BY <2>0, <2>1, LeaveRuns, Zenon DEF ModelRole, NameRoles, CloseRoles
    <3>2. /\ PhaseOf(st') = "groups"
          /\ \/ PhaseOf(st) = "name" /\ st'.level = 1
             \/ PhaseOf(st) = "groups" /\ st'.level = st.level + 1
      BY <2>1, Zenon DEF Shape, ModelShape, Plain, ModelRoles, NameRoles, CloseRoles
    <3>3. Scaff!OpenGroup
      BY <3>1, <3>2, Zenon DEF Scaff!OpenGroup, PhaseOf
    <3> QED BY <3>3, Zenon DEF Scaff!ScaffoldNext
  <2>2. CASE role \in {"GROUP_SEQUENCE", "GROUP_CHOICE", "CONTENT_PCDATA"} \cup NameRoles
    <3>1. /\ status' \in {"parsing", "ABORTED"}
          /\ \/ Scaff!GroupSequence(st'.level) \/ Scaff!GroupChoice(st'.level)
             \/ Scaff!ContentPcdata
             \/ role \in NameRoles /\ Scaff!ContentElement(tok.word, Quant(role))
      BY <2>0, <2>2, LeaveRuns, ZenonT(40) DEF ModelRole, NameRoles, CloseRoles
    <3>2. /\ PhaseOf(st) = "groups" /\ PhaseOf(st') = "groups" /\ st'.level = st.level
          /\ role \in NameRoles => tok.kind \in NameKinds
      BY <2>2 DEF Shape, ModelShape, Plain, ModelRoles, NameRoles, CloseRoles
    <3>3. Quant(role) \in Scaff!Quants
      BY Zenon DEF Quant, Scaff!Quants
    <3>4. \/ Scaff!GroupSequence(st.level) \/ Scaff!GroupChoice(st.level) \/ Scaff!ContentPcdata
          \/ \E n \in DOMAIN NameLen, q \in Scaff!Quants : Scaff!ContentElement(n, q)
      BY <3>1, <3>2, <3>3, ZenonT(40)
    <3>5. Scaff!InGroup
      BY <3>1, <3>2, <3>4, Zenon DEF Scaff!InGroup, PhaseOf
    <3> QED BY <3>5 DEF Scaff!ScaffoldNext
  <2>3. CASE role \in CloseRoles
    <3>1. Scaff!GroupClose(Quant(role)) /\ status' \in {"parsing", "ABORTED"}
      BY <2>0, <2>3, LeaveRuns, Zenon DEF ModelRole, NameRoles, CloseRoles
    <3>2. /\ PhaseOf(st) = "groups"
          /\ \/ /\ st'.level = st.level - 1
                /\ PhaseOf(st') = IF st'.level = 0 THEN "idle" ELSE "groups"
             \/ st.level = 1 /\ st'.level = 1 /\ PhaseOf(st') = "idle"
      BY <2>3, Zenon DEF Shape, ModelShape, Plain, ModelRoles, NameRoles, CloseRoles
    <3>3. Quant(role) \in Scaff!Quants
      BY DEF Quant, Scaff!Quants
    <3>4. Scaff!CloseGroup
      BY <3>1, <3>2, <3>3, ZenonT(40) DEF Scaff!CloseGroup, PhaseOf
    <3> QED BY <3>4, Zenon DEF Scaff!ScaffoldNext
  <2>4. CASE role \in {"CONTENT_ANY", "CONTENT_EMPTY"}
    <3>1. /\ \E type \in {"ANY", "EMPTY"} : Scaff!ContentAnyOrEmpty(type)
          /\ status' \in {"parsing", "ABORTED"}
      BY <2>0, <2>4, LeaveRuns, ZenonT(40) DEF ModelRole, NameRoles, CloseRoles
    <3>2. st'.level = st.level /\ PhaseOf(st) = "name" /\ PhaseOf(st') = "idle"
      BY <2>4, Zenon DEF Shape, ModelShape, Plain, ModelRoles, NameRoles, CloseRoles
    <3>3. Scaff!NoGroups
      BY <3>1, <3>2, Zenon DEF Scaff!NoGroups, PhaseOf
    <3> QED BY <3>3 DEF Scaff!ScaffoldNext
  <2> QED BY <2>0, <2>1, <2>2, <2>3, <2>4, ZenonT(40) DEF ModelRole, NameRoles
<1> QED BY <1>1, <1>2

(* A refusal is Fail, with or without the connector of the new group. *)
LEMMA RefusedStep ==
    ASSUME ModelInv, status = "parsing", UNCHANGED elementDecl, NEW tok,
           NEW role, Shape(st, tok.kind, role, st'),
           ModelRefused(role, tok, st')
    PROVE  Scaff!ScaffoldNext
<1>1. status' \notin Running
  BY DEF ModelRefused, ReturnCode, Running
<1>2. CASE SameScaffold /\ role # "GROUP_OPEN"
  <2>1. role \in {"GROUP_SEQUENCE", "GROUP_CHOICE"} \cup NameRoles
    BY <1>2 DEF ModelRefused, ConnectorRefused
  <2>2. st'.level = st.level
    BY <2>1 DEF Shape, ModelShape, Plain, ModelRoles, NameRoles, CloseRoles
  <2>3. Scaff!Fail
    BY <1>1, <1>2, <2>2 DEF Running, SameScaffold, scaffoldVars, Scaff!Fail, Scaff!groupVars, Scaff!scaffVars
  <2> QED BY <2>3 DEF Scaff!ScaffoldNext
<1>3. CASE role = "GROUP_OPEN"
  <2>1. /\ Scaff!OpenConnector(st'.level)
        /\ UNCHANGED <<in_eldecl, scaffold, scaffCount, scaffSize, scaffIndex,
                       scaffIndexSize, scaffLevel, contentStringLen, model>>
    BY <1>3, Zenon DEF ModelRefused, ConnectorRefused, NameRoles
  <2>2. \/ PhaseOf(st) = "name" /\ st'.level = 1
        \/ PhaseOf(st) = "groups" /\ st'.level = st.level + 1
    BY <1>3 DEF Shape, ModelShape, Plain, ModelRoles, NameRoles, CloseRoles
  <2>3. Scaff!Fail
    BY <1>1, <2>1, <2>2, Zenon DEF Running, PhaseOf, Scaff!Fail, Scaff!scaffVars
  <2> QED BY <2>3 DEF Scaff!ScaffoldNext
<1> QED BY <1>2, <1>3 DEF ModelRefused, ConnectorRefused, NameRoles

LEMMA TokenModel ==
    ASSUME ModelInv, NEW tok \in scenario.tokens, Token(tok)
    PROVE  ModelInv' /\ [Scaff!ScaffoldNext]_(Scaff!scaffoldVars)
<1> DEFINE r == XmlTokenRole(st, tok)
<1>1. Shape(st, tok.kind, r.role, r.state)
  BY RoleShape DEF ModelInv
<1>2. tok.kind \in NameKinds => tok.word \in DOMAIN NameLen
  BY PrologAssumption DEF ModelInv
<1>3. status = "parsing" /\ st' = r.state /\ UNCHANGED <<elementDecl, scenario>>
  BY ZenonT(40) DEF Token
<1>4. ModelInv'
  BY <1>1, <1>3, Zenon DEF ModelInv, Shape
<1>5. Shape(st, tok.kind, r.role, st')
  BY <1>1, <1>3
<1>6. \/ Plain(r.role) /\ SameScaffold
      \/ ElementName(r.role, tok) \/ ElementModel(r.role, tok, st')
      \/ ModelRefused(r.role, tok, st')
      \/ RoleError(r.role, tok)
  BY <1>3, PlainActions, ZenonT(40) DEF Token
<1> HIDE DEF r
<1>7. CASE Plain(r.role) /\ SameScaffold
  <2>1. st'.level = st.level /\ PhaseOf(st') = PhaseOf(st)
    BY <1>5, <1>7 DEF Shape, ModelShape, Plain, ModelRoles
  <2> QED BY <1>3, <1>4, <1>7, <2>1, PlainStep, Zenon
<1>8. CASE ElementName(r.role, tok) \/ ElementModel(r.role, tok, st')
  BY <1>2, <1>3, <1>4, <1>5, <1>8, ModelStep, ZenonT(40)
<1>9. CASE ModelRefused(r.role, tok, st')
  BY <1>3, <1>4, <1>5, <1>9, RefusedStep, Zenon
<1>10. CASE RoleError(r.role, tok)
  <2>1. r.role = "ERROR" /\ SameScaffold
    BY <1>10 DEF RoleError, OnlyCalls
  <2>2. status' \notin Running
    BY <1>10, Zenon DEF RoleError, ReturnCode, Running
  <2>3. st'.level = st.level
    BY <1>5, <2>1 DEF Shape, ModelShape, Plain, ModelRoles, NameRoles, CloseRoles
  <2> QED BY <1>3, <1>4, <2>1, <2>2, <2>3, PlainStep, Zenon
<1> QED BY <1>6, <1>7, <1>8, <1>9, <1>10, Zenon

(* The end of an entity is a token of the grammar where it is asked. *)
LEMMA EndStep ==
    ASSUME EndOfEntity
    PROVE  LET r == XmlTokenRole(st, Tok("NONE", "")) IN
           /\ status = "parsing" /\ SameScaffold /\ UNCHANGED <<elementDecl, scenario>>
           /\ \/ st' = st
              \/ st' = r.state /\ (r.role = "ERROR" => status' = "INCOMPLETE_PE")
<1> DEFINE r == XmlTokenRole(st, Tok("NONE", ""))
<1>1. status = "parsing" /\ SameScaffold /\ UNCHANGED <<elementDecl, scenario>>
  BY Zenon DEF EndOfEntity, SameScaffold
<1> DEFINE inner == openPE # <<>> /\ ~openPE[1].betweenDecl
           asked == ~inner /\ (openPE # <<>> \/ ~st.documentEntity)
           q == IF asked THEN r ELSE [state |-> st, role |-> "NONE"]
<1>2. /\ st' = q.state
      /\ status' = IF q.role = "ERROR" THEN "INCOMPLETE_PE"
                   ELSE IF ~inner /\ ~asked THEN "NO_ELEMENTS"
                   ELSE IF openPE = <<>> THEN "complete" ELSE "parsing"
  BY Zenon DEF EndOfEntity
<1>3. CASE asked
  <2>1. q = r
    BY <1>3, Zenon
  <2> HIDE DEF r, q
  <2>2. st' = r.state /\ (r.role = "ERROR" => status' = "INCOMPLETE_PE")
    BY <1>2, <2>1
  <2> QED BY <1>1, <2>2, Zenon DEF r
<1>4. CASE ~asked
  <2>1. q = [state |-> st, role |-> "NONE"]
    BY <1>4, Zenon
  <2> HIDE DEF r, q
  <2>2. st' = st
    BY <1>2, <2>1
  <2> QED BY <1>1, <2>2
<1> QED BY <1>3, <1>4, ZenonT(40)

LEMMA EndModel ==
    ASSUME ModelInv, EndOfEntity
    PROVE  ModelInv' /\ [Scaff!ScaffoldNext]_(Scaff!scaffoldVars)
<1> DEFINE t == Tok("NONE", "")
           r == XmlTokenRole(st, t)
<1>1. Shape(st, "NONE", r.role, r.state)
  BY RoleShape, Zenon DEF ModelInv, Tok
<1>2. /\ status = "parsing" /\ SameScaffold /\ UNCHANGED <<elementDecl, scenario>>
      /\ \/ st' = st
         \/ st' = r.state /\ (r.role = "ERROR" => status' = "INCOMPLETE_PE")
  BY EndStep, Zenon
<1>3. CASE st' = st
  BY <1>2, <1>3, PlainStep DEF ModelInv
<1>4. CASE st' = r.state /\ (r.role = "ERROR" => status' = "INCOMPLETE_PE")
  <2>1. ModelInv'
    BY <1>1, <1>2, <1>4, ZenonT(40) DEF ModelInv, Shape
  <2>2. Plain(r.role) \/ r.role = "ERROR"
    BY <1>1, ZenonT(40) DEF Shape
  <2>3. /\ st'.level = st.level
        /\ PhaseOf(st') = PhaseOf(st) \/ status' \notin Running
    BY <1>1, <1>4, <2>2, ZenonT(40) DEF Shape, ModelShape, Plain, ModelRoles, NameRoles, CloseRoles, Running
  <2> QED BY <1>2, <2>1, <2>3, PlainStep, ZenonT(40)
<1> QED BY <1>2, <1>3, <1>4, ZenonT(40)

(* Every step of doProlog, and of the application between two tokens. *)
LEMMA ModelNext ==
    ASSUME ModelInv, [PrologNext]_prologVars
    PROVE  ModelInv' /\ [Scaff!ScaffoldNext]_(Scaff!scaffoldVars)
<1>1. CASE \E tok \in scenario.tokens : Token(tok)
  BY <1>1, TokenModel
<1>2. CASE EndOfEntity
  BY <1>2, EndModel
<1>3. CASE BadToken
  <2>1. status = "parsing" /\ SameScaffold /\ UNCHANGED <<elementDecl, scenario, st>>
    BY <1>3 DEF BadToken, SameScaffold
  <2> QED BY <2>1, PlainStep DEF ModelInv
<1>4. CASE \E h \in scenario.toggled : SetHandler(h)
  <2>1. /\ elementDecl' \in BOOLEAN
        /\ SameScaffold /\ UNCHANGED <<scenario, st, status>>
    BY <1>4 DEF SetHandler, SameScaffold
  <2>2. elementDecl' = elementDecl \/ elementDecl' = ~elementDecl
    BY <2>1, Zenon DEF ModelInv
  <2>3. CASE elementDecl' = elementDecl
    BY <2>1, <2>3 DEF ModelInv, SameScaffold, scaffoldVars, Scaff!scaffoldVars,
                      Scaff!groupVars, Scaff!scaffVars
  <2>4. CASE elementDecl' = ~elementDecl
    <3>1. Scaff!SetElementDeclHandler
      BY <2>1, <2>4, ZenonT(40) DEF SameScaffold, scaffoldVars, Scaff!SetElementDeclHandler,
                        Scaff!groupVars, Scaff!scaffVars
    <3> QED BY <2>1, <3>1 DEF ModelInv, Scaff!ScaffoldNext
  <2> QED BY <2>2, <2>3, <2>4
<1>5. CASE UNCHANGED prologVars
  BY <1>5 DEF prologVars, ModelInv, scaffoldVars, Scaff!scaffoldVars,
              Scaff!groupVars, Scaff!scaffVars
<1> QED BY <1>1, <1>2, <1>3, <1>4, <1>5, Zenon DEF PrologNext

LEMMA StateInit == StateOK(XmlPrologStateInit) /\ StateOK(XmlPrologStateInitExternalEntity)
BY DEF StateOK, States, XmlPrologStateInit, XmlPrologStateInitExternalEntity, Outside, FirstLevel, NoneRoles

LEMMA ModelStart == PrologInit => ModelInv /\ Scaff!ScaffoldInit
<1> SUFFICES ASSUME PrologInit PROVE ModelInv /\ Scaff!ScaffoldInit
  OBVIOUS
<1>0. /\ scenario \in Scenarios /\ elementDecl = ("element" \in handlers)
      /\ st = IF scenario.subset THEN XmlPrologStateInitExternalEntity ELSE XmlPrologStateInit
      /\ groupSize = 0 /\ groupConnector = <<>> /\ in_eldecl = FALSE
      /\ scaffold = <<>> /\ scaffCount = 0 /\ scaffSize = 0
      /\ scaffIndex = <<>> /\ scaffIndexSize = 0 /\ scaffLevel = 0
      /\ contentStringLen = 0 /\ model = <<>> /\ status = "parsing"
  BY Zenon DEF PrologInit
<1>1. elementDecl \in BOOLEAN
  BY <1>0
<1>2. st = XmlPrologStateInit \/ st = XmlPrologStateInitExternalEntity
  BY <1>0, Zenon
<1>3. ModelInv
  BY <1>0, <1>1, <1>2, StateInit, Zenon DEF ModelInv
<1>4. Idle(st) /\ st.handler # "element1" /\ st.level = 0
  BY <1>2 DEF Idle, XmlPrologStateInit, XmlPrologStateInitExternalEntity
<1>5. Scaff!ScaffoldInit
  BY <1>0, <1>1, <1>4 DEF Scaff!ScaffoldInit, Scaff!NoModel
<1> QED BY <1>3, <1>5

(* The roles ELEMENT_NAME to GROUP_CLOSE of doProlog, whatever tokens,     *)
(* errors, parameter entities and changes of handlers come between them,   *)
(* are steps of the component Scaffold.                                    *)
THEOREM ContentModels == PrologSpec => ContentModelsAreScaffold
<1>1. PrologInit => ModelInv /\ Scaff!ScaffoldInit
  BY ModelStart
<1>2. ModelInv /\ [PrologNext]_prologVars => ModelInv' /\ [Scaff!ScaffoldNext]_(Scaff!scaffoldVars)
  BY ModelNext
<1> QED BY <1>1, <1>2, PTL DEF PrologSpec, ContentModelsAreScaffold, Scaff!ScaffoldSpec

-----------------------------------------------------------------------------
(* What the roles do to the DTD.                                           *)

IsDtd(d) ==
    d = [entities |-> d.entities, defaultAtts |-> d.defaultAtts, idAtt |-> d.idAtt,
         keepProcessing |-> d.keepProcessing, hasParamEntityRefs |-> d.hasParamEntityRefs,
         standalone |-> d.standalone]

(* Only a document that is not standalone stops processing its DTD, and    *)
(* the XML declaration, which may make it standalone, comes before.        *)
DtdInv ==
    /\ IsDtd(dtd)
    /\ dtd.keepProcessing \in BOOLEAN /\ dtd.standalone \in BOOLEAN
    /\ dtd.keepProcessing \/ ~dtd.standalone
    /\ st.handler = "prolog0" => dtd.keepProcessing

EntitiesKept(old, new) ==
    \A e \in DOMAIN new \ {ExternalSubset} : e \in DOMAIN old /\ new[e] = old[e]

(* A role whose attribute declarations are none: what is left of DtdInv,   *)
(* and what it keeps once the DTD is not processed any more.               *)
DtdRole ==
    /\ IsDtd(dtd')
    /\ dtd'.keepProcessing \in BOOLEAN /\ dtd'.standalone \in BOOLEAN
    /\ dtd'.keepProcessing \/ ~dtd'.standalone
    /\ dtd'.keepProcessing => dtd.keepProcessing
    /\ dtd.keepProcessing \/ EntitiesKept(dtd.entities, dtd'.entities)
AttributesKept ==
    dtd'.defaultAtts = dtd.defaultAtts /\ dtd'.idAtt = dtd.idAtt /\ declared' = declared

LEMMA SameDtdRole ==
    ASSUME DtdInv, dtd' = dtd
    PROVE  DtdRole /\ dtd'.defaultAtts = dtd.defaultAtts /\ dtd'.idAtt = dtd.idAtt
BY DEF DtdInv, DtdRole, EntitiesKept

(* The roles that change nothing of the DTD but its entities, and then the *)
(* external subset only unless the DTD is being processed.                 *)
LEMMA EntitiesRole ==
    ASSUME DtdInv, NEW entities, NEW refs,
           dtd.keepProcessing \/ EntitiesKept(dtd.entities, entities),
           dtd' = [dtd EXCEPT !.entities = entities, !.hasParamEntityRefs = refs]
    PROVE  DtdRole /\ dtd'.defaultAtts = dtd.defaultAtts /\ dtd'.idAtt = dtd.idAtt
BY Zenon DEF DtdInv, DtdRole, IsDtd

LEMMA LookedUpKept ==
    ASSUME NEW entities, NEW new
    PROVE  /\ EntitiesKept(entities, LookedUp(entities, ExternalSubset, new))
           /\ ExternalSubset \in DOMAIN LookedUp(entities, ExternalSubset, new)
BY DEF EntitiesKept, LookedUp
LEMMA SameEntitiesKept == ASSUME NEW entities PROVE EntitiesKept(entities, entities)
BY DEF EntitiesKept

LEMMA XmlDeclRole ==
    ASSUME DtdInv, NEW role, NEW tok, XmlDecl(role, tok), role = "XML_DECL" => st.handler = "prolog0"
    PROVE  DtdRole /\ AttributesKept
<1> DEFINE alone == role = "XML_DECL" /\ tok.word = "yes"
<1>1. dtd' = [dtd EXCEPT !.standalone = @ \/ alone] /\ declared' = declared
  BY DEF XmlDecl
<1>2. alone => dtd.keepProcessing
  BY DEF DtdInv
<1> HIDE DEF alone
<1>3. /\ IsDtd(dtd') /\ dtd'.entities = dtd.entities /\ dtd'.keepProcessing = dtd.keepProcessing
      /\ dtd'.standalone = (dtd.standalone \/ alone)
      /\ dtd'.defaultAtts = dtd.defaultAtts /\ dtd'.idAtt = dtd.idAtt
  BY <1>1 DEF DtdInv, IsDtd
<1> QED BY <1>1, <1>2, <1>3, SameEntitiesKept DEF DtdInv, DtdRole, AttributesKept

(* The identifiers and the end of the DOCTYPE declaration add the external *)
(* subset to the entities.                                                 *)
LEMMA PublicIdRole ==
    ASSUME DtdInv, NEW role, NEW tok, PublicId(role, tok)
    PROVE  DtdRole /\ AttributesKept
<1> DEFINE doctype == role = "DOCTYPE_PUBLIC_ID"
           e == IF doctype THEN ExternalSubset ELSE decl.entity
           known == IF doctype THEN LookedUp(dtd.entities, e, NewEntity(FALSE)) ELSE dtd.entities
           stored == XmlIsPublicId(tok.text) /\ KeepProcessing /\ e # NoDecl
           id == normalizePublicId(tok.text)
           E == IF stored THEN [known EXCEPT ![e].publicId = id] ELSE known
           R == dtd.hasParamEntityRefs \/ doctype
<1>1. dtd' = [dtd EXCEPT !.entities = E, !.hasParamEntityRefs = R] /\ declared' = declared
  <2>1. dtd' = [dtd EXCEPT !.hasParamEntityRefs = R, !.entities = E] /\ declared' = declared
    BY Zenon DEF PublicId
  <2> HIDE DEF R, E
  <2> QED BY <2>1, Zenon DEF DtdInv, IsDtd
<1>2. EntitiesKept(dtd.entities, known)
  <2>1. CASE doctype
    BY <2>1, LookedUpKept, Zenon
  <2>2. CASE ~doctype
    BY <2>2, SameEntitiesKept, Zenon
  <2> QED BY <2>1, <2>2, Zenon
<1>3. dtd.keepProcessing \/ EntitiesKept(dtd.entities, E)
  <2> HIDE DEF known, e, id
  <2> QED BY <1>2 DEF KeepProcessing
<1> HIDE DEF E, R
<1> QED BY <1>1, <1>3, EntitiesRole, Zenon DEF AttributesKept

LEMMA DoctypeSystemIdRole ==
    ASSUME DtdInv, NEW role, NEW tok, DoctypeSystemId(role, tok)
    PROVE  DtdRole /\ AttributesKept
<1> DEFINE e == IF decl.entity = NoDecl THEN ExternalSubset ELSE decl.entity
           known == IF decl.entity = NoDecl
                    THEN [LookedUp(dtd.entities, e, NewEntity(FALSE)) EXCEPT ![e].publicId = NullText]
                    ELSE dtd.entities
           E == IF KeepProcessing THEN [known EXCEPT ![e].systemId = tok.text] ELSE known
<1>1. /\ declared' = declared
      /\ \/ dtd' = [dtd EXCEPT !.hasParamEntityRefs = TRUE, !.entities = E]
         \/ dtd' = [dtd EXCEPT !.hasParamEntityRefs = TRUE]
  BY Zenon DEF DoctypeSystemId
<1>2. EntitiesKept(dtd.entities, known)
  <2>1. CASE decl.entity = NoDecl
    <3> DEFINE l == LookedUp(dtd.entities, ExternalSubset, NewEntity(FALSE))
    <3>1. EntitiesKept(dtd.entities, l)
      BY LookedUpKept, Zenon
    <3>2. known = [l EXCEPT ![ExternalSubset].publicId = NullText]
      BY <2>1, Zenon
    <3> HIDE DEF l, known
    <3> QED BY <3>1, <3>2 DEF EntitiesKept
  <2>2. CASE decl.entity # NoDecl
    BY <2>2, SameEntitiesKept, Zenon
  <2> QED BY <2>1, <2>2
<1>3. dtd.keepProcessing \/ EntitiesKept(dtd.entities, E)
  <2> HIDE DEF known, e
  <2> QED BY <1>2 DEF KeepProcessing
<1> HIDE DEF E
<1>4. \/ dtd' = [dtd EXCEPT !.entities = E, !.hasParamEntityRefs = TRUE]
      \/ dtd' = [dtd EXCEPT !.entities = dtd.entities, !.hasParamEntityRefs = TRUE]
  BY <1>1, ZenonT(40) DEF DtdInv, IsDtd
<1> QED BY <1>1, <1>3, <1>4, EntitiesRole, SameEntitiesKept, Zenon DEF AttributesKept

LEMMA EndOfDtdRole ==
    ASSUME DtdInv, NEW role, EndOfDtd(role)
    PROVE  DtdRole /\ AttributesKept
<1> DEFINE asks == /\ (role = "DOCTYPE_CLOSE" /\ decl.doctypeSysid # NullText) \/ decl.useForeignDTD
                   /\ paramEntityParsing # "NEVER" /\ Installed("externalEntityRef")
           known == IF asks THEN LookedUp(dtd.entities, ExternalSubset, NewEntity(FALSE))
                    ELSE dtd.entities
<1>1. declared' = declared /\ \E R : dtd' = [dtd EXCEPT !.entities = known, !.hasParamEntityRefs = R]
  BY Zenon DEF EndOfDtd
<1>2. EntitiesKept(dtd.entities, known)
  BY LookedUpKept, SameEntitiesKept, Zenon
<1> HIDE DEF known
<1> QED BY <1>1, <1>2, EntitiesRole, Zenon DEF AttributesKept

(* A reference to a parameter entity leaves the entities alone, and        *)
(* processing goes on only where it did, unless the document is standalone.*)
LEMMA ParamEntityRefRole ==
    ASSUME DtdInv, NEW role, NEW tok, ParamEntityRef(role, tok)
    PROVE  DtdRole /\ AttributesKept
<1>1. declared' = declared
  BY DEF ParamEntityRef
<1>2. \/ dtd' = NotFollowed
      \/ dtd' = [dtd EXCEPT !.hasParamEntityRefs = TRUE]
      \/ \E keep \in {KeepProcessing, KeepProcessing /\ dtd.standalone} :
           dtd' = [dtd EXCEPT !.hasParamEntityRefs = TRUE, !.keepProcessing = keep]
  BY ZenonT(40) DEF ParamEntityRef
<1>3. \E keep \in BOOLEAN :
        /\ keep => dtd.keepProcessing
        /\ keep \/ ~dtd.standalone
        /\ dtd' = [dtd EXCEPT !.hasParamEntityRefs = TRUE, !.keepProcessing = keep]
  <2>1. CASE dtd' = NotFollowed
    BY <2>1, ZenonT(40) DEF NotFollowed, DtdInv
  <2>2. CASE dtd' = [dtd EXCEPT !.hasParamEntityRefs = TRUE]
    <3>1. dtd' = [dtd EXCEPT !.hasParamEntityRefs = TRUE, !.keepProcessing = dtd.keepProcessing]
      BY <2>2, ZenonT(40) DEF DtdInv, IsDtd
    <3> QED BY <3>1, Zenon DEF DtdInv
  <2>3. CASE \E keep \in {KeepProcessing, KeepProcessing /\ dtd.standalone} :
               dtd' = [dtd EXCEPT !.hasParamEntityRefs = TRUE, !.keepProcessing = keep]
    BY <2>3, Zenon DEF DtdInv, KeepProcessing
  <2> QED BY <1>2, <2>1, <2>2, <2>3, ZenonT(40)
<1>4. PICK keep \in BOOLEAN :
        /\ keep => dtd.keepProcessing
        /\ keep \/ ~dtd.standalone
        /\ dtd' = [dtd EXCEPT !.hasParamEntityRefs = TRUE, !.keepProcessing = keep]
  BY <1>3, Zenon
<1>5. /\ IsDtd(dtd') /\ dtd'.entities = dtd.entities /\ dtd'.keepProcessing = keep
      /\ dtd'.standalone = dtd.standalone
      /\ dtd'.defaultAtts = dtd.defaultAtts /\ dtd'.idAtt = dtd.idAtt
  BY <1>4, Zenon DEF DtdInv, IsDtd
<1> QED BY <1>1, <1>4, <1>5, SameEntitiesKept, Zenon DEF DtdInv, DtdRole, AttributesKept

(* The roles of an entity declaration do nothing unless the DTD is being   *)
(* processed.                                                              *)
LEMMA EntityRole ==
    ASSUME DtdInv, NEW role, NEW tok,
           \/ EntityName(role, tok) \/ EntityValue(role, tok) \/ EntitySystemId(role, tok)
           \/ EntityNotationName(role, tok)
    PROVE  DtdRole /\ AttributesKept
<1>1. declared' = declared
  BY DEF EntityName, EntityValue, EntitySystemId, EntityNotationName
<1>2. \/ dtd' = dtd
      \/ dtd.keepProcessing /\ \E E : dtd' = [dtd EXCEPT !.entities = E]
  <2>1. CASE EntityName(role, tok)
    BY <2>1, Zenon DEF EntityName, KeepProcessing
  <2>2. CASE EntityValue(role, tok)
    BY <2>2, Zenon DEF EntityValue, Declaring, KeepProcessing
  <2>3. CASE EntitySystemId(role, tok)
    BY <2>3, Zenon DEF EntitySystemId, Declaring, KeepProcessing
  <2>4. CASE EntityNotationName(role, tok)
    BY <2>4, Zenon DEF EntityNotationName, Declaring, KeepProcessing
  <2> QED BY <2>1, <2>2, <2>3, <2>4
<1>3. CASE dtd' = dtd
  BY <1>1, <1>3, SameDtdRole DEF AttributesKept
<1>4. CASE dtd.keepProcessing /\ \E E : dtd' = [dtd EXCEPT !.entities = E]
  <2>1. PICK E : dtd' = [dtd EXCEPT !.entities = E]
    BY <1>4, Zenon
  <2>2. dtd' = [dtd EXCEPT !.entities = E, !.hasParamEntityRefs = dtd.hasParamEntityRefs]
    BY <2>1, Zenon DEF DtdInv, IsDtd
  <2> QED BY <1>1, <1>4, <2>2, EntitiesRole, Zenon DEF AttributesKept
<1> QED BY <1>2, <1>3, <1>4, Zenon

(* The roles that may change the DTD. *)
LEMMA DtdRoles ==
    ASSUME NEW tok, Token(tok)
    PROVE  LET role == XmlTokenRole(st, tok).role IN
           \/ SameDtd
           \/ XmlDecl(role, tok) \/ PublicId(role, tok) \/ DoctypeSystemId(role, tok) \/ EndOfDtd(role)
           \/ ParamEntityRef(role, tok)
           \/ EntityName(role, tok) \/ EntityValue(role, tok) \/ EntitySystemId(role, tok)
           \/ EntityNotationName(role, tok) \/ AttributeValue(role, tok)
BY ZenonT(40) DEF Token, DoctypeName, DoctypeInternalSubset, DoctypeCloseInEntity, AttlistName,
       AttributeType, AttributeEnumValue, EntityComplete, NotationName, NotationPublicId,
       NotationEnd, ElementName, ElementModel, ModelRefused, Report, IgnoreSect, NoneRole,
       RoleError, OnlyCalls

(* All roles but the one that completes an attribute's declaration. *)
LEMMA OtherRoles ==
    ASSUME DtdInv, ModelInv, NEW tok, Token(tok),
           ~AttributeValue(XmlTokenRole(st, tok).role, tok)
    PROVE  DtdRole /\ AttributesKept
<1> DEFINE r == XmlTokenRole(st, tok)
           role == r.role
<1>0. role = "XML_DECL" => st.handler = "prolog0"
  BY RoleShape, ZenonT(40) DEF ModelInv, Shape
<1>1. \/ SameDtd
      \/ XmlDecl(role, tok) \/ PublicId(role, tok) \/ DoctypeSystemId(role, tok) \/ EndOfDtd(role)
      \/ ParamEntityRef(role, tok)
      \/ EntityName(role, tok) \/ EntityValue(role, tok) \/ EntitySystemId(role, tok)
      \/ EntityNotationName(role, tok)
  BY DtdRoles, Zenon
<1> HIDE DEF r
<1>2. CASE SameDtd
  BY <1>2, SameDtdRole DEF SameDtd, AttributesKept
<1> QED BY <1>0, <1>1, <1>2, XmlDeclRole, PublicIdRole, DoctypeSystemIdRole, EndOfDtdRole,
           ParamEntityRefRole, EntityRole

(* The role that completes an attribute's declaration adds an entry to the *)
(* list of its element, or finds one.                                      *)
Own(el) == IF el \in DOMAIN dtd.defaultAtts THEN dtd.defaultAtts[el] ELSE <<>>
Added(el, entry) ==
    [x \in DOMAIN dtd.defaultAtts \cup {el} |->
       IF x = el THEN Append(Own(el), entry) ELSE dtd.defaultAtts[x]]

LEMMA AttributeRole ==
    ASSUME DtdInv, NEW role, NEW tok, AttributeValue(role, tok)
    PROVE  /\ DtdRole
           /\ \/ dtd' = dtd /\ declared' = declared
              \/ /\ dtd.keepProcessing
                 /\ \E el, id, value, isCdata :
                      /\ declared' = Append(declared, [element |-> el, id |-> id, value |-> value,
                                                       isCdata |-> isCdata])
                      /\ \/ /\ dtd'.defaultAtts = dtd.defaultAtts
                            /\ \E k \in 1 .. Len(Own(el)) : Own(el)[k].id = id
                         \/ /\ dtd'.defaultAtts =
                                 Added(el, [id |-> id, value |-> value, isCdata |-> isCdata])
                            /\ \/ value = NullText
                               \/ \A k \in 1 .. Len(Own(el)) : Own(el)[k].id # id
<1> DEFINE valued == role \in {"DEFAULT_ATTRIBUTE_VALUE", "FIXED_ATTRIBUTE_VALUE"}
           value == IF valued THEN tok.text ELSE NullText
           isId == decl.isId /\ ~valued
           entry == [id |-> decl.attribute, value |-> value, isCdata |-> decl.isCdata]
           I == IF isId /\ decl.element \notin DOMAIN dtd.idAtt
                THEN [x \in DOMAIN dtd.idAtt \cup {decl.element} |->
                        IF x = decl.element THEN decl.attribute ELSE dtd.idAtt[x]]
                ELSE dtd.idAtt
           present == \E k \in 1 .. Len(Own(decl.element)) : Own(decl.element)[k].id = decl.attribute
<1>1. CASE ~dtd.keepProcessing
  <2>1. dtd' = dtd /\ declared' = declared
    BY <1>1 DEF AttributeValue, KeepProcessing, SameDtd
  <2> QED BY <2>1, SameDtdRole
<1>2. CASE dtd.keepProcessing
  <2>1. /\ dtd' = defineAttribute(isId, value)
        /\ declared' = Append(declared, [element |-> decl.element, id |-> decl.attribute,
                                         value |-> value, isCdata |-> decl.isCdata])
    BY <1>2, Zenon DEF AttributeValue, KeepProcessing
  <2>2. dtd' = IF (value # NullText \/ isId) /\ present THEN dtd
               ELSE [dtd EXCEPT !.defaultAtts = Added(decl.element, entry), !.idAtt = I]
    BY <2>1, Zenon DEF defineAttribute, Own, Added
  <2> HIDE DEF value, isId, I
  <2>3. CASE (value # NullText \/ isId) /\ present
    <3>1. dtd' = dtd
      BY <2>2, <2>3, Zenon
    <3>2. DtdRole
      BY <3>1, SameDtdRole
    <3> QED BY <1>2, <2>1, <2>3, <3>1, <3>2, Zenon
  <2>4. CASE ~((value # NullText \/ isId) /\ present)
    <3> DEFINE A == Added(decl.element, entry)
    <3>1. dtd' = [dtd EXCEPT !.defaultAtts = A, !.idAtt = I]
      BY <2>2, <2>4, Zenon
    <3>2. value = NullText \/ ~present
      BY <2>4
    <3> HIDE DEF A
    <3>3. /\ IsDtd(dtd') /\ dtd'.entities = dtd.entities /\ dtd'.defaultAtts = A
          /\ dtd'.keepProcessing = dtd.keepProcessing /\ dtd'.standalone = dtd.standalone
      BY <3>1, Zenon DEF DtdInv, IsDtd
    <3>4. DtdRole
      BY <1>2, <3>3, Zenon DEF DtdInv, DtdRole
    <3>5. dtd'.defaultAtts = Added(decl.element, entry)
      BY <3>3 DEF A
    <3>6. \/ value = NullText
          \/ \A k \in 1 .. Len(Own(decl.element)) : Own(decl.element)[k].id # decl.attribute
      BY <3>2, Zenon
    <3> QED BY <1>2, <2>1, <3>4, <3>5, <3>6, Zenon
  <2> QED BY <2>3, <2>4, Zenon
<1> QED BY <1>1, <1>2, Zenon DEF DtdInv

-----------------------------------------------------------------------------
(* An entity that is not read stops the DTD.                               *)

LEMMA DtdStart == PrologInit => DtdInv
<1> SUFFICES ASSUME PrologInit PROVE DtdInv
  OBVIOUS
<1>0. (scenario.subset /\ scenario.alone) \in BOOLEAN
  OBVIOUS
<1>1. PICK alone \in BOOLEAN : \E entities, refs :
        dtd = [entities |-> entities, defaultAtts |-> <<>>, idAtt |-> <<>>, keepProcessing |-> TRUE,
               hasParamEntityRefs |-> refs, standalone |-> alone]
  BY <1>0, Zenon DEF PrologInit
<1> QED BY <1>1 DEF DtdInv, IsDtd

LEMMA TokenDtd ==
    ASSUME DtdInv, ModelInv, NEW tok, Token(tok)
    PROVE  DtdRole /\ (dtd.keepProcessing \/ AttributesKept)
<1>1. CASE AttributeValue(XmlTokenRole(st, tok).role, tok)
  BY <1>1, AttributeRole DEF AttributesKept
<1>2. CASE ~AttributeValue(XmlTokenRole(st, tok).role, tok)
  BY <1>2, OtherRoles
<1> QED BY <1>1, <1>2

(* Only white space and a byte order mark keep prolog0. *)
LEMMA PrologBehind ==
    ASSUME ModelInv, NEW tok, Token(tok)
    PROVE  st'.handler = "prolog0" => st.handler = "prolog0" /\ dtd' = dtd
<1> DEFINE r == XmlTokenRole(st, tok)
           role == r.role
<1>1. st' = r.state
  BY ZenonT(40) DEF Token
<1>2. st'.handler = "prolog0" => st.handler = "prolog0" /\ role = "NONE"
  BY <1>1, RoleShape, Zenon DEF ModelInv, Shape
<1>3. \/ SameDtd
      \/ XmlDecl(role, tok) \/ PublicId(role, tok) \/ DoctypeSystemId(role, tok) \/ EndOfDtd(role)
      \/ ParamEntityRef(role, tok)
      \/ EntityName(role, tok) \/ EntityValue(role, tok) \/ EntitySystemId(role, tok)
      \/ EntityNotationName(role, tok) \/ AttributeValue(role, tok)
  BY DtdRoles, ZenonT(40)
<1> HIDE DEF r
<1>4. ASSUME role = "NONE" PROVE dtd' = dtd
  BY <1>3, <1>4, ZenonT(40) DEF SameDtd, XmlDecl, PublicId, DoctypeSystemId, EndOfDtd, ParamEntityRef,
                    EntityName, EntityValue, EntitySystemId, EntityNotationName, AttributeValue
<1> QED BY <1>2, <1>4

(* A step keeps DtdInv, and the DTD once it is not processed. *)
LEMMA DtdNext ==
    ASSUME DtdInv, ModelInv, [PrologNext]_prologVars
    PROVE  DtdInv' /\ DtdRole /\ (dtd.keepProcessing \/ AttributesKept)
<1> DEFINE Quiet0 ==
      dtd' = dtd /\ declared' = declared /\ (st'.handler = "prolog0" => st.handler = "prolog0")
<1>1. CASE Quiet0
  BY <1>1, SameDtdRole, Zenon DEF DtdInv, AttributesKept
<1>2. CASE \E tok \in scenario.tokens : Token(tok)
  <2>1. PICK tok : Token(tok)
    BY <1>2
  <2>2. DtdRole /\ (dtd.keepProcessing \/ AttributesKept)
    BY <2>1, TokenDtd
  <2>3. st'.handler = "prolog0" => dtd.keepProcessing /\ dtd' = dtd
    BY <2>1, PrologBehind DEF DtdInv
  <2> QED BY <2>2, <2>3 DEF DtdInv, DtdRole
<1>3. CASE EndOfEntity
  <2>1. dtd' = dtd /\ declared' = declared
    BY <1>3, Zenon DEF EndOfEntity, historyVars
  <2>2. Shape(st, "NONE", XmlTokenRole(st, Tok("NONE", "")).role, XmlTokenRole(st, Tok("NONE", "")).state)
    BY RoleShape, Zenon DEF ModelInv, Tok
  <2>3. st' = st \/ st' = XmlTokenRole(st, Tok("NONE", "")).state
    BY <1>3, EndStep, ZenonT(40)
  <2>4. st'.handler = "prolog0" => st.handler = "prolog0"
    BY <2>2, <2>3, Zenon DEF Shape
  <2> QED BY <1>1, <2>1, <2>4
<1>4. CASE BadToken
  BY <1>1, <1>4, ZenonT(40) DEF BadToken, historyVars
<1>5. CASE \E h \in scenario.toggled : SetHandler(h)
  BY <1>1, <1>5, Zenon DEF SetHandler, historyVars
<1>6. CASE UNCHANGED prologVars
  BY <1>1, <1>6 DEF prologVars, historyVars
<1> QED BY <1>2, <1>3, <1>4, <1>5, <1>6, Zenon DEF PrologNext

(* keepProcessing, once FALSE, stays FALSE, and then no declaration of an  *)
(* attribute or of an entity changes the DTD.                              *)
THEOREM UnreadStops == PrologSpec => UnreadStopsDtd
<1>1. PrologInit => ModelInv /\ DtdInv
  BY ModelStart, DtdStart, Zenon
<1>2. ModelInv /\ DtdInv /\ [PrologNext]_prologVars =>
        /\ ModelInv' /\ DtdInv'
        /\ ~KeepProcessing => /\ ~dtd'.keepProcessing
              /\ dtd'.defaultAtts = dtd.defaultAtts /\ dtd'.idAtt = dtd.idAtt
              /\ \A e \in DOMAIN dtd'.entities \ {ExternalSubset} :
                   e \in DOMAIN dtd.entities /\ dtd'.entities[e] = dtd.entities[e]
  <2> SUFFICES ASSUME ModelInv, DtdInv, [PrologNext]_prologVars
               PROVE  /\ ModelInv' /\ DtdInv'
                      /\ ~KeepProcessing => /\ ~dtd'.keepProcessing
                            /\ dtd'.defaultAtts = dtd.defaultAtts /\ dtd'.idAtt = dtd.idAtt
                            /\ \A e \in DOMAIN dtd'.entities \ {ExternalSubset} :
                                 e \in DOMAIN dtd.entities /\ dtd'.entities[e] = dtd.entities[e]
    OBVIOUS
  <2>1. ModelInv'
    BY ModelNext
  <2>2. DtdInv' /\ DtdRole /\ (dtd.keepProcessing \/ AttributesKept)
    BY DtdNext
  <2> QED BY <2>1, <2>2, Zenon DEF DtdRole, AttributesKept, EntitiesKept, KeepProcessing
<1> QED BY <1>1, <1>2, PTL DEF PrologSpec, UnreadStopsDtd

-----------------------------------------------------------------------------
(* The first declaration of an attribute binds.                            *)

IsSeq(s) == \E S : s \in Seq(S)

LEMMA AppendIs ==
    ASSUME NEW s, IsSeq(s), NEW x
    PROVE  /\ IsSeq(Append(s, x)) /\ Len(s) \in Nat /\ Len(Append(s, x)) = Len(s) + 1
           /\ \A i \in 1 .. Len(s) : Append(s, x)[i] = s[i]
           /\ Append(s, x)[Len(s) + 1] = x
<1>1. PICK S : s \in Seq(S)
  BY DEF IsSeq
<1>2. s \in Seq(S \cup {x})
  BY <1>1
<1>3. Append(s, x) \in Seq(S \cup {x})
  BY <1>2
<1> QED BY <1>1, <1>2, <1>3 DEF IsSeq

(* The indices of a sequence of length k that is one longer than m.        *)
LEMMA Indices ==
    ASSUME NEW m \in Nat, NEW k, k = m + 1
    PROVE  /\ m + 1 \in 1 .. k
           /\ \A i \in 1 .. m : i \in 1 .. k /\ \A j \in 1 .. i - 1 : j \in 1 .. m
           /\ \A i \in 1 .. k : i = m + 1 \/ i \in 1 .. m
           /\ \A j \in 1 .. m : j \in 1 .. (m + 1) - 1
  BY SMTT(30)

(* Every processed declaration's element has a list, and every entry of a  *)
(* list is of a declaration; a is the lists, d the declarations.           *)
ListsOK(a, d) ==
    /\ IsSeq(d)
    /\ \A el \in DOMAIN a : IsSeq(a[el])
    /\ \A i \in 1 .. Len(d) : d[i].element \in DOMAIN a
    /\ \A el \in DOMAIN a : \A k \in 1 .. Len(a[el]) :
         \E i \in 1 .. Len(d) : d[i].element = el /\ d[i].id = a[el][k].id
First(d, i) == \A j \in 1 .. i - 1 : d[j].element # d[i].element \/ d[j].id # d[i].id
Binds(list, e) ==
    \E k \in 1 .. Len(list) :
      /\ list[k].id = e.id /\ list[k].value = e.value /\ list[k].isCdata = e.isCdata
      /\ \A j \in 1 .. k - 1 : list[j].id # e.id
      /\ e.value = NullText =>
           \A j \in 1 .. Len(list) : list[j].id = e.id => list[j].value = NullText
BindsAll(a, d) == \A i \in 1 .. Len(d) : First(d, i) => Binds(a[d[i].element], d[i])

LEMMA BindsIs == FirstDeclarationBinds <=> BindsAll(dtd.defaultAtts, declared)
BY Zenon DEF FirstDeclarationBinds, BindsAll, First, Binds

(* A declaration that finds the attribute in the list is not the first. *)
LEMMA FoundBinds ==
    ASSUME NEW a, NEW d, NEW x, ListsOK(a, d), BindsAll(a, d),
           x.element \in DOMAIN a, NEW k \in 1 .. Len(a[x.element]), a[x.element][k].id = x.id
    PROVE  ListsOK(a, Append(d, x)) /\ BindsAll(a, Append(d, x))
<1> DEFINE n == Append(d, x)
<1>1. /\ IsSeq(n) /\ Len(d) \in Nat /\ Len(n) = Len(d) + 1
      /\ \A i \in 1 .. Len(d) : n[i] = d[i]
      /\ n[Len(d) + 1] = x
  BY AppendIs, ZenonT(40) DEF ListsOK
<1> HIDE DEF n
<1>2. PICK i0 \in 1 .. Len(d) : d[i0].element = x.element /\ d[i0].id = x.id
  <2>1. PICK i \in 1 .. Len(d) : d[i].element = x.element /\ d[i].id = a[x.element][k].id
    BY Zenon DEF ListsOK
  <2> QED BY <2>1, Zenon
<1>3. ListsOK(a, n)
  <2>1. ASSUME NEW i \in 1 .. Len(n) PROVE n[i].element \in DOMAIN a
    <3>1. CASE i = Len(d) + 1
      BY <1>1, <3>1, Zenon
    <3>2. CASE i \in 1 .. Len(d)
      <4>1. d[i].element \in DOMAIN a
        BY <3>2, Zenon DEF ListsOK
      <4> QED BY <1>1, <3>2, <4>1, Zenon
    <3>3. i = Len(d) + 1 \/ i \in 1 .. Len(d)
      BY <1>1, Indices, Zenon
    <3> QED BY <3>1, <3>2, <3>3, Zenon
  <2>2. ASSUME NEW el \in DOMAIN a, NEW j \in 1 .. Len(a[el])
        PROVE  \E i \in 1 .. Len(n) : n[i].element = el /\ n[i].id = a[el][j].id
    <3>1. PICK i \in 1 .. Len(d) : d[i].element = el /\ d[i].id = a[el][j].id
      BY Zenon DEF ListsOK
    <3>2. i \in 1 .. Len(n) /\ n[i] = d[i]
      BY <1>1, Indices, Zenon
    <3> QED BY <3>1, <3>2, Zenon
  <2> QED BY <1>1, <2>1, <2>2, Zenon DEF ListsOK
<1>4. ASSUME NEW i \in 1 .. Len(n), First(n, i)
      PROVE  i \in 1 .. Len(d) /\ First(d, i) /\ n[i] = d[i]
  <2>1. i # Len(d) + 1
    <3> SUFFICES ASSUME i = Len(d) + 1 PROVE FALSE
      OBVIOUS
    <3>1. i0 \in 1 .. i - 1 /\ n[i0] = d[i0] /\ n[i] = x
      BY <1>1, Indices, Zenon
    <3> QED BY <1>2, <1>4, <3>1, Zenon DEF First
  <2>2. i \in 1 .. Len(d) /\ \A j \in 1 .. i - 1 : j \in 1 .. Len(d)
    BY <1>1, <2>1, Indices, ZenonT(40)
  <2> QED BY <1>1, <1>4, <2>2, Zenon DEF First
<1>5. BindsAll(a, n)
  BY <1>4, Zenon DEF BindsAll
<1> QED BY <1>3, <1>5 DEF n

(* An entry behind those of a list binds for a first declaration, and      *)
(* takes nothing from the others unless it has a value.                    *)
LEMMA BehindBinds ==
    ASSUME NEW list, IsSeq(list), NEW entry, NEW e, Binds(list, e),
           entry.id = e.id => entry.value = NullText
    PROVE  Binds(Append(list, entry), e)
<1> DEFINE n == Append(list, entry)
<1>1. /\ IsSeq(n) /\ Len(list) \in Nat /\ Len(n) = Len(list) + 1
      /\ \A i \in 1 .. Len(list) : n[i] = list[i]
      /\ n[Len(list) + 1] = entry
  BY AppendIs, Zenon
<1> HIDE DEF n
<1>2. PICK k \in 1 .. Len(list) :
        /\ list[k].id = e.id /\ list[k].value = e.value /\ list[k].isCdata = e.isCdata
        /\ \A j \in 1 .. k - 1 : list[j].id # e.id
        /\ e.value = NullText =>
             \A j \in 1 .. Len(list) : list[j].id = e.id => list[j].value = NullText
  BY Zenon DEF Binds
<1>3. /\ k \in 1 .. Len(n)
      /\ n[k].id = e.id /\ n[k].value = e.value /\ n[k].isCdata = e.isCdata
      /\ \A j \in 1 .. k - 1 : n[j].id # e.id
  <2>1. k \in 1 .. Len(n) /\ \A j \in 1 .. k - 1 : j \in 1 .. Len(list)
    BY <1>1, Indices, Zenon
  <2> QED BY <1>1, <1>2, <2>1, Zenon
<1>4. ASSUME e.value = NullText, NEW j \in 1 .. Len(n), n[j].id = e.id PROVE n[j].value = NullText
  <2>1. j \in 1 .. Len(list) \/ j = Len(list) + 1
    BY <1>1, Indices, ZenonT(40)
  <2> QED BY <1>1, <1>2, <1>4, <2>1, Zenon
<1>5. Binds(n, e)
  BY <1>3, <1>4, Zenon DEF Binds
<1> QED BY <1>5, Zenon DEF n

LEMMA NewBinds ==
    ASSUME NEW list, IsSeq(list), NEW entry, \A k \in 1 .. Len(list) : list[k].id # entry.id,
           NEW e, entry.id = e.id, entry.value = e.value, entry.isCdata = e.isCdata
    PROVE  Binds(Append(list, entry), e)
<1> DEFINE n == Append(list, entry)
<1>1. /\ IsSeq(n) /\ Len(list) \in Nat /\ Len(n) = Len(list) + 1
      /\ \A i \in 1 .. Len(list) : n[i] = list[i]
      /\ n[Len(list) + 1] = entry
  BY AppendIs, Zenon
<1> HIDE DEF n
<1>2. /\ Len(list) + 1 \in 1 .. Len(n)
      /\ \A j \in 1 .. Len(list) : n[j].id # e.id
      /\ \A j \in 1 .. Len(n) : n[j].id = e.id => n[j].value = e.value
  <2>1. Len(list) + 1 \in 1 .. Len(n)
    BY <1>1, Indices, Zenon
  <2>2. \A j \in 1 .. Len(n) : j = Len(list) + 1 \/ j \in 1 .. Len(list)
    BY <1>1, Indices, Zenon
  <2>3. \A j \in 1 .. Len(list) : n[j].id # e.id
    BY <1>1, Zenon
  <2>4. ASSUME NEW j \in 1 .. Len(n), n[j].id = e.id PROVE n[j].value = e.value
    BY <1>1, <2>2, <2>3, <2>4, ZenonT(40)
  <2> QED BY <2>1, <2>3, <2>4, Zenon
<1>3. Binds(n, e)
  BY <1>1, <1>2 DEF Binds
<1> QED BY <1>3 DEF n

(* The lists b are the lists a with an entry for x behind the list of its  *)
(* element, which was own.                                                 *)
Extended(a, d, x, own, entry, b) ==
    /\ IsSeq(own)
    /\ \A k \in 1 .. Len(own) :
         \E i \in 1 .. Len(d) : d[i].element = x.element /\ d[i].id = own[k].id
    /\ x.element \in DOMAIN a => own = a[x.element]
    /\ entry.id = x.id /\ entry.value = x.value /\ entry.isCdata = x.isCdata
    /\ entry.value = NullText \/ \A k \in 1 .. Len(own) : own[k].id # entry.id
    /\ DOMAIN b = DOMAIN a \cup {x.element} /\ b[x.element] = Append(own, entry)
    /\ \A y \in DOMAIN a : y # x.element => b[y] = a[y]

LEMMA AddedLists ==
    ASSUME NEW a, NEW d, NEW x, NEW own, NEW entry, NEW b,
           ListsOK(a, d), Extended(a, d, x, own, entry, b)
    PROVE  ListsOK(b, Append(d, x))
<1>0. /\ IsSeq(own)
      /\ \A k \in 1 .. Len(own) :
           \E i \in 1 .. Len(d) : d[i].element = x.element /\ d[i].id = own[k].id
      /\ entry.id = x.id /\ DOMAIN b = DOMAIN a \cup {x.element}
      /\ \A y \in DOMAIN a : y # x.element => b[y] = a[y]
  BY Zenon DEF Extended
<1> DEFINE n == Append(d, x)
           new == Append(own, entry)
<1>1. /\ IsSeq(n) /\ Len(d) \in Nat /\ Len(n) = Len(d) + 1
      /\ \A i \in 1 .. Len(d) : n[i] = d[i]
      /\ n[Len(d) + 1] = x
  BY AppendIs, Zenon DEF ListsOK
<1>2. /\ IsSeq(new) /\ Len(own) \in Nat /\ Len(new) = Len(own) + 1
      /\ \A i \in 1 .. Len(own) : new[i] = own[i]
      /\ new[Len(own) + 1] = entry
  BY <1>0, AppendIs, Zenon
<1>3. b[x.element] = new
  BY Zenon DEF Extended
<1> HIDE DEF n, new
<1>4. ASSUME NEW y \in DOMAIN b PROVE IsSeq(b[y])
  <2>1. CASE y = x.element
    BY <1>2, <1>3, <2>1, Zenon
  <2>2. CASE y # x.element
    <3>1. y \in DOMAIN a /\ b[y] = a[y]
      BY <1>0, <2>2, Zenon
    <3> QED BY <3>1, Zenon DEF ListsOK
  <2> QED BY <2>1, <2>2
<1>5. ASSUME NEW i \in 1 .. Len(n) PROVE n[i].element \in DOMAIN b
  <2>1. CASE i = Len(d) + 1
    BY <1>0, <1>1, <2>1, Zenon
  <2>2. CASE i \in 1 .. Len(d)
    <3>1. d[i].element \in DOMAIN a
      BY <2>2, Zenon DEF ListsOK
    <3> QED BY <1>0, <1>1, <2>2, <3>1, Zenon
  <2>3. i = Len(d) + 1 \/ i \in 1 .. Len(d)
    BY <1>1, Indices, Zenon
  <2> QED BY <2>1, <2>2, <2>3, Zenon
<1>6. ASSUME NEW y \in DOMAIN b, NEW k \in 1 .. Len(b[y])
      PROVE  \E i \in 1 .. Len(n) : n[i].element = y /\ n[i].id = b[y][k].id
  <2>1. CASE y # x.element
    <3>1. y \in DOMAIN a /\ b[y] = a[y]
      BY <1>0, <2>1, Zenon
    <3>2. k \in 1 .. Len(a[y])
      BY <3>1, Zenon
    <3>3. PICK i \in 1 .. Len(d) : d[i].element = y /\ d[i].id = a[y][k].id
      BY <3>1, <3>2, ZenonT(40) DEF ListsOK
    <3>4. i \in 1 .. Len(n) /\ n[i] = d[i]
      BY <1>1, Indices, Zenon
    <3> QED BY <3>1, <3>3, <3>4, ZenonT(40)
  <2>2. CASE y = x.element /\ k \in 1 .. Len(own)
    <3>1. PICK i \in 1 .. Len(d) : d[i].element = x.element /\ d[i].id = own[k].id
      BY <1>0, <2>2, Zenon
    <3>2. i \in 1 .. Len(n) /\ n[i] = d[i]
      BY <1>1, Indices, Zenon
    <3> QED BY <1>2, <1>3, <2>2, <3>1, <3>2, Zenon
  <2>3. CASE y = x.element /\ k = Len(own) + 1
    <3>1. Len(d) + 1 \in 1 .. Len(n)
      BY <1>1, Indices, Zenon
    <3> QED BY <1>0, <1>1, <1>2, <1>3, <2>3, <3>1, Zenon
  <2>4. y = x.element => k \in 1 .. Len(own) \/ k = Len(own) + 1
    BY <1>2, <1>3, Indices, Zenon
  <2> QED BY <2>1, <2>2, <2>3, <2>4, Zenon
<1>7. ListsOK(b, n)
  BY <1>1, <1>4, <1>5, <1>6, Zenon DEF ListsOK
<1> QED BY <1>7, ZenonT(40) DEF n

LEMMA AddedBinds ==
    ASSUME NEW a, NEW d, NEW x, NEW own, NEW entry, NEW b,
           ListsOK(a, d), BindsAll(a, d), Extended(a, d, x, own, entry, b)
    PROVE  BindsAll(b, Append(d, x))
<1>0. /\ IsSeq(own)
      /\ \A k \in 1 .. Len(own) :
           \E i \in 1 .. Len(d) : d[i].element = x.element /\ d[i].id = own[k].id
      /\ x.element \in DOMAIN a => own = a[x.element]
      /\ entry.id = x.id /\ entry.value = x.value /\ entry.isCdata = x.isCdata
      /\ entry.value = NullText \/ \A k \in 1 .. Len(own) : own[k].id # entry.id
      /\ b[x.element] = Append(own, entry)
      /\ \A y \in DOMAIN a : y # x.element => b[y] = a[y]
  BY Zenon DEF Extended
<1> DEFINE n == Append(d, x)
<1>1. /\ IsSeq(n) /\ Len(d) \in Nat /\ Len(n) = Len(d) + 1
      /\ \A i \in 1 .. Len(d) : n[i] = d[i]
      /\ n[Len(d) + 1] = x
  BY AppendIs, Zenon DEF ListsOK
<1> HIDE DEF n
<1>2. ASSUME NEW i \in 1 .. Len(n), First(n, i) PROVE Binds(b[n[i].element], n[i])
  <2>1. CASE i = Len(d) + 1
    <3>1. n[i] = x
      BY <1>1, <2>1, Zenon
    <3>2. \A k \in 1 .. Len(own) : own[k].id # entry.id
      <4> SUFFICES ASSUME NEW k \in 1 .. Len(own), own[k].id = entry.id PROVE FALSE
        BY Zenon
      <4>1. PICK j \in 1 .. Len(d) : d[j].element = x.element /\ d[j].id = own[k].id
        BY <1>0, Zenon
      <4>2. j \in 1 .. i - 1 /\ n[j] = d[j]
        BY <1>1, <2>1, Indices, Zenon
      <4> QED BY <1>0, <1>2, <3>1, <4>1, <4>2, Zenon DEF First
    <3>3. Binds(Append(own, entry), x)
      <4>1. /\ IsSeq(own) /\ entry.id = x.id /\ entry.value = x.value
            /\ entry.isCdata = x.isCdata
        BY <1>0, Zenon
      <4> QED BY <3>2, <4>1, NewBinds, Zenon
    <3> QED BY <1>0, <3>1, <3>3, Zenon
  <2>2. CASE i \in 1 .. Len(d)
    <3>1. n[i] = d[i] /\ First(d, i)
      <4>1. \A j \in 1 .. i - 1 : j \in 1 .. Len(d)
        BY <1>1, <2>2, Indices, Zenon
      <4> QED BY <1>1, <1>2, <2>2, <4>1, ZenonT(40) DEF First
    <3>2. Binds(a[d[i].element], d[i])
      BY <2>2, <3>1, Zenon DEF BindsAll
    <3>3. d[i].element \in DOMAIN a
      BY <2>2, Zenon DEF ListsOK
    <3>4. CASE d[i].element # x.element
      BY <1>0, <3>1, <3>2, <3>3, <3>4, Zenon
    <3>5. CASE d[i].element = x.element
      <4>1. Binds(own, d[i])
        BY <1>0, <3>2, <3>3, <3>5, Zenon
      <4>2. entry.id = d[i].id => entry.value = NullText
        BY <1>0, <4>1, Zenon DEF Binds
      <4>3. Binds(Append(own, entry), d[i])
        BY <1>0, <4>1, <4>2, BehindBinds, Zenon
      <4> QED BY <1>0, <3>1, <3>5, <4>3, Zenon
    <3> QED BY <3>4, <3>5, Zenon
  <2>3. i = Len(d) + 1 \/ i \in 1 .. Len(d)
    BY <1>1, Indices, Zenon
  <2> QED BY <2>1, <2>2, <2>3, Zenon
<1>3. BindsAll(b, n)
  BY <1>2, Zenon DEF BindsAll
<1> QED BY <1>3, ZenonT(40) DEF n

FirstInv == ListsOK(dtd.defaultAtts, declared) /\ FirstDeclarationBinds

LEMMA FirstStart == PrologInit => FirstInv
<1> SUFFICES ASSUME PrologInit PROVE FirstInv
  OBVIOUS
<1>1. dtd.defaultAtts = <<>> /\ declared = <<>>
  <2>1. /\ declared = <<>>
        /\ \E entities, refs, alone :
             dtd = [entities |-> entities, defaultAtts |-> <<>>, idAtt |-> <<>>,
                    keepProcessing |-> TRUE, hasParamEntityRefs |-> refs, standalone |-> alone]
    BY Zenon DEF PrologInit
  <2> QED BY <2>1
<1>2. IsSeq(<<>>)
  BY DEF IsSeq
<1> QED BY <1>1, <1>2, SMTT(30) DEF FirstInv, ListsOK, FirstDeclarationBinds

LEMMA FirstKept ==
    ASSUME FirstInv, dtd'.defaultAtts = dtd.defaultAtts, declared' = declared
    PROVE  FirstInv'
<1>1. ListsOK(dtd'.defaultAtts, declared') /\ BindsAll(dtd'.defaultAtts, declared')
  BY BindsIs DEF FirstInv
<1>2. FirstDeclarationBinds'
  BY <1>1, Zenon DEF FirstDeclarationBinds, BindsAll, First, Binds
<1> QED BY <1>1, <1>2, Zenon DEF FirstInv, ListsOK

LEMMA FirstAttribute ==
    ASSUME DtdInv, FirstInv, NEW role, NEW tok, AttributeValue(role, tok)
    PROVE  FirstInv'
<1>1. CASE dtd' = dtd /\ declared' = declared
  BY <1>1, FirstKept
<1>2. CASE ~(dtd' = dtd /\ declared' = declared)
  <2> DEFINE a == dtd.defaultAtts
  <2>1. PICK el, id, value, isCdata :
          /\ declared' = Append(declared, [element |-> el, id |-> id, value |-> value,
                                           isCdata |-> isCdata])
          /\ \/ /\ dtd'.defaultAtts = dtd.defaultAtts
                /\ \E k \in 1 .. Len(Own(el)) : Own(el)[k].id = id
             \/ /\ dtd'.defaultAtts = Added(el, [id |-> id, value |-> value, isCdata |-> isCdata])
                /\ \/ value = NullText
                   \/ \A k \in 1 .. Len(Own(el)) : Own(el)[k].id # id
    BY <1>2, AttributeRole, Zenon
  <2>2. ListsOK(a, declared) /\ BindsAll(a, declared)
    BY BindsIs DEF FirstInv
  <2>3. PICK x : x = [element |-> el, id |-> id, value |-> value, isCdata |-> isCdata]
    BY Zenon
  <2>4. PICK entry : entry = [id |-> id, value |-> value, isCdata |-> isCdata]
    BY ZenonT(40)
  <2>5. ListsOK(dtd'.defaultAtts, declared') /\ BindsAll(dtd'.defaultAtts, declared')
    <3>1. CASE /\ dtd'.defaultAtts = dtd.defaultAtts
               /\ \E k \in 1 .. Len(Own(el)) : Own(el)[k].id = id
      <4>1. PICK k \in 1 .. Len(Own(el)) : Own(el)[k].id = id
        BY <3>1
      <4>2. el \in DOMAIN a /\ Own(el) = a[el]
        BY <4>1 DEF Own
      <4>3. ListsOK(a, Append(declared, x)) /\ BindsAll(a, Append(declared, x))
        BY <2>2, <2>3, <4>1, <4>2, FoundBinds, ZenonT(40)
      <4> QED BY <2>1, <2>3, <3>1, <4>3, Zenon
    <3>2. CASE /\ dtd'.defaultAtts = Added(el, [id |-> id, value |-> value, isCdata |-> isCdata])
               /\ \/ value = NullText
                  \/ \A k \in 1 .. Len(Own(el)) : Own(el)[k].id # id
      <4>1. PICK own : own = Own(el)
        OBVIOUS
      <4>2. PICK b : b = Added(el, entry)
        BY Zenon
      <4>3. x.element = el /\ entry.id = x.id /\ entry.value = x.value /\ entry.isCdata = x.isCdata
        BY <2>3, <2>4
      <4>4. own = IF x.element \in DOMAIN a THEN a[x.element] ELSE <<>>
        BY <4>1, <4>3, Zenon DEF Own
      <4>5. b = [y \in DOMAIN a \cup {x.element} |->
                   IF y = x.element THEN Append(own, entry) ELSE a[y]]
        BY <4>1, <4>2, <4>3, Zenon DEF Added
      <4>6. entry.value = NullText \/ \A k \in 1 .. Len(own) : own[k].id # entry.id
        BY <2>4, <3>2, <4>1
      <4>7. /\ DOMAIN b = DOMAIN a \cup {x.element} /\ b[x.element] = Append(own, entry)
            /\ \A y \in DOMAIN a : y # x.element => b[y] = a[y]
        <5> HIDE DEF a
        <5> QED BY <4>5, Zenon
      <4> HIDE DEF a
      <4>8. /\ IsSeq(own)
            /\ x.element \in DOMAIN a => own = a[x.element]
            /\ \A k \in 1 .. Len(own) :
                 \E i \in 1 .. Len(declared) :
                   declared[i].element = x.element /\ declared[i].id = own[k].id
        <5>1. CASE x.element \in DOMAIN a
          <6>1. own = a[x.element]
            BY <4>4, <5>1, Zenon
          <6> QED BY <2>2, <5>1, <6>1, Zenon DEF ListsOK
        <5>2. CASE x.element \notin DOMAIN a
          <6>1. own = <<>>
            BY <4>4, <5>2, Zenon
          <6>2. IsSeq(own) /\ \A k \in 1 .. Len(own) : FALSE
            BY <6>1 DEF IsSeq
          <6> QED BY <5>2, <6>2, Zenon
        <5> QED BY <5>1, <5>2, Zenon
      <4>9. ListsOK(b, Append(declared, x)) /\ BindsAll(b, Append(declared, x))
        <5>1. Extended(a, declared, x, own, entry, b)
          BY <4>3, <4>6, <4>7, <4>8, Zenon DEF Extended
        <5>2. ListsOK(b, Append(declared, x))
          BY <2>2, <5>1, AddedLists, Zenon
        <5>3. BindsAll(b, Append(declared, x))
          BY <2>2, <5>1, AddedBinds, Zenon
        <5> QED BY <5>2, <5>3, Zenon
      <4> QED BY <2>1, <2>3, <2>4, <3>2, <4>2, <4>9, Zenon
    <3> QED BY <2>1, <3>1, <3>2, Zenon
  <2>6. FirstDeclarationBinds'
    BY <2>5, Zenon DEF FirstDeclarationBinds, BindsAll, First, Binds
  <2> QED BY <2>5, <2>6, Zenon DEF FirstInv, ListsOK
<1> QED BY <1>1, <1>2

(* The entry storeAtts finds first for an attribute is the one of its      *)
(* first processed declaration, whatever other declarations, parameter     *)
(* entities and attributes of the element come between and behind.         *)
THEOREM FirstBinds == PrologSpec => []FirstDeclarationBinds
<1>1. PrologInit => ModelInv /\ DtdInv /\ FirstInv
  BY ModelStart, DtdStart, FirstStart
<1>2. ModelInv /\ DtdInv /\ FirstInv /\ [PrologNext]_prologVars => ModelInv' /\ DtdInv' /\ FirstInv'
  <2> SUFFICES ASSUME ModelInv, DtdInv, FirstInv, [PrologNext]_prologVars
               PROVE  ModelInv' /\ DtdInv' /\ FirstInv'
    OBVIOUS
  <2>1. ModelInv' /\ DtdInv'
    BY ModelNext, DtdNext, Zenon
  <2>2. FirstInv'
    <3>1. CASE \E tok \in scenario.tokens : Token(tok)
      <4>1. PICK tok : Token(tok)
        BY <3>1
      <4>2. CASE AttributeValue(XmlTokenRole(st, tok).role, tok)
        BY <4>2, FirstAttribute, Zenon
      <4>3. CASE ~AttributeValue(XmlTokenRole(st, tok).role, tok)
        BY <4>1, <4>3, OtherRoles, FirstKept, Zenon DEF AttributesKept
      <4> QED BY <4>2, <4>3
    <3>2. CASE EndOfEntity \/ BadToken \/ (\E h \in scenario.toggled : SetHandler(h))
               \/ UNCHANGED prologVars
      <4>1. dtd' = dtd /\ declared' = declared
        BY <3>2, Zenon DEF EndOfEntity, BadToken, SetHandler, prologVars, historyVars
      <4> QED BY <4>1, FirstKept
    <3> QED BY <3>1, <3>2 DEF PrologNext
  <2> QED BY <2>1, <2>2, Zenon
<1>3. FirstInv => FirstDeclarationBinds
  BY DEF FirstInv
<1> QED BY <1>1, <1>2, <1>3, PTL DEF PrologSpec
=============================================================================
