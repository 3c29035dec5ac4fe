------------------------------ MODULE MCContent ------------------------------
(***************************************************************************)
(* The content of documents: the expansion of general entities, the values *)
(* that parameter entities give them, and elements with their namespaces.  *)
(* A behavior is one of one of the three components; the others stay in an *)
(* initial state.                                                          *)
(***************************************************************************)
EXTENDS MCEntityExpansion, MCEntityValue, MCElements

\* The hypothesis of MarksExact (EntityValueProofs) holds of these texts.
ASSUME TextsAssumption == FilesReferToFiles

VARIABLE part
contentVars == <<part, vars, valueVars, elementVars>>

ContentInit ==
    /\ part \in {"expansion", "value", "elements"}
    /\ part # "expansion" => doc = Root(<<Start(<<>>)>>) /\ checkEntityDecl = TRUE /\ expandInternal = TRUE
    /\ part # "value" => /\ decls = Deep /\ standalone = TRUE /\ refAllowed = TRUE
                         /\ handler = CHOOSE h \in Handlers : TRUE
    /\ part # "elements" => document = BadDoc
    /\ Init /\ ValueInit /\ ElementInit
Expansion1 == part = "expansion" /\ Expands /\ UNCHANGED <<part, valueVars, elementVars>>
Resumes == part = "expansion" /\ ResumeParser /\ UNCHANGED <<part, valueVars, elementVars>>
Resets == part = "expansion" /\ ParserReset /\ UNCHANGED <<part, valueVars, elementVars>>
Values == part = "value" /\ ValueNext /\ UNCHANGED <<part, vars, elementVars>>
Tags == part = "elements" /\ ElementNext /\ UNCHANGED <<part, vars, valueVars>>
ContentNext == Expansion1 \/ Resumes \/ Resets \/ Values \/ Tags
ContentSpec ==
    /\ ContentInit /\ [][ContentNext]_contentVars
    /\ WF_contentVars(Expansion1) /\ WF_contentVars(Resumes) /\ WF_contentVars(Values)

\* Recursion is reported when there is some and only then: in content and
\* attribute values by the flag of the entity (RecursionIsReal), in entity
\* values by the marks of several parsers (RecursionIsExact), across parsers
\* for external entities by the context string (RecursionIsSeen).
RecursionIsReported == RecursionIsReal /\ RecursionIsExact /\ RecursionIsSeen

\* The loops over the open entities of a document end (ParseEnds), and so does
\* that of callStoreEntityValue for every declaration (DeclarationsEnd).
LoopsEnd == (part = "expansion" => ParseEnds) /\ (part = "value" => DeclarationsEnd)
=============================================================================
