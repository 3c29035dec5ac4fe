------------------------------ MODULE MCElements ------------------------------
(***************************************************************************)
(* Documents for Elements, each for one of the ways in which the state of  *)
(* a parser outlives a tag.                                                *)
(***************************************************************************)
EXTENDS ElementProperties

El(prefix, local) == [prefix |-> prefix, local |-> local]
Att(prefix, local, value) == [name |-> El(prefix, local), value |-> value]
Xmlns(value) == Att("", "xmlns", value)
XmlnsP(value) == Att("xmlns", "p", value)
StartTag(name, atts) == [name |-> name, atts |-> atts, form |-> "start"]
EmptyTag(name, atts) == [name |-> name, atts |-> atts, form |-> "empty"]
MCIncludes == {<<"u|v", "|">>, <<"u/v", "/">>}
LongAtoms == {"XML", "XMLNS", "u|v", "u/v", "long"}
MCLength ==
    [a \in LongAtoms \cup {"", "|", "/", ":", "u", "v", "a", "b", "r", "xml", "xmlns", "p", "q", "junk"} |->
       IF a = "" THEN 0 ELSE IF a \in LongAtoms THEN 3 ELSE 1]
Namespaces(sep, triplets, tags, entities, resets, most) ==
    [ns |-> TRUE, sep |-> sep, triplets |-> triplets, tags |-> tags, defaults |-> << >>, idAtt |-> << >>,
     entities |-> entities, resets |-> resets, most |-> most]

\* The default namespace declared, declared again and undeclared; names that
\* outgrow the buffer of the namespace while others are in it; an entity.
ScopeDoc ==
    Namespaces("|", FALSE, {StartTag(El("", "a"), <<Xmlns("u")>>), StartTag(El("", "long"), <<>>),
                            StartTag(El("", "a"), <<Xmlns("")>>)}, {"e"}, FALSE, 4)
\* The same with prefixes, where the name ends with the prefix.
TripletDoc ==
    Namespaces("/", TRUE, {StartTag(El("p", "a"), <<XmlnsP("u/v"), Att("p", "b", "1")>>),
                           StartTag(El("p", "long"), <<Att("xml", "b", "2")>>), EmptyTag(El("p", "b"), <<XmlnsP("u")>>)},
               {"e"}, FALSE, 4)
\* A parser without a separator that is used again.
AgainDoc ==
    Namespaces("", FALSE, {StartTag(El("", "a"), <<Xmlns("u")>>), StartTag(El("", "long"), <<Xmlns("u/v")>>)},
               {}, TRUE, 4)
\* Prefixed attributes until the versions of the table begin again.
VersionDoc ==
    Namespaces("|", FALSE, {StartTag(El("", "r"), <<XmlnsP("u"), Att("xmlns", "q", "u")>>),
                            EmptyTag(El("", "a"), <<Att("p", "a", "1"), Att("q", "b", "2"), Att("", "a", "3")>>),
                            EmptyTag(El("", "b"), <<Att("p", "a", "1"), Att("q", "a", "2")>>)}, {}, TRUE, 5)
\* Every declaration that is refused.
BadDoc ==
    Namespaces("|", FALSE, { EmptyTag(El("", "a"), <<a>>) :
                 a \in {XmlnsP(""), XmlnsP("XML"), XmlnsP("XMLNS"), XmlnsP("u|v"), Xmlns("XML"), Xmlns("XMLNS"),
                        Att("xmlns", "xmlns", "u"), Att("xmlns", "xml", "u"), Att("xmlns", "xml", "XML"),
                        Att("p", "a", "1")} }
               \cup {EmptyTag(El("", "a"), <<Att("", "a", "1"), Att("", "b", "2"), Att("", "a", "3")>>),
                     StartTag(El("p", "a"), <<>>), StartTag(El("xml", "a"), <<>>)}, {}, TRUE, 2)
\* Attributes of the DTD.
DefaultDoc ==
    [Namespaces("|", FALSE, {StartTag(El("", "a"), <<Att("", "b", "1"), Att("", "a", "2")>>),
                             StartTag(El("p", "a"), <<XmlnsP("v"), Att("p", "b", "3")>>), EmptyTag(El("", "a"), <<>>)},
                {"e"}, FALSE, 3)
       EXCEPT !.defaults = (El("", "a") :> <<Att("", "a", "NULL"), Att("xmlns", "p", "u"), Att("p", "b", "4")>>)
                           @@ (El("p", "a") :> <<Xmlns("u"), XmlnsP("u"), Att("p", "b", "5"), Att("p", "a", "6")>>),
              !.idAtt = El("", "a") :> El("", "a")]
\* Without namespaces; two entities that refer to each other.
PlainDoc ==
    [Namespaces("", FALSE, {StartTag(El("", "a"), <<>>), StartTag(El("p", "long"), <<Att("p", "a", "1")>>)},
                {"e", "f"}, FALSE, 4) EXCEPT !.ns = FALSE]
MCDocuments == {ScopeDoc, TripletDoc, AgainDoc, VersionDoc, BadDoc, DefaultDoc, PlainDoc}
=============================================================================
