------------------------- MODULE MCEntityExpansion -------------------------
(***************************************************************************)
(* Documents for EntityExpansion: nested and repeated references, in       *)
(* content and in attribute values, direct and mutual recursion, elements  *)
(* that cross an entity's end, and every kind of entity.                   *)
(***************************************************************************)
EXTENDS EntityReference

Data(c) == [k |-> "data", c |-> c]
Ref(e) == [k |-> "ref", e |-> e]
Start(a) == [k |-> "start", a |-> a]
Empty(a) == [k |-> "empty", a |-> a]
End == [k |-> "end"]
Root(content) == <<Start(<<>>)>> \o content \o <<End>>

MCEntities == {"inner", "outer", "deep", "tags", "half", "ping", "pong",
               "self", "inPE", "external", "binary", "undeclared"}
MCKind == [e \in MCEntities |->
             IF e \in {"inPE", "external", "binary", "undeclared"} THEN e ELSE "internal"]
MCText == [e \in MCEntities |->
    CASE e = "inner" -> <<Data(1), Data(2)>>
      [] e = "outer" -> <<Ref("inner"), Data(3), Ref("inner")>>
      [] e = "deep" -> <<Ref("outer"), Ref("outer")>>
      [] e = "tags" -> <<Start(<<>>), Ref("inner"), End, Empty(<<Ref("outer")>>)>>
      [] e = "half" -> <<Data(4), Start(<<>>)>>
      [] e = "ping" -> <<Data(5), Ref("pong")>>
      [] e = "pong" -> <<Ref("inner"), Ref("ping"), Data(6)>>
      [] e = "self" -> <<Empty(<<Data(7), Ref("self")>>)>>
      [] e = "inPE" -> <<Data(8)>>
      [] OTHER -> <<>>]

Sound == {Root(<<Ref("outer"), Data(9), Ref("outer")>>),
          Root(<<Ref("tags"), Empty(<<Ref("outer"), Data(9)>>)>>),
          Root(<<Ref("undeclared"), Ref("external"), Ref("inPE"),
                 Empty(<<Ref("undeclared"), Ref("inPE")>>)>>)}
RawStart == Root(<<Start(<<Data(9), Ref("inner")>>), Ref("inner"), End>>)
Unsound == {Root(<<Ref("half")>>), Root(<<Ref("ping")>>), Root(<<Ref("self")>>),
            Root(<<Empty(<<Ref("ping")>>)>>), Root(<<Empty(<<Ref("tags")>>)>>),
            Root(<<Ref("binary")>>), Root(<<Empty(<<Ref("external")>>)>>),
            Root(<<Start(<<>>)>>)}
AllDocs == Sound \cup Unsound \cup {RawStart}
RawDocs == {RawStart}
(* A breach of the limit, and a document longer than a count can say. *)
CountedDocs == Sound \cup Unsound \cup {Root(<<Ref("deep"), Ref("deep")>>),
                                        Root([i \in 1..39 |-> Data(9)])}
=============================================================================
