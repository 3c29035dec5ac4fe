------------------------------- MODULE MCStart -------------------------------
EXTENDS EntityStart
Bodies == UNION { [1 .. n -> {"XML_DECL", "TEXT", "INSTANCE_START"}] : n \in 0 .. 3 }
AllEntities ==
    { [kind |-> k, tokens |-> b \o t, cut |-> c, handler |-> h] :
        k \in {"document", "general", "parameter", "value"}, b \in {<<>>, <<"BOM">>}, t \in Bodies,
        c \in BOOLEAN, h \in {"go on", "suspend", "abort"} }
MCEntities ==
    { e \in AllEntities :
        /\ e.cut => e.tokens # <<>> /\ e.tokens[Len(e.tokens)] \in {"BOM", "XML_DECL"}
        /\ e.handler # "go on" => (\E i \in DOMAIN e.tokens : e.tokens[i] = "XML_DECL") /\ Len(e.tokens) <= 3 }
=============================================================================
