----------------------- MODULE EntityExpansionProofs -----------------------
(***************************************************************************)
(* The lists of open entities, for every set of entities and documents.    *)
(***************************************************************************)
EXTENDS EntityExpansion, FiniteSetTheorems, TLAPS

IsSequence(list) == \E S : list \in Seq(S)

ListType ==
    /\ IsSequence(openInternalEntities)
    /\ IsSequence(openAttributeEntities)
    /\ freeEntities \in Nat /\ allocated \in Nat /\ currentDepth \in Nat

(* OpenIsTracked is inductive but for the types of the lists and counters. *)
OpenInv == ListType /\ OpenIsTracked

-----------------------------------------------------------------------------
(* What putting an element in front of a list, and taking it off, do.      *)
LEMMA PushLemma ==
    ASSUME NEW list, IsSequence(list), NEW x
    PROVE  /\ IsSequence(<<x>> \o list)
           /\ Len(list) \in Nat
           /\ Len(<<x>> \o list) = Len(list) + 1
           /\ (<<x>> \o list)[1] = x
           /\ \A i \in 1..Len(list) : (<<x>> \o list)[i + 1] = list[i]
<1>1. PICK S : list \in Seq(S)
  BY DEF IsSequence
<1> DEFINE T == S \cup {x}
<1>2. list \in Seq(T) /\ <<x>> \in Seq(T)
  BY <1>1
<1> HIDE DEF T
<1>3. <<x>> \o list \in Seq(T)
  BY <1>2
<1> QED BY <1>1, <1>3 DEF IsSequence

LEMMA PopLemma ==
    ASSUME NEW list, IsSequence(list), list # <<>>
    PROVE  /\ IsSequence(Tail(list))
           /\ Len(Tail(list)) \in Nat
           /\ Len(list) = Len(Tail(list)) + 1
           /\ \A i \in 1..Len(Tail(list)) : list[i + 1] = Tail(list)[i]
<1>1. PICK S : list \in Seq(S)
  BY DEF IsSequence
<1>2. Tail(list) \in Seq(S)
  BY <1>1
<1> QED BY <1>1, <1>2 DEF IsSequence

(* The lists and the flags of OpenIsTracked: the entities of two lists are *)
(* f[1..n] and g[1..m].                                                    *)
Tracks(open, f, n, g, m) ==
    /\ \A i \in 1..n : f[i] \in open
    /\ \A i \in 1..m : g[i] \in open
    /\ \A x \in open : (\E i \in 1..n : x = f[i]) \/ (\E i \in 1..m : x = g[i])
    /\ \A i, j \in 1..n : f[i] = f[j] => i = j
    /\ \A i, j \in 1..m : g[i] = g[j] => i = j
    /\ \A i \in 1..n, j \in 1..m : f[i] # g[j]

LEMMA TracksSymmetric ==
    ASSUME NEW open, NEW f, NEW n, NEW g, NEW m, Tracks(open, f, n, g, m)
    PROVE  Tracks(open, g, m, f, n)
BY DEF Tracks

(* h is f with x put in front of it. *)
Pushed(h, x, f, n) ==
    /\ h[1] = x
    /\ \A i \in 1..n : h[i + 1] = f[i]

LEMMA TracksPushed ==
    ASSUME NEW open, NEW f, NEW n \in Nat, NEW g, NEW m \in Nat, NEW x, NEW h,
           Tracks(open, f, n, g, m), x \notin open, Pushed(h, x, f, n)
    PROVE  Tracks(open \cup {x}, h, n + 1, g, m)
<1>1. \A k \in 1..(n + 1) : k = 1 \/ (k - 1 \in 1..n /\ h[k] = f[k - 1])
  <2> TAKE k \in 1..(n + 1)
  <2>1. CASE k # 1
    <3>1. k - 1 \in 1..n /\ (k - 1) + 1 = k
      BY <2>1
    <3> QED BY <3>1 DEF Pushed
  <2> QED BY <2>1
<1>2. \A i \in 1..n : i + 1 \in 1..(n + 1) /\ h[i + 1] = f[i]
  BY DEF Pushed
<1>3. 1 \in 1..(n + 1) /\ h[1] = x
  BY DEF Pushed
<1>4. \A i \in 1..(n + 1) : h[i] \in open \cup {x}
  BY <1>1, <1>3 DEF Tracks
<1>5. \A y \in open \cup {x} :
         (\E i \in 1..(n + 1) : y = h[i]) \/ (\E i \in 1..m : y = g[i])
  BY <1>2, <1>3 DEF Tracks
<1>6. \A i, j \in 1..(n + 1) : h[i] = h[j] => i = j
  <2> SUFFICES ASSUME NEW i \in 1..(n + 1), NEW j \in 1..(n + 1), h[i] = h[j]
               PROVE  i = j
    OBVIOUS
  <2>1. CASE i # 1 /\ j # 1
    <3>1. i - 1 = j - 1
      BY <1>1, <2>1 DEF Tracks
    <3> QED BY <3>1
  <2> QED BY <1>1, <1>3, <2>1 DEF Tracks
<1>7. \A i \in 1..(n + 1), j \in 1..m : h[i] # g[j]
  BY <1>1, <1>3 DEF Tracks
<1> QED BY <1>4, <1>5, <1>6, <1>7 DEF Tracks

(* h is what a list loses its head x to become f. *)
LEMMA TracksPopped ==
    ASSUME NEW open, NEW f, NEW n \in Nat, NEW g, NEW m \in Nat, NEW x, NEW h,
           Tracks(open, h, n + 1, g, m), Pushed(h, x, f, n)
    PROVE  Tracks(open \ {x}, f, n, g, m)
<1>1. \A k \in 1..(n + 1) : k = 1 \/ (k - 1 \in 1..n /\ h[k] = f[k - 1])
  <2> TAKE k \in 1..(n + 1)
  <2>1. CASE k # 1
    <3>1. k - 1 \in 1..n /\ (k - 1) + 1 = k
      BY <2>1
    <3> QED BY <3>1 DEF Pushed
  <2> QED BY <2>1
<1>2. \A i \in 1..n : i + 1 \in 1..(n + 1) /\ h[i + 1] = f[i] /\ i + 1 # 1
  BY DEF Pushed
<1>3. 1 \in 1..(n + 1) /\ h[1] = x
  BY DEF Pushed
<1>4. \A i \in 1..n : f[i] \in open \ {x}
  <2> TAKE i \in 1..n
  <2>1. h[i + 1] \in open /\ h[i + 1] # h[1]
    BY <1>2, <1>3 DEF Tracks
  <2> QED BY <2>1, <1>2, <1>3
<1>5. \A i \in 1..m : g[i] \in open \ {x}
  BY <1>3 DEF Tracks
<1>6. \A y \in open \ {x} : (\E i \in 1..n : y = f[i]) \/ (\E i \in 1..m : y = g[i])
  <2> TAKE y \in open \ {x}
  <2>1. CASE \E i \in 1..(n + 1) : y = h[i]
    BY <2>1, <1>1, <1>3
  <2> QED BY <2>1 DEF Tracks
<1>7. \A i, j \in 1..n : f[i] = f[j] => i = j
  <2> SUFFICES ASSUME NEW i \in 1..n, NEW j \in 1..n, f[i] = f[j]
               PROVE  i = j
    OBVIOUS
  <2>1. i + 1 = j + 1
    BY <1>2 DEF Tracks
  <2> QED BY <2>1
<1>8. \A i \in 1..n, j \in 1..m : f[i] # g[j]
  <2> TAKE i \in 1..n, j \in 1..m
  <2>1. h[i + 1] # g[j]
    BY <1>2 DEF Tracks
  <2> QED BY <2>1, <1>2
<1> QED BY <1>4, <1>5, <1>6, <1>7, <1>8 DEF Tracks

-----------------------------------------------------------------------------
(* The same of the two lists as the parser has them. *)
Names(list) == [i \in 1..Len(list) |-> list[i].entity]

Lists(open, internal, attribute) ==
    /\ open = {internal[i].entity : i \in 1..Len(internal)}
                 \cup {attribute[i] : i \in 1..Len(attribute)}
    /\ \A i, j \in 1..Len(internal) : internal[i].entity = internal[j].entity => i = j
    /\ \A i, j \in 1..Len(attribute) : attribute[i] = attribute[j] => i = j
    /\ \A i \in 1..Len(internal), j \in 1..Len(attribute) :
          internal[i].entity # attribute[j]

LEMMA ListsTrack ==
    ASSUME NEW open, NEW internal, NEW attribute
    PROVE  Lists(open, internal, attribute)
             <=> Tracks(open, Names(internal), Len(internal), attribute, Len(attribute))
<1>1. \A i \in 1..Len(internal) : Names(internal)[i] = internal[i].entity
  BY DEF Names
<1>2. ASSUME Lists(open, internal, attribute)
      PROVE  Tracks(open, Names(internal), Len(internal), attribute, Len(attribute))
  BY <1>1, <1>2 DEF Lists, Tracks
<1>3. ASSUME Tracks(open, Names(internal), Len(internal), attribute, Len(attribute))
      PROVE  Lists(open, internal, attribute)
  <2>1. open = {internal[i].entity : i \in 1..Len(internal)}
                 \cup {attribute[i] : i \in 1..Len(attribute)}
    BY <1>1, <1>3 DEF Tracks
  <2> QED BY <1>1, <1>3, <2>1 DEF Lists, Tracks
<1> QED BY <1>2, <1>3

LEMMA ListsPushInternal ==
    ASSUME NEW open, NEW internal, NEW attribute, NEW r,
           IsSequence(internal), IsSequence(attribute),
           Lists(open, internal, attribute), r.entity \notin open
    PROVE  Lists(open \cup {r.entity}, <<r>> \o internal, attribute)
<1> DEFINE new == <<r>> \o internal
<1>1. /\ Len(internal) \in Nat /\ Len(attribute) \in Nat
      /\ Len(new) = Len(internal) + 1 /\ new[1] = r
      /\ \A i \in 1..Len(internal) : new[i + 1] = internal[i]
  BY PushLemma
<1> HIDE DEF new
<1>2. Pushed(Names(new), r.entity, Names(internal), Len(internal))
  BY <1>1 DEF Pushed, Names
<1>3. Tracks(open, Names(internal), Len(internal), attribute, Len(attribute))
  BY ListsTrack
<1>4. Tracks(open \cup {r.entity}, Names(new), Len(internal) + 1, attribute, Len(attribute))
  BY <1>1, <1>2, <1>3, TracksPushed
<1> QED BY <1>1, <1>4, ListsTrack, Zenon DEF new

LEMMA ListsPopInternal ==
    ASSUME NEW open, NEW internal, NEW attribute,
           IsSequence(internal), IsSequence(attribute), internal # <<>>,
           Lists(open, internal, attribute)
    PROVE  Lists(open \ {internal[1].entity}, Tail(internal), attribute)
<1> DEFINE new == Tail(internal)
<1>1. /\ Len(new) \in Nat /\ Len(attribute) \in Nat /\ Len(internal) = Len(new) + 1
      /\ \A i \in 1..Len(new) : internal[i + 1] = new[i]
  BY PopLemma, PushLemma
<1> HIDE DEF new
<1>2. Pushed(Names(internal), internal[1].entity, Names(new), Len(new))
  BY <1>1 DEF Pushed, Names
<1>3. Tracks(open, Names(internal), Len(new) + 1, attribute, Len(attribute))
  BY <1>1, ListsTrack
<1>4. Tracks(open \ {internal[1].entity}, Names(new), Len(new), attribute, Len(attribute))
  BY <1>1, <1>2, <1>3, TracksPopped
<1> QED BY <1>4, ListsTrack, Zenon DEF new

LEMMA ListsPushAttribute ==
    ASSUME NEW open, NEW internal, NEW attribute, NEW e,
           IsSequence(internal), IsSequence(attribute),
           Lists(open, internal, attribute), e \notin open
    PROVE  Lists(open \cup {e}, internal, <<e>> \o attribute)
<1> DEFINE new == <<e>> \o attribute
<1>1. /\ Len(internal) \in Nat /\ Len(attribute) \in Nat /\ Len(new) = Len(attribute) + 1
      /\ Pushed(new, e, attribute, Len(attribute))
  BY PushLemma DEF Pushed
<1> HIDE DEF new
<1>2. Tracks(open, attribute, Len(attribute), Names(internal), Len(internal))
  BY ListsTrack, TracksSymmetric
<1>3. Tracks(open \cup {e}, new, Len(attribute) + 1, Names(internal), Len(internal))
  BY <1>1, <1>2, TracksPushed
<1>4. Tracks(open \cup {e}, Names(internal), Len(internal), new, Len(new))
  BY <1>1, <1>3, TracksSymmetric
<1> QED BY <1>4, ListsTrack, Zenon DEF new

LEMMA ListsPopAttribute ==
    ASSUME NEW open, NEW internal, NEW attribute,
           IsSequence(internal), IsSequence(attribute), attribute # <<>>,
           Lists(open, internal, attribute)
    PROVE  Lists(open \ {attribute[1]}, internal, Tail(attribute))
<1> DEFINE new == Tail(attribute)
<1>1. /\ Len(new) \in Nat /\ Len(internal) \in Nat /\ Len(attribute) = Len(new) + 1
      /\ Pushed(attribute, attribute[1], new, Len(new))
  BY PopLemma, PushLemma DEF Pushed
<1> HIDE DEF new
<1>2. Tracks(open, attribute, Len(new) + 1, Names(internal), Len(internal))
  BY <1>1, ListsTrack, TracksSymmetric
<1>3. Tracks(open \ {attribute[1]}, new, Len(new), Names(internal), Len(internal))
  BY <1>1, <1>2, TracksPopped
<1>4. Tracks(open \ {attribute[1]}, Names(internal), Len(internal), new, Len(new))
  BY <1>3, TracksSymmetric
<1> QED BY <1>4, ListsTrack, Zenon DEF new

-----------------------------------------------------------------------------
(* The steps.  Most of them leave the lists and the open flags alone. *)
LEMMA Untouched ==
    ASSUME OpenInv, UNCHANGED <<openEntities, listVars>>
    PROVE  OpenInv'
BY DEF OpenInv, ListType, OpenIsTracked, listVars

(* A reference that is expanded is to an entity that is not open. *)
LEMMA ExpandsClosed ==
    ASSUME NEW e, RefError(e) = "NONE", HasText(e)
    PROVE  e \notin openEntities
BY DEF RefError, HasText

LEMMA OpensInternal ==
    ASSUME OpenInv, NEW e, e \notin openEntities, TakeOpenEntity,
           openEntities' = openEntities \cup {e},
           openInternalEntities' =
             <<[entity |-> e, startTagLevel |-> tagLevel]>> \o openInternalEntities,
           UNCHANGED openAttributeEntities
    PROVE  OpenInv'
<1> DEFINE r == [entity |-> e, startTagLevel |-> tagLevel]
<1>1. Lists(openEntities, openInternalEntities, openAttributeEntities)
  BY Zenon DEF OpenInv, OpenIsTracked, Lists
<1>2. r.entity = e
  OBVIOUS
<1> HIDE DEF r
<1>3. IsSequence(openInternalEntities) /\ IsSequence(openAttributeEntities)
  BY DEF OpenInv, ListType
<1>4. openInternalEntities' = <<r>> \o openInternalEntities
  BY DEF r
<1>5. Lists(openEntities', openInternalEntities', openAttributeEntities')
  BY <1>1, <1>2, <1>3, <1>4, ListsPushInternal
<1>6. /\ IsSequence(openInternalEntities') /\ Len(openInternalEntities) \in Nat
      /\ Len(openInternalEntities') = Len(openInternalEntities) + 1
  BY <1>3, <1>4, PushLemma
<1>7. Len(openAttributeEntities) \in Nat
  BY <1>3, PushLemma
<1>8. ListType'
  BY <1>3, <1>6 DEF OpenInv, ListType, TakeOpenEntity
<1>9. /\ currentDepth' = Len(openInternalEntities') + Len(openAttributeEntities')
      /\ allocated' = freeEntities' + currentDepth'
  BY <1>6, <1>7 DEF OpenInv, ListType, OpenIsTracked, TakeOpenEntity
<1> QED BY <1>5, <1>8, <1>9, Zenon DEF OpenInv, OpenIsTracked, Lists

LEMMA OpensAttribute ==
    ASSUME OpenInv, NEW e, e \notin openEntities, TakeOpenEntity,
           openEntities' = openEntities \cup {e},
           openAttributeEntities' = <<e>> \o openAttributeEntities,
           UNCHANGED openInternalEntities
    PROVE  OpenInv'
<1>1. Lists(openEntities, openInternalEntities, openAttributeEntities)
  BY DEF OpenInv, OpenIsTracked, Lists
<1>3. IsSequence(openInternalEntities) /\ IsSequence(openAttributeEntities)
  BY DEF OpenInv, ListType
<1>5. Lists(openEntities', openInternalEntities', openAttributeEntities')
  BY <1>1, <1>3, ListsPushAttribute
<1>6. /\ IsSequence(openAttributeEntities') /\ Len(openAttributeEntities) \in Nat
      /\ Len(openAttributeEntities') = Len(openAttributeEntities) + 1
  BY <1>3, PushLemma
<1>7. Len(openInternalEntities) \in Nat
  BY <1>3, PushLemma
<1>8. ListType'
  BY <1>3, <1>6 DEF OpenInv, ListType, TakeOpenEntity
<1>9. /\ currentDepth' = Len(openInternalEntities') + Len(openAttributeEntities')
      /\ allocated' = freeEntities' + currentDepth'
  BY <1>6, <1>7 DEF OpenInv, ListType, OpenIsTracked, TakeOpenEntity
<1> QED BY <1>5, <1>8, <1>9 DEF OpenInv, OpenIsTracked, Lists

LEMMA ClosesInternal ==
    ASSUME OpenInv, ProcessorCloses
    PROVE  OpenInv'
<1>1. Lists(openEntities, openInternalEntities, openAttributeEntities)
  BY DEF OpenInv, OpenIsTracked, Lists
<1>2. IsSequence(openInternalEntities) /\ IsSequence(openAttributeEntities)
  BY DEF OpenInv, ListType
<1>3. /\ openInternalEntities # <<>>
      /\ openInternalEntities' = Tail(openInternalEntities)
      /\ openEntities' = openEntities \ {openInternalEntities[1].entity}
      /\ UNCHANGED openAttributeEntities
      /\ freeEntities' = freeEntities + 1 /\ currentDepth' = currentDepth - 1
      /\ UNCHANGED allocated
  BY DEF ProcessorCloses, InEntity, Opened, CloseEntity
<1>4. Lists(openEntities', openInternalEntities', openAttributeEntities')
  BY <1>1, <1>2, <1>3, ListsPopInternal
<1>5. /\ IsSequence(openInternalEntities') /\ Len(openInternalEntities') \in Nat
      /\ Len(openInternalEntities) = Len(openInternalEntities') + 1
  BY <1>2, <1>3, PopLemma
<1>6. Len(openAttributeEntities) \in Nat
  BY <1>2, PushLemma
<1>7. /\ currentDepth' = Len(openInternalEntities') + Len(openAttributeEntities')
      /\ allocated' = freeEntities' + currentDepth'
  BY <1>3, <1>5, <1>6 DEF OpenInv, ListType, OpenIsTracked
<1>8. ListType'
  BY <1>2, <1>3, <1>5, <1>6, <1>7 DEF OpenInv, ListType
<1> QED BY <1>4, <1>7, <1>8 DEF OpenInv, OpenIsTracked, Lists

LEMMA ClosesAttribute ==
    ASSUME OpenInv, StoreCloses
    PROVE  OpenInv'
<1>1. Lists(openEntities, openInternalEntities, openAttributeEntities)
  BY DEF OpenInv, OpenIsTracked, Lists
<1>2. IsSequence(openInternalEntities) /\ IsSequence(openAttributeEntities)
  BY DEF OpenInv, ListType
<1>3. /\ openAttributeEntities # <<>>
      /\ openAttributeEntities' = Tail(openAttributeEntities)
      /\ openEntities' = openEntities \ {openAttributeEntities[1]}
      /\ UNCHANGED openInternalEntities
      /\ freeEntities' = freeEntities + 1 /\ currentDepth' = currentDepth - 1
      /\ UNCHANGED allocated
  BY DEF StoreCloses, InAttributeEntity, CloseEntity
<1>4. Lists(openEntities', openInternalEntities', openAttributeEntities')
  BY <1>1, <1>2, <1>3, ListsPopAttribute
<1>5. /\ IsSequence(openAttributeEntities') /\ Len(openAttributeEntities') \in Nat
      /\ Len(openAttributeEntities) = Len(openAttributeEntities') + 1
  BY <1>2, <1>3, PopLemma
<1>6. Len(openInternalEntities) \in Nat
  BY <1>2, PushLemma
<1>7. /\ currentDepth' = Len(openInternalEntities') + Len(openAttributeEntities')
      /\ allocated' = freeEntities' + currentDepth'
  BY <1>3, <1>5, <1>6 DEF OpenInv, ListType, OpenIsTracked
<1>8. ListType'
  BY <1>2, <1>3, <1>5, <1>6, <1>7 DEF OpenInv, ListType
<1> QED BY <1>4, <1>7, <1>8 DEF OpenInv, OpenIsTracked, Lists

(* XML_ParserReset gives every OPEN_INTERNAL_ENTITY to the free list. *)
LEMMA ResetLists ==
    ASSUME OpenInv, ParserReset
    PROVE  OpenInv'
<1>1. Len(openInternalEntities) \in Nat /\ Len(openAttributeEntities) \in Nat
  BY PushLemma DEF OpenInv, ListType
<1>2. /\ openInternalEntities' = <<>> /\ openAttributeEntities' = <<>>
      /\ openEntities' = {} /\ currentDepth' = 0 /\ allocated' = allocated
      /\ freeEntities' = freeEntities + Len(openInternalEntities)
                                      + Len(openAttributeEntities)
  BY DEF ParserReset, MoveEntityLists
<1>3. allocated' = freeEntities' + currentDepth'
  BY <1>1, <1>2 DEF OpenInv, ListType, OpenIsTracked
<1>4. IsSequence(<<>>) /\ Len(<<>>) = 0
  BY DEF IsSequence
<1>5. ListType'
  BY <1>1, <1>2, <1>4 DEF OpenInv, ListType
<1> QED BY <1>2, <1>3, <1>4, <1>5 DEF OpenInv, OpenIsTracked

LEMMA OpenInit == Init => OpenInv
<1>1. IsSequence(<<>>) /\ Len(<<>>) = 0
  BY DEF IsSequence
<1> QED BY <1>1 DEF Init, OpenInv, ListType, OpenIsTracked

LEMMA OpenStep ==
    ASSUME OpenInv, [Next]_vars
    PROVE  OpenInv'
<1> USE DEF Fail, AfterToken, StartElement
<1>1. CASE ProcessorRuns
  BY <1>1, Untouched DEF ProcessorRuns, entityVars
<1>2. CASE ProcessorCloses
  BY <1>2, ClosesInternal
<1>3. CASE DoContentBreach
  BY <1>3, Untouched DEF DoContentBreach, Breach, entityVars
<1>4. CASE DoContentData
  BY <1>4, Untouched DEF DoContentData
<1>5. CASE DoContentRefError
  BY <1>5, Untouched DEF DoContentRefError, entityVars
<1>6. CASE DoContentReport
  BY <1>6, Untouched, Zenon DEF DoContentReport, entityVars
<1>7. CASE DoContentExpand
  <2> DEFINE e == ContentToken.e
  <2>1. CASE UNCHANGED <<openEntities, listVars>>
    BY <2>1, Untouched
  <2>2. CASE ~UNCHANGED <<openEntities, listVars>>
    <3>1. /\ RefError(e) = "NONE" /\ HasText(e) /\ TakeOpenEntity
          /\ openEntities' = openEntities \cup {e}
          /\ openInternalEntities' =
               <<[entity |-> e, startTagLevel |-> tagLevel]>> \o openInternalEntities
          /\ UNCHANGED openAttributeEntities
      BY <1>7, <2>2, Zenon DEF DoContentExpand, entityVars
    <3> QED BY <3>1, ExpandsClosed, OpensInternal
  <2> QED BY <2>1, <2>2
<1>8. CASE DoContentStart
  BY <1>8, Untouched, Zenon DEF DoContentStart, entityVars
<1>9. CASE DoContentEnd
  BY <1>9, Untouched, Zenon DEF DoContentEnd, entityVars
<1>10. CASE DoContentNone
  BY <1>10, Untouched, Zenon DEF DoContentNone, entityVars
<1>11. CASE StoreAppends
  BY <1>11, Untouched DEF StoreAppends, entityVars
<1>12. CASE StoreCloses
  BY <1>12, ClosesAttribute
<1>13. CASE StoreReturns
  BY <1>13, Untouched DEF StoreReturns
<1>14. CASE AppendBreach
  BY <1>14, Untouched DEF AppendBreach, Breach, entityVars
<1>15. CASE AppendInvalid
  BY <1>15, Untouched DEF AppendInvalid, entityVars
<1>16. CASE AppendData
  BY <1>16, Untouched DEF AppendData, entityVars
<1>17. CASE AppendSkips
  BY <1>17, Untouched DEF AppendSkips, entityVars
<1>18. CASE AppendRefError
  BY <1>18, Untouched DEF AppendRefError, entityVars
<1>19. CASE AppendExpand
  <2> DEFINE e == ValueToken.e
  <2>1. CASE UNCHANGED <<openEntities, listVars>>
    BY <2>1, Untouched
  <2>2. CASE ~UNCHANGED <<openEntities, listVars>>
    <3>1. /\ RefError(e) = "NONE" /\ HasText(e) /\ TakeOpenEntity
          /\ openEntities' = openEntities \cup {e}
          /\ openAttributeEntities' = <<e>> \o openAttributeEntities
          /\ UNCHANGED openInternalEntities
      BY <1>19, <2>2 DEF AppendExpand, entityVars
    <3> QED BY <3>1, ExpandsClosed, OpensAttribute
  <2> QED BY <2>1, <2>2
<1>20. CASE AppendNone
  BY <1>20, Untouched DEF AppendNone
<1>21. CASE ResumeParser
  BY <1>21, Untouched DEF ResumeParser, entityVars
<1>22. CASE ParserReset
  BY <1>22, ResetLists
<1>23. CASE UNCHANGED vars
  BY <1>23, Untouched DEF vars, listVars
<1> QED BY <1>1, <1>2, <1>3, <1>4, <1>5, <1>6, <1>7, <1>8, <1>9, <1>10, <1>11, <1>12,
           <1>13, <1>14, <1>15, <1>16, <1>17, <1>18, <1>19, <1>20, <1>21, <1>22, <1>23
        DEF Next, Expands

(* Whatever the entities, their texts and the document: through every      *)
(* nesting, error, suspension and reset, processEntity,                    *)
(* internalEntityProcessor and storeAttributeValue mark an entity open     *)
(* exactly while it is on one of the two lists, once, and no               *)
(* OPEN_INTERNAL_ENTITY is lost.                                           *)
THEOREM OpenEntities == Spec => []OpenIsTracked
<1>1. OpenInv => OpenIsTracked
  BY DEF OpenInv
<1> QED BY OpenInit, OpenStep, <1>1, PTL DEF Spec

-----------------------------------------------------------------------------
(* The amplification limit.  Every piece a handler is given was counted.   *)

ItemSize(item) == 1 + IF item.k = "start" THEN Len(item.a) ELSE 0
AllSized(items) == \A i \in 1..Len(items) : items[i].k = "start" => Len(items[i].a) \in Nat

(* An item more is its pieces more. *)
LEMMA SizeOfItem ==
    ASSUME NEW items, NEW i \in Int, items[i].k = "start" => Len(items[i].a) \in Nat
    PROVE  /\ IsFiniteSet(PiecesAt(items, i))
           /\ Cardinality(PiecesAt(items, i)) = ItemSize(items[i])
<1> DEFINE n == IF items[i].k = "start" THEN Len(items[i].a) ELSE 0
<1>1. n \in Nat
  OBVIOUS
<1> HIDE DEF n
<1>2. IsFiniteSet(0..n) /\ Cardinality(0..n) = 1 + n
  <2>1. 0 \in Int /\ n \in Int BY <1>1
  <2>2. IsFiniteSet(0..n) /\ Cardinality(0..n) = IF 0 > n THEN 0 ELSE n - 0 + 1
    BY <2>1, FS_Interval, Zenon
  <2> QED BY <1>1, <2>2
<1>3. IsFiniteSet({i}) /\ Cardinality({i}) = 1
  BY FS_Singleton, Zenon
<1>4. IsFiniteSet({i} \X (0..n)) /\ Cardinality({i} \X (0..n)) = 1 * (1 + n)
  <2>1. /\ IsFiniteSet({i} \X (0..n))
        /\ Cardinality({i} \X (0..n)) = Cardinality({i}) * Cardinality(0..n)
    BY <1>2, <1>3, FS_Product, Zenon
  <2> QED BY <1>2, <1>3, <2>1, Zenon
<1>5. PiecesAt(items, i) = {i} \X (0..n) /\ ItemSize(items[i]) = 1 + n
  BY DEF PiecesAt, ItemSize, n
<1> QED BY <1>1, <1>4, <1>5

LEMMA SizeOfNone == Size(<<>>) = 0
<1>1. UNION {PiecesAt(<<>>, i) : i \in 1..Len(<<>>)} = {}
  OBVIOUS
<1> QED BY <1>1, FS_EmptySet DEF Size

LEMMA SizeOfOneMore ==
    ASSUME NEW items, IsSequence(items), AllSized(items),
           IsFiniteSet(UNION {PiecesAt(items, i) : i \in 1..Len(items)}),
           NEW item, item.k = "start" => Len(item.a) \in Nat
    PROVE  LET more == Append(items, item)
           IN  /\ IsSequence(more) /\ AllSized(more)
               /\ IsFiniteSet(UNION {PiecesAt(more, i) : i \in 1..Len(more)})
               /\ Size(more) = Size(items) + ItemSize(item)
<1> DEFINE more == Append(items, item)
           n == Len(items)
           old == UNION {PiecesAt(items, i) : i \in 1..n}
           new == PiecesAt(more, n + 1)
           all == UNION {PiecesAt(more, i) : i \in 1..Len(more)}
<1>1. PICK S : items \in Seq(S)
  BY DEF IsSequence
<1>2. more \in Seq(S \cup {item}) /\ n \in Nat
  BY <1>1
<1>3. Len(more) = n + 1 /\ more[n + 1] = item /\ \A i \in 1..n : more[i] = items[i]
  BY <1>1
<1> HIDE DEF more, n
<1>4. AllSized(more)
  <2> SUFFICES ASSUME NEW i \in 1..(n + 1), more[i].k = "start"
               PROVE  Len(more[i].a) \in Nat
    BY <1>3 DEF AllSized
  <2>1. CASE i = n + 1 BY <2>1, <1>3
  <2>2. CASE i \in 1..n BY <2>2, <1>3 DEF AllSized, n
  <2> QED BY <2>1, <2>2, <1>2
<1>5. \A i \in 1..n : PiecesAt(more, i) = PiecesAt(items, i)
  BY <1>3 DEF PiecesAt
<1>6. all = old \cup new
  <2>1. 1..Len(more) = (1..n) \cup {n + 1}
    BY <1>2, <1>3
  <2> QED BY <1>5, <2>1
<1>7. old \cap new = {}
  <2>1. \A i \in 1..n : i # n + 1
    BY <1>2
  <2>2. \A i : \A x \in PiecesAt(items, i), y \in PiecesAt(more, n + 1) : i # n + 1 => x # y
    BY DEF PiecesAt
  <2> QED BY <2>1, <2>2
<1>8. IsFiniteSet(new) /\ Cardinality(new) = ItemSize(item)
  BY <1>2, <1>3, SizeOfItem
<1>9. IsFiniteSet(old)
  BY DEF n
<1> HIDE DEF old, new, all
<1>10. IsFiniteSet(all)
       /\ Cardinality(all) = Cardinality(old) + Cardinality(new) - Cardinality(old \cap new)
  BY <1>6, <1>8, <1>9, FS_Union, Zenon
<1>11. Cardinality(old) \in Nat /\ Cardinality(new) \in Nat /\ Cardinality(old \cap new) = 0
  BY <1>7, <1>8, <1>9, FS_CardinalityType, FS_EmptySet, Zenon
<1>12. Size(more) = Cardinality(all) /\ Size(items) = Cardinality(old)
  BY DEF Size, all, old, n
<1>13. Size(more) = Size(items) + ItemSize(item)
  BY <1>8, <1>10, <1>11, <1>12
<1>14. IsSequence(more)
  BY <1>2 DEF IsSequence
<1> QED BY <1>4, <1>10, <1>13, <1>14 DEF more, all

(* Where the functions are in the texts they read. *)
Positive == Nat \ {0}
AttType(a) ==
    /\ a = [text |-> a.text, next |-> a.next, value |-> a.value,
            account |-> a.account, s |-> a.s]
    /\ IsValue(a.text) /\ IsSequence(a.value)
    /\ a.account \in {"none", "direct", "expansion"}
    /\ a.next \in Positive /\ a.s \in Positive /\ a.next <= Len(a.text) + 1

Shape ==
    /\ doc \in Docs
    /\ \A i \in 1..Len(openInternalEntities) : openInternalEntities[i].entity \in Entities
    /\ \A i \in 1..Len(openAttributeEntities) : openAttributeEntities[i] \in Entities
    /\ s \in Positive /\ cursor \in Positive /\ processed \in [Entities -> Positive]
    /\ AttType(att)
    /\ (pc = "appendAttributeValue" /\ ~InAttributeEntity) => att.s <= Len(att.text) + 1

LEMMA ListIsSequence ==
    ASSUME NEW list, IsList(list)
    PROVE  IsSequence(list) /\ Len(list) \in Nat
<1>1. IsSequence(list) BY DEF IsList, IsSequence
<1> QED BY <1>1, PushLemma

LEMMA Heads ==
    ASSUME OpenInv, Shape
    PROVE  /\ InEntity => Opened.entity \in Entities
           /\ InAttributeEntity => openAttributeEntities[1] \in Entities
<1>1. ASSUME NEW list, IsSequence(list), list # <<>> PROVE 1 \in 1..Len(list)
  BY <1>1, PopLemma
<1> QED BY <1>1 DEF OpenInv, ListType, Shape, InEntity, InAttributeEntity, Opened

LEMMA TextsAreText ==
    ASSUME OpenInv, Shape
    PROVE  IsText(ContentText) /\ (InAttributeEntity => IsText(ValueText))
BY Heads, ExpansionAssumption DEF ContentText, ValueText, Shape

(* The token doContent is at, and the one appendAttributeValue is at. *)
LEMMA ContentTokenIsTok ==
    ASSUME OpenInv, Shape, s <= Len(ContentText)
    PROVE  IsTok(ContentToken)
<1>1. IsText(ContentText) BY TextsAreText
<1>2. s \in 1..Len(ContentText)
  BY <1>1, ListIsSequence DEF IsText, Shape, Positive
<1> QED BY <1>1, <1>2 DEF IsText, ContentToken

LEMMA ValueTokenIsTok ==
    ASSUME OpenInv, Shape, att.s <= Len(ValueText)
    PROVE  /\ IsTok(ValueToken)
           /\ ~InAttributeEntity => IsPiece(ValueToken)
<1>1. CASE InAttributeEntity
  <2>1. IsText(ValueText) BY <1>1, TextsAreText
  <2>2. att.s \in 1..Len(ValueText)
    BY <2>1, ListIsSequence DEF IsText, Shape, AttType, Positive
  <2> QED BY <1>1, <2>1, <2>2 DEF IsText, ValueToken
<1>2. CASE ~InAttributeEntity
  <2>1. ValueText = att.text /\ IsValue(att.text)
    BY <1>2 DEF ValueText, Shape, AttType
  <2>2. att.s \in 1..Len(ValueText)
    BY <2>1, ListIsSequence DEF IsValue, Shape, AttType, Positive
  <2> QED BY <1>2, <2>1, <2>2 DEF IsValue, ValueToken, IsTok
<1> QED BY <1>1, <1>2

LEMMA BytesType ==
    ASSUME NEW t, IsTok(t)
    PROVE  /\ Bytes(t) \in Nat /\ Bytes(t) >= 1
           /\ t.k \in {"start", "empty"} => /\ Bytes(t) = 2 + Len(t.a) /\ Len(t.a) \in Nat
                                            /\ IsSequence(t.a) /\ IsValue(t.a)
           /\ t.k = "ref" => t.e \in Entities
<1>1. CASE t.k \in {"start", "empty"}
  <2>1. IsValue(t.a) BY <1>1 DEF IsTok, IsPiece
  <2> QED BY <1>1, <2>1, ListIsSequence DEF IsValue, Bytes
<1>2. CASE t.k \notin {"start", "empty"}
  BY <1>2 DEF IsTok, IsPiece, Bytes
<1> QED BY <1>1, <1>2

LEMMA ReturnsShape ==
    ASSUME OpenInv, Shape, NEW next \in Positive, NEW more, NEW done \in [Entities -> Positive],
           NEW suspended, ContentReturns(next, more, done, suspended)
    PROVE  /\ cursor' \in Positive /\ processed' \in [Entities -> Positive]
           /\ pc' \in {"suspended", "processor", "failed"}
           /\ error' = error \/ error' = "ASYNC_ENTITY"
<1>1. CASE ~InEntity
  BY <1>1 DEF ContentReturns, Shape
<1>2. CASE InEntity
  <2>1. Opened.entity \in Entities BY <1>2, Heads
  <2> QED BY <1>2, <2>1 DEF ContentReturns, Shape, Progress, Failing
<1> QED BY <1>1, <1>2

LEMMA AfterTokenShape ==
    ASSUME OpenInv, Shape, NEW next \in Positive, AfterToken(next)
    PROVE  /\ s' \in Positive /\ cursor' \in Positive /\ processed' \in [Entities -> Positive]
           /\ pc' \in {"doContent", "suspended", "processor", "failed"}
           /\ error' = error \/ error' \in {"ASYNC_ENTITY", "ABORTED"}
<1>1. processed \in [Entities -> Positive] /\ cursor \in Positive
  BY DEF Shape
<1>2. CASE ContentReturns(next, hasMore, processed, TRUE)
  BY <1>1, <1>2, ReturnsShape, Zenon DEF AfterToken
<1> QED BY <1>1, <1>2, Zenon DEF AfterToken, Failing

LEMMA NoAttType == AttType(NoAtt)
<1>1. IsSequence(<<>>) /\ IsList(<<>>) /\ Len(<<>>) = 0
  BY DEF IsSequence, IsList
<1> QED BY <1>1 DEF AttType, NoAtt, IsValue, Positive

LEMMA ShapeInit == Init => Shape
BY NoAttType, ExpansionAssumption DEF Init, Shape, Positive

(* Steps that leave the lists, the text and the value alone. *)
LEMMA ShapeKept ==
    ASSUME Shape, UNCHANGED <<docVars, listVars, cursor, s, att>>, UNCHANGED processed,
           pc' # "appendAttributeValue" \/ pc' = pc
    PROVE  Shape'
BY DEF Shape, docVars, listVars, InAttributeEntity

LEMMA ShapeAfterToken ==
    ASSUME OpenInv, Shape, UNCHANGED <<docVars, listVars>>, AfterToken(s + 1), AttType(att')
    PROVE  Shape'
<1>1. s + 1 \in Positive BY DEF Shape, Positive
<1> QED BY <1>1, AfterTokenShape DEF Shape, docVars, listVars

LEMMA ShapeFail ==
    ASSUME Shape, NEW code, Fail(code)
    PROVE  Shape' /\ error' = code /\ out' = out
BY DEF Shape, Fail, Failing, docVars, listVars, entityVars

LEMMA ShapeStarts ==
    ASSUME OpenInv, Shape, DoContentStart
    PROVE  Shape'
<1>1. UNCHANGED <<docVars, listVars>> /\ IsTok(ContentToken)
      /\ ContentToken.k \in {"start", "empty"}
  BY ContentTokenIsTok DEF DoContentStart, DoContent
<1>2. CASE StartElement(ContentToken.a)
  BY <1>1, <1>2, NoAttType, ShapeAfterToken DEF StartElement
<1>3. CASE /\ att' = [NoAtt EXCEPT !.text = ContentToken.a,
                                   !.account = ValueAccount(ContentToken.k)]
           /\ pc' = "storeAttributeValue"
           /\ UNCHANGED <<entityVars, cursor, s, error, out>>
  <2>1. IsValue(ContentToken.a) /\ Len(ContentToken.a) \in Nat
    BY <1>1, BytesType
  <2>2. IsSequence(<<>>)
    BY DEF IsSequence
  <2>3. ValueAccount(ContentToken.k) \in {"none", "direct", "expansion"}
    BY DEF ValueAccount, ContentAccount
  <2>4. att' = [text |-> ContentToken.a, next |-> 1, value |-> <<>>,
                account |-> ValueAccount(ContentToken.k), s |-> 1]
    BY <1>3, Zenon DEF NoAtt
  <2>5. AttType(att')
    <3> DEFINE a == att'
    <3>1. /\ a.text = ContentToken.a /\ a.next = 1 /\ a.value = <<>>
          /\ a.account = ValueAccount(ContentToken.k) /\ a.s = 1
      BY <2>4
    <3> QED BY <2>1, <2>2, <2>3, <2>4, <3>1 DEF AttType, Positive
  <2> QED BY <1>1, <1>3, <2>5 DEF Shape, docVars, listVars, entityVars
<1> QED BY <1>2, <1>3 DEF DoContentStart

LEMMA ShapeExpands ==
    ASSUME OpenInv, Shape, DoContentExpand
    PROVE  Shape'
<1> DEFINE e == ContentToken.e
           r == [entity |-> e, startTagLevel |-> tagLevel]
<1>1. e \in Entities
  BY ContentTokenIsTok, BytesType, Zenon DEF DoContentExpand, DoContent
<1>2. CASE Fail("NO_MEMORY")
  BY <1>2, ShapeFail
<1>3. CASE /\ openInternalEntities' = <<r>> \o openInternalEntities
           /\ s' = s + 1
           /\ UNCHANGED <<docVars, openAttributeEntities, tagLevel, att, out>>
           /\ ContentReturns(s + 1, MoreIn(e), FromStart(e), FALSE)
  <2>1. s + 1 \in Positive /\ FromStart(e) \in [Entities -> Positive]
    <3>1. s + 1 \in Positive /\ 1 \in Positive
      BY DEF Shape, Positive
    <3>2. processed \in [Entities -> Positive]
      BY DEF Shape
    <3> HIDE DEF e
    <3> QED BY <3>1, <3>2, Zenon DEF FromStart
  <2>2. /\ cursor' \in Positive /\ processed' \in [Entities -> Positive]
        /\ pc' \in {"suspended", "processor", "failed"}
    BY <1>3, <2>1, ReturnsShape, Zenon
  <2>3. r.entity = e
    OBVIOUS
  <2> HIDE DEF r
  <2>4. \A i \in 1..Len(openInternalEntities') : openInternalEntities'[i].entity \in Entities
    <3>1. /\ Len(openInternalEntities) \in Nat
          /\ Len(openInternalEntities') = Len(openInternalEntities) + 1
          /\ openInternalEntities'[1] = r
          /\ \A i \in 1..Len(openInternalEntities) :
                openInternalEntities'[i + 1] = openInternalEntities[i]
      <4>1. IsSequence(openInternalEntities) BY DEF OpenInv, ListType
      <4>2. openInternalEntities' = <<r>> \o openInternalEntities BY <1>3
      <4> QED BY <4>1, <4>2, PushLemma, ZenonT(40)
    <3> TAKE i \in 1..Len(openInternalEntities')
    <3>2. CASE i = 1 BY <3>1, <3>2, <2>3, <1>1
    <3>3. CASE i # 1
      <4>1. i - 1 \in 1..Len(openInternalEntities) /\ (i - 1) + 1 = i
        BY <3>1, <3>3
      <4>2. openInternalEntities'[i] = openInternalEntities[i - 1]
        BY <3>1, <4>1
      <4> QED BY <4>1, <4>2 DEF Shape
    <3> QED BY <3>2, <3>3
  <2> QED BY <1>3, <2>1, <2>2, <2>4, Zenon DEF Shape, docVars
<1> QED BY <1>2, <1>3, Zenon DEF DoContentExpand

LEMMA AppendReturnsShape ==
    ASSUME OpenInv, Shape, AttType(att), NEW next \in Positive, next <= Len(ValueText) + 1,
           NEW more, NEW done \in [Entities -> Positive], AppendReturns(next, more, done)
    PROVE  /\ processed' \in [Entities -> Positive] /\ AttType(att')
           /\ pc' # "appendAttributeValue"
<1>1. CASE InAttributeEntity
  BY <1>1, Heads DEF AppendReturns, Progress
<1>2. CASE ~InAttributeEntity
  <2>1. att' = [text |-> att.text, next |-> next, value |-> att.value,
                account |-> att.account, s |-> att.s]
    BY <1>2 DEF AppendReturns, AttType
  <2>2. next <= Len(att.text) + 1
    BY <1>2 DEF ValueText
  <2> QED BY <1>2, <2>1, <2>2 DEF AppendReturns, AttType, Stored
<1> QED BY <1>1, <1>2

LEMMA ShapeAppends ==
    ASSUME OpenInv, Shape, AppendExpand
    PROVE  Shape'
<1> DEFINE e == ValueToken.e
<1>1. e \in Entities
  BY ValueTokenIsTok, BytesType, Zenon DEF AppendExpand, AppendsAt
<1>2. CASE Fail("NO_MEMORY")
  BY <1>2, ShapeFail
<1>3. CASE /\ openAttributeEntities' = <<e>> \o openAttributeEntities
           /\ UNCHANGED <<docVars, openInternalEntities, cursor, tagLevel, s, error, out>>
           /\ AppendReturns(att.s + 1, MoreIn(e), FromStart(e))
  <2>1. att.s + 1 \in Positive /\ FromStart(e) \in [Entities -> Positive]
    <3>1. att.s + 1 \in Positive /\ 1 \in Positive
      BY DEF Shape, AttType, Positive
    <3>2. processed \in [Entities -> Positive]
      BY DEF Shape
    <3> HIDE DEF e
    <3> QED BY <3>1, <3>2, Zenon DEF FromStart
  <2>2. att.s + 1 <= Len(ValueText) + 1
    <3>1. att.s <= Len(ValueText) /\ att.s \in Int
      BY DEF AppendExpand, AppendsAt, Shape, AttType, Positive
    <3>2. Len(ValueText) \in Int
      BY TextsAreText, ListIsSequence DEF IsText, ValueText, Shape, AttType, IsValue
    <3> QED BY <3>1, <3>2
  <2>3. /\ processed' \in [Entities -> Positive] /\ AttType(att')
        /\ pc' # "appendAttributeValue"
    BY <1>3, <2>1, <2>2, AppendReturnsShape, Zenon DEF Shape
  <2> HIDE DEF e
  <2>4. \A i \in 1..Len(openAttributeEntities') : openAttributeEntities'[i] \in Entities
    <3>1. /\ Len(openAttributeEntities) \in Nat
          /\ Len(openAttributeEntities') = Len(openAttributeEntities) + 1
          /\ openAttributeEntities'[1] = e
          /\ \A i \in 1..Len(openAttributeEntities) :
                openAttributeEntities'[i + 1] = openAttributeEntities[i]
      <4>1. IsSequence(openAttributeEntities) BY DEF OpenInv, ListType
      <4>2. openAttributeEntities' = <<e>> \o openAttributeEntities BY <1>3
      <4> QED BY <4>1, <4>2, PushLemma, ZenonT(40)
    <3> TAKE i \in 1..Len(openAttributeEntities')
    <3>2. CASE i = 1 BY <3>1, <3>2, <1>1
    <3>3. CASE i # 1
      <4>1. i - 1 \in 1..Len(openAttributeEntities) /\ (i - 1) + 1 = i
        BY <3>1, <3>3
      <4>2. openAttributeEntities'[i] = openAttributeEntities[i - 1]
        BY <3>1, <4>1
      <4> QED BY <4>1, <4>2 DEF Shape
    <3> QED BY <3>2, <3>3
  <2> QED BY <1>3, <2>3, <2>4 DEF Shape, docVars
<1> QED BY <1>2, <1>3 DEF AppendExpand

(* appendAttributeValue goes on to the next token. *)
LEMMA ShapeReads ==
    ASSUME OpenInv, Shape, AppendsAt({"data", "ref"}), NEW value, IsSequence(value),
           att' = [att EXCEPT !.s = @ + 1, !.value = value],
           UNCHANGED <<docVars, entityVars, listVars, cursor, tagLevel, pc, s>>
    PROVE  Shape'
<1>1. att' = [text |-> att.text, next |-> att.next, value |-> value,
              account |-> att.account, s |-> att.s + 1]
  BY Zenon DEF Shape, AttType
<1>2. att.s + 1 \in Positive
  BY DEF Shape, AttType, Positive
<1>3. AttType(att')
  BY <1>1, <1>2, Zenon DEF Shape, AttType
<1>4. ~InAttributeEntity => att.s + 1 <= Len(att.text) + 1
  <2>1. Len(att.text) \in Int /\ att.s \in Int
    BY ListIsSequence DEF Shape, AttType, IsValue, Positive
  <2> QED BY <2>1 DEF AppendsAt, ValueText
<1> QED BY <1>1, <1>3, <1>4 DEF Shape, docVars, entityVars, listVars, InAttributeEntity

LEMMA ShapeStep ==
    ASSUME OpenInv, Shape, [Next]_vars
    PROVE  Shape'
<1>0. /\ doc \in Docs /\ s \in Positive /\ cursor \in Positive
      /\ processed \in [Entities -> Positive] /\ AttType(att)
      /\ s + 1 \in Positive /\ att.s \in Positive /\ att.next <= Len(att.text) + 1
  BY DEF Shape, AttType, Positive
<1>1. CASE ProcessorRuns
  BY <1>0, <1>1, Heads, Zenon DEF ProcessorRuns, Shape, docVars, listVars, entityVars
<1>2. CASE ProcessorCloses
  <2>1. \A i \in 1..Len(openInternalEntities') : openInternalEntities'[i].entity \in Entities
    <3>1. /\ Len(openInternalEntities') \in Nat
          /\ Len(openInternalEntities) = Len(openInternalEntities') + 1
          /\ \A i \in 1..Len(openInternalEntities') :
                openInternalEntities[i + 1] = openInternalEntities'[i]
      BY <1>2, PopLemma DEF ProcessorCloses, InEntity, OpenInv, ListType
    <3> TAKE i \in 1..Len(openInternalEntities')
    <3>2. i + 1 \in 1..Len(openInternalEntities)
      BY <3>1
    <3> QED BY <3>1, <3>2 DEF Shape
  <2> QED BY <1>2, <2>1, Zenon DEF ProcessorCloses, CloseEntity, Shape, docVars
<1>3. CASE DoContentBreach
  BY <1>3, ShapeFail DEF DoContentBreach, Breach
<1>4. CASE DoContentData
  BY <1>0, <1>4, ShapeAfterToken DEF DoContentData
<1>5. CASE DoContentRefError
  BY <1>5, ShapeFail DEF DoContentRefError
<1>6. CASE DoContentReport
  BY <1>0, <1>6, ShapeFail, ShapeAfterToken DEF DoContentReport
<1>7. CASE DoContentExpand
  BY <1>7, ShapeExpands
<1>8. CASE DoContentStart
  BY <1>8, ShapeStarts
<1>9. CASE DoContentEnd
  <2>1. CASE Fail("ASYNC_ENTITY") BY <2>1, ShapeFail
  <2>2. CASE AfterToken(s + 1) /\ UNCHANGED <<docVars, listVars, att>>
    BY <1>0, <2>2, ShapeAfterToken
  <2>3. CASE /\ (pc' = "done" /\ UNCHANGED error) \/ Failing("ABORTED")
             /\ UNCHANGED <<docVars, listVars, att>> /\ UNCHANGED <<entityVars, cursor, s>>
    BY <2>3, ShapeKept DEF Failing, entityVars
  <2> QED BY <1>9, <2>1, <2>2, <2>3 DEF DoContentEnd
<1>10. CASE DoContentNone
  <2>1. CASE Fail("NO_ELEMENTS") \/ Fail("ASYNC_ENTITY") BY <2>1, ShapeFail
  <2>2. CASE /\ UNCHANGED <<docVars, openEntities, listVars, tagLevel, s, att, out>>
             /\ ContentReturns(s, hasMore, processed, FALSE)
    <3>1. /\ cursor' \in Positive /\ processed' \in [Entities -> Positive]
          /\ pc' \in {"suspended", "processor", "failed"}
      BY <1>0, <2>2, ReturnsShape, Zenon
    <3> QED BY <2>2, <3>1, Zenon DEF Shape, docVars, listVars
  <2> QED BY <1>10, <2>1, <2>2, Zenon DEF DoContentNone
<1>11. CASE StoreAppends
  <2> DEFINE from == IF InAttributeEntity THEN processed[openAttributeEntities[1]] ELSE att.next
  <2>1. from \in Positive /\ (~InAttributeEntity => from <= Len(att.text) + 1)
    BY <1>0, Heads DEF AttType
  <2>2. att' = [text |-> att.text, next |-> att.next, value |-> att.value,
                account |-> att.account, s |-> from]
    BY <1>0, <1>11 DEF StoreAppends, AttType
  <2> HIDE DEF from
  <2>3. AttType(att') BY <1>0, <2>1, <2>2 DEF AttType
  <2> QED BY <1>11, <2>1, <2>2, <2>3
          DEF StoreAppends, Shape, docVars, listVars, entityVars, InAttributeEntity
<1>12. CASE StoreCloses
  <2>1. \A i \in 1..Len(openAttributeEntities') : openAttributeEntities'[i] \in Entities
    <3>1. /\ Len(openAttributeEntities') \in Nat
          /\ Len(openAttributeEntities) = Len(openAttributeEntities') + 1
          /\ \A i \in 1..Len(openAttributeEntities') :
                openAttributeEntities[i + 1] = openAttributeEntities'[i]
      BY <1>12, PopLemma DEF StoreCloses, InAttributeEntity, OpenInv, ListType
    <3> TAKE i \in 1..Len(openAttributeEntities')
    <3>2. i + 1 \in 1..Len(openAttributeEntities)
      BY <3>1
    <3> QED BY <3>1, <3>2, Zenon DEF Shape
  <2> QED BY <1>12, <2>1, Zenon DEF StoreCloses, CloseEntity, Shape, docVars, Stored
<1>13. CASE StoreReturns
  BY <1>13, NoAttType, ShapeAfterToken DEF StoreReturns, StartElement
<1>14. CASE AppendBreach
  BY <1>14, ShapeFail DEF AppendBreach, Breach
<1>15. CASE AppendInvalid
  BY <1>15, ShapeFail DEF AppendInvalid
<1>16. CASE AppendData
  <2>1. IsSequence(Append(att.value, ValueToken))
    <3>1. PICK S : att.value \in Seq(S) BY <1>0 DEF AttType, IsSequence
    <3>2. Append(att.value, ValueToken) \in Seq(S \cup {ValueToken}) BY <3>1
    <3> QED BY <3>2 DEF IsSequence
  <2>2. AppendsAt({"data", "ref"}) BY <1>16 DEF AppendData, AppendsAt
  <2>3. att' = [att EXCEPT !.s = @ + 1, !.value = Append(att.value, ValueToken)]
    BY <1>16, <1>0 DEF AppendData, AttType
  <2> QED BY <1>16, <2>1, <2>2, <2>3, ShapeReads, Zenon DEF AppendData
<1>17. CASE AppendSkips
  <2>1. AppendsAt({"data", "ref"}) BY <1>17 DEF AppendSkips, AppendsAt
  <2>2. att' = [att EXCEPT !.s = @ + 1, !.value = att.value]
    BY <1>17, <1>0, Zenon DEF AppendSkips, AttType
  <2> QED BY <1>17, <1>0, <2>1, <2>2, ShapeReads, Zenon DEF AppendSkips, AttType
<1>18. CASE AppendRefError
  BY <1>18, ShapeFail DEF AppendRefError
<1>19. CASE AppendExpand
  BY <1>19, ShapeAppends
<1>20. CASE AppendNone
  <2>1. att.s <= Len(ValueText) + 1 \/ InAttributeEntity
    BY <1>20 DEF AppendNone, Shape, ValueText
  <2>2. /\ processed' \in [Entities -> Positive] /\ AttType(att')
        /\ pc' # "appendAttributeValue"
    <3>1. CASE InAttributeEntity
      BY <1>0, <1>20, <3>1, Heads DEF AppendNone, AppendReturns, Progress
    <3>2. CASE ~InAttributeEntity
      BY <1>0, <1>20, <2>1, <3>2, AppendReturnsShape DEF AppendNone
    <3> QED BY <3>1, <3>2
  <2> QED BY <1>20, <2>2, Zenon DEF AppendNone, Shape, docVars, listVars
<1>21. CASE ResumeParser
  BY <1>21, ShapeKept DEF ResumeParser, entityVars
<1>22. CASE ParserReset
  BY <1>22, NoAttType, ExpansionAssumption DEF ParserReset, Shape, Positive
<1>23. CASE UNCHANGED vars
  BY <1>23, ShapeKept DEF vars, docVars, listVars
<1> QED BY <1>1, <1>2, <1>3, <1>4, <1>5, <1>6, <1>7, <1>8, <1>9, <1>10, <1>11, <1>12,
           <1>13, <1>14, <1>15, <1>16, <1>17, <1>18, <1>19, <1>20, <1>21, <1>22, <1>23
        DEF Next, Expands

-----------------------------------------------------------------------------
(* While a value is normalized its start tag has been counted and is not   *)
(* yet reported: Pending is what may still be reported of the tag, its end *)
(* and the rest of its own text.                                           *)
InValue == pc \in {"storeAttributeValue", "appendAttributeValue", "stored"}
Taken == IF pc = "appendAttributeValue" /\ ~InAttributeEntity THEN att.s ELSE att.next
Pending == IF InValue THEN 2 + Len(att.value) + (Len(att.text) + 1 - Taken) ELSE 0

Sized(items) ==
    /\ IsSequence(items) /\ AllSized(items)
    /\ IsFiniteSet(UNION {PiecesAt(items, i) : i \in 1..Len(items)})

CountsOK ==
    /\ countBytesDirect \in Nat /\ countBytesIndirect \in Nat
    /\ Tolerated(countBytesDirect, countBytesIndirect)

(* Nothing is reported or opened before a byte of the document is counted. *)
BudgetInv ==
    error = "NONE" =>
        /\ CountsOK
        /\ Sized(out)
        /\ Size(out) + Pending <= countBytesDirect + countBytesIndirect
        /\ countBytesDirect = 0 => out = <<>> /\ ~InEntity /\ ~InValue

LEMMA SizeType == \A items : Sized(items) => Size(items) \in Nat
BY FS_CardinalityType DEF Sized, Size

LEMMA PendingType ==
    ASSUME Shape
    PROVE  /\ Len(att.text) \in Nat /\ Len(att.value) \in Nat
           /\ att.s \in Nat /\ att.next \in Nat
           /\ Pending \in Nat
<1>1. /\ Len(att.text) \in Nat /\ Len(att.value) \in Nat
      /\ att.s \in Nat /\ att.next \in Nat /\ att.next <= Len(att.text) + 1
  BY ListIsSequence, PushLemma DEF Shape, AttType, IsValue, Positive
<1>2. Taken \in Nat /\ Taken <= Len(att.text) + 1
  BY <1>1 DEF Taken, Shape
<1>3. CASE InValue
  <2>1. Pending = 2 + Len(att.value) + (Len(att.text) + 1 - Taken)
    BY <1>3, Zenon DEF Pending
  <2>2. \A v, x, k \in Nat : k <= x + 1 => 2 + v + (x + 1 - k) \in Nat
    OBVIOUS
  <2> QED BY <1>1, <1>2, <2>1, <2>2, Zenon
<1>4. CASE ~InValue
  <2>1. Pending = 0
    BY <1>4, Zenon DEF Pending
  <2> QED BY <1>1, <2>1
<1> QED BY <1>3, <1>4

LEMMA SizedAppend ==
    ASSUME NEW items, Sized(items), NEW item, item.k = "start" => Len(item.a) \in Nat
    PROVE  /\ Sized(Append(items, item))
           /\ Size(Append(items, item)) = Size(items) + ItemSize(item)
<1> DEFINE more == Append(items, item)
<1>1. /\ IsSequence(more) /\ AllSized(more)
      /\ IsFiniteSet(UNION {PiecesAt(more, i) : i \in 1..Len(more)})
      /\ Size(more) = Size(items) + ItemSize(item)
  <2>1. /\ IsSequence(items) /\ AllSized(items)
        /\ IsFiniteSet(UNION {PiecesAt(items, i) : i \in 1..Len(items)})
    BY DEF Sized
  <2> QED BY <2>1, SizeOfOneMore, Zenon
<1> QED BY <1>1 DEF Sized

(* What accountingDiffTolerated has counted when it lets the parser go on. *)
LEMMA AccountLemma ==
    ASSUME CountsOK, NEW account \in {"none", "direct", "expansion"},
           NEW t, IsTok(t), Account(account, t)
    PROVE  /\ CountsOK'
           /\ countBytesDirect' + countBytesIndirect'
                = countBytesDirect + countBytesIndirect
                    + IF account = "none" THEN 0 ELSE Bytes(t)
           /\ countBytesDirect' >= countBytesDirect
           /\ account = "direct" => countBytesDirect' = countBytesDirect + Bytes(t)
<1>1. Bytes(t) \in Nat BY BytesType
<1>2. CASE account = "none"
  BY <1>1, <1>2 DEF Account, Counted, CountsOK
<1>3. CASE account # "none"
  BY <1>1, <1>3 DEF Account, Counted, CountsOK
<1> QED BY <1>2, <1>3

LEMMA ContentCounted ==
    ASSUME OpenInv, Shape, BudgetInv, error = "NONE", s <= Len(ContentText), Accounted
    PROVE  /\ CountsOK'
           /\ countBytesDirect' + countBytesIndirect'
                = countBytesDirect + countBytesIndirect + Bytes(ContentToken)
           /\ countBytesDirect' # 0
<1>1. IsTok(ContentToken) /\ Bytes(ContentToken) \in Nat /\ Bytes(ContentToken) >= 1
  BY ContentTokenIsTok, BytesType
<1>2. CountsOK /\ (InEntity => countBytesDirect # 0)
  BY DEF BudgetInv
<1>3. ContentAccount \in {"none", "direct", "expansion"} /\ ContentAccount # "none"
      /\ (~InEntity => ContentAccount = "direct")
  BY DEF ContentAccount
<1>4. /\ CountsOK'
      /\ countBytesDirect' + countBytesIndirect'
           = countBytesDirect + countBytesIndirect + Bytes(ContentToken)
      /\ countBytesDirect' >= countBytesDirect
      /\ ContentAccount = "direct" => countBytesDirect' = countBytesDirect + Bytes(ContentToken)
  BY <1>1, <1>2, <1>3, AccountLemma DEF Accounted
<1>5. countBytesDirect \in Nat /\ countBytesDirect' \in Nat
  BY <1>2, <1>4 DEF CountsOK
<1>6. CASE InEntity BY <1>2, <1>4, <1>5, <1>6
<1>7. CASE ~InEntity BY <1>1, <1>3, <1>4, <1>5, <1>7
<1> QED BY <1>4, <1>6, <1>7

(* The step has reported no more than it has counted and was owed. *)
LEMMA BudgetKept ==
    ASSUME CountsOK', Sized(out'), NEW given, Size(out') = given, NEW owed, Pending' = owed,
           given + owed <= countBytesDirect' + countBytesIndirect',
           countBytesDirect' # 0 \/ (out' = <<>> /\ ~InEntity' /\ ~InValue')
    PROVE  BudgetInv'
<1>1. Size(out') + Pending' <= countBytesDirect' + countBytesIndirect'
  OBVIOUS
<1> QED BY <1>1, Zenon DEF BudgetInv

LEMMA NothingSized == Sized(<<>>)
<1>1. UNION {PiecesAt(<<>>, i) : i \in 1..Len(<<>>)} = {}
  OBVIOUS
<1>2. IsSequence(<<>>)
  BY DEF IsSequence
<1> QED BY <1>1, <1>2, FS_EmptySet DEF Sized, AllSized

LEMMA NothingTolerated == Tolerated(0, 0)
<1>1. Shortest <= Factor * Shortest
  BY ExpansionAssumption DEF Shortest
<1> QED BY <1>1, ExpansionAssumption DEF Tolerated, Shortest

LEMMA BudgetInit == Init => BudgetInv
<1> SUFFICES ASSUME Init PROVE BudgetInv
  OBVIOUS
<1>1. out = <<>> /\ pc = "processor" /\ countBytesDirect = 0 /\ countBytesIndirect = 0
      /\ openInternalEntities = <<>>
  BY DEF Init
<1> QED BY <1>1, NothingSized, NothingTolerated, SizeOfNone
        DEF BudgetInv, CountsOK, Pending, InValue, InEntity

LEMMA Sums ==
    /\ \A x, y \in Nat : x + y \in Nat
    /\ \A x, y \in Nat : x # 0 /\ y >= x => y # 0
    /\ \A x, y, b \in Nat : b >= 1 /\ y = x + b => y >= x /\ y >= x + 1
    /\ \A x, y \in Nat : y = x + 0 => y >= x
    /\ \A x, y \in Nat : y >= x => y >= x + 0
    /\ \A x, y, z, n \in Nat :
          y = x + (1 + n) /\ z = y + 1 => z <= x + (2 + n) /\ y <= x + (2 + n)
    /\ \A z, p, q, m, x, y \in Nat : z + p <= x /\ q <= p + m /\ y >= x + m => z + q <= y
    /\ \A z, p, b, x, y \in Nat : z + 0 <= x /\ p <= z + b /\ y = x + b => p + 0 <= y
OBVIOUS

LEMMA PutBehind ==
    ASSUME NEW list, IsSequence(list), NEW x
    PROVE  list \o <<x>> = Append(list, x) /\ list \o <<>> = list
<1>1. PICK S : list \in Seq(S) BY DEF IsSequence
<1> QED BY <1>1

(* The callbacks of a start tag, or of an empty element. *)
LEMMA SizedStart ==
    ASSUME NEW items, Sized(items), NEW a, Len(a) \in Nat, NEW isEmpty,
           NEW new, new = items \o <<[k |-> "start", a |-> a]>>
                            \o (IF isEmpty THEN <<[k |-> "end"]>> ELSE <<>>)
    PROVE  Sized(new) /\ Size(new) <= Size(items) + (2 + Len(a))
<1> DEFINE first == [k |-> "start", a |-> a]
           last == [k |-> "end"]
           one == Append(items, first)
<1>1. ItemSize(first) = 1 + Len(a) /\ ItemSize(last) = 1 /\ last.k # "start"
      /\ (first.k = "start" => Len(first.a) \in Nat)
  BY DEF ItemSize
<1>2. items \o <<first>> = one
  BY PutBehind DEF Sized
<1> HIDE DEF first, last
<1>3. Sized(one) /\ Size(one) = Size(items) + (1 + Len(a)) /\ Size(items) \in Nat
  BY <1>1, SizedAppend, SizeType
<1>4. Sized(Append(one, last)) /\ Size(Append(one, last)) = Size(one) + 1
  BY <1>1, <1>3, SizedAppend
<1> HIDE DEF one
<1>5. one \o <<last>> = Append(one, last) /\ one \o <<>> = one
  BY <1>3, PutBehind DEF Sized
<1>6. new = IF isEmpty THEN Append(one, last) ELSE one
  BY <1>2, <1>5 DEF first, last
<1>7. Size(one) \in Nat /\ Size(Append(one, last)) \in Nat
  BY <1>3, <1>4, SizeType
<1>8. /\ Size(Append(one, last)) <= Size(items) + (2 + Len(a))
      /\ Size(one) <= Size(items) + (2 + Len(a))
  BY <1>3, <1>4, <1>7, Sums
<1>9. CASE isEmpty BY <1>4, <1>6, <1>8, <1>9, Zenon
<1>10. CASE ~isEmpty BY <1>3, <1>6, <1>8, <1>10, Zenon
<1> QED BY <1>9, <1>10

LEMMA BudgetFail ==
    ASSUME NEW code, code # "NONE", Fail(code)
    PROVE  BudgetInv'
BY DEF Fail, Failing, BudgetInv

(* doContent has counted its token and reported no more than its bytes. *)
LEMMA BudgetContent ==
    ASSUME OpenInv, Shape, BudgetInv, pc = "doContent", s <= Len(ContentText), Accounted,
           error' = "NONE" => error = "NONE",
           error' = "NONE" => Sized(out') /\ Size(out') <= Size(out) + Bytes(ContentToken),
           pc' \notin {"storeAttributeValue", "appendAttributeValue", "stored"}
    PROVE  BudgetInv'
<1> SUFFICES ASSUME error' = "NONE" PROVE BudgetInv'
  BY DEF BudgetInv
<1>1. error = "NONE" /\ Sized(out') /\ Size(out') <= Size(out) + Bytes(ContentToken)
  OBVIOUS
<1>2. /\ CountsOK'
      /\ countBytesDirect' + countBytesIndirect'
           = countBytesDirect + countBytesIndirect + Bytes(ContentToken)
      /\ countBytesDirect' # 0
  BY <1>1, ContentCounted
<1>3. Pending = 0 /\ Pending' = 0
  BY DEF Pending, InValue
<1>4. Sized(out) /\ CountsOK /\ Size(out) + 0 <= countBytesDirect + countBytesIndirect
  BY <1>1, <1>3 DEF BudgetInv
<1>5. Bytes(ContentToken) \in Nat
  BY ContentTokenIsTok, BytesType
<1>6. Size(out) \in Nat /\ Size(out') \in Nat
  BY <1>1, <1>4, SizeType
<1>7. /\ countBytesDirect \in Nat /\ countBytesIndirect \in Nat
      /\ countBytesDirect' \in Nat /\ countBytesIndirect' \in Nat
  BY <1>2, <1>4 DEF CountsOK
<1>8. Size(out') + 0 <= countBytesDirect' + countBytesIndirect'
  BY <1>1, <1>2, <1>4, <1>5, <1>6, <1>7, Sums
<1> QED BY <1>1, <1>2, <1>3, <1>8, BudgetKept

(* Nothing is counted and nothing is reported. *)
LEMMA BudgetSame ==
    ASSUME BudgetInv, UNCHANGED <<countVars, out>>, error' = "NONE" => error = "NONE",
           Pending' = Pending, InEntity' => InEntity, InValue' => InValue
    PROVE  BudgetInv'
<1> SUFFICES ASSUME error' = "NONE" PROVE BudgetInv'
  BY DEF BudgetInv
<1>1. CountsOK /\ Sized(out) /\ Size(out) + Pending <= countBytesDirect + countBytesIndirect
      /\ (countBytesDirect = 0 => out = <<>> /\ ~InEntity /\ ~InValue)
  BY DEF BudgetInv
<1>2. CountsOK' /\ out' = out /\ countBytesDirect' = countBytesDirect
      /\ countBytesIndirect' = countBytesIndirect
  BY <1>1 DEF CountsOK, countVars
<1>3. countBytesDirect' # 0 \/ (out' = <<>> /\ ~InEntity' /\ ~InValue')
  BY <1>1, <1>2
<1> QED BY <1>1, <1>2, <1>3, BudgetKept

(* appendAttributeValue has counted its token. *)
LEMMA ValueCounted ==
    ASSUME OpenInv, Shape, BudgetInv, error = "NONE", att.s <= Len(ValueText), InValue,
           ValueAccounted
    PROVE  /\ CountsOK'
           /\ countBytesDirect' + countBytesIndirect' >= countBytesDirect + countBytesIndirect
           /\ InAttributeEntity =>
                countBytesDirect' + countBytesIndirect' >= countBytesDirect + countBytesIndirect + 1
           /\ countBytesDirect' # 0
<1>1. IsTok(ValueToken) /\ Bytes(ValueToken) \in Nat /\ Bytes(ValueToken) >= 1
  BY ValueTokenIsTok, BytesType
<1>2. CountsOK /\ countBytesDirect # 0
  BY DEF BudgetInv
<1>3. ValueTokenAccount \in {"none", "direct", "expansion"}
      /\ (InAttributeEntity => ValueTokenAccount # "none")
  BY DEF ValueTokenAccount, Shape, AttType
<1>4. /\ CountsOK'
      /\ countBytesDirect' + countBytesIndirect'
           = countBytesDirect + countBytesIndirect
               + IF ValueTokenAccount = "none" THEN 0 ELSE Bytes(ValueToken)
      /\ countBytesDirect' >= countBytesDirect
  BY <1>1, <1>2, <1>3, AccountLemma DEF ValueAccounted
<1>5. /\ countBytesDirect \in Nat /\ countBytesIndirect \in Nat
      /\ countBytesDirect' \in Nat /\ countBytesIndirect' \in Nat
  BY <1>2, <1>4 DEF CountsOK
<1> DEFINE sum == countBytesDirect + countBytesIndirect
           new == countBytesDirect' + countBytesIndirect'
           b == Bytes(ValueToken)
<1>6. sum \in Nat /\ new \in Nat /\ countBytesDirect' # 0
  BY <1>2, <1>4, <1>5, Sums, Zenon
<1>7. new = sum + IF ValueTokenAccount = "none" THEN 0 ELSE b
  BY <1>4
<1> HIDE DEF sum, new, b
<1>8. new >= sum /\ (InAttributeEntity => new >= sum + 1)
  <2>1. b \in Nat /\ b >= 1 BY <1>1 DEF b
  <2>2. CASE ValueTokenAccount = "none" BY <1>3, <1>6, <1>7, <2>2, Sums
  <2>3. CASE ValueTokenAccount # "none" BY <1>6, <1>7, <2>1, <2>3, Sums
  <2> QED BY <2>2, <2>3
<1> QED BY <1>4, <1>6, <1>8 DEF sum, new

(* A token of a value moves what may be reported from the rest of the text *)
(* to the value, or pays for it.                                           *)
LEMMA BudgetValue ==
    ASSUME OpenInv, Shape, BudgetInv, att.s <= Len(ValueText), InValue, ValueAccounted,
           error' = error, out' = out, Pending \in Nat, Pending' \in Nat,
           Pending' <= Pending + IF InAttributeEntity THEN 1 ELSE 0
    PROVE  BudgetInv'
<1> SUFFICES ASSUME error = "NONE" PROVE BudgetInv'
  BY DEF BudgetInv
<1>1. /\ CountsOK'
      /\ countBytesDirect' + countBytesIndirect' >= countBytesDirect + countBytesIndirect
      /\ InAttributeEntity =>
           countBytesDirect' + countBytesIndirect' >= countBytesDirect + countBytesIndirect + 1
      /\ countBytesDirect' # 0
  BY ValueCounted
<1>2. CountsOK /\ Sized(out) /\ Size(out) + Pending <= countBytesDirect + countBytesIndirect
  BY DEF BudgetInv
<1>3. Size(out) \in Nat /\ out' = out /\ Sized(out')
  BY <1>2, SizeType
<1>4. /\ countBytesDirect \in Nat /\ countBytesIndirect \in Nat
      /\ countBytesDirect' \in Nat /\ countBytesIndirect' \in Nat
  BY <1>1, <1>2 DEF CountsOK
<1>5. Size(out) + Pending' <= countBytesDirect' + countBytesIndirect'
  <2> DEFINE sum == countBytesDirect + countBytesIndirect
             new == countBytesDirect' + countBytesIndirect'
             more == IF InAttributeEntity THEN 1 ELSE 0
  <2>1. sum \in Nat /\ new \in Nat /\ new >= sum + more /\ more \in Nat
    <3>1. sum \in Nat /\ new \in Nat BY <1>4, Sums, Zenon
    <3>2. new >= sum /\ (InAttributeEntity => new >= sum + 1) BY <1>1
    <3> HIDE DEF sum, new
    <3>3. CASE InAttributeEntity BY <3>1, <3>2, <3>3, Sums
    <3>4. CASE ~InAttributeEntity BY <3>1, <3>2, <3>4, Sums
    <3> QED BY <3>3, <3>4
  <2>2. Size(out) + Pending <= sum /\ Pending' <= Pending + more
    BY <1>2
  <2> HIDE DEF sum, new, more
  <2>3. Size(out) + Pending' <= new
    BY <1>3, <2>1, <2>2, Sums
  <2> QED BY <2>3 DEF new
<1> QED BY <1>1, <1>3, <1>5, BudgetKept

LEMMA BudgetReports ==
    ASSUME OpenInv, Shape, BudgetInv, pc = "doContent", s <= Len(ContentText), Accounted,
           NEW item, item.k # "start", out' = Append(out, item), AfterToken(s + 1)
    PROVE  BudgetInv'
<1>1. s + 1 \in Positive
  BY DEF Shape, Positive
<1>2. /\ pc' \in {"doContent", "suspended", "processor", "failed"}
      /\ error' = error \/ error' \in {"ASYNC_ENTITY", "ABORTED"}
  BY <1>1, AfterTokenShape
<1>3. Bytes(ContentToken) \in Nat /\ Bytes(ContentToken) >= 1
  BY ContentTokenIsTok, BytesType
<1>4. ItemSize(item) = 1
  BY DEF ItemSize
<1>5. ASSUME error = "NONE"
      PROVE  Sized(out') /\ Size(out') <= Size(out) + Bytes(ContentToken)
  <2>1. Sized(out) BY <1>5 DEF BudgetInv
  <2>2. Sized(out') /\ Size(out') = Size(out) + 1
    BY <1>4, <2>1, SizedAppend
  <2>3. Size(out) \in Nat BY <2>1, SizeType
  <2> QED BY <1>3, <2>2, <2>3
<1> QED BY <1>2, <1>5, BudgetContent

LEMMA BudgetStarts ==
    ASSUME OpenInv, Shape, BudgetInv, DoContentStart
    PROVE  BudgetInv'
<1>1. /\ pc = "doContent" /\ s <= Len(ContentText) /\ Accounted
      /\ ContentToken.k \in {"start", "empty"}
  BY DEF DoContentStart, DoContent
<1>2. Bytes(ContentToken) = 2 + Len(ContentToken.a) /\ Len(ContentToken.a) \in Nat
  BY <1>1, ContentTokenIsTok, BytesType
<1>3. CASE StartElement(ContentToken.a)
  <2>1. s + 1 \in Positive
    BY DEF Shape, Positive
  <2>2. /\ pc' \in {"doContent", "suspended", "processor", "failed"}
        /\ error' = error \/ error' \in {"ASYNC_ENTITY", "ABORTED"}
    BY <1>3, <2>1, AfterTokenShape DEF StartElement
  <2>3. ASSUME error = "NONE"
        PROVE  Sized(out') /\ Size(out') <= Size(out) + Bytes(ContentToken)
    <3>1. Sized(out) BY <2>3 DEF BudgetInv
    <3> DEFINE isEmpty == ContentToken.k = "empty"
    <3>2. out' = out \o <<[k |-> "start", a |-> ContentToken.a]>>
                    \o (IF isEmpty THEN <<[k |-> "end"]>> ELSE <<>>)
      BY <1>3 DEF StartElement
    <3> HIDE DEF isEmpty
    <3> QED BY <1>2, <3>1, <3>2, SizedStart, Zenon
  <2> QED BY <1>1, <2>2, <2>3, BudgetContent
<1>4. CASE /\ att' = [NoAtt EXCEPT !.text = ContentToken.a,
                                   !.account = ValueAccount(ContentToken.k)]
           /\ pc' = "storeAttributeValue"
           /\ UNCHANGED <<entityVars, cursor, s, error, out>>
  <2> SUFFICES ASSUME error = "NONE" PROVE BudgetInv'
    BY <1>4 DEF BudgetInv
  <2>1. att'.text = ContentToken.a /\ att'.value = <<>> /\ att'.next = 1
    BY <1>4 DEF NoAtt
  <2>2. Pending' = 2 + Len(ContentToken.a)
    <3>1. InValue' /\ Taken' = 1
      BY <1>4, <2>1 DEF InValue, Taken
    <3>2. Pending' = 2 + Len(<<>>) + (Len(ContentToken.a) + 1 - 1)
      BY <2>1, <3>1 DEF Pending
    <3>3. \A n \in Nat : 2 + 0 + (n + 1 - 1) = 2 + n
      OBVIOUS
    <3> QED BY <1>2, <3>2, <3>3
  <2>3. /\ CountsOK'
        /\ countBytesDirect' + countBytesIndirect'
             = countBytesDirect + countBytesIndirect + Bytes(ContentToken)
        /\ countBytesDirect' # 0
    BY <1>1, ContentCounted
  <2>4. Pending = 0
    BY <1>1 DEF Pending, InValue
  <2>5. Sized(out) /\ CountsOK /\ Size(out) + 0 <= countBytesDirect + countBytesIndirect
        /\ out' = out
    BY <1>4, <2>4 DEF BudgetInv
  <2>6. Size(out) \in Nat BY <2>5, SizeType
  <2>7. /\ countBytesDirect + countBytesIndirect \in Nat
        /\ countBytesDirect' + countBytesIndirect' \in Nat
    BY <2>3, <2>5, Sums, Zenon DEF CountsOK
  <2>8. \A z, n, x, y \in Nat : z + 0 <= x /\ y = x + (2 + n) => z + (2 + n) <= y
    OBVIOUS
  <2>9. Size(out') + (2 + Len(ContentToken.a)) <= countBytesDirect' + countBytesIndirect'
    BY <1>2, <2>3, <2>5, <2>6, <2>7, <2>8
  <2> QED BY <2>2, <2>3, <2>5, <2>9, BudgetKept
<1> QED BY <1>3, <1>4 DEF DoContentStart

(* The start tag is reported with its value. *)
LEMMA BudgetStored ==
    ASSUME OpenInv, Shape, BudgetInv, StoreReturns
    PROVE  BudgetInv'
<1>1. pc = "stored" /\ UNCHANGED countVars /\ StartElement(att.value)
  BY DEF StoreReturns
<1>2. /\ pc' \in {"doContent", "suspended", "processor", "failed"}
      /\ error' = error \/ error' \in {"ASYNC_ENTITY", "ABORTED"}
  <2>1. s + 1 \in Positive BY DEF Shape, Positive
  <2> QED BY <1>1, <2>1, AfterTokenShape DEF StartElement
<1> SUFFICES ASSUME error = "NONE" PROVE BudgetInv'
  BY <1>2 DEF BudgetInv
<1>3. CountsOK /\ Sized(out) /\ Size(out) + Pending <= countBytesDirect + countBytesIndirect
      /\ countBytesDirect # 0
  BY <1>1 DEF BudgetInv, InValue
<1>4. /\ Len(att.text) \in Nat /\ Len(att.value) \in Nat /\ att.next \in Nat
      /\ att.next <= Len(att.text) + 1
  BY PendingType DEF Shape, AttType
<1>5. Pending = 2 + Len(att.value) + (Len(att.text) + 1 - att.next)
  BY <1>1 DEF Pending, InValue, Taken
<1>6. Sized(out') /\ Size(out') <= Size(out) + (2 + Len(att.value))
  <2> DEFINE isEmpty == ContentToken.k = "empty"
  <2>1. out' = out \o <<[k |-> "start", a |-> att.value]>>
                  \o (IF isEmpty THEN <<[k |-> "end"]>> ELSE <<>>)
    BY <1>1 DEF StartElement
  <2> HIDE DEF isEmpty
  <2> QED BY <1>3, <1>4, <2>1, SizedStart, Zenon
<1>7. /\ countBytesDirect' = countBytesDirect /\ countBytesIndirect' = countBytesIndirect
      /\ CountsOK' /\ countBytesDirect + countBytesIndirect \in Nat
  BY <1>1, <1>3, Sums DEF countVars, CountsOK
<1>8. Size(out) \in Nat /\ Size(out') \in Nat
  BY <1>3, <1>6, SizeType
<1>9. \A z, y, v, x, n, c \in Nat :
         n <= x + 1 /\ z + (2 + v + (x + 1 - n)) <= c /\ y <= z + (2 + v) => y + 0 <= c
  OBVIOUS
<1>10. Size(out') + 0 <= countBytesDirect' + countBytesIndirect'
  BY <1>3, <1>4, <1>5, <1>6, <1>7, <1>8, <1>9, Zenon
<1>11. Pending' = 0
  BY <1>2 DEF Pending, InValue
<1> QED BY <1>3, <1>6, <1>7, <1>10, <1>11, BudgetKept

(* appendAttributeValue goes on, or returns behind its token. *)
LEMMA PendingReads ==
    ASSUME Shape, pc = "appendAttributeValue", NEW n \in {0, 1},
           att'.text = att.text, Len(att'.value) = Len(att.value) + n, att'.next = att.next,
           att'.s = att.s + 1, UNCHANGED <<pc, openAttributeEntities>>, Shape'
    PROVE  Pending' \in Nat /\ Pending' <= Pending + IF InAttributeEntity THEN n ELSE 0
<1>1. /\ Len(att.text) \in Nat /\ Len(att.value) \in Nat /\ att.s \in Nat /\ att.next \in Nat
  BY PendingType
<1>2. att.next <= Len(att.text) + 1 /\ (~InAttributeEntity => att.s + 1 <= Len(att.text) + 1)
  BY DEF Shape, AttType, InAttributeEntity
<1>3. InValue /\ InValue' /\ (InAttributeEntity' <=> InAttributeEntity)
  BY DEF InValue, InAttributeEntity
<1>4. CASE InAttributeEntity
  <2>1. Taken = att.next /\ Taken' = att.next
    BY <1>3, <1>4 DEF Taken
  <2>2. /\ Pending = 2 + Len(att.value) + (Len(att.text) + 1 - att.next)
        /\ Pending' = 2 + (Len(att.value) + n) + (Len(att.text) + 1 - att.next)
    BY <1>3, <2>1 DEF Pending
  <2>3. \A v, x, k \in Nat : \A m \in {0, 1} :
           k <= x + 1 => /\ 2 + (v + m) + (x + 1 - k) <= 2 + v + (x + 1 - k) + m
                         /\ 2 + (v + m) + (x + 1 - k) \in Nat
    OBVIOUS
  <2>4. Pending' <= Pending + n /\ Pending' \in Nat
    BY <1>1, <1>2, <2>2, <2>3, Zenon
  <2> QED BY <1>4, <2>4
<1>5. CASE ~InAttributeEntity
  <2>1. Taken = att.s /\ Taken' = att.s + 1
    BY <1>3, <1>5 DEF Taken
  <2>2. /\ Pending = 2 + Len(att.value) + (Len(att.text) + 1 - att.s)
        /\ Pending' = 2 + (Len(att.value) + n) + (Len(att.text) + 1 - (att.s + 1))
    BY <1>3, <2>1 DEF Pending
  <2>3. \A v, x, k \in Nat : \A m \in {0, 1} :
           k + 1 <= x + 1 => /\ 2 + (v + m) + (x + 1 - (k + 1)) <= 2 + v + (x + 1 - k) + 0
                             /\ 2 + (v + m) + (x + 1 - (k + 1)) \in Nat
    OBVIOUS
  <2>4. Pending' <= Pending + 0 /\ Pending' \in Nat
    BY <1>1, <1>2, <1>5, <2>2, <2>3, Zenon
  <2> QED BY <1>5, <2>4
<1> QED BY <1>4, <1>5

LEMMA PendingReturns ==
    ASSUME Shape, Shape', pc = "appendAttributeValue", NEW next \in Nat, att.s <= next,
           NEW more, NEW done, AppendReturns(next, more, done)
    PROVE  /\ InValue' /\ Pending' \in Nat /\ Pending' <= Pending
           /\ (next = att.s => Pending' = Pending)
<1>1. /\ Len(att.text) \in Nat /\ Len(att.value) \in Nat /\ att.s \in Nat /\ att.next \in Nat
      /\ Pending \in Nat
  BY PendingType
<1>2. ~InAttributeEntity => next <= Len(att.text) + 1
  BY DEF Shape, AttType, AppendReturns
<1>3. InValue /\ InValue' /\ pc' # "appendAttributeValue"
  BY DEF InValue, AppendReturns, Stored
<1>4. CASE InAttributeEntity
  <2>1. Pending' = Pending
    BY <1>3, <1>4 DEF Pending, Taken, AppendReturns
  <2> QED BY <1>1, <1>3, <2>1
<1>5. CASE ~InAttributeEntity
  <2>1. att' = [text |-> att.text, next |-> next, value |-> att.value,
                account |-> att.account, s |-> att.s]
    BY <1>5 DEF AppendReturns, Shape, AttType
  <2>2. Taken = att.s /\ Taken' = next
    BY <1>3, <1>5, <2>1, Zenon DEF Taken
  <2>3. /\ Pending = 2 + Len(att.value) + (Len(att.text) + 1 - att.s)
        /\ Pending' = 2 + Len(att.value) + (Len(att.text) + 1 - next)
    BY <1>3, <2>1, <2>2 DEF Pending
  <2>4. \A v, x, k, m \in Nat :
           k <= m /\ m <= x + 1 => /\ 2 + v + (x + 1 - m) <= 2 + v + (x + 1 - k)
                                   /\ 2 + v + (x + 1 - m) \in Nat
    OBVIOUS
  <2> QED BY <1>1, <1>2, <1>3, <1>5, <2>3, <2>4, Zenon
<1> QED BY <1>4, <1>5

LEMMA BudgetStep ==
    ASSUME OpenInv, Shape, BudgetInv, [Next]_vars
    PROVE  BudgetInv'
<1>0. /\ Shape' /\ s + 1 \in Positive /\ s \in Positive /\ processed \in [Entities -> Positive]
      /\ AttType(att)
  <2>1. s \in Positive /\ processed \in [Entities -> Positive] /\ AttType(att)
    BY DEF Shape
  <2>2. \A x \in Positive : x + 1 \in Positive BY DEF Positive
  <2> QED BY <2>1, <2>2, ShapeStep, Zenon
<1>1. CASE ProcessorRuns
  BY <1>1, BudgetSame, Zenon
     DEF ProcessorRuns, Pending, InValue, InEntity, listVars
<1>2. CASE ProcessorCloses
  BY <1>2, BudgetSame, Zenon DEF ProcessorCloses, Pending, InValue, InEntity
<1>3. CASE DoContentBreach
  BY <1>3, BudgetFail DEF DoContentBreach, Breach
<1>4. CASE DoContentData
  BY <1>4, BudgetReports DEF DoContentData, DoContent
<1>5. CASE DoContentRefError
  BY <1>5, BudgetFail DEF DoContentRefError
<1>6. CASE DoContentReport
  <2>1. CASE Fail("EXTERNAL_ENTITY_HANDLING") BY <2>1, BudgetFail
  <2>2. CASE ~Fail("EXTERNAL_ENTITY_HANDLING")
    <3> DEFINE item == [k |-> IF Kind[ContentToken.e] = "external" THEN "external"
                                ELSE "skipped", e |-> ContentToken.e]
    <3>1. item.k # "start" OBVIOUS
    <3>2. out' = Append(out, item) /\ AfterToken(s + 1) /\ Accounted /\ pc = "doContent"
          /\ s <= Len(ContentText)
      BY <1>6, <2>2, Zenon DEF DoContentReport, DoContent
    <3> HIDE DEF item
    <3> QED BY <3>1, <3>2, BudgetReports
  <2> QED BY <2>1, <2>2
<1>7. CASE DoContentExpand
  <2>1. CASE Fail("NO_MEMORY") BY <2>1, BudgetFail
  <2>2. CASE ~Fail("NO_MEMORY")
    <3> DEFINE e == ContentToken.e
    <3>1. /\ pc = "doContent" /\ s <= Len(ContentText) /\ Accounted /\ out' = out
          /\ ContentReturns(s + 1, MoreIn(e), FromStart(e), FALSE)
      BY <1>7, <2>2, Zenon DEF DoContentExpand, DoContent
    <3>2. FromStart(e) \in [Entities -> Positive]
      <4> HIDE DEF e
      <4>1. 1 \in Positive BY DEF Positive
      <4> QED BY <1>0, <4>1, Zenon DEF FromStart
    <3>3. /\ pc' \in {"suspended", "processor", "failed"}
          /\ error' = error \/ error' = "ASYNC_ENTITY"
      BY <1>0, <3>1, <3>2, ReturnsShape, Zenon
    <3>4. error = "NONE" => Sized(out') /\ Size(out') <= Size(out) + Bytes(ContentToken)
      <4>1. Bytes(ContentToken) \in Nat BY <3>1, ContentTokenIsTok, BytesType
      <4>2. error = "NONE" => Sized(out) /\ Size(out) \in Nat BY SizeType DEF BudgetInv
      <4> QED BY <3>1, <4>1, <4>2
    <3> QED BY <3>1, <3>3, <3>4, BudgetContent
  <2> QED BY <2>1, <2>2
<1>8. CASE DoContentStart
  BY <1>8, BudgetStarts
<1>9. CASE DoContentEnd
  <2>1. CASE Fail("ASYNC_ENTITY") BY <2>1, BudgetFail
  <2>2. CASE ~Fail("ASYNC_ENTITY")
    <3> DEFINE item == [k |-> "end"]
    <3>1. item.k # "start" /\ ItemSize(item) = 1 BY DEF ItemSize
    <3>2. /\ out' = Append(out, item) /\ Accounted /\ pc = "doContent" /\ s <= Len(ContentText)
          /\ \/ AfterToken(s + 1)
             \/ pc' = "done" /\ UNCHANGED error
             \/ Failing("ABORTED")
      BY <1>9, <2>2, Zenon DEF DoContentEnd, DoContent
    <3> HIDE DEF item
    <3>3. CASE AfterToken(s + 1) BY <3>1, <3>2, <3>3, BudgetReports
    <3>4. CASE Failing("ABORTED") BY <3>4 DEF Failing, BudgetInv
    <3>5. CASE pc' = "done" /\ UNCHANGED error
      <4>1. error = "NONE" => Sized(out') /\ Size(out') <= Size(out) + Bytes(ContentToken)
        <5>1. Bytes(ContentToken) \in Nat /\ Bytes(ContentToken) >= 1
          BY <3>2, ContentTokenIsTok, BytesType
        <5>2. error = "NONE" => Sized(out) /\ Size(out) \in Nat BY SizeType DEF BudgetInv
        <5>3. error = "NONE" => Sized(out') /\ Size(out') = Size(out) + 1
          BY <3>1, <3>2, <5>2, SizedAppend
        <5>4. \A z, y, b \in Nat : b >= 1 /\ y = z + 1 => y <= z + b OBVIOUS
        <5>5. error = "NONE" => Size(out') \in Nat BY <5>3, SizeType
        <5> QED BY <5>1, <5>2, <5>3, <5>4, <5>5
      <4> QED BY <3>2, <3>5, <4>1, BudgetContent
    <3> QED BY <3>2, <3>3, <3>4, <3>5
  <2> QED BY <2>1, <2>2
<1>10. CASE DoContentNone
  <2>1. CASE Fail("NO_ELEMENTS") \/ Fail("ASYNC_ENTITY") BY <2>1, BudgetFail
  <2>2. CASE /\ UNCHANGED <<docVars, openEntities, listVars, tagLevel, s, att, out>>
             /\ ContentReturns(s, hasMore, processed, FALSE)
    <3>1. /\ pc' \in {"suspended", "processor", "failed"}
          /\ error' = error \/ error' = "ASYNC_ENTITY"
      BY <1>0, <2>2, ReturnsShape, Zenon
    <3> QED BY <1>10, <2>2, <3>1, BudgetSame, Zenon
            DEF DoContentNone, Pending, InValue, InEntity, listVars
  <2> QED BY <1>10, <2>1, <2>2, Zenon DEF DoContentNone
<1>11. CASE StoreAppends
  <2> DEFINE from == IF InAttributeEntity THEN processed[openAttributeEntities[1]] ELSE att.next
  <2>1. att' = [text |-> att.text, next |-> att.next, value |-> att.value,
                account |-> att.account, s |-> from]
    BY <1>0, <1>11 DEF StoreAppends, AttType
  <2>2. /\ pc = "storeAttributeValue" /\ pc' = "appendAttributeValue" /\ UNCHANGED <<countVars, out>>
        /\ UNCHANGED error /\ UNCHANGED <<openInternalEntities, openAttributeEntities>>
    BY <1>11 DEF StoreAppends, listVars
  <2>3. Taken = att.next /\ Taken' = att.next
    BY <2>1, <2>2, Zenon DEF Taken, InAttributeEntity
  <2> HIDE DEF from
  <2>4. Pending' = Pending
    BY <2>1, <2>2, <2>3, Zenon DEF Pending, InValue
  <2> QED BY <2>2, <2>4, BudgetSame DEF InValue, InEntity
<1>12. CASE StoreCloses
  BY <1>12, BudgetSame, Zenon DEF StoreCloses, Stored, Pending, Taken, InValue, InEntity
<1>13. CASE StoreReturns
  BY <1>13, BudgetStored
<1>14. CASE AppendBreach
  BY <1>14, BudgetFail DEF AppendBreach, Breach
<1>15. CASE AppendInvalid
  BY <1>15, BudgetFail DEF AppendInvalid
<1>16. CASE AppendData
  <2>1. att' = [text |-> att.text, next |-> att.next, value |-> Append(att.value, ValueToken),
                account |-> att.account, s |-> att.s + 1]
    BY <1>0, <1>16, Zenon DEF AppendData, AttType
  <2>2. Len(Append(att.value, ValueToken)) = Len(att.value) + 1
    <3>1. PICK S : att.value \in Seq(S) BY <1>0, Zenon DEF AttType, IsSequence
    <3> QED BY <3>1
  <2>3. /\ pc = "appendAttributeValue" /\ att.s <= Len(ValueText) /\ ValueAccounted
        /\ UNCHANGED <<pc, openAttributeEntities>> /\ UNCHANGED <<error, out>>
    BY <1>16 DEF AppendData, AppendsAt, listVars
  <2>4. Pending' \in Nat /\ Pending' <= Pending + IF InAttributeEntity THEN 1 ELSE 0
    BY <1>0, <2>1, <2>2, <2>3, PendingReads, Zenon
  <2> QED BY <2>3, <2>4, PendingType, BudgetValue DEF InValue
<1>17. CASE AppendSkips
  <2>1. att' = [text |-> att.text, next |-> att.next, value |-> att.value,
                account |-> att.account, s |-> att.s + 1]
    BY <1>0, <1>17 DEF AppendSkips, AttType
  <2>2. /\ pc = "appendAttributeValue" /\ att.s <= Len(ValueText) /\ ValueAccounted
        /\ UNCHANGED <<pc, openAttributeEntities>> /\ UNCHANGED <<error, out>>
    BY <1>17 DEF AppendSkips, AppendsAt, listVars
  <2>3. Len(att.value) = Len(att.value) + 0 BY PendingType
  <2>4. Pending' \in Nat /\ Pending' <= Pending + IF InAttributeEntity THEN 0 ELSE 0
    BY <1>0, <2>1, <2>2, <2>3, PendingReads, Zenon
  <2>5. Pending' <= Pending + IF InAttributeEntity THEN 1 ELSE 0
    BY <2>4, PendingType
  <2> QED BY <2>2, <2>4, <2>5, PendingType, BudgetValue DEF InValue
<1>18. CASE AppendRefError
  BY <1>18, BudgetFail DEF AppendRefError
<1>19. CASE AppendExpand
  <2>1. CASE Fail("NO_MEMORY") BY <2>1, BudgetFail
  <2>2. CASE ~Fail("NO_MEMORY")
    <3> DEFINE e == ValueToken.e
    <3>1. /\ pc = "appendAttributeValue" /\ att.s <= Len(ValueText) /\ ValueAccounted
          /\ AppendReturns(att.s + 1, MoreIn(e), FromStart(e)) /\ UNCHANGED <<error, out>>
      BY <1>19, <2>2 DEF AppendExpand, AppendsAt
    <3>2. att.s + 1 \in Nat /\ att.s <= att.s + 1 /\ Pending \in Nat
      BY PendingType
    <3>3. Pending' \in Nat /\ Pending' <= Pending
      BY <1>0, <3>1, <3>2, PendingReturns
    <3>4. Pending' <= Pending + IF InAttributeEntity THEN 1 ELSE 0
      BY <3>2, <3>3
    <3> QED BY <3>1, <3>2, <3>3, <3>4, BudgetValue DEF InValue
  <2> QED BY <2>1, <2>2
<1>20. CASE AppendNone
  <2>1. /\ pc = "appendAttributeValue" /\ AppendReturns(att.s, hasMore, processed)
        /\ UNCHANGED <<countVars, out>> /\ UNCHANGED <<error, openInternalEntities>>
    BY <1>20 DEF AppendNone, listVars
  <2>2. att.s \in Nat /\ att.s <= att.s
    BY PendingType
  <2>3. InValue' /\ Pending' = Pending
    BY <1>0, <2>1, <2>2, PendingReturns
  <2> QED BY <2>1, <2>3, BudgetSame DEF InValue, InEntity
<1>21. CASE ResumeParser
  BY <1>21, BudgetSame DEF ResumeParser, Pending, InValue, InEntity, listVars
<1>22. CASE ParserReset
  <2>1. /\ out' = <<>> /\ pc' = "processor" /\ countBytesDirect' = 0 /\ countBytesIndirect' = 0
        /\ openInternalEntities' = <<>>
    BY <1>22 DEF ParserReset
  <2> QED BY <2>1, NothingSized, NothingTolerated, SizeOfNone, SMTT(30)
          DEF BudgetInv, CountsOK, Pending, InValue, InEntity
<1>23. CASE UNCHANGED vars
  BY <1>23, BudgetSame, Zenon DEF vars, Pending, Taken, InAttributeEntity, InValue, InEntity, countVars
<1> QED BY <1>1, <1>2, <1>3, <1>4, <1>5, <1>6, <1>7, <1>8, <1>9, <1>10, <1>11, <1>12,
           <1>13, <1>14, <1>15, <1>16, <1>17, <1>18, <1>19, <1>20, <1>21, <1>22, <1>23
        DEF Next, Expands

(* For every factor, threshold, set of entities and document: until        *)
(* accountingDiffTolerated strikes, what the handlers were given, through  *)
(* content and attribute values, is below the activation threshold or      *)
(* within the factor of the bytes counted as direct.                       *)
THEOREM AmplificationBound == Spec => []AmplificationIsBounded
<1>1. Shape /\ BudgetInv => AmplificationIsBounded
  <2> SUFFICES ASSUME Shape, BudgetInv, error = "NONE"
               PROVE  Size(out) < Threshold \/ Size(out) <= Factor * countBytesDirect
    BY DEF AmplificationIsBounded
  <2> DEFINE sum == countBytesDirect + countBytesIndirect
             limit == Factor * countBytesDirect
  <2>1. /\ Sized(out) /\ Size(out) + Pending <= sum
        /\ countBytesDirect \in Nat /\ countBytesIndirect \in Nat
        /\ Tolerated(countBytesDirect, countBytesIndirect)
        /\ countBytesDirect = 0 => out = <<>>
    BY DEF BudgetInv, CountsOK
  <2>2. sum \in Nat /\ limit \in Nat /\ Threshold \in Nat
    BY <2>1, ExpansionAssumption, SMTT(30)
  <2>3. Size(out) \in Nat /\ Pending \in Nat
    BY <2>1, SizeType, PendingType
  <2>4. sum < Threshold \/ (countBytesDirect > 0 /\ sum <= limit) \/ countBytesDirect = 0
    BY <2>1 DEF Tolerated
  <2>5. Size(out) <= sum
    <3> HIDE DEF sum
    <3> QED BY <2>1, <2>2, <2>3
  <2>6. countBytesDirect = 0 => Size(out) = 0
    BY <2>1, SizeOfNone
  <2> HIDE DEF sum, limit
  <2>7. Size(out) < Threshold \/ Size(out) <= limit
    BY <2>2, <2>3, <2>4, <2>5, <2>6
  <2> QED BY <2>7 DEF limit
<1> QED BY <1>1, OpenInit, OpenStep, ShapeInit, ShapeStep, BudgetInit, BudgetStep, PTL DEF Spec
=============================================================================
