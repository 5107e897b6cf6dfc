------------------------ MODULE SourceEvolutionProofs ------------------------
(***************************************************************************)
(* Proofs about SourceEvolution: what the differences of two documents say *)
(* and what applying them does to the registry, for any documents; and,    *)
(* for any number of changes, terminals and commands, what the files hold. *)
(***************************************************************************)
EXTENDS SourceEvolution, TLAPS

-----------------------------------------------------------------------------
(* The differences of two documents, by kind.                              *)

Added(old, new)   == Ids(new) \ Ids(old)
Removed(old, new) == Ids(old) \ Ids(new)
Kept(old, new)    == Ids(old) \cap Ids(new)
Splits(old, new)  == {r \in Removed(old, new) : Several(Kin(r, Added(old, new)))}
Pieces(old, new)  == UNION {Kin(r, Added(old, new)) : r \in Splits(old, new)}
Merges(old, new)  ==
    {r \in Added(old, new) \ Pieces(old, new) : Several(Kin(r, Removed(old, new)))}
Parts(old, new)   == UNION {Kin(r, Removed(old, new)) : r \in Merges(old, new)}
Stated(old, new)  == Added(old, new) \ (Pieces(old, new) \cup Merges(old, new))
Gone(old, new)    == Removed(old, new) \ (Splits(old, new) \cup Parts(old, new))
Reworded(old, new) == {r \in Kept(old, new) : old[r].text # new[r].text}
Moved(old, new)   ==
    {r \in Kept(old, new) \ Reworded(old, new) : old[r].line # new[r].line}

LEMMA EvolutionIs ==
    ASSUME NEW old, NEW new
    PROVE  Evolution(old, new) =
               {Item("split", {r}, Kin(r, Added(old, new))) : r \in Splits(old, new)}
               \cup {Item("merged", Kin(r, Removed(old, new)), {r}) : r \in Merges(old, new)}
               \cup {Item("added", {}, {r}) : r \in Stated(old, new)}
               \cup {Item("deprecated", {r}, {}) : r \in Gone(old, new)}
               \cup {Item("modified", {r}, {r}) : r \in Reworded(old, new)}
               \cup {Item("reanchored", {r}, {r}) : r \in Moved(old, new)}
BY DEF Evolution, Added, Removed, Kept, Splits, Pieces, Merges, Parts, Stated, Gone,
       Reworded, Moved

\* An item of each kind is about requirements of the kind's own class.
ItemOf(i, old, new) ==
    \/ \E r \in Splits(old, new) : i = Item("split", {r}, Kin(r, Added(old, new)))
    \/ \E r \in Merges(old, new) : i = Item("merged", Kin(r, Removed(old, new)), {r})
    \/ \E r \in Stated(old, new) : i = Item("added", {}, {r})
    \/ \E r \in Gone(old, new) : i = Item("deprecated", {r}, {})
    \/ \E r \in Reworded(old, new) : i = Item("modified", {r}, {r})
    \/ \E r \in Moved(old, new) : i = Item("reanchored", {r}, {r})

LEMMA ItemsOf ==
    ASSUME NEW old, NEW new, NEW i
    PROVE  i \in Evolution(old, new) <=> ItemOf(i, old, new)
BY EvolutionIs, Zenon DEF ItemOf

LEMMA ClassesInRequirements ==
    ASSUME NEW old, NEW new
    PROVE  /\ Added(old, new) \subseteq Requirements
           /\ Removed(old, new) \subseteq Requirements
           /\ Kept(old, new) \subseteq Requirements
BY DEF Added, Removed, Kept, Ids

LEMMA EvolutionItems ==
    ASSUME NEW old, NEW new
    PROVE  Evolution(old, new) \subseteq Items
<1> SUFFICES ASSUME NEW i \in Evolution(old, new) PROVE i \in Items
  OBVIOUS
<1>1. ItemOf(i, old, new)
  BY ItemsOf, Zenon
<1>2. \A r, S : Kin(r, S) \subseteq S
  BY DEF Kin
<1> QED
  BY <1>1, <1>2, ClassesInRequirements
     DEF ItemOf, Item, Items, Kinds, Splits, Merges, Stated, Gone, Reworded, Moved

\* Of items: those of kind k, what they take away and what they name.
Of(items, k) == {i \in items : i.kind = k}
Retired(items, k) == UNION {i.from : i \in Of(items, k)}
Given(items, k) == UNION {i.to : i \in Of(items, k)}

\* Membership in what items of kind k take away and name.
LEMMA RetiredBy ==
    ASSUME NEW items, NEW k, NEW x
    PROVE  x \in Retired(items, k) <=> \E i \in Of(items, k) : x \in i.from
BY DEF Retired

LEMMA GivenBy ==
    ASSUME NEW items, NEW k, NEW x
    PROVE  x \in Given(items, k) <=> \E i \in Of(items, k) : x \in i.to
BY DEF Given

\* The fields of an item, and the items of each kind.
LEMMA ItemFields ==
    ASSUME NEW k, NEW from, NEW to
    PROVE  /\ Item(k, from, to).kind = k
           /\ Item(k, from, to).from = from
           /\ Item(k, from, to).to = to
BY DEF Item

LEMMA ItemsByKind ==
    ASSUME NEW old, NEW new, NEW i
    PROVE  /\ i \in Of(Evolution(old, new), "split") <=>
                 \E r \in Splits(old, new) : i = Item("split", {r}, Kin(r, Added(old, new)))
           /\ i \in Of(Evolution(old, new), "merged") <=>
                 \E r \in Merges(old, new) : i = Item("merged", Kin(r, Removed(old, new)), {r})
           /\ i \in Of(Evolution(old, new), "added") <=>
                 \E r \in Stated(old, new) : i = Item("added", {}, {r})
           /\ i \in Of(Evolution(old, new), "deprecated") <=>
                 \E r \in Gone(old, new) : i = Item("deprecated", {r}, {})
           /\ i \in Of(Evolution(old, new), "modified") <=>
                 \E r \in Reworded(old, new) : i = Item("modified", {r}, {r})
<1>1. \A k : i \in Of(Evolution(old, new), k) <=> ItemOf(i, old, new) /\ i.kind = k
  BY ItemsOf DEF Of
<1> QED
  BY <1>1 DEF ItemOf, Item

LEMMA SplitClasses ==
    ASSUME NEW old, NEW new
    PROVE  /\ Retired(Evolution(old, new), "split") = Splits(old, new)
           /\ Given(Evolution(old, new), "split") = Pieces(old, new)
<1>1. \A x : x \in Retired(Evolution(old, new), "split") <=> x \in Splits(old, new)
  <2>1. ASSUME NEW x \in Retired(Evolution(old, new), "split") PROVE x \in Splits(old, new)
    <3>1. PICK i \in Of(Evolution(old, new), "split") : x \in i.from
      BY <2>1, RetiredBy, Zenon
    <3>2. PICK r \in Splits(old, new) : i = Item("split", {r}, Kin(r, Added(old, new)))
      BY <3>1, ItemsOf DEF Of, ItemOf, Item
    <3>3. i.from = {r}
      BY <3>2, ItemFields
    <3> QED
      BY <3>1, <3>2, <3>3
  <2>2. ASSUME NEW x \in Splits(old, new) PROVE x \in Retired(Evolution(old, new), "split")
    <3>1. PICK r \in Splits(old, new) : x = r
      BY <2>2
    <3>2. Item("split", {r}, Kin(r, Added(old, new))) \in Of(Evolution(old, new), "split")
      BY <3>1, ItemsByKind
    <3>3. x \in Item("split", {r}, Kin(r, Added(old, new))).from
      BY <3>1, ItemFields
    <3> QED
      BY <3>2, <3>3, RetiredBy, Zenon
  <2> QED
    BY <2>1, <2>2
<1>2. \A x : x \in Given(Evolution(old, new), "split") <=> x \in Pieces(old, new)
  <2>1. ASSUME NEW x \in Given(Evolution(old, new), "split") PROVE x \in Pieces(old, new)
    <3>1. PICK i \in Of(Evolution(old, new), "split") : x \in i.to
      BY <2>1, GivenBy, Zenon
    <3>2. PICK r \in Splits(old, new) : i = Item("split", {r}, Kin(r, Added(old, new)))
      BY <3>1, ItemsOf DEF Of, ItemOf, Item
    <3>3. i.to = Kin(r, Added(old, new))
      BY <3>2, ItemFields
    <3> QED
      BY <3>1, <3>2, <3>3 DEF Pieces
  <2>2. ASSUME NEW x \in Pieces(old, new) PROVE x \in Given(Evolution(old, new), "split")
    <3>1. PICK r \in Splits(old, new) : x \in Kin(r, Added(old, new))
      BY <2>2 DEF Pieces
    <3>2. Item("split", {r}, Kin(r, Added(old, new))) \in Of(Evolution(old, new), "split")
      BY <3>1, ItemsByKind
    <3>3. x \in Item("split", {r}, Kin(r, Added(old, new))).to
      BY <3>1, ItemFields
    <3> QED
      BY <3>2, <3>3, GivenBy, Zenon
  <2> QED
    BY <2>1, <2>2
<1> QED
  BY <1>1, <1>2

LEMMA MergedClasses ==
    ASSUME NEW old, NEW new
    PROVE  /\ Retired(Evolution(old, new), "merged") = Parts(old, new)
           /\ Given(Evolution(old, new), "merged") = Merges(old, new)
<1>1. \A x : x \in Retired(Evolution(old, new), "merged") <=> x \in Parts(old, new)
  <2>1. ASSUME NEW x \in Retired(Evolution(old, new), "merged") PROVE x \in Parts(old, new)
    <3>1. PICK i \in Of(Evolution(old, new), "merged") : x \in i.from
      BY <2>1, RetiredBy, Zenon
    <3>2. PICK r \in Merges(old, new) : i = Item("merged", Kin(r, Removed(old, new)), {r})
      BY <3>1, ItemsOf DEF Of, ItemOf, Item
    <3>3. i.from = Kin(r, Removed(old, new))
      BY <3>2, ItemFields
    <3> QED
      BY <3>1, <3>2, <3>3 DEF Parts
  <2>2. ASSUME NEW x \in Parts(old, new) PROVE x \in Retired(Evolution(old, new), "merged")
    <3>1. PICK r \in Merges(old, new) : x \in Kin(r, Removed(old, new))
      BY <2>2 DEF Parts
    <3>2. Item("merged", Kin(r, Removed(old, new)), {r}) \in Of(Evolution(old, new), "merged")
      BY <3>1, ItemsByKind
    <3>3. x \in Item("merged", Kin(r, Removed(old, new)), {r}).from
      BY <3>1, ItemFields
    <3> QED
      BY <3>2, <3>3, RetiredBy, Zenon
  <2> QED
    BY <2>1, <2>2
<1>2. \A x : x \in Given(Evolution(old, new), "merged") <=> x \in Merges(old, new)
  <2>1. ASSUME NEW x \in Given(Evolution(old, new), "merged") PROVE x \in Merges(old, new)
    <3>1. PICK i \in Of(Evolution(old, new), "merged") : x \in i.to
      BY <2>1, GivenBy, Zenon
    <3>2. PICK r \in Merges(old, new) : i = Item("merged", Kin(r, Removed(old, new)), {r})
      BY <3>1, ItemsOf DEF Of, ItemOf, Item
    <3>3. i.to = {r}
      BY <3>2, ItemFields
    <3> QED
      BY <3>1, <3>2, <3>3
  <2>2. ASSUME NEW x \in Merges(old, new) PROVE x \in Given(Evolution(old, new), "merged")
    <3>1. PICK r \in Merges(old, new) : x = r
      BY <2>2
    <3>2. Item("merged", Kin(r, Removed(old, new)), {r}) \in Of(Evolution(old, new), "merged")
      BY <3>1, ItemsByKind
    <3>3. x \in Item("merged", Kin(r, Removed(old, new)), {r}).to
      BY <3>1, ItemFields
    <3> QED
      BY <3>2, <3>3, GivenBy, Zenon
  <2> QED
    BY <2>1, <2>2
<1> QED
  BY <1>1, <1>2

LEMMA OtherClasses ==
    ASSUME NEW old, NEW new
    PROVE  /\ Given(Evolution(old, new), "added") = Stated(old, new)
           /\ Retired(Evolution(old, new), "deprecated") = Gone(old, new)
           /\ Given(Evolution(old, new), "deprecated") = {}
           /\ Retired(Evolution(old, new), "modified") = Reworded(old, new)
<1>1. \A x : x \in Given(Evolution(old, new), "added") <=> x \in Stated(old, new)
  <2>1. ASSUME NEW x \in Given(Evolution(old, new), "added") PROVE x \in Stated(old, new)
    <3>1. PICK i \in Of(Evolution(old, new), "added") : x \in i.to
      BY <2>1, GivenBy, Zenon
    <3>2. PICK r \in Stated(old, new) : i = Item("added", {}, {r})
      BY <3>1, ItemsOf DEF Of, ItemOf, Item
    <3>3. i.to = {r}
      BY <3>2, ItemFields
    <3> QED
      BY <3>1, <3>2, <3>3
  <2>2. ASSUME NEW x \in Stated(old, new) PROVE x \in Given(Evolution(old, new), "added")
    <3>1. PICK r \in Stated(old, new) : x = r
      BY <2>2
    <3>2. Item("added", {}, {r}) \in Of(Evolution(old, new), "added")
      BY <3>1, ItemsByKind
    <3>3. x \in Item("added", {}, {r}).to
      BY <3>1, ItemFields
    <3> QED
      BY <3>2, <3>3, GivenBy, Zenon
  <2> QED
    BY <2>1, <2>2
<1>2. \A x : x \in Retired(Evolution(old, new), "deprecated") <=> x \in Gone(old, new)
  <2>1. ASSUME NEW x \in Retired(Evolution(old, new), "deprecated") PROVE x \in Gone(old, new)
    <3>1. PICK i \in Of(Evolution(old, new), "deprecated") : x \in i.from
      BY <2>1, RetiredBy, Zenon
    <3>2. PICK r \in Gone(old, new) : i = Item("deprecated", {r}, {})
      BY <3>1, ItemsOf DEF Of, ItemOf, Item
    <3>3. i.from = {r}
      BY <3>2, ItemFields
    <3> QED
      BY <3>1, <3>2, <3>3
  <2>2. ASSUME NEW x \in Gone(old, new) PROVE x \in Retired(Evolution(old, new), "deprecated")
    <3>1. PICK r \in Gone(old, new) : x = r
      BY <2>2
    <3>2. Item("deprecated", {r}, {}) \in Of(Evolution(old, new), "deprecated")
      BY <3>1, ItemsByKind
    <3>3. x \in Item("deprecated", {r}, {}).from
      BY <3>1, ItemFields
    <3> QED
      BY <3>2, <3>3, RetiredBy, Zenon
  <2> QED
    BY <2>1, <2>2
<1>3. \A x : x \notin Given(Evolution(old, new), "deprecated")
  <2>1. \A i \in Of(Evolution(old, new), "deprecated") : i.to = {}
    BY ItemsOf DEF Of, ItemOf, Item
  <2> QED
    BY <2>1, GivenBy
<1>4. \A x : x \in Retired(Evolution(old, new), "modified") <=> x \in Reworded(old, new)
  <2>1. ASSUME NEW x \in Retired(Evolution(old, new), "modified") PROVE x \in Reworded(old, new)
    <3>1. PICK i \in Of(Evolution(old, new), "modified") : x \in i.from
      BY <2>1, RetiredBy, Zenon
    <3>2. PICK r \in Reworded(old, new) : i = Item("modified", {r}, {r})
      BY <3>1, ItemsOf DEF Of, ItemOf, Item
    <3>3. i.from = {r}
      BY <3>2, ItemFields
    <3> QED
      BY <3>1, <3>2, <3>3
  <2>2. ASSUME NEW x \in Reworded(old, new) PROVE x \in Retired(Evolution(old, new), "modified")
    <3>1. PICK r \in Reworded(old, new) : x = r
      BY <2>2
    <3>2. Item("modified", {r}, {r}) \in Of(Evolution(old, new), "modified")
      BY <3>1, ItemsByKind
    <3>3. x \in Item("modified", {r}, {r}).from
      BY <3>1, ItemFields
    <3> QED
      BY <3>2, <3>3, RetiredBy, Zenon
  <2> QED
    BY <2>1, <2>2
<1> QED
  BY <1>1, <1>2, <1>3, <1>4

\* What changed has an item that blocks the adoption.
LEMMA ChangesHaveItems ==
    ASSUME NEW old, NEW new, NEW r \in Ids(old) \cup Ids(new), Says(old, r) # Says(new, r)
    PROVE  \E i \in Evolution(old, new) : Blocking(i) /\ r \in i.from \cup i.to
<1>1. CASE r \in Kept(old, new)
  <2>1. r \in Reworded(old, new)
    BY <1>1 DEF Kept, Reworded, Ids, Says
  <2>2. Item("modified", {r}, {r}) \in Evolution(old, new)
    BY <2>1, ItemsOf DEF ItemOf
  <2> QED
    BY <2>2 DEF Item, Blocking
<1>2. CASE r \in Added(old, new)
  <2>1. CASE r \in Pieces(old, new)
    <3>1. PICK s \in Splits(old, new) : r \in Kin(s, Added(old, new))
      BY <2>1 DEF Pieces
    <3>2. Item("split", {s}, Kin(s, Added(old, new))) \in Evolution(old, new)
      BY <3>1, ItemsOf DEF ItemOf
    <3> QED
      BY <3>1, <3>2 DEF Item, Blocking
  <2>2. CASE r \in Merges(old, new)
    <3>1. Item("merged", Kin(r, Removed(old, new)), {r}) \in Evolution(old, new)
      BY <2>2, ItemsOf DEF ItemOf
    <3> QED
      BY <3>1 DEF Item, Blocking
  <2>3. CASE r \in Stated(old, new)
    <3>1. Item("added", {}, {r}) \in Evolution(old, new)
      BY <2>3, ItemsOf DEF ItemOf
    <3> QED
      BY <3>1 DEF Item, Blocking
  <2> QED
    BY <1>2, <2>1, <2>2, <2>3 DEF Stated
<1>3. CASE r \in Removed(old, new)
  <2>1. CASE r \in Splits(old, new)
    <3>1. Item("split", {r}, Kin(r, Added(old, new))) \in Evolution(old, new)
      BY <2>1, ItemsOf DEF ItemOf
    <3> QED
      BY <3>1 DEF Item, Blocking
  <2>2. CASE r \in Parts(old, new)
    <3>1. PICK s \in Merges(old, new) : r \in Kin(s, Removed(old, new))
      BY <2>2 DEF Parts
    <3>2. Item("merged", Kin(s, Removed(old, new)), {s}) \in Evolution(old, new)
      BY <3>1, ItemsOf DEF ItemOf
    <3> QED
      BY <3>1, <3>2 DEF Item, Blocking
  <2>3. CASE r \in Gone(old, new)
    <3>1. Item("deprecated", {r}, {}) \in Evolution(old, new)
      BY <2>3, ItemsOf DEF ItemOf
    <3> QED
      BY <3>1 DEF Item, Blocking
  <2> QED
    BY <1>3, <2>1, <2>2, <2>3 DEF Gone
<1> QED
  BY <1>1, <1>2, <1>3 DEF Kept, Added, Removed
-----------------------------------------------------------------------------
(* Applying differences to a registry.                                     *)

\* One layer of Applied: the requirements of S take status s.
LEMMA Layer ==
    ASSUME NEW g \in [Requirements -> Status], NEW S \in SUBSET Requirements, NEW s \in Status
    PROVE  /\ Over(Mark(S, s), g) \in [Requirements -> Status]
           /\ \A r \in Requirements : Over(Mark(S, s), g)[r] = IF r \in S THEN s ELSE g[r]
<1>1. DOMAIN Mark(S, s) = S /\ \A r \in S : Mark(S, s)[r] = s
  BY DEF Mark
<1>2. DOMAIN Over(Mark(S, s), g) = Requirements
  BY <1>1 DEF Over
<1>3. \A r \in Requirements : Over(Mark(S, s), g)[r] = IF r \in S THEN s ELSE g[r]
  BY <1>1 DEF Over
<1>4. Over(Mark(S, s), g) = [r \in Requirements |-> IF r \in S THEN s ELSE g[r]]
  BY <1>1, <1>2, <1>3 DEF Over
<1> QED
  BY <1>3, <1>4

\* h is g with one layer more.
Layered(h, g, S, s) ==
    /\ h \in [Requirements -> Status]
    /\ h = Over(Mark(S, s), g)
    /\ \A r \in Requirements : h[r] = IF r \in S THEN s ELSE g[r]

LEMMA NextLayer ==
    ASSUME NEW g \in [Requirements -> Status], NEW S \in SUBSET Requirements, NEW s \in Status
    PROVE  \E h : Layered(h, g, S, s)
<1>1. Layered(Over(Mark(S, s), g), g, S, s)
  BY Layer DEF Layered
<1> QED
  BY <1>1

\* What the items of kind k name, a reviewer's successors in place of their own.
Heirs(items, k, record) == UNION {Successors(i, record) : i \in Of(items, k)}
Replaced(items, record) ==
    UNION {i.from : i \in {j \in Of(items, "deprecated") : Successors(j, record) # {}}}
Mentioned(items) == UNION {i.from \cup i.to : i \in items}
Fresh(status, items) == {r \in Mentioned(items) : status[r] = "unknown"}

AppliedAt(status, items, record, r) ==
    IF r \in Heirs(items, "split", record) THEN "active"
    ELSE IF r \in Retired(items, "split") THEN "split"
    ELSE IF r \in Retired(items, "modified") THEN "modified"
    ELSE IF r \in Heirs(items, "merged", record) THEN "active"
    ELSE IF r \in Retired(items, "merged") THEN "merged"
    ELSE IF r \in Heirs(items, "deprecated", record) THEN "active"
    ELSE IF r \in Replaced(items, record) THEN "replaced"
    ELSE IF r \in Retired(items, "deprecated") THEN "deprecated"
    ELSE IF r \in Fresh(status, items) \cup Given(items, "added") THEN "active"
    ELSE status[r]

LEMMA SuccessorsAre ==
    ASSUME NEW record \in Records(Items), NEW i \in Items
    PROVE  Successors(i, record) \subseteq Requirements
<1>1. i.to \subseteq Requirements
  BY DEF Items
<1>2. ASSUME i \in DOMAIN record PROVE record[i].maps \subseteq Requirements
  <2>1. record[i] \in Decision
    BY <1>2 DEF Records
  <2>2. record[i].maps \in Mappings
    BY <2>1 DEF Decision
  <2> QED
    BY <2>2, SourceAssumption
<1> QED
  BY <1>1, <1>2 DEF Successors

LEMMA AppliedIs ==
    ASSUME NEW status \in [Requirements -> Status], NEW items \in SUBSET Items,
           NEW record \in Records(Items)
    PROVE  /\ Applied(status, items, record) \in [Requirements -> Status]
           /\ \A r \in Requirements :
                  Applied(status, items, record)[r] = AppliedAt(status, items, record, r)
<1>1. \A i \in items : i.from \subseteq Requirements /\ i.to \subseteq Requirements
                      /\ Successors(i, record) \subseteq Requirements
  BY SuccessorsAre DEF Items
<1>2. \A k : /\ Heirs(items, k, record) \in SUBSET Requirements
             /\ Retired(items, k) \in SUBSET Requirements
             /\ Given(items, k) \in SUBSET Requirements
  BY <1>1 DEF Heirs, Retired, Given, Of
<1>3. /\ Replaced(items, record) \in SUBSET Requirements
      /\ Fresh(status, items) \in SUBSET Requirements
  BY <1>1 DEF Replaced, Fresh, Mentioned, Of
<1>4. /\ "active" \in Status /\ "modified" \in Status /\ "split" \in Status
      /\ "merged" \in Status /\ "replaced" \in Status /\ "deprecated" \in Status
  BY DEF Status, Live
<1>5. PICK g1 : Layered(g1, status, Fresh(status, items) \cup Given(items, "added"), "active")
  <2>1. Fresh(status, items) \cup Given(items, "added") \in SUBSET Requirements
    BY <1>2, <1>3
  <2> QED
    BY <2>1, <1>4, NextLayer
<1>6. PICK g2 : Layered(g2, g1, Retired(items, "deprecated"), "deprecated")
  <2>1. Retired(items, "deprecated") \in SUBSET Requirements
    BY <1>2
  <2>2. g1 \in [Requirements -> Status]
    BY <1>5 DEF Layered
  <2> QED
    BY <2>1, <2>2, <1>4, NextLayer
<1>7. PICK g3 : Layered(g3, g2, Replaced(items, record), "replaced")
  <2>1. Replaced(items, record) \in SUBSET Requirements
    BY <1>3
  <2>2. g2 \in [Requirements -> Status]
    BY <1>6 DEF Layered
  <2> QED
    BY <2>1, <2>2, <1>4, NextLayer
<1>8. PICK g4 : Layered(g4, g3, Heirs(items, "deprecated", record), "active")
  <2>1. Heirs(items, "deprecated", record) \in SUBSET Requirements
    BY <1>2
  <2>2. g3 \in [Requirements -> Status]
    BY <1>7 DEF Layered
  <2> QED
    BY <2>1, <2>2, <1>4, NextLayer
<1>9. PICK g5 : Layered(g5, g4, Retired(items, "merged"), "merged")
  <2>1. Retired(items, "merged") \in SUBSET Requirements
    BY <1>2
  <2>2. g4 \in [Requirements -> Status]
    BY <1>8 DEF Layered
  <2> QED
    BY <2>1, <2>2, <1>4, NextLayer
<1>10. PICK g6 : Layered(g6, g5, Heirs(items, "merged", record), "active")
  <2>1. Heirs(items, "merged", record) \in SUBSET Requirements
    BY <1>2
  <2>2. g5 \in [Requirements -> Status]
    BY <1>9 DEF Layered
  <2> QED
    BY <2>1, <2>2, <1>4, NextLayer
<1>11. PICK g7 : Layered(g7, g6, Retired(items, "modified"), "modified")
  <2>1. Retired(items, "modified") \in SUBSET Requirements
    BY <1>2
  <2>2. g6 \in [Requirements -> Status]
    BY <1>10 DEF Layered
  <2> QED
    BY <2>1, <2>2, <1>4, NextLayer
<1>12. PICK g8 : Layered(g8, g7, Retired(items, "split"), "split")
  <2>1. Retired(items, "split") \in SUBSET Requirements
    BY <1>2
  <2>2. g7 \in [Requirements -> Status]
    BY <1>11 DEF Layered
  <2> QED
    BY <2>1, <2>2, <1>4, NextLayer
<1>13. PICK g9 : Layered(g9, g8, Heirs(items, "split", record), "active")
  <2>1. Heirs(items, "split", record) \in SUBSET Requirements
    BY <1>2
  <2>2. g8 \in [Requirements -> Status]
    BY <1>12 DEF Layered
  <2> QED
    BY <2>1, <2>2, <1>4, NextLayer
<1>14. Applied(status, items, record) =
         Over(Mark(Heirs(items, "split", record), "active"),
         Over(Mark(Retired(items, "split"), "split"),
         Over(Mark(Retired(items, "modified"), "modified"),
         Over(Mark(Heirs(items, "merged", record), "active"),
         Over(Mark(Retired(items, "merged"), "merged"),
         Over(Mark(Heirs(items, "deprecated", record), "active"),
         Over(Mark(Replaced(items, record), "replaced"),
         Over(Mark(Retired(items, "deprecated"), "deprecated"),
         Over(Mark(Fresh(status, items) \cup Given(items, "added"), "active"), status)))))))))
  BY Zenon DEF Applied, Heirs, Retired, Replaced, Fresh, Mentioned, Given, Of
<1>15. Applied(status, items, record) = g9
  BY <1>5, <1>6, <1>7, <1>8, <1>9, <1>10, <1>11, <1>12, <1>13, <1>14, Zenon DEF Layered
<1>16. \A r \in Requirements : g9[r] = AppliedAt(status, items, record, r)
  <2> TAKE r \in Requirements
  <2>0. g2[r] = IF r \in Retired(items, "deprecated") THEN "deprecated"
                ELSE IF r \in Fresh(status, items) \cup Given(items, "added") THEN "active"
                ELSE status[r]
    BY <1>5, <1>6 DEF Layered
  <2>1. g4[r] = IF r \in Heirs(items, "deprecated", record) THEN "active"
                ELSE IF r \in Replaced(items, record) THEN "replaced"
                ELSE g2[r]
    BY <1>7, <1>8 DEF Layered
  <2>2. g7[r] = IF r \in Retired(items, "modified") THEN "modified"
                ELSE IF r \in Heirs(items, "merged", record) THEN "active"
                ELSE IF r \in Retired(items, "merged") THEN "merged"
                ELSE g4[r]
    BY <1>9, <1>10, <1>11 DEF Layered
  <2>3. g9[r] = IF r \in Heirs(items, "split", record) THEN "active"
                ELSE IF r \in Retired(items, "split") THEN "split"
                ELSE g7[r]
    BY <1>12, <1>13 DEF Layered
  <2> QED
    BY <2>0, <2>1, <2>2, <2>3 DEF AppliedAt
<1> QED
  BY <1>13, <1>15, <1>16, Zenon DEF Layered

LiveIn(status) == {r \in Requirements : status[r] \in Live}

LEMMA ClassesFit ==
    ASSUME NEW old, NEW new
    PROVE  /\ Splits(old, new) \subseteq Removed(old, new)
           /\ Parts(old, new) \subseteq Removed(old, new)
           /\ Gone(old, new) \subseteq Removed(old, new)
           /\ Pieces(old, new) \subseteq Added(old, new)
           /\ Merges(old, new) \subseteq Added(old, new)
           /\ Stated(old, new) \subseteq Added(old, new)
           /\ Added(old, new) \subseteq
                  Pieces(old, new) \cup Merges(old, new) \cup Stated(old, new)
           /\ Removed(old, new) \subseteq
                  Splits(old, new) \cup Parts(old, new) \cup Gone(old, new)
           /\ Reworded(old, new) \subseteq Kept(old, new)
           /\ Moved(old, new) \subseteq Kept(old, new)
BY DEF Splits, Parts, Gone, Pieces, Merges, Stated, Reworded, Moved, Kin

LEMMA MentionedIs ==
    ASSUME NEW old, NEW new
    PROVE  Mentioned(Evolution(old, new)) \subseteq
               Added(old, new) \cup Removed(old, new) \cup Kept(old, new)
<1> SUFFICES ASSUME NEW i \in Evolution(old, new), NEW r \in i.from \cup i.to
             PROVE  r \in Added(old, new) \cup Removed(old, new) \cup Kept(old, new)
  BY DEF Mentioned
<1>1. ItemOf(i, old, new)
  BY ItemsOf, Zenon
<1>2. \A x, S : Kin(x, S) \subseteq S
  BY DEF Kin
<1> QED
  BY <1>1, <1>2, ClassesFit DEF ItemOf, Item

\* Where no reviewer renamed the successors of a split or a merge, the heirs
\* are those of the documents; a removal's are never dropped requirements.
LEMMA HeirsAre ==
    ASSUME NEW old, NEW new \in Drafts, NEW record \in Records(Items),
           ~Renamed(Evolution(old, new), record)
    PROVE  /\ Heirs(Evolution(old, new), "split", record) = Pieces(old, new)
           /\ Heirs(Evolution(old, new), "merged", record) = Merges(old, new)
           /\ Heirs(Evolution(old, new), "deprecated", record) \subseteq Ids(new)
<1>1. \A i \in Of(Evolution(old, new), "split") \cup Of(Evolution(old, new), "merged") :
          Successors(i, record) = i.to
  BY DEF Of, Renamed
<1>2. Heirs(Evolution(old, new), "split", record) = Given(Evolution(old, new), "split")
  BY <1>1 DEF Heirs, Given
<1>3. Heirs(Evolution(old, new), "merged", record) = Given(Evolution(old, new), "merged")
  BY <1>1 DEF Heirs, Given
<1>4. ASSUME NEW i \in Of(Evolution(old, new), "deprecated")
      PROVE  Successors(i, record) \subseteq Ids(new)
  <2>1. i.to = {}
    BY OtherClasses, GivenBy
  <2>2. ASSUME i \in DOMAIN record PROVE record[i].maps \subseteq Ids(new)
    <3>1. record[i] \in Decision
      BY <2>2 DEF Records
    <3>2. record[i].maps \in Mappings
      BY <3>1 DEF Decision
    <3> QED
      BY <3>2, SourceAssumption DEF Ids
  <2> QED
    BY <2>1, <2>2 DEF Successors
<1> QED
  BY <1>2, <1>3, <1>4, SplitClasses, MergedClasses DEF Heirs

\* Applying the differences of two documents to a registry that follows the
\* first gives one that follows the second, whatever the reviewers decided.
LEMMA RegistryMovesOn ==
    ASSUME NEW old \in Drafts, NEW new \in Drafts,
           NEW status \in [Requirements -> Status], LiveIn(status) = Ids(old),
           NEW record \in Records(Items), ~Renamed(Evolution(old, new), record)
    PROVE  LiveIn(Applied(status, Evolution(old, new), record)) = Ids(new)
<1> DEFINE E == Evolution(old, new)
<1>1. \A r \in Requirements : Applied(status, E, record)[r] = AppliedAt(status, E, record, r)
  BY AppliedIs, EvolutionItems
<1>2. /\ Ids(old) \subseteq Requirements
      /\ Ids(new) \subseteq Requirements
  BY DEF Ids
<1>3. ASSUME NEW r \in Ids(new) PROVE AppliedAt(status, E, record, r) \in Live
  <2>1. /\ r \notin Retired(E, "split") /\ r \notin Retired(E, "merged")
        /\ r \notin Retired(E, "deprecated")
    BY SplitClasses, MergedClasses, OtherClasses, ClassesFit DEF Removed
  <2>2. r \notin Replaced(E, record)
    BY <2>1, RetiredBy DEF Replaced, Of
  <2>3. CASE r \in Ids(old)
    <3>1. status[r] \in Live
      BY <1>2, <2>3 DEF LiveIn
    <3> QED
      BY <2>1, <2>2, <3>1 DEF AppliedAt, Live
  <2>4. CASE r \notin Ids(old)
    <3>1. r \in Pieces(old, new) \cup Merges(old, new) \cup Stated(old, new)
      BY <2>4, ClassesFit DEF Added
    <3>2. \/ r \in Heirs(E, "split", record)
          \/ r \in Heirs(E, "merged", record)
          \/ r \in Given(E, "added")
      BY <3>1, HeirsAre, OtherClasses
    <3> QED
      BY <2>1, <2>2, <3>2 DEF AppliedAt, Live
  <2> QED
    BY <2>3, <2>4
<1>4. ASSUME NEW r \in Requirements \ Ids(new) PROVE AppliedAt(status, E, record, r) \notin Live
  <2>1. /\ r \notin Heirs(E, "split", record) /\ r \notin Heirs(E, "merged", record)
        /\ r \notin Heirs(E, "deprecated", record)
    BY HeirsAre, ClassesFit DEF Added
  <2>2. /\ r \notin Retired(E, "modified") /\ r \notin Given(E, "added")
    BY OtherClasses, ClassesFit DEF Kept, Added
  <2>3. CASE r \in Ids(old)
    <3>1. r \in Splits(old, new) \cup Parts(old, new) \cup Gone(old, new)
      BY <2>3, ClassesFit DEF Removed
    <3>2. r \in Retired(E, "split") \cup Retired(E, "merged") \cup Retired(E, "deprecated")
      BY <3>1, SplitClasses, MergedClasses, OtherClasses
    <3> QED
      BY <2>1, <2>2, <3>2 DEF AppliedAt, Live
  <2>4. CASE r \notin Ids(old)
    <3>1. status[r] \notin Live
      BY <2>4 DEF LiveIn
    <3>2. r \notin Mentioned(E)
      BY <2>4, MentionedIs DEF Added, Removed, Kept
    <3>3. r \notin Fresh(status, E)
      BY <3>2 DEF Fresh
    <3> QED
      BY <2>1, <2>2, <3>1, <3>3 DEF AppliedAt, Live
  <2> QED
    BY <2>3, <2>4
<1> QED
  BY <1>1, <1>2, <1>3, <1>4 DEF LiveIn

-----------------------------------------------------------------------------
(* Types of the files and of what commands hold.                           *)

AdoptSteps == {"active", "compat", "lifecycle", "baseline", "review", "record", "announce"}
Steps == {"idle", "compare", "decide", "tell"} \cup AdoptSteps

Diffs ==
    {d \in [items : SUBSET Items, base : Drafts, shown : Drafts] :
        d.items = Evolution(d.base, d.shown)}
Baselines ==
    [snapshot : Drafts, version : Nat, last : Changes \cup {None}, applied : SUBSET Changes]

Refreshing == [op : {"refresh"}, on : Changes]
Reviewing ==
    [op : {"review"}, on : Changes, item : Items, status : Actions, maps : Mappings,
     about : Drafts, record : Records(Items)]
Adoptions ==
    [op : {"adopt"}, on : Changes, from : Drafts, to : Drafts, diff : Diffs,
     record : Records(Items), version : Nat, alone : BOOLEAN]

\* What a terminal holds at each step of its command.
Doing(t) ==
    /\ pc[t] = "idle" => held[t] = Idle
    /\ pc[t] = "compare" => held[t] \in Refreshing /\ proposed[held[t].on] \in Drafts
    /\ pc[t] \in {"decide", "tell"} => held[t] \in Reviewing
    /\ pc[t] \in AdoptSteps =>
          held[t] \in Adoptions /\ Unresolved(held[t].diff.items, held[t].record) = {}

FilesTyped ==
    /\ world \in Worlds
    /\ docs \in Drafts /\ compat \in Drafts
    /\ active \in Drafts \cup {None}
    /\ lifecycle \in Registries \cup {None}
    /\ baseline \in Baselines
    /\ proposed \in [Changes -> Drafts \cup {None}]
    /\ diff \in [Changes -> Diffs \cup {None}]
    /\ review \in [Changes -> Records(Items)]
    /\ told \in [Changes -> SUBSET (Items \X Actions)]
    /\ adoption \in [Changes -> {"none", "draft", "adopted"}]
    /\ overwritten \subseteq Changes
    /\ toldLast \in Changes \cup {None}
    /\ given \in [commands : Nat, edits : Nat]
    /\ torn \in BOOLEAN /\ sound \in BOOLEAN

CommandsTyped ==
    /\ pc \in [Terminals -> Steps]
    /\ held \in [Terminals -> {Idle} \cup Refreshing \cup Reviewing \cup Adoptions]
    /\ \A t \in Terminals : Doing(t)

Typed == FilesTyped /\ CommandsTyped

LEMMA RecordsHave ==
    ASSUME NEW record \in Records(Items)
    PROVE  /\ DOMAIN record \subseteq Items
           /\ \A i \in DOMAIN record : record[i] \in Decision
BY DEF Records

LEMMA RecordsAre ==
    ASSUME NEW I \in SUBSET Items, NEW f \in [I -> Decision]
    PROVE  f \in Records(Items)
BY DEF Records

\* A decision that is added keeps the others and is found.
\* A record that decides i as d and every other item as the old one does.
DecidesAlso(new, record, i, d) ==
    /\ DOMAIN new = DOMAIN record \cup {i}
    /\ new[i] = d
    /\ \A j \in DOMAIN record \ {i} : new[j] = record[j]

LEMMA UpsertIs ==
    ASSUME NEW record \in Records(Items), NEW i \in Items, NEW d \in Decision
    PROVE  /\ Upsert(record, i, d) \in Records(Items)
           /\ DecidesAlso(Upsert(record, i, d), record, i, d)
<1>1. DOMAIN record \subseteq Items /\ \A j \in DOMAIN record : record[j] \in Decision
  BY RecordsHave
<1>2. Upsert(record, i, d) =
          [j \in DOMAIN record \cup {i} |-> IF j = i THEN d ELSE record[j]]
  BY DEF Upsert, Over
<1>3. Upsert(record, i, d) \in [DOMAIN record \cup {i} -> Decision]
  BY <1>1, <1>2
<1>4. DOMAIN record \cup {i} \in SUBSET Items
  BY <1>1
<1> QED
  BY <1>2, <1>3, <1>4, RecordsAre DEF DecidesAlso

LEMMA DecidedIs ==
    ASSUME NEW record \in Records(Items), NEW i \in Items, NEW s \in Actions,
           NEW m \in Mappings, NEW d \in Drafts
    PROVE  /\ Decided(record, i, s, m, d) \in Decision
           /\ s \in Decided(record, i, s, m, d).history
           /\ i \in DOMAIN record =>
                 record[i].history \subseteq Decided(record, i, s, m, d).history
<1>1. i \in DOMAIN record => record[i] \in Decision
  BY RecordsHave
<1> QED
  BY <1>1 DEF Decided, Decision

\* The differences of two documents are among those a change can have.
LEMMA ComparedTyped ==
    ASSUME NEW old \in Drafts, NEW new \in Drafts
    PROVE  Compared(old, new) \in Diffs
BY EvolutionItems DEF Compared, Diffs

LEMMA InitTyped == Init => Typed
<1> SUFFICES ASSUME Init PROVE Typed
  OBVIOUS
<1> USE SourceAssumption DEF Init
<1>1. InitialRegistry(FirstDraft) \in Registries
  BY DEF InitialRegistry, Registries, Status, Live, Ids
<1>2. NoRecord \in Records(Items)
  <2>1. NoRecord \in [{} -> Decision]
    BY DEF NoRecord
  <2> QED
    BY <2>1, RecordsAre
<1>3. FilesTyped
  <2>1. diff \in [Changes -> Diffs \cup {None}]
    BY ComparedTyped DEF Drafted
  <2>2. adoption \in [Changes -> {"none", "draft", "adopted"}]
    OBVIOUS
  <2> QED
    BY <1>1, <1>2, <2>1, <2>2 DEF FilesTyped, Baselines
<1>4. CommandsTyped
  BY DEF CommandsTyped, Doing, Steps, AdoptSteps
<1> QED
  BY <1>3, <1>4 DEF Typed

\* What writing a file of an adoption does to what the commands hold.
HeldMoves(t, version) ==
    /\ held' \in [Terminals -> {Idle} \cup Refreshing \cup Reviewing \cup Adoptions]
    /\ \A u \in Terminals : pc[u] \in AdoptSteps =>
          /\ held'[u] \in Adoptions
          /\ held'[u].on = held[u].on /\ held'[u].to = held[u].to
          /\ held'[u].from = held[u].from
          /\ held'[u].diff = held[u].diff /\ held'[u].record = held[u].record
          /\ u # t => ~held'[u].alone /\ held'[u].version = held[u].version
    /\ \A u \in Terminals : pc[u] \notin AdoptSteps => held'[u] = held[u]
    /\ held'[t].version = version
    /\ held'[t].alone <=> held[t].alone

LEMMA OnlyAdoptionsAdopt ==
    ASSUME CommandsTyped, NEW t \in Terminals
    PROVE  Adopting(t) <=> pc[t] \in AdoptSteps
<1>1. Doing(t) /\ pc[t] \in Steps
  BY DEF CommandsTyped
<1>2. CASE pc[t] = "idle"
  BY <1>1, <1>2 DEF Doing, Idle, Adopting, AdoptSteps
<1>3. CASE pc[t] = "compare"
  BY <1>1, <1>3 DEF Doing, Refreshing, Adopting, AdoptSteps
<1>4. CASE pc[t] \in {"decide", "tell"}
  BY <1>1, <1>4 DEF Doing, Reviewing, Adopting, AdoptSteps
<1>5. CASE pc[t] \in AdoptSteps
  BY <1>1, <1>5 DEF Doing, Adoptions, Adopting
<1> QED
  BY <1>1, <1>2, <1>3, <1>4, <1>5 DEF Steps

LEMMA WritingMoves ==
    ASSUME CommandsTyped, NEW t \in Terminals, NEW step \in AdoptSteps, NEW next,
           NEW version \in Nat, Writing(t, step, next, version)
    PROVE  HeldMoves(t, version)
<1>1. pc[t] = step /\ pc[t] \in AdoptSteps
  BY DEF Writing
<1>2. held' = [u \in Terminals |->
                   IF u = t THEN [held[t] EXCEPT !.version = version]
                   ELSE IF Adopting(u) THEN [held[u] EXCEPT !.alone = FALSE]
                   ELSE held[u]]
  BY DEF Writing
<1>3. ASSUME NEW u \in Terminals, pc[u] \in AdoptSteps PROVE held[u] \in Adoptions
  BY <1>3 DEF CommandsTyped, Doing
<1>4. /\ held'[t] \in Adoptions
      /\ held'[t].on = held[t].on /\ held'[t].to = held[t].to
      /\ held'[t].from = held[t].from
      /\ held'[t].diff = held[t].diff /\ held'[t].record = held[t].record
      /\ held'[t].version = version
      /\ held'[t].alone = held[t].alone
  <2>1. held'[t] = [held[t] EXCEPT !.version = version]
    BY <1>2
  <2> QED
    BY <2>1, <1>1, <1>3 DEF Adoptions
<1>5. ASSUME NEW u \in Terminals, u # t, pc[u] \in AdoptSteps
      PROVE  /\ held'[u] \in Adoptions
             /\ held'[u].on = held[u].on /\ held'[u].to = held[u].to
             /\ held'[u].from = held[u].from
             /\ held'[u].diff = held[u].diff /\ held'[u].record = held[u].record
             /\ held'[u].version = held[u].version
             /\ held'[u].alone = FALSE
  <2>1. held'[u] = [held[u] EXCEPT !.alone = FALSE]
    BY <1>2, <1>5, OnlyAdoptionsAdopt
  <2> QED
    BY <2>1, <1>5, <1>3 DEF Adoptions
<1>6. ASSUME NEW u \in Terminals, pc[u] \notin AdoptSteps PROVE held'[u] = held[u]
  BY <1>1, <1>2, <1>6, OnlyAdoptionsAdopt
<1>7. held' \in [Terminals -> {Idle} \cup Refreshing \cup Reviewing \cup Adoptions]
  <2>1. \A u \in Terminals :
            held'[u] \in {Idle} \cup Refreshing \cup Reviewing \cup Adoptions
    BY <1>4, <1>5, <1>6 DEF CommandsTyped
  <2> QED
    BY <2>1, <1>2
<1> QED
  BY <1>4, <1>5, <1>6, <1>7, Zenon DEF HeldMoves

\* The commands are typed after an adoption has written a file.
LEMMA AdoptionGoesOn ==
    ASSUME Typed, NEW t \in Terminals, NEW step \in AdoptSteps, NEW next \in AdoptSteps,
           NEW version \in Nat, Writing(t, step, next, version)
    PROVE  CommandsTyped'
<1>1. HeldMoves(t, version)
  BY WritingMoves DEF Typed
<1>2. pc' = [pc EXCEPT ![t] = next] /\ pc[t] \in AdoptSteps /\ UNCHANGED proposed
  BY DEF Writing, Goto
<1>3. pc' \in [Terminals -> Steps]
  BY <1>2 DEF Typed, CommandsTyped, Steps
<1>4. ASSUME NEW u \in Terminals PROVE Doing(u)'
  <2>1. Doing(u) /\ pc[u] \in Steps
    BY DEF Typed, CommandsTyped
  <2>2. CASE pc[u] \in AdoptSteps
    <3>1. pc'[u] \in AdoptSteps
      BY <1>2, <2>2 DEF Typed, CommandsTyped
    <3>2. held'[u] \in Adoptions
      BY <1>1, <2>2 DEF HeldMoves
    <3>3. Unresolved(held'[u].diff.items, held'[u].record) = {}
      BY <1>1, <2>1, <2>2 DEF HeldMoves, Doing
    <3> QED
      BY <3>1, <3>2, <3>3 DEF Doing, AdoptSteps
  <2>3. CASE pc[u] \notin AdoptSteps
    <3>1. held'[u] = held[u] /\ pc'[u] = pc[u]
      BY <1>1, <1>2, <2>3 DEF HeldMoves, Typed, CommandsTyped
    <3> QED
      BY <1>2, <2>1, <3>1 DEF Doing
  <2> QED
    BY <2>2, <2>3
<1> QED
  BY <1>1, <1>3, <1>4 DEF CommandsTyped, HeldMoves

\* The same after one terminal alone moves, and what it holds fits the step.
LEMMA OneMoves ==
    ASSUME CommandsTyped, NEW t \in Terminals, NEW step \in Steps,
           NEW h \in {Idle} \cup Refreshing \cup Reviewing \cup Adoptions,
           pc' = [pc EXCEPT ![t] = step], held' = [held EXCEPT ![t] = h], Doing(t)',
           \A c \in Changes : proposed'[c] = proposed[c] \/ proposed'[c] \in Drafts
    PROVE  CommandsTyped'
<1>1. pc' \in [Terminals -> Steps]
  BY DEF CommandsTyped
<1>2. held' \in [Terminals -> {Idle} \cup Refreshing \cup Reviewing \cup Adoptions]
  BY DEF CommandsTyped
<1>3. ASSUME NEW u \in Terminals, u # t PROVE Doing(u)'
  <2>1. pc'[u] = pc[u] /\ held'[u] = held[u] /\ Doing(u)
    BY <1>3 DEF CommandsTyped
  <2> QED
    BY <2>1 DEF Doing, Refreshing
<1> QED
  BY <1>1, <1>2, <1>3 DEF CommandsTyped

\* A command starts, the files of truth and of changes as they are.
LEMMA StartTyped ==
    ASSUME FilesTyped, NEW t \in Terminals, Start(t)
    PROVE  given' \in [commands : Nat, edits : Nat] /\ pc[t] = "idle"
BY DEF FilesTyped, Start

LEMMA ResolveTyped == ASSUME FilesTyped PROVE Resolve \in Drafts
BY DEF FilesTyped, Resolve

LEMMA ReturnTyped ==
    ASSUME CommandsTyped, NEW t \in Terminals, Return(t), UNCHANGED proposed
    PROVE  CommandsTyped'
<1>1. pc' = [pc EXCEPT ![t] = "idle"] /\ held' = [held EXCEPT ![t] = Idle]
  BY DEF Return, Goto, Hold
<1>2. pc'[t] = "idle" /\ held'[t] = Idle
  BY <1>1 DEF CommandsTyped
<1>3. Doing(t)'
  BY <1>2 DEF Doing, AdoptSteps
<1>4. "idle" \in Steps
  BY DEF Steps
<1> QED
  BY <1>1, <1>3, <1>4, OneMoves

LEMMA EditTyped == ASSUME Typed, NEW d \in Drafts, Edit(d) PROVE Typed'
<1> USE DEF Edit, truthFiles, deltaFiles, past
<1>1. given' \in [commands : Nat, edits : Nat]
  BY DEF Typed, FilesTyped
<1>2. FilesTyped'
  BY <1>1 DEF Typed, FilesTyped
<1>3. CommandsTyped'
  BY DEF Typed, CommandsTyped, Doing
<1> QED
  BY <1>2, <1>3 DEF Typed

LEMMA RefreshTyped ==
    ASSUME Typed, NEW t \in Terminals, NEW c \in Changes, Refresh(t, c)
    PROVE  Typed'
<1> USE DEF Refresh, truthFiles, past
<1>1. given' \in [commands : Nat, edits : Nat]
  BY StartTyped DEF Typed
<1>2. proposed' \in [Changes -> Drafts \cup {None}] /\ proposed'[c] \in Drafts
  BY DEF Typed, FilesTyped
<1>3. FilesTyped'
  BY <1>1, <1>2 DEF Typed, FilesTyped
<1>4. [op |-> "refresh", on |-> c] \in Refreshing
  BY DEF Refreshing
<1>5. pc'[t] = "compare" /\ held'[t] = [op |-> "refresh", on |-> c]
  BY DEF Typed, CommandsTyped, Goto, Hold
<1>6. Doing(t)'
  BY <1>2, <1>4, <1>5 DEF Doing, AdoptSteps
<1>7. CommandsTyped'
  <2>1. \A b \in Changes : proposed'[b] = proposed[b] \/ proposed'[b] \in Drafts
    BY <1>2 DEF Typed, FilesTyped
  <2>2. "compare" \in Steps
    BY DEF Steps
  <2> QED
    BY <1>4, <1>6, <2>1, <2>2, OneMoves DEF Typed, Goto, Hold
<1> QED
  BY <1>3, <1>7 DEF Typed

LEMMA CompareTyped == ASSUME Typed, NEW t \in Terminals, Compare(t) PROVE Typed'
<1> USE DEF Compare, truthFiles, past
<1>1. held[t].on \in Changes /\ proposed[held[t].on] \in Drafts
  BY DEF Typed, CommandsTyped, Doing, Refreshing
<1> DEFINE d == Compared(Resolve, proposed[held[t].on])
<1>2. d \in Diffs
  BY <1>1, ResolveTyped, ComparedTyped DEF Typed
<1>3. diff' = [diff EXCEPT ![held[t].on] = d]
  OBVIOUS
<1> HIDE DEF d
<1>4. diff' \in [Changes -> Diffs \cup {None}]
  BY <1>2, <1>3 DEF Typed, FilesTyped
<1>5. FilesTyped'
  BY <1>4 DEF Typed, FilesTyped
<1>6. CommandsTyped'
  BY ReturnTyped DEF Typed
<1> QED
  BY <1>5, <1>6 DEF Typed

LEMMA ReviewTyped ==
    ASSUME Typed, NEW t \in Terminals, NEW c \in Changes, NEW i, NEW s \in Answers,
           NEW m \in Mappings, Review(t, c, i, s, m)
    PROVE  Typed'
<1> USE DEF Review, truthFiles, deltaFiles, past
<1>1. given' \in [commands : Nat, edits : Nat]
  BY StartTyped DEF Typed
<1>2. FilesTyped'
  BY <1>1 DEF Typed, FilesTyped
<1>3. diff[c] \in Diffs
  BY DEF Typed, FilesTyped
<1> DEFINE h == [op |-> "review", on |-> c, item |-> i, status |-> s, maps |-> m,
                 about |-> diff[c].shown, record |-> review[c]]
<1>4. h \in Reviewing
  BY <1>3, SourceAssumption DEF Diffs, Reviewing, Typed, FilesTyped
<1>5. held' = [held EXCEPT ![t] = h] /\ pc' = [pc EXCEPT ![t] = "decide"]
  BY DEF Goto, Hold
<1> HIDE DEF h
<1>6. pc'[t] = "decide" /\ held'[t] = h
  BY <1>5 DEF Typed, CommandsTyped
<1>7. Doing(t)'
  BY <1>4, <1>6 DEF Doing, AdoptSteps
<1>8. CommandsTyped'
  <2>1. "decide" \in Steps
    BY DEF Steps
  <2> QED
    BY <1>4, <1>5, <1>7, <2>1, OneMoves DEF Typed
<1> QED
  BY <1>2, <1>8 DEF Typed

LEMMA OverwritesTyped ==
    ASSUME FilesTyped, NEW t, held[t].on \in Changes, Overwrites(t)
    PROVE  overwritten' \subseteq Changes
BY DEF FilesTyped, Overwrites

LEMMA DecideTyped == ASSUME Typed, NEW t \in Terminals, Decide(t) PROVE Typed'
<1> USE DEF Decide
<1> DEFINE h == held[t]
           new == Upsert(h.record, h.item, Decided(h.record, h.item, h.status, h.maps, h.about))
<1>1. h \in Reviewing
  BY DEF Typed, CommandsTyped, Doing
<1>2. /\ h.on \in Changes /\ h.record \in Records(Items) /\ h.item \in Items
      /\ h.status \in Actions /\ h.maps \in Mappings /\ h.about \in Drafts
  BY <1>1 DEF Reviewing
<1>3. new \in Records(Items)
  BY <1>2, DecidedIs, UpsertIs
<1>4. review' = [review EXCEPT ![h.on] = new]
  OBVIOUS
<1> HIDE DEF new
<1>5. review' \in [Changes -> Records(Items)]
  BY <1>3, <1>4 DEF Typed, FilesTyped
<1>6. overwritten' \subseteq Changes
  BY <1>2, OverwritesTyped DEF Typed
<1>7. FilesTyped'
  BY <1>5, <1>6 DEF Typed, FilesTyped, truthFiles
<1>8. pc' = [pc EXCEPT ![t] = "tell"] /\ held' = [held EXCEPT ![t] = held[t]]
  BY DEF Goto, Typed, CommandsTyped
<1>9. pc'[t] = "tell" /\ held'[t] = held[t]
  BY <1>8 DEF Typed, CommandsTyped
<1>10. Doing(t)'
  BY <1>1, <1>9 DEF Doing, AdoptSteps
<1>11. CommandsTyped'
  <2>1. "tell" \in Steps
    BY DEF Steps
  <2> QED
    BY <1>1, <1>8, <1>10, <2>1, OneMoves DEF Typed
<1> QED
  BY <1>7, <1>11 DEF Typed

LEMMA TellTyped == ASSUME Typed, NEW t \in Terminals, Tell(t) PROVE Typed'
<1> USE DEF Tell
<1>1. held[t] \in Reviewing
  BY DEF Typed, CommandsTyped, Doing
<1>2. held[t].on \in Changes /\ held[t].item \in Items /\ held[t].status \in Actions
  BY <1>1 DEF Reviewing
<1>3. told' \in [Changes -> SUBSET (Items \X Actions)]
  BY <1>2 DEF Typed, FilesTyped
<1>4. FilesTyped'
  BY <1>3 DEF Typed, FilesTyped, truthFiles, deltaFiles, past
<1>5. CommandsTyped'
  BY ReturnTyped DEF Typed, deltaFiles
<1> QED
  BY <1>4, <1>5 DEF Typed

LEMMA AdoptTyped ==
    ASSUME Typed, NEW t \in Terminals, NEW c \in Changes, Adopt(t, c)
    PROVE  Typed'
<1> USE DEF Adopt, truthFiles, deltaFiles, past
<1>1. given' \in [commands : Nat, edits : Nat]
  BY StartTyped DEF Typed
<1>2. FilesTyped'
  BY <1>1 DEF Typed, FilesTyped
<1>3. diff[c] \in Diffs /\ proposed[c] \in Drafts /\ review[c] \in Records(Items)
  BY DEF Typed, FilesTyped
<1> DEFINE h == [op |-> "adopt", on |-> c, from |-> Resolve, to |-> proposed[c],
                 diff |-> diff[c], record |-> review[c], version |-> 0, alone |-> TRUE]
<1>4. h \in Adoptions /\ h.diff = diff[c] /\ h.record = review[c]
  BY <1>3, ResolveTyped DEF Adoptions, Typed
<1>5. held' = [held EXCEPT ![t] = h] /\ pc' = [pc EXCEPT ![t] = "active"]
  BY DEF Goto, Hold
<1> HIDE DEF h
<1>6. pc'[t] = "active" /\ held'[t] = h
  BY <1>5 DEF Typed, CommandsTyped
<1>7. Doing(t)'
  BY <1>4, <1>6 DEF Doing, AdoptSteps
<1>8. CommandsTyped'
  <2>1. "active" \in Steps
    BY DEF Steps, AdoptSteps
  <2> QED
    BY <1>4, <1>5, <1>7, <2>1, OneMoves DEF Typed
<1> QED
  BY <1>2, <1>8 DEF Typed

\* What an adoption under way holds.
LEMMA AdoptionHas ==
    ASSUME CommandsTyped, NEW t \in Terminals, pc[t] \in AdoptSteps
    PROVE  /\ held[t].on \in Changes /\ held[t].from \in Drafts /\ held[t].to \in Drafts
           /\ held[t].diff \in Diffs /\ held[t].record \in Records(Items)
           /\ held[t].version \in Nat
           /\ Unresolved(held[t].diff.items, held[t].record) = {}
BY DEF CommandsTyped, Doing, Adoptions

LEMMA PriorTyped ==
    ASSUME FilesTyped, NEW from \in Drafts
    PROVE  Prior(from) \in Registries
<1>1. InitialRegistry(from) \in Registries
  BY DEF InitialRegistry, Registries, Status, Live, Ids
<1> QED
  BY <1>1 DEF Prior, FilesTyped

LEMMA RegistryTyped ==
    ASSUME NEW prior \in Registries, NEW items \in SUBSET Items,
           NEW record \in Records(Items), NEW d \in Drafts, NEW c \in Changes
    PROVE  Registry(prior, items, record, d, c) \in Registries
<1>1. prior.version \in Nat /\ prior.status \in [Requirements -> Status]
  BY DEF Registries
<1>2. Applied(prior.status, items, record) \in [Requirements -> Status]
  BY <1>1, AppliedIs
<1> QED
  BY <1>1, <1>2 DEF Registry, Registries

LEMMA AdoptStepTyped == ASSUME Typed, NEW t \in Terminals, AdoptStep(t) PROVE Typed'
<1> USE DEF Typed
<1>0. /\ "active" \in AdoptSteps /\ "compat" \in AdoptSteps /\ "lifecycle" \in AdoptSteps
      /\ "baseline" \in AdoptSteps /\ "review" \in AdoptSteps /\ "record" \in AdoptSteps
      /\ "announce" \in AdoptSteps
  BY DEF AdoptSteps
<1>1. CASE WriteActive(t)
  <2>1. pc[t] = "active" /\ Writing(t, "active", "compat", 0)
    BY <1>1 DEF WriteActive, Writing
  <2>2. CommandsTyped'
    BY <2>1, <1>0, AdoptionGoesOn
  <2>3. FilesTyped'
    BY <1>0, <1>1, <2>1, AdoptionHas DEF WriteActive, Writing, FilesTyped
  <2> QED
    BY <2>2, <2>3
<1>2. CASE WriteCompat(t)
  <2>1. pc[t] = "compat" /\ Writing(t, "compat", "lifecycle", 0)
    BY <1>2 DEF WriteCompat, Writing
  <2>2. CommandsTyped'
    BY <2>1, <1>0, AdoptionGoesOn
  <2>3. FilesTyped'
    BY <1>0, <1>2, <2>1, AdoptionHas DEF WriteCompat, Writing, FilesTyped
  <2> QED
    BY <2>2, <2>3
<1>3. CASE WriteLifecycle(t)
  <2> DEFINE h == held[t]
             prior == Prior(h.from)
  <2>1. pc[t] = "lifecycle" /\ Writing(t, "lifecycle", "baseline", prior.version + 1)
    BY <1>3 DEF WriteLifecycle, Writing
  <2>2. /\ h.diff.items \in SUBSET Items /\ h.record \in Records(Items) /\ h.to \in Drafts
        /\ h.on \in Changes /\ h.from \in Drafts
    BY <2>1, <1>0, AdoptionHas DEF Diffs
  <2>3. prior \in Registries
    BY <2>2, PriorTyped
  <2>4. prior.version + 1 \in Nat
    BY <2>3 DEF Registries
  <2>5. Registry(prior, h.diff.items, h.record, h.to, h.on) \in Registries
    BY <2>2, <2>3, RegistryTyped
  <2>6. CommandsTyped'
    BY <2>1, <2>4, <1>0, AdoptionGoesOn
  <2>7. lifecycle' \in Registries /\ sound' \in BOOLEAN
    BY <1>3, <2>5 DEF WriteLifecycle
  <2>8. FilesTyped'
    BY <1>3, <2>7 DEF WriteLifecycle, Writing, FilesTyped
  <2> QED
    BY <2>6, <2>8
<1>4. CASE WriteBaseline(t)
  <2>1. pc[t] = "baseline" /\ Writing(t, "baseline", "review", held[t].version)
    BY <1>4 DEF WriteBaseline, Writing
  <2>2. held[t].version \in Nat /\ held[t].to \in Drafts /\ held[t].on \in Changes
    BY <2>1, <1>0, AdoptionHas
  <2>3. CommandsTyped'
    BY <2>1, <2>2, <1>0, AdoptionGoesOn
  <2>4. baseline' \in Baselines
    BY <1>4, <2>2 DEF WriteBaseline, NewBaseline, Baselines, FilesTyped
  <2>5. FilesTyped'
    BY <1>4, <2>4 DEF WriteBaseline, Writing, FilesTyped
  <2> QED
    BY <2>3, <2>5
<1>5. CASE WriteReview(t)
  <2>1. pc[t] = "review" /\ Writing(t, "review", "record", held[t].version)
    BY <1>5 DEF WriteReview, Writing
  <2>2. /\ held[t].version \in Nat /\ held[t].on \in Changes
        /\ held[t].record \in Records(Items)
    BY <2>1, <1>0, AdoptionHas
  <2>3. CommandsTyped'
    BY <2>1, <2>2, <1>0, AdoptionGoesOn
  <2>4. review' \in [Changes -> Records(Items)]
    BY <1>5, <2>2 DEF WriteReview, FilesTyped
  <2>5. overwritten' \subseteq Changes
    BY <1>5, <2>2, OverwritesTyped DEF WriteReview
  <2>6. FilesTyped'
    BY <1>5, <2>4, <2>5 DEF WriteReview, Writing, FilesTyped, truthFiles
  <2> QED
    BY <2>3, <2>6
<1>6. CASE WriteRecord(t)
  <2>1. pc[t] = "record" /\ Writing(t, "record", "announce", held[t].version)
    BY <1>6 DEF WriteRecord, Writing
  <2>2. held[t].version \in Nat /\ held[t].on \in Changes
    BY <2>1, <1>0, AdoptionHas
  <2>3. CommandsTyped'
    BY <2>1, <2>2, <1>0, AdoptionGoesOn
  <2>4. adoption' \in [Changes -> {"none", "draft", "adopted"}]
    BY <1>6, <2>2 DEF WriteRecord, RecordAdopted, FilesTyped
  <2>5. FilesTyped'
    BY <1>6, <2>4 DEF WriteRecord, Writing, FilesTyped
  <2> QED
    BY <2>3, <2>5
<1>7. CASE TellAdoption(t)
  <2>1. held[t].on \in Changes
    BY <1>0, <1>7, AdoptionHas DEF TellAdoption
  <2>2. FilesTyped'
    BY <1>7, <2>1 DEF TellAdoption, FilesTyped, truthFiles, deltaFiles
  <2>3. CommandsTyped'
    BY <1>7, ReturnTyped DEF TellAdoption, deltaFiles
  <2> QED
    BY <2>2, <2>3
<1> QED
  BY <1>1, <1>2, <1>3, <1>4, <1>5, <1>6, <1>7 DEF AdoptStep

LEMMA CutTyped == ASSUME Typed, NEW t \in Terminals, Cut(t) PROVE Typed'
<1>1. FilesTyped'
  BY DEF Cut, Typed, FilesTyped, truthFiles, deltaFiles, past
<1>2. CommandsTyped'
  BY ReturnTyped DEF Cut, Typed, deltaFiles
<1> QED
  BY <1>1, <1>2 DEF Typed

LEMMA StepTyped == ASSUME Typed, [Next]_vars PROVE Typed'
<1>1. CASE Next
  BY <1>1, EditTyped, RefreshTyped, AdoptTyped, ReviewTyped, CompareTyped, DecideTyped,
     TellTyped, AdoptStepTyped, CutTyped DEF Next
<1>2. CASE UNCHANGED vars
  BY <1>2 DEF vars, truthFiles, deltaFiles, past, Typed, FilesTyped, CommandsTyped, Doing
<1> QED
  BY <1>1, <1>2

\* Every file and every command of the evolution of the requirements is one
\* the program can have, for any documents, changes, terminals and commands.
THEOREM SourceTypeCorrect == Spec => []TypeOK
<1>1. Typed => TypeOK
  <2> SUFFICES ASSUME Typed PROVE TypeOK
    OBVIOUS
  <2>1. ASSUME NEW c \in Changes, diff[c] # None
        PROVE  /\ {diff[c].base, diff[c].shown} \subseteq Drafts
               /\ diff[c].items = Evolution(diff[c].base, diff[c].shown)
    BY <2>1 DEF Typed, FilesTyped, Diffs
  <2>2. ASSUME NEW c \in Changes
        PROVE  /\ \A i \in DOMAIN review[c] : i \in Items /\ review[c][i] \in Decision
               /\ told[c] \subseteq Items \X Actions
    BY RecordsHave DEF Typed, FilesTyped
  <2> QED
    BY <2>1, <2>2 DEF TypeOK, Typed, FilesTyped, Baselines
<1> QED
  BY <1>1, InitTyped, StepTyped, PTL DEF Spec

-----------------------------------------------------------------------------
(* The registry.                                                           *)

LEMMA InitialFollows ==
    ASSUME NEW d
    PROVE  LiveIn(InitialRegistry(d).status) = Ids(d)
BY DEF LiveIn, InitialRegistry, Ids, Live

LEMMA RegistryInit == Init => RegistryFollows
<1> SUFFICES ASSUME Init, lifecycle # None PROVE LiveIn(lifecycle.status) = Ids(lifecycle.snapshot)
  BY DEF RegistryFollows, LiveIn
<1>1. lifecycle = InitialRegistry(FirstDraft)
  BY DEF Init
<1> QED
  BY <1>1, InitialFollows DEF InitialRegistry

\* What the steps that are neither a decision nor an adoption's leave alone.
LEMMA OthersRead ==
    ASSUME [Next]_vars
    PROVE  \/ UNCHANGED <<truthFiles, review, told, toldLast, past>>
           \/ \E t \in Terminals : Decide(t) \/ Tell(t) \/ AdoptStep(t)
<1> DEFINE Left == UNCHANGED <<truthFiles, review, told, toldLast, past>>
<1>1. ASSUME NEW d \in Drafts, Edit(d) PROVE Left
  BY <1>1 DEF Edit, deltaFiles
<1>2. ASSUME NEW t \in Terminals, NEW c \in Changes, Refresh(t, c) \/ Adopt(t, c) PROVE Left
  BY <1>2 DEF Refresh, Adopt, deltaFiles
<1>3. ASSUME NEW t \in Terminals, NEW c \in Changes, NEW s \in Answers, NEW m \in Mappings,
             NEW i \in diff[c].items, Review(t, c, i, s, m)
      PROVE  Left
  BY <1>3 DEF Review, deltaFiles
<1>4. ASSUME NEW t \in Terminals, Compare(t) \/ Cut(t) PROVE Left
  BY <1>4 DEF Compare, Cut, deltaFiles
<1>5. ASSUME UNCHANGED vars PROVE Left
  BY <1>5 DEF vars, deltaFiles
<1> HIDE DEF Left
<1>6. Left \/ \E t \in Terminals : Decide(t) \/ Tell(t) \/ AdoptStep(t)
  BY <1>1, <1>2, <1>3, <1>4, <1>5 DEF Next
<1> QED
  BY <1>6 DEF Left

\* Only writing the registry changes it.
LEMMA RegistryStays ==
    ASSUME [Next]_vars, \A t \in Terminals : ~WriteLifecycle(t)
    PROVE  UNCHANGED <<lifecycle, sound>>
<1>1. ASSUME NEW t \in Terminals, Decide(t) \/ Tell(t) PROVE UNCHANGED <<lifecycle, sound>>
  BY <1>1 DEF Decide, Tell, truthFiles, past
<1>2. ASSUME NEW t \in Terminals, AdoptStep(t) PROVE UNCHANGED <<lifecycle, sound>>
  BY <1>2 DEF AdoptStep, WriteActive, WriteCompat, WriteBaseline, WriteReview, WriteRecord,
              TellAdoption, truthFiles
<1> QED
  BY <1>1, <1>2, OthersRead DEF truthFiles, past

LEMMA RegistryWritten ==
    ASSUME Typed, RegistryFollows, NEW t \in Terminals, WriteLifecycle(t)
    PROVE  RegistryFollows'
<1> DEFINE h == held[t]
           prior == Prior(h.from)
<1>1. /\ h.from \in Drafts /\ h.to \in Drafts /\ h.diff \in Diffs
      /\ h.record \in Records(Items)
  BY AdoptionHas DEF Typed, WriteLifecycle, Writing, AdoptSteps
<1>2. lifecycle' = Registry(prior, h.diff.items, h.record, h.to, h.on)
  BY DEF WriteLifecycle
<1>3. /\ lifecycle'.snapshot = h.to
      /\ lifecycle'.status = Applied(prior.status, h.diff.items, h.record)
  BY <1>2 DEF Registry
<1> SUFFICES ASSUME sound' PROVE LiveIn(lifecycle'.status) = Ids(lifecycle'.snapshot)
  BY DEF RegistryFollows, LiveIn
<1>4. sound /\ h.diff.base = prior.snapshot /\ h.diff.shown = h.to
      /\ ~Renamed(h.diff.items, h.record)
  BY DEF WriteLifecycle
<1>5. prior \in Registries
  BY <1>1, PriorTyped DEF Typed
<1>6. prior.status \in [Requirements -> Status] /\ prior.snapshot \in Drafts
  BY <1>5 DEF Registries
<1>7. LiveIn(prior.status) = Ids(prior.snapshot)
  <2>1. CASE lifecycle = None
    BY <2>1, InitialFollows DEF Prior, InitialRegistry
  <2>2. CASE lifecycle # None
    BY <2>2, <1>4 DEF Prior, RegistryFollows, LiveIn
  <2> QED
    BY <2>1, <2>2
<1>8. h.diff.items = Evolution(prior.snapshot, h.to)
  BY <1>1, <1>4 DEF Diffs
<1> HIDE DEF prior, h
<1>9. LiveIn(Applied(prior.status, h.diff.items, h.record)) = Ids(h.to)
  BY <1>1, <1>4, <1>6, <1>7, <1>8, RegistryMovesOn
<1> QED
  BY <1>3, <1>9

\* The registry follows the snapshot it is for: applying the differences the
\* program computes is right for every pair of documents and every history.
THEOREM RegistryAlwaysFollows == Spec => []RegistryFollows
<1>1. Typed /\ RegistryFollows /\ [Next]_vars => RegistryFollows'
  <2> SUFFICES ASSUME Typed, RegistryFollows, [Next]_vars PROVE RegistryFollows'
    OBVIOUS
  <2>1. CASE \A t \in Terminals : ~WriteLifecycle(t)
    BY <2>1, RegistryStays DEF RegistryFollows
  <2>2. CASE \E t \in Terminals : WriteLifecycle(t)
    BY <2>2, RegistryWritten
  <2> QED
    BY <2>1, <2>2
<1> QED
  BY <1>1, RegistryInit, InitTyped, StepTyped, PTL DEF Spec

-----------------------------------------------------------------------------
(* What was promoted.                                                      *)

\* The differences the last promotion rested on were all decided.
TruthDecided ==
    truth # None => Unresolved(Evolution(truth.base, truth.shown), truth.record) = {}

LEMMA TruthStays ==
    ASSUME [Next]_vars, \A t \in Terminals : ~WriteActive(t)
    PROVE  UNCHANGED truth
<1>1. ASSUME NEW t \in Terminals, Decide(t) \/ Tell(t) PROVE UNCHANGED truth
  BY <1>1 DEF Decide, Tell, past
<1>2. ASSUME NEW t \in Terminals, AdoptStep(t) PROVE UNCHANGED truth
  BY <1>2 DEF AdoptStep, WriteCompat, WriteLifecycle, WriteBaseline, WriteReview, WriteRecord,
              TellAdoption
<1> QED
  BY <1>1, <1>2, OthersRead DEF past

LEMMA TruthWritten ==
    ASSUME Typed, NEW t \in Terminals, WriteActive(t)
    PROVE  TruthDecided'
<1>1. held[t].diff \in Diffs /\ Unresolved(held[t].diff.items, held[t].record) = {}
  BY AdoptionHas DEF Typed, WriteActive, Writing, AdoptSteps
<1>2. held[t].diff.items = Evolution(held[t].diff.base, held[t].diff.shown)
  BY <1>1 DEF Diffs
<1>3. /\ truth'.base = held[t].diff.base /\ truth'.shown = held[t].diff.shown
      /\ truth'.record = held[t].record
  BY DEF WriteActive
<1> QED
  BY <1>1, <1>2, <1>3 DEF TruthDecided

LEMMA DecidedCovers == ASSUME TruthDecided PROVE AdoptionWasDecided
<1> SUFFICES ASSUME truth # None, truth.base = truth.from, truth.shown = truth.to,
                    NEW r \in Ids(truth.from) \cup Ids(truth.to),
                    Says(truth.from, r) # Says(truth.to, r)
             PROVE  \E i \in DOMAIN truth.record :
                        r \in i.from \cup i.to /\ truth.record[i].status # "rejected"
  BY DEF AdoptionWasDecided
<1>1. PICK i \in Evolution(truth.from, truth.to) : Blocking(i) /\ r \in i.from \cup i.to
  BY ChangesHaveItems
<1>2. i \in DOMAIN truth.record /\ truth.record[i].status \in Resolved
  BY <1>1 DEF TruthDecided, Unresolved
<1> QED
  BY <1>1, <1>2 DEF Resolved

\* Nothing that an adoption changes in the active snapshot went undecided, as
\* far as the differences were those between what it replaced and promoted.
THEOREM PromotionsWereDecided == Spec => []AdoptionWasDecided
<1>1. Init => TruthDecided
  BY DEF Init, TruthDecided
<1>2. Typed /\ TruthDecided /\ [Next]_vars => TruthDecided'
  <2> SUFFICES ASSUME Typed, TruthDecided, [Next]_vars PROVE TruthDecided'
    OBVIOUS
  <2>1. CASE \A t \in Terminals : ~WriteActive(t)
    BY <2>1, TruthStays DEF TruthDecided
  <2>2. CASE \E t \in Terminals : WriteActive(t)
    BY <2>2, TruthWritten
  <2> QED
    BY <2>1, <2>2
<1> QED
  BY <1>1, <1>2, DecidedCovers, InitTyped, StepTyped, PTL DEF Spec

-----------------------------------------------------------------------------
(* Decisions.                                                              *)

Recorded(record, i, s) == i \in DOMAIN record /\ s \in record[i].history

DecisionsKept ==
    \A c \in Changes \ overwritten : \A e \in told[c] : Recorded(review[c], e[1], e[2])

\* A decision that is written and not yet told is in the record.
DecisionsWritten ==
    \A t \in Terminals : pc[t] = "tell" /\ held[t].on \notin overwritten =>
        Recorded(review[held[t].on], held[t].item, held[t].status)

\* Whatever a step does to a record nobody overwrote, it keeps what is there.
ReviewGrows ==
    /\ overwritten \subseteq overwritten'
    /\ \A c \in Changes \ overwritten' : \A i, s :
          Recorded(review[c], i, s) => Recorded(review'[c], i, s)

LEMMA ReviewStays ==
    ASSUME [Next]_vars, \A t \in Terminals : ~Decide(t) /\ ~WriteReview(t)
    PROVE  UNCHANGED <<review, overwritten>>
<1>1. ASSUME NEW t \in Terminals, Tell(t) PROVE UNCHANGED <<review, overwritten>>
  BY <1>1 DEF Tell, past, deltaFiles
<1>2. ASSUME NEW t \in Terminals, AdoptStep(t) PROVE UNCHANGED <<review, overwritten>>
  BY <1>2 DEF AdoptStep, WriteActive, WriteCompat, WriteLifecycle, WriteBaseline, WriteRecord,
              TellAdoption, deltaFiles
<1> QED
  BY <1>1, <1>2, OthersRead DEF past

LEMMA DecideGrows ==
    ASSUME Typed, NEW t \in Terminals, Decide(t)
    PROVE  /\ ReviewGrows
           /\ held[t].on \notin overwritten' =>
                 Recorded(review'[held[t].on], held[t].item, held[t].status)
<1> DEFINE h == held[t]
<1>1. h \in Reviewing
  BY DEF Typed, CommandsTyped, Doing, Decide
<1>2. /\ h.on \in Changes /\ h.record \in Records(Items) /\ h.item \in Items
      /\ h.status \in Actions /\ h.maps \in Mappings /\ h.about \in Drafts
  BY <1>1 DEF Reviewing
<1>3. PICK d \in Decision :
          /\ d = Decided(h.record, h.item, h.status, h.maps, h.about)
          /\ h.status \in d.history
          /\ h.item \in DOMAIN h.record => h.record[h.item].history \subseteq d.history
  BY <1>2, DecidedIs
<1>4. PICK new :
          /\ new = Upsert(h.record, h.item, d)
          /\ DOMAIN new = DOMAIN h.record \cup {h.item}
          /\ new[h.item] = d
          /\ \A j \in DOMAIN h.record \ {h.item} : new[j] = h.record[j]
  <2>1. PICK record \in Records(Items), item \in Items :
            record = h.record /\ item = h.item
    BY <1>2
  <2>2. DecidesAlso(Upsert(record, item, d), record, item, d)
    BY UpsertIs
  <2> QED
    BY <2>1, <2>2 DEF DecidesAlso
<1>5. review' = [review EXCEPT ![h.on] = new]
  BY <1>3, <1>4 DEF Decide
<1>6. review'[h.on] = new /\ \A c \in Changes \ {h.on} : review'[c] = review[c]
  BY <1>2, <1>5 DEF Typed, FilesTyped
<1>7. /\ overwritten \subseteq overwritten'
      /\ h.on \notin overwritten' => review[h.on] = h.record
  BY DEF Decide, Overwrites
<1>8. \A i, s : Recorded(h.record, i, s) => Recorded(new, i, s)
  BY <1>3, <1>4 DEF Recorded
<1>9. Recorded(new, h.item, h.status)
  BY <1>3, <1>4 DEF Recorded
<1>10. ReviewGrows
  BY <1>6, <1>7, <1>8 DEF ReviewGrows
<1> QED
  BY <1>6, <1>9, <1>10

LEMMA WriteReviewGrows ==
    ASSUME Typed, NEW t \in Terminals, WriteReview(t)
    PROVE  ReviewGrows
<1>1. held[t].on \in Changes
  BY AdoptionHas DEF Typed, WriteReview, Writing, AdoptSteps
<1>2. review'[held[t].on] = held[t].record
      /\ \A c \in Changes \ {held[t].on} : review'[c] = review[c]
  BY <1>1 DEF WriteReview, Typed, FilesTyped
<1>3. /\ overwritten \subseteq overwritten'
      /\ held[t].on \notin overwritten' => review[held[t].on] = held[t].record
  BY DEF WriteReview, Overwrites
<1> QED
  BY <1>2, <1>3 DEF ReviewGrows

LEMMA StepGrows == ASSUME Typed, [Next]_vars PROVE ReviewGrows
<1>1. CASE \A t \in Terminals : ~Decide(t) /\ ~WriteReview(t)
  BY <1>1, ReviewStays DEF ReviewGrows
<1>2. CASE \E t \in Terminals : Decide(t)
  BY <1>2, DecideGrows, Zenon
<1>3. CASE \E t \in Terminals : WriteReview(t)
  BY <1>3, WriteReviewGrows, Zenon
<1> QED
  BY <1>1, <1>2, <1>3

\* Only these steps change what is told, and which terminals have it to tell.
LEMMA TellingStays ==
    ASSUME Typed, [Next]_vars, \A t \in Terminals : ~Tell(t)
    PROVE  UNCHANGED told
<1>1. ASSUME NEW t \in Terminals, Decide(t) PROVE UNCHANGED told
  BY <1>1 DEF Decide
<1>2. ASSUME NEW t \in Terminals, AdoptStep(t) PROVE UNCHANGED told
  BY <1>2 DEF AdoptStep, WriteActive, WriteCompat, WriteLifecycle, WriteBaseline, WriteReview,
              WriteRecord, TellAdoption, Writing
<1> QED
  BY <1>1, <1>2, OthersRead

\* A terminal that is to tell after a step decides in it, or was there before.
LEMMA TellersWere ==
    ASSUME Typed, [Next]_vars, NEW t \in Terminals, pc'[t] = "tell", ~Decide(t)
    PROVE  pc[t] = "tell" /\ held'[t] = held[t]
<1> USE DEF Typed, CommandsTyped
<1>1. CASE UNCHANGED vars
  BY <1>1 DEF vars
<1>2. CASE \E d \in Drafts : Edit(d)
  BY <1>2 DEF Edit
<1>3. ASSUME NEW u \in Terminals, NEW step, NEW h, step # "tell",
             pc' = [pc EXCEPT ![u] = step], held' = [held EXCEPT ![u] = h]
      PROVE  pc[t] = "tell" /\ held'[t] = held[t]
  BY <1>3
<1>4. ASSUME NEW u \in Terminals,
             \/ \E c \in Changes : Refresh(u, c) \/ Adopt(u, c)
             \/ \E c \in Changes, s \in Answers, m \in Mappings : \E i : Review(u, c, i, s, m)
             \/ Compare(u) \/ Tell(u) \/ TellAdoption(u) \/ Cut(u)
      PROVE  pc[t] = "tell" /\ held'[t] = held[t]
  <2>1. \E step, h : /\ step # "tell" /\ pc' = [pc EXCEPT ![u] = step]
                     /\ held' = [held EXCEPT ![u] = h]
    BY <1>4, Zenon DEF Refresh, Adopt, Review, Compare, Tell, TellAdoption, Cut, Return, Goto,
                       Hold
  <2> QED
    BY <2>1, <1>3
<1>5. ASSUME NEW u \in Terminals, Decide(u) PROVE pc[t] = "tell" /\ held'[t] = held[t]
  BY <1>5 DEF Decide, Goto
<1>6. ASSUME NEW u \in Terminals, NEW step \in AdoptSteps, NEW next \in AdoptSteps,
             NEW version, Writing(u, step, next, version)
      PROVE  pc[t] = "tell" /\ held'[t] = held[t]
  <2>1. pc' = [pc EXCEPT ![u] = next] /\ pc[u] = step
    BY <1>6 DEF Writing, Goto
  <2>2. u # t /\ pc[t] = "tell"
    BY <2>1 DEF AdoptSteps
  <2>3. ~Adopting(t)
    BY <2>2, OnlyAdoptionsAdopt DEF AdoptSteps
  <2> QED
    BY <1>6, <2>2, <2>3 DEF Writing
<1>7. ASSUME NEW u \in Terminals, AdoptStep(u), ~TellAdoption(u)
      PROVE  \E step \in AdoptSteps, next \in AdoptSteps : \E version : Writing(u, step, next, version)
  BY <1>7, Zenon DEF AdoptStep, WriteActive, WriteCompat, WriteLifecycle, WriteBaseline, WriteReview,
              WriteRecord, AdoptSteps
<1>8. CASE Next
  BY <1>2, <1>4, <1>5, <1>6, <1>7, <1>8, Zenon DEF Next
<1> QED
  BY <1>1, <1>8

LEMMA DecisionsGoOn ==
    ASSUME Typed, DecisionsKept, DecisionsWritten, [Next]_vars
    PROVE  DecisionsKept' /\ DecisionsWritten'
<1>1. ReviewGrows
  BY StepGrows
<1>2. DecisionsKept'
  <2>1. CASE \A t \in Terminals : ~Tell(t)
    BY <1>1, <2>1, TellingStays DEF DecisionsKept, ReviewGrows
  <2>2. ASSUME NEW t \in Terminals, Tell(t) PROVE DecisionsKept'
    <3>1. /\ told' = [told EXCEPT ![held[t].on] = @ \cup {<<held[t].item, held[t].status>>}]
          /\ pc[t] = "tell" /\ UNCHANGED <<review, overwritten>>
      BY <2>2 DEF Tell, deltaFiles, past
    <3>2. held[t].on \in Changes
      BY <3>1 DEF Typed, CommandsTyped, Doing, Reviewing
    <3>3. ASSUME NEW c \in Changes \ overwritten, NEW e \in told'[c]
          PROVE  Recorded(review[c], e[1], e[2])
      <4>1. CASE e \in told[c]
        BY <4>1, <3>3 DEF DecisionsKept
      <4>2. CASE e \notin told[c]
        <5>1. c = held[t].on /\ e = <<held[t].item, held[t].status>>
          BY <4>2, <3>1, <3>2, <3>3 DEF Typed, FilesTyped
        <5>2. Recorded(review[held[t].on], held[t].item, held[t].status)
          BY <3>1, <3>3, <5>1 DEF DecisionsWritten
        <5> QED
          BY <5>1, <5>2
      <4> QED
        BY <4>1, <4>2
    <3> QED
      BY <3>1, <3>3 DEF DecisionsKept
  <2> QED
    BY <2>1, <2>2
<1>3. DecisionsWritten'
  <2> SUFFICES ASSUME NEW t \in Terminals, pc'[t] = "tell", held'[t].on \notin overwritten'
               PROVE  Recorded(review'[held'[t].on], held'[t].item, held'[t].status)
    BY DEF DecisionsWritten
  <2>1. CASE Decide(t)
    BY <2>1, DecideGrows DEF Decide
  <2>2. CASE ~Decide(t)
    <3>1. pc[t] = "tell" /\ held'[t] = held[t]
      BY <2>2, TellersWere
    <3>2. held[t].on \in Changes
      BY <3>1 DEF Typed, CommandsTyped, Doing, Reviewing
    <3>3. held[t].on \notin overwritten
      BY <1>1, <3>1 DEF ReviewGrows
    <3>4. Recorded(review[held[t].on], held[t].item, held[t].status)
      BY <3>1, <3>3 DEF DecisionsWritten
    <3> QED
      BY <1>1, <3>1, <3>2, <3>4 DEF ReviewGrows
  <2> QED
    BY <2>1, <2>2
<1> QED
  BY <1>2, <1>3

\* No later decision, refresh or adoption takes a told decision out of the
\* record, unless a command wrote it from a copy older than the file.
THEOREM DecisionsAlwaysStand == Spec => []DecisionStands
<1>1. Init => DecisionsKept /\ DecisionsWritten
  BY DEF Init, DecisionsKept, DecisionsWritten
<1>2. DecisionsKept => DecisionStands
  BY DEF DecisionsKept, DecisionStands, Recorded
<1> QED
  BY <1>1, <1>2, DecisionsGoOn, InitTyped, StepTyped, PTL DEF Spec

-----------------------------------------------------------------------------
(* The files of truth.                                                     *)

\* What an adoption no other one wrote beside has left at each step.
Promoted(t) ==
    pc[t] \in AdoptSteps \ {"active"} => active = held[t].to

Mirrored(t) ==
    pc[t] \in AdoptSteps \ {"active", "compat"} => compat = held[t].to

Registered(t) ==
    pc[t] \in {"baseline", "review", "record", "announce"} =>
        /\ lifecycle # None
        /\ lifecycle.snapshot = held[t].to
        /\ lifecycle.version = held[t].version
        /\ lifecycle.last = held[t].on

Based(t) ==
    pc[t] \in {"review", "record", "announce"} =>
        /\ baseline.snapshot = held[t].to
        /\ baseline.version = held[t].version
        /\ baseline.last = held[t].on
        /\ held[t].on \in baseline.applied

Noted(t) == pc[t] = "announce" => adoption[held[t].on] # "draft"

WrittenBy(t) == Promoted(t) /\ Mirrored(t) /\ Registered(t) /\ Based(t) /\ Noted(t)

AdoptionsWrite ==
    \A t \in Terminals : pc[t] \in AdoptSteps /\ held[t].alone => WrittenBy(t)

\* Only an adoption's steps change the files of truth.
LEMMA TruthFilesStay ==
    ASSUME [Next]_vars, \A t \in Terminals : ~AdoptStep(t)
    PROVE  UNCHANGED <<truthFiles, torn, toldLast>>
<1>1. ASSUME NEW t \in Terminals, Decide(t) \/ Tell(t)
      PROVE  UNCHANGED <<truthFiles, torn, toldLast>>
  BY <1>1 DEF Decide, Tell, past
<1> QED
  BY <1>1, OthersRead DEF past

\* An adoption that did not write stands where it stood, or has just started.
LEMMA AdoptionsWere ==
    ASSUME Typed, [Next]_vars, \A u \in Terminals : ~AdoptStep(u),
           NEW t \in Terminals, pc'[t] \in AdoptSteps, pc'[t] # "active"
    PROVE  pc'[t] = pc[t] /\ held'[t] = held[t]
<1> USE DEF Typed, CommandsTyped
<1>1. CASE UNCHANGED vars
  BY <1>1 DEF vars
<1>2. CASE \E d \in Drafts : Edit(d)
  BY <1>2 DEF Edit
<1>3. ASSUME NEW u \in Terminals, NEW step, NEW h, step \notin AdoptSteps \ {"active"},
             pc' = [pc EXCEPT ![u] = step], held' = [held EXCEPT ![u] = h]
      PROVE  pc'[t] = pc[t] /\ held'[t] = held[t]
  BY <1>3
<1>4. ASSUME NEW u \in Terminals,
             \/ \E c \in Changes : Refresh(u, c) \/ Adopt(u, c)
             \/ \E c \in Changes, s \in Answers, m \in Mappings : \E i : Review(u, c, i, s, m)
             \/ Compare(u) \/ Tell(u) \/ Cut(u)
      PROVE  pc'[t] = pc[t] /\ held'[t] = held[t]
  <2>1. \E step, h : /\ step = "idle" \/ step = "compare" \/ step = "decide" \/ step = "active"
                     /\ pc' = [pc EXCEPT ![u] = step]
                     /\ held' = [held EXCEPT ![u] = h]
    BY <1>4, Zenon DEF Refresh, Adopt, Review, Compare, Tell, Cut, Return, Goto, Hold
  <2> QED
    BY <2>1, <1>3 DEF AdoptSteps
<1>5. ASSUME NEW u \in Terminals, Decide(u) PROVE pc'[t] = pc[t] /\ held'[t] = held[t]
  BY <1>5 DEF Decide, Goto, AdoptSteps
<1>6. CASE Next
  BY <1>2, <1>4, <1>5, <1>6, Zenon DEF Next
<1> QED
  BY <1>1, <1>6

\* Where an adoption stands after it has written a file.
LEMMA OneWrites ==
    ASSUME Typed, NEW t \in Terminals, NEW step \in AdoptSteps, NEW next \in AdoptSteps,
           NEW version \in Nat, Writing(t, step, next, version)
    PROVE  /\ pc[t] = step /\ pc'[t] = next
           /\ held'[t].on = held[t].on /\ held'[t].to = held[t].to
           /\ held'[t].version = version
<1>1. HeldMoves(t, version)
  BY WritingMoves DEF Typed
<1>2. pc' = [pc EXCEPT ![t] = next] /\ pc[t] = step
  BY DEF Writing, Goto
<1>3. pc'[t] = next
  BY <1>2 DEF Typed, CommandsTyped
<1>4. held'[t].on = held[t].on /\ held'[t].to = held[t].to
  BY <1>1, <1>2 DEF HeldMoves
<1>5. held'[t].version = version
  BY <1>1, Zenon DEF HeldMoves
<1> QED
  BY <1>2, <1>3, <1>4, <1>5

\* No other adoption is alone then.
LEMMA OthersAreNot ==
    ASSUME Typed, NEW t \in Terminals, NEW step \in AdoptSteps, NEW next \in AdoptSteps,
           NEW version \in Nat, Writing(t, step, next, version)
    PROVE  /\ \A u \in Terminals \ {t} : pc'[u] \in AdoptSteps => ~held'[u].alone
           /\ held'[t].alone <=> held[t].alone
<1>1. HeldMoves(t, version)
  BY WritingMoves DEF Typed
<1>2. \A u \in Terminals \ {t} : pc'[u] = pc[u]
  BY DEF Writing, Goto, Typed, CommandsTyped
<1>3. \A u \in Terminals \ {t} : pc[u] \in AdoptSteps => ~held'[u].alone
  BY <1>1, Zenon DEF HeldMoves
<1>4. held'[t].alone <=> held[t].alone
  BY <1>1, Zenon DEF HeldMoves
<1> QED
  BY <1>2, <1>3, <1>4, Zenon

\* So it is enough to see what it left itself.
LEMMA AloneLeft ==
    ASSUME Typed, AdoptionsWrite,
           NEW t \in Terminals, NEW step \in AdoptSteps, NEW next \in AdoptSteps,
           NEW version \in Nat, Writing(t, step, next, version),
           WrittenBy(t) => WrittenBy(t)'
    PROVE  AdoptionsWrite' /\ FilesAgree'
<1>1. /\ \A u \in Terminals \ {t} : pc'[u] \in AdoptSteps => ~held'[u].alone
      /\ held'[t].alone <=> held[t].alone
  BY OthersAreNot, Zenon
<1>2. pc[t] \in AdoptSteps /\ torn' = TRUE
  BY DEF Writing
<1>3. ASSUME NEW u \in Terminals, pc'[u] \in AdoptSteps, held'[u].alone
      PROVE  WrittenBy(u)'
  <2>1. u = t
    BY <1>1, <1>3, Zenon
  <2>2. held[t].alone
    BY <1>1, <1>3, <2>1, Zenon
  <2>3. WrittenBy(t)
    BY <1>2, <2>2, Zenon DEF AdoptionsWrite
  <2> QED
    BY <2>1, <2>3
<1>4. FilesAgree'
  BY <1>2 DEF FilesAgree
<1> QED
  BY <1>3, <1>4, Zenon DEF AdoptionsWrite

LEMMA WriteLeaves ==
    ASSUME Typed, AdoptionsWrite, NEW t \in Terminals, AdoptStep(t), ~TellAdoption(t)
    PROVE  AdoptionsWrite' /\ FilesAgree'
<1>0. /\ "active" \in AdoptSteps /\ "compat" \in AdoptSteps /\ "lifecycle" \in AdoptSteps
      /\ "baseline" \in AdoptSteps /\ "review" \in AdoptSteps /\ "record" \in AdoptSteps
      /\ "announce" \in AdoptSteps
  BY DEF AdoptSteps
<1>has. ASSUME pc[t] \in AdoptSteps
        PROVE  /\ held[t].on \in Changes /\ held[t].from \in Drafts /\ held[t].to \in Drafts
               /\ held[t].diff \in Diffs /\ held[t].record \in Records(Items)
               /\ held[t].version \in Nat
  BY <1>has, AdoptionHas DEF Typed
<1>1. CASE WriteActive(t)
  <2>1. Writing(t, "active", "compat", 0) /\ active' = held[t].to
    BY <1>1 DEF WriteActive
  <2>2. pc'[t] = "compat" /\ held'[t].to = held[t].to
    BY <1>0, <2>1, OneWrites
  <2>3. WrittenBy(t)'
    BY <2>1, <2>2 DEF WrittenBy, Promoted, Mirrored, Registered, Based, Noted
  <2> QED
    BY <1>0, <2>1, <2>3, AloneLeft
<1>2. CASE WriteCompat(t)
  <2>1. Writing(t, "compat", "lifecycle", 0) /\ compat' = held[t].to /\ active' = active
    BY <1>2 DEF WriteCompat
  <2>2. pc[t] = "compat" /\ pc'[t] = "lifecycle" /\ held'[t].to = held[t].to
    BY <1>0, <2>1, OneWrites
  <2>3. WrittenBy(t) => WrittenBy(t)'
    BY <1>0, <2>1, <2>2 DEF WrittenBy, Promoted, Mirrored, Registered, Based, Noted
  <2> QED
    BY <1>0, <2>1, <2>3, AloneLeft
<1>3. CASE WriteLifecycle(t)
  <2>1. PICK prior : /\ prior = Prior(held[t].from)
                     /\ Writing(t, "lifecycle", "baseline", prior.version + 1)
                     /\ lifecycle' = Registry(prior, held[t].diff.items, held[t].record,
                                              held[t].to, held[t].on)
                     /\ UNCHANGED <<active, compat>>
    BY <1>3 DEF WriteLifecycle
  <2>2. pc[t] = "lifecycle"
    BY <2>1 DEF Writing
  <2>3. prior \in Registries
    BY <1>0, <1>has, <2>1, <2>2, PriorTyped DEF Typed
  <2>4. prior.version + 1 \in Nat
    BY <2>3 DEF Registries
  <2>5. held[t].diff.items \in SUBSET Items
    BY <1>0, <1>has, <2>2 DEF Diffs
  <2>6. lifecycle' \in Registries
    BY <1>0, <1>has, <2>1, <2>2, <2>3, <2>5, RegistryTyped
  <2>7. lifecycle' # None
    BY <2>6, NoneAssumption
  <2>8. /\ lifecycle'.snapshot = held[t].to /\ lifecycle'.version = prior.version + 1
        /\ lifecycle'.last = held[t].on
    BY <2>1 DEF Registry
  <2>9. /\ pc'[t] = "baseline" /\ held'[t].to = held[t].to /\ held'[t].on = held[t].on
        /\ held'[t].version = prior.version + 1
    BY <1>0, <2>1, <2>4, OneWrites
  <2>10. WrittenBy(t) => WrittenBy(t)'
    BY <1>0, <2>1, <2>2, <2>7, <2>8, <2>9
       DEF WrittenBy, Promoted, Mirrored, Registered, Based, Noted
  <2> QED
    BY <1>0, <2>1, <2>4, <2>10, AloneLeft
<1>4. CASE WriteBaseline(t)
  <2>1. /\ Writing(t, "baseline", "review", held[t].version)
        /\ baseline' = NewBaseline(held[t]) /\ UNCHANGED <<active, compat, lifecycle>>
    BY <1>4 DEF WriteBaseline
  <2>2. pc[t] = "baseline" /\ held[t].version \in Nat
    BY <1>0, <1>has, <2>1 DEF Writing
  <2>3. /\ pc'[t] = "review" /\ held'[t].to = held[t].to /\ held'[t].on = held[t].on
        /\ held'[t].version = held[t].version
    BY <1>0, <2>1, <2>2, OneWrites
  <2>4. WrittenBy(t) => WrittenBy(t)'
    BY <1>0, <2>1, <2>2, <2>3
       DEF WrittenBy, Promoted, Mirrored, Registered, Based, Noted, NewBaseline
  <2> QED
    BY <1>0, <2>1, <2>2, <2>4, AloneLeft
<1>5. CASE WriteReview(t)
  <2>1. Writing(t, "review", "record", held[t].version) /\ UNCHANGED truthFiles
    BY <1>5 DEF WriteReview
  <2>2. pc[t] = "review" /\ held[t].version \in Nat
    BY <1>0, <1>has, <2>1 DEF Writing
  <2>3. /\ pc'[t] = "record" /\ held'[t].to = held[t].to /\ held'[t].on = held[t].on
        /\ held'[t].version = held[t].version
    BY <1>0, <2>1, <2>2, OneWrites
  <2>4. WrittenBy(t) => WrittenBy(t)'
    BY <1>0, <2>1, <2>2, <2>3
       DEF WrittenBy, Promoted, Mirrored, Registered, Based, Noted, truthFiles
  <2> QED
    BY <1>0, <2>1, <2>2, <2>4, AloneLeft
<1>6. CASE WriteRecord(t)
  <2>1. /\ Writing(t, "record", "announce", held[t].version)
        /\ adoption' = RecordAdopted(held[t].on)
        /\ UNCHANGED <<active, compat, lifecycle, baseline>>
    BY <1>6 DEF WriteRecord
  <2>2. pc[t] = "record" /\ held[t].version \in Nat /\ held[t].on \in Changes
    BY <1>0, <1>has, <2>1 DEF Writing
  <2>3. /\ pc'[t] = "announce" /\ held'[t].to = held[t].to /\ held'[t].on = held[t].on
        /\ held'[t].version = held[t].version
    BY <1>0, <2>1, <2>2, OneWrites
  <2>4. adoption'[held[t].on] # "draft"
    BY <2>1, <2>2 DEF RecordAdopted, Typed, FilesTyped
  <2>5. WrittenBy(t) => WrittenBy(t)'
    BY <1>0, <2>1, <2>2, <2>3, <2>4
       DEF WrittenBy, Promoted, Mirrored, Registered, Based, Noted
  <2> QED
    BY <1>0, <2>1, <2>2, <2>5, AloneLeft
<1> QED
  BY <1>1, <1>2, <1>3, <1>4, <1>5, <1>6 DEF AdoptStep

\* The audit event closes an adoption.
LEMMA TellCloses ==
    ASSUME Typed, AdoptionsWrite, NEW t \in Terminals, TellAdoption(t)
    PROVE  AdoptionsWrite' /\ FilesAgree'
<1>1. /\ pc[t] = "announce" /\ pc[t] \in AdoptSteps /\ toldLast' = held[t].on
      /\ torn' = ~held[t].alone /\ UNCHANGED truthFiles
      /\ pc' = [pc EXCEPT ![t] = "idle"] /\ held' = [held EXCEPT ![t] = Idle]
  BY DEF TellAdoption, Return, Goto, Hold, AdoptSteps
<1>2. /\ pc'[t] = "idle"
      /\ \A u \in Terminals \ {t} : pc'[u] = pc[u] /\ held'[u] = held[u]
  BY <1>1 DEF Typed, CommandsTyped
<1>3. AdoptionsWrite'
  <2> SUFFICES ASSUME NEW u \in Terminals, pc'[u] \in AdoptSteps, held'[u].alone
               PROVE  WrittenBy(u)'
    BY DEF AdoptionsWrite
  <2>1. u # t
    BY <1>2 DEF AdoptSteps
  <2>2. pc'[u] = pc[u] /\ held'[u] = held[u]
    BY <1>2, <2>1
  <2>3. WrittenBy(u)
    BY <2>2 DEF AdoptionsWrite
  <2> QED
    BY <1>1, <2>2, <2>3
       DEF WrittenBy, Promoted, Mirrored, Registered, Based, Noted, truthFiles
<1>4. ASSUME ~torn' PROVE FilesAgree'
  <2>1. held[t].alone
    BY <1>1, <1>4, Zenon
  <2>2. WrittenBy(t)
    BY <1>1, <2>1, Zenon DEF AdoptionsWrite
  <2>3. /\ active' = held[t].to /\ compat' = held[t].to
        /\ lifecycle' # None /\ lifecycle'.snapshot = held[t].to
        /\ lifecycle'.version = held[t].version /\ lifecycle'.last = held[t].on
        /\ baseline'.snapshot = held[t].to /\ baseline'.version = held[t].version
        /\ baseline'.last = held[t].on /\ held[t].on \in baseline'.applied
        /\ adoption'[held[t].on] # "draft"
    BY <1>1, <2>2
       DEF WrittenBy, Promoted, Mirrored, Registered, Based, Noted, truthFiles, AdoptSteps
  <2> QED
    BY <1>1, <2>3 DEF FilesAgree
<1>5. FilesAgree'
  BY <1>4 DEF FilesAgree
<1> QED
  BY <1>3, <1>5

\* The six files agree after every adoption that ran alone to its end.
THEOREM FilesAlwaysAgree == Spec => []FilesAgree
<1>1. Init => AdoptionsWrite /\ FilesAgree
  <2> SUFFICES ASSUME Init PROVE AdoptionsWrite /\ FilesAgree
    OBVIOUS
  <2>1. AdoptionsWrite
    BY DEF Init, AdoptionsWrite, AdoptSteps
  <2>2. ASSUME ~torn PROVE FilesAgree
    <3>1. /\ active = FirstDraft /\ compat = FirstDraft
          /\ lifecycle = InitialRegistry(FirstDraft)
          /\ baseline.snapshot = FirstDraft /\ baseline.version = 1 /\ baseline.last = None
          /\ toldLast = None
      BY <2>2 DEF Init
    <3>2. InitialRegistry(FirstDraft) \in Registries
      BY SourceAssumption DEF InitialRegistry, Registries, Status, Live, Ids
    <3>3. lifecycle # None
      BY <3>1, <3>2, NoneAssumption
    <3>4. /\ lifecycle.snapshot = FirstDraft /\ lifecycle.version = 1 /\ lifecycle.last = None
      BY <3>1 DEF InitialRegistry
    <3> QED
      BY <3>1, <3>3, <3>4 DEF FilesAgree
  <2> QED
    BY <2>1, <2>2 DEF FilesAgree
<1>2. Typed /\ AdoptionsWrite /\ FilesAgree /\ [Next]_vars => AdoptionsWrite' /\ FilesAgree'
  <2> SUFFICES ASSUME Typed, AdoptionsWrite, FilesAgree, [Next]_vars
               PROVE  AdoptionsWrite' /\ FilesAgree'
    OBVIOUS
  <2>1. CASE \A u \in Terminals : ~AdoptStep(u)
    <3>1. UNCHANGED <<truthFiles, torn, toldLast>>
      BY <2>1, TruthFilesStay
    <3>2. FilesAgree'
      BY <3>1 DEF FilesAgree, truthFiles
    <3>3. ASSUME NEW t \in Terminals, pc'[t] \in AdoptSteps, held'[t].alone
          PROVE  WrittenBy(t)'
      <4>1. CASE pc'[t] = "active"
        BY <4>1 DEF WrittenBy, Promoted, Mirrored, Registered, Based, Noted
      <4>2. CASE pc'[t] # "active"
        <5>1. pc'[t] = pc[t] /\ held'[t] = held[t]
          BY <2>1, <3>3, <4>2, AdoptionsWere
        <5>2. WrittenBy(t)
          BY <3>3, <5>1 DEF AdoptionsWrite
        <5> QED
          BY <3>1, <5>1, <5>2
             DEF WrittenBy, Promoted, Mirrored, Registered, Based, Noted, truthFiles
      <4> QED
        BY <4>1, <4>2
    <3> QED
      BY <3>2, <3>3 DEF AdoptionsWrite
  <2>2. CASE \E u \in Terminals : AdoptStep(u)
    BY <2>2, WriteLeaves, TellCloses
  <2> QED
    BY <2>1, <2>2
<1> QED
  BY <1>1, <1>2, InitTyped, StepTyped, PTL DEF Spec
=============================================================================
