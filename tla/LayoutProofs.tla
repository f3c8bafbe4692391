---------------------------- MODULE LayoutProofs ----------------------------
(***************************************************************************)
(* The graph over a layout, for every set of layouts, elements to add and  *)
(* layout ids: however often it is edited, its indices and lists are those *)
(* a rebuild gives, and no reference is left open.                         *)
(*                                                                         *)
(* Below: what the edits of a sequence do to its domain; what the changes  *)
(* of a LIF do to the places of its elements; what they do to an index;    *)
(* what they do to the bags of edges and stations; then the invariant, one *)
(* lemma for each mutation, and the theorems.                              *)
(***************************************************************************)
EXTENDS LayoutGraph, FiniteSetTheorems, WellFoundedInduction, TLAPS

(* The sequences of a LIF, and what append and swap-and-pop make of one.   *)
LEMMA SeqShape ==
  ASSUME NEW s, IsSeq(s)
  PROVE  /\ Len(s) \in Nat
         /\ DOMAIN s = 1 .. Len(s)
         /\ s = [j \in 1 .. Len(s) |-> s[j]]
BY DEF IsSeq

LEMMA FunctionIsSeq ==
  ASSUME NEW n \in Nat, NEW s, s = [j \in 1 .. n |-> s[j]]
  PROVE  IsSeq(s) /\ Len(s) = n /\ DOMAIN s = 1 .. n
<1>1. s \in [1 .. n -> Elements(s)]
  BY DEF Elements
<1> QED
  BY <1>1 DEF IsSeq

LEMMA AppendShape ==
  ASSUME NEW s, IsSeq(s), NEW x
  PROVE  /\ IsSeq(Append(s, x))
         /\ Len(Append(s, x)) = Len(s) + 1
         /\ DOMAIN Append(s, x) = DOMAIN s \cup {Len(s) + 1}
         /\ Append(s, x)[Len(s) + 1] = x
         /\ Len(s) + 1 \notin DOMAIN s
         /\ \A j \in DOMAIN s : Append(s, x)[j] = s[j]
<1> DEFINE S == Elements(s) \cup {x}
<1>1. s \in Seq(S) /\ x \in S
  BY DEF IsSeq, Elements
<1>2. /\ Append(s, x) \in Seq(S)
      /\ Len(Append(s, x)) = Len(s) + 1
      /\ Append(s, x)[Len(s) + 1] = x
      /\ \A j \in 1 .. Len(s) : Append(s, x)[j] = s[j]
  BY <1>1
<1>3. Append(s, x) = [j \in 1 .. Len(s) + 1 |-> Append(s, x)[j]]
  <2>1. \A q \in Seq(S) : q = [j \in 1 .. Len(q) |-> q[j]]
    OBVIOUS
  <2> QED
    BY ONLY <2>1, <1>2
<1>4. Len(s) \in Nat /\ DOMAIN s = 1 .. Len(s)
  BY SeqShape
<1> HIDE DEF S
<1>5. Len(s) + 1 \in Nat
  BY <1>4
<1>6. IsSeq(Append(s, x)) /\ DOMAIN Append(s, x) = 1 .. Len(s) + 1
  BY ONLY <1>3, <1>5, FunctionIsSeq
<1>7. 1 .. Len(s) + 1 = DOMAIN s \cup {Len(s) + 1} /\ Len(s) + 1 \notin DOMAIN s
  BY <1>4
<1> QED
  BY <1>2, <1>4, <1>6, <1>7

LEMMA EraseShape ==
  ASSUME NEW s, IsSeq(s), NEW k \in DOMAIN s
  PROVE  /\ IsSeq(EraseAt(s, k))
         /\ DOMAIN EraseAt(s, k) = DOMAIN s \ {Len(s)}
         /\ Len(s) \in DOMAIN s
         /\ \A j \in DOMAIN EraseAt(s, k) :
              EraseAt(s, k)[j] = IF j = k THEN s[Len(s)] ELSE s[j]
<1>1. Len(s) \in Nat /\ DOMAIN s = 1 .. Len(s)
  BY SeqShape
<1>2. EraseAt(s, k) = [j \in 1 .. Len(s) - 1 |-> EraseAt(s, k)[j]]
  BY DEF EraseAt
<1>3. Len(s) - 1 \in Nat
  BY <1>1
<1> QED
  BY <1>1, <1>2, <1>3, FunctionIsSeq DEF EraseAt

-----------------------------------------------------------------------------
(* The places of the elements of a list.                                   *)
LEMMA PlaceIn ==
  ASSUME NEW lif, NEW list, NEW i, NEW j
  PROVE  <<i, j>> \in Places(lif, list)
           <=> i \in DOMAIN lif.layouts /\ j \in DOMAIN lif.layouts[i][list]
BY DEF Places

LEMMA PlaceIsPair ==
  ASSUME NEW lif, NEW list, NEW p \in Places(lif, list)
  PROVE  /\ p = <<p[1], p[2]>>
         /\ p[1] \in DOMAIN lif.layouts
         /\ p[2] \in DOMAIN lif.layouts[p[1]][list]
BY DEF Places

(* A LIF with one list of one layout assigned to.                          *)
ListSet(lif, i, list, s) == [lif EXCEPT !.layouts[i][list] = s]

SameList(lif1, lif2, list) ==
  /\ Places(lif1, list) = Places(lif2, list)
  /\ \A p \in Places(lif1, list) : At(lif1, list, p) = At(lif2, list, p)
  /\ DOMAIN lif1.layouts = DOMAIN lif2.layouts

SameIds(lif1, lif2) ==
  /\ DOMAIN lif1.layouts = DOMAIN lif2.layouts
  /\ \A i \in DOMAIN lif1.layouts : lif1.layouts[i].layoutId = lif2.layouts[i].layoutId

LEMMA ListSetShape ==
  ASSUME NEW lif, IsLif(lif), NEW i \in DOMAIN lif.layouts, NEW list \in ElementLists,
         NEW s, IsSeq(s), \A j \in DOMAIN s : IsElement(list, s[j])
  PROVE  LET set == ListSet(lif, i, list, s)
         IN /\ IsLif(set)
            /\ SameIds(set, lif)
            /\ set.layouts[i][list] = s
            /\ \A k \in DOMAIN lif.layouts, l \in ElementLists :
                 k # i \/ l # list => set.layouts[k][l] = lif.layouts[k][l]
<1> DEFINE set == ListSet(lif, i, list, s)
           row == [lif.layouts[i] EXCEPT ![list] = s]
<1>1. /\ lif = [k \in DOMAIN lif |-> lif[k]]
      /\ "layouts" \in DOMAIN lif
      /\ IsSeq(lif.layouts)
      /\ lif.layouts[i] = [k \in DOMAIN lif.layouts[i] |-> lif.layouts[i][k]]
      /\ {"layoutId"} \cup ElementLists \subseteq DOMAIN lif.layouts[i]
  BY DEF IsLif, HasFields
<1>2. set.layouts = [lif.layouts EXCEPT ![i] = row] /\ HasFields(set, {"layouts"})
  BY <1>1 DEF ListSet, HasFields
<1>3. /\ DOMAIN set.layouts = DOMAIN lif.layouts
      /\ set.layouts[i] = row
      /\ \A k \in DOMAIN lif.layouts : k # i => set.layouts[k] = lif.layouts[k]
  BY <1>1, <1>2, SeqShape
<1>4. IsSeq(set.layouts)
  <2>1. set.layouts = [j \in 1 .. Len(lif.layouts) |-> set.layouts[j]]
    BY <1>1, <1>2, SeqShape
  <2> QED
    BY ONLY <2>1, <1>1, SeqShape, FunctionIsSeq
<1>5. /\ row[list] = s
      /\ DOMAIN row = DOMAIN lif.layouts[i]
      /\ \A l \in DOMAIN row : l # list => row[l] = lif.layouts[i][l]
      /\ row = [k \in DOMAIN row |-> row[k]]
  BY <1>1
<1>6. list # "layoutId"
  BY DEF ElementLists
<1> HIDE DEF row, set
<1>7. SameIds(set, lif)
  BY <1>1, <1>3, <1>5, <1>6 DEF SameIds
<1>8. \A k \in DOMAIN lif.layouts, l \in ElementLists :
        k # i \/ l # list => set.layouts[k][l] = lif.layouts[k][l]
  BY <1>1, <1>3, <1>5
<1>9. \A k \in DOMAIN set.layouts : HasFields(set.layouts[k], {"layoutId"} \cup ElementLists)
  BY <1>1, <1>3, <1>5 DEF IsLif, HasFields
<1>10. \A k \in DOMAIN set.layouts, l \in ElementLists :
         /\ IsSeq(set.layouts[k][l])
         /\ \A j \in DOMAIN set.layouts[k][l] : IsElement(l, set.layouts[k][l][j])
  <2> SUFFICES ASSUME NEW k \in DOMAIN set.layouts, NEW l \in ElementLists
               PROVE  /\ IsSeq(set.layouts[k][l])
                      /\ \A j \in DOMAIN set.layouts[k][l] :
                           IsElement(l, set.layouts[k][l][j])
    OBVIOUS
  <2>1. CASE k = i /\ l = list
    BY <2>1, <1>3, <1>5
  <2>2. CASE k # i \/ l # list
    BY <2>2, <1>8, <1>3 DEF IsLif
  <2> QED
    BY <2>1, <2>2
<1> QED
  BY <1>2, <1>3, <1>4, <1>5, <1>7, <1>8, <1>9, <1>10 DEF IsLif, set

-----------------------------------------------------------------------------
(* What the three ways to change a LIF do to the places of a list.         *)

OnlyList(new, lif, list) ==
  /\ IsLif(new)
  /\ SameIds(new, lif)
  /\ \A l \in ElementLists : l # list => SameList(new, lif, l)

Grown(new, lif, list, end, x) ==
  /\ Places(new, list) = Places(lif, list) \cup {end}
  /\ end \notin Places(lif, list)
  /\ At(new, list, end) = x
  /\ \A p \in Places(lif, list) : At(new, list, p) = At(lif, list, p)

Shrunk(new, lif, list, place, last) ==
  /\ last \in Places(lif, list)
  /\ last[1] = place[1]
  /\ Places(new, list) = Places(lif, list) \ {last}
  /\ \A p \in Places(new, list) :
       At(new, list, p) = IF p = place THEN At(lif, list, last) ELSE At(lif, list, p)

Changed(new, lif, list, elements) ==
  /\ Places(new, list) = Places(lif, list)
  /\ \A p \in Places(lif, list) :
       At(new, list, p) = IF p \in DOMAIN elements THEN elements[p] ELSE At(lif, list, p)

LEMMA ListSetElsewhere ==
  ASSUME NEW lif, IsLif(lif), NEW i \in DOMAIN lif.layouts, NEW list \in ElementLists,
         NEW s, IsSeq(s), \A j \in DOMAIN s : IsElement(list, s[j])
  PROVE  OnlyList(ListSet(lif, i, list, s), lif, list)
<1> DEFINE new == ListSet(lif, i, list, s)
<1>1. /\ IsLif(new)
      /\ SameIds(new, lif)
      /\ \A k \in DOMAIN lif.layouts, l \in ElementLists :
           k # i \/ l # list => new.layouts[k][l] = lif.layouts[k][l]
  BY ListSetShape
<1> HIDE DEF new
<1>2. ASSUME NEW l \in ElementLists, l # list
      PROVE  SameList(new, lif, l)
  <2>1. DOMAIN new.layouts = DOMAIN lif.layouts
    BY <1>1 DEF SameIds
  <2>2. \A k \in DOMAIN lif.layouts : new.layouts[k][l] = lif.layouts[k][l]
    BY <1>1, <1>2
  <2>3. Places(new, l) = Places(lif, l)
    BY <2>1, <2>2 DEF Places
  <2>4. \A p \in Places(new, l) : At(new, l, p) = At(lif, l, p)
    BY <2>2, <2>3, PlaceIsPair DEF At
  <2> QED
    BY <2>1, <2>3, <2>4 DEF SameList
<1> QED
  BY <1>1, <1>2 DEF OnlyList, new

(* push_back: one more place, the last of its layout.                      *)
LEMMA AppendGrows ==
  ASSUME NEW lif, IsLif(lif), NEW i \in DOMAIN lif.layouts, NEW list \in ElementLists,
         NEW x, IsElement(list, x)
  PROVE  /\ OnlyList(Appended(lif, list, i, x), lif, list)
         /\ Grown(Appended(lif, list, i, x), lif, list, EndPlace(lif, list, i), x)
<1> DEFINE old == lif.layouts[i][list]
           s == Append(old, x)
           new == ListSet(lif, i, list, s)
<1>1. IsSeq(old) /\ \A j \in DOMAIN old : IsElement(list, old[j])
  BY DEF IsLif
<1>2. Appended(lif, list, i, x) = new
  BY DEF Appended, ListSet
<1>3. /\ IsSeq(s)
      /\ DOMAIN s = DOMAIN old \cup {Len(old) + 1}
      /\ s[Len(old) + 1] = x
      /\ Len(old) + 1 \notin DOMAIN old
      /\ \A j \in DOMAIN old : s[j] = old[j]
  BY <1>1, AppendShape
<1> HIDE DEF s
<1>4. \A j \in DOMAIN s : IsElement(list, s[j])
  BY <1>1, <1>3
<1>5. /\ SameIds(new, lif)
      /\ new.layouts[i][list] = s
      /\ \A k \in DOMAIN lif.layouts : k # i => new.layouts[k][list] = lif.layouts[k][list]
  BY <1>3, <1>4, ListSetShape
<1>6. OnlyList(new, lif, list)
  BY <1>3, <1>4, ListSetElsewhere
<1> HIDE DEF new
<1>7. DOMAIN new.layouts = DOMAIN lif.layouts
  BY <1>5 DEF SameIds
<1>8. EndPlace(lif, list, i) = <<i, Len(old) + 1>>
  BY DEF EndPlace
<1>9. Places(new, list) = Places(lif, list) \cup {EndPlace(lif, list, i)}
  BY <1>3, <1>5, <1>7, <1>8 DEF Places
<1>10. EndPlace(lif, list, i) \notin Places(lif, list)
  BY <1>3, <1>8, PlaceIn
<1>11. At(new, list, EndPlace(lif, list, i)) = x
  BY <1>3, <1>5, <1>8 DEF At
<1>12. \A p \in Places(lif, list) : At(new, list, p) = At(lif, list, p)
  BY <1>3, <1>5, PlaceIsPair DEF At
<1> QED
  BY <1>2, <1>6, <1>9, <1>10, <1>11, <1>12 DEF Grown

LastPlace(lif, list, place) == <<place[1], Len(lif.layouts[place[1]][list])>>

(* Swap and pop: the last place is gone, its element is at the erased one. *)
LEMMA EraseShrinks ==
  ASSUME NEW lif, IsLif(lif), NEW list \in ElementLists, NEW place \in Places(lif, list)
  PROVE  /\ OnlyList(Erased(lif, list, place), lif, list)
         /\ Shrunk(Erased(lif, list, place), lif, list, place, LastPlace(lif, list, place))
<1> DEFINE i == place[1]
           old == lif.layouts[i][list]
           s == EraseAt(old, place[2])
           new == ListSet(lif, i, list, s)
           last == LastPlace(lif, list, place)
<1>1. i \in DOMAIN lif.layouts /\ place[2] \in DOMAIN old /\ place = <<place[1], place[2]>>
  BY PlaceIsPair
<1>2. IsSeq(old) /\ \A j \in DOMAIN old : IsElement(list, old[j])
  BY <1>1 DEF IsLif
<1>3. Erased(lif, list, place) = new
  BY DEF Erased, ListSet
<1>4. /\ IsSeq(s)
      /\ DOMAIN s = DOMAIN old \ {Len(old)}
      /\ Len(old) \in DOMAIN old
      /\ \A j \in DOMAIN s : s[j] = IF j = place[2] THEN old[Len(old)] ELSE old[j]
  BY <1>1, <1>2, EraseShape
<1> HIDE DEF s
<1>5. \A j \in DOMAIN s : IsElement(list, s[j])
  BY <1>2, <1>4
<1>6. /\ SameIds(new, lif)
      /\ new.layouts[i][list] = s
      /\ \A k \in DOMAIN lif.layouts : k # i => new.layouts[k][list] = lif.layouts[k][list]
  BY <1>1, <1>4, <1>5, ListSetShape
<1>7. OnlyList(new, lif, list)
  BY <1>1, <1>4, <1>5, ListSetElsewhere
<1> HIDE DEF new
<1>8. DOMAIN new.layouts = DOMAIN lif.layouts
  BY <1>6 DEF SameIds
<1>9. last = <<i, Len(old)>>
  BY DEF LastPlace
<1>10. last \in Places(lif, list) /\ last[1] = i
  BY <1>1, <1>4, <1>9, PlaceIn
<1>11. Places(new, list) = Places(lif, list) \ {last}
  BY <1>1, <1>4, <1>6, <1>8, <1>9 DEF Places
<1>12. ASSUME NEW p \in Places(new, list)
       PROVE  At(new, list, p) = IF p = place THEN At(lif, list, last) ELSE At(lif, list, p)
  <2>1. /\ p = <<p[1], p[2]>>
        /\ p[1] \in DOMAIN lif.layouts
        /\ p[2] \in DOMAIN new.layouts[p[1]][list]
    BY <1>8, PlaceIsPair
  <2>2. At(lif, list, last) = old[Len(old)]
    BY <1>9 DEF At
  <2>3. CASE p[1] # i
    BY <2>1, <2>3, <1>6 DEF At
  <2>4. CASE p[1] = i
    <3>1. p = place <=> p[2] = place[2]
      BY <2>1, <2>4, <1>1
    <3> QED
      BY <2>1, <2>2, <2>4, <3>1, <1>4, <1>6 DEF At
  <2> QED
    BY <2>3, <2>4
<1> QED
  BY <1>3, <1>7, <1>10, <1>11, <1>12 DEF Shrunk

(* An assignment to elements keeps all places.                             *)
LEMMA ReplaceChanges ==
  ASSUME NEW lif, IsLif(lif), NEW list \in ElementLists, NEW elements,
         \A p \in DOMAIN elements : IsElement(list, elements[p])
  PROVE  /\ OnlyList(Replaced(lif, list, elements), lif, list)
         /\ Changed(Replaced(lif, list, elements), lif, list, elements)
<1> DEFINE new == Replaced(lif, list, elements)
           rowAt(i) == [j \in DOMAIN lif.layouts[i][list] |->
                          IF <<i, j>> \in DOMAIN elements THEN elements[<<i, j>>]
                          ELSE lif.layouts[i][list][j]]
<1>1. /\ lif = [k \in DOMAIN lif |-> lif[k]]
      /\ "layouts" \in DOMAIN lif
      /\ IsSeq(lif.layouts)
  BY DEF IsLif, HasFields
<1>2. /\ HasFields(new, {"layouts"})
      /\ new.layouts = [i \in DOMAIN lif.layouts |-> [lif.layouts[i] EXCEPT ![list] = rowAt(i)]]
  BY <1>1 DEF Replaced, HasFields
<1>3. IsSeq(new.layouts)
  <2>1. new.layouts = [i \in 1 .. Len(lif.layouts) |-> new.layouts[i]]
    BY <1>1, <1>2, SeqShape
  <2> QED
    BY ONLY <2>1, <1>1, SeqShape, FunctionIsSeq
<1>4. DOMAIN new.layouts = DOMAIN lif.layouts
  BY <1>2
<1>5. ASSUME NEW i \in DOMAIN lif.layouts
      PROVE  /\ new.layouts[i][list] = rowAt(i)
             /\ DOMAIN new.layouts[i] = DOMAIN lif.layouts[i]
             /\ \A l \in DOMAIN lif.layouts[i] :
                  l # list => new.layouts[i][l] = lif.layouts[i][l]
             /\ HasFields(new.layouts[i], {"layoutId"} \cup ElementLists)
  <2>1. HasFields(lif.layouts[i], {"layoutId"} \cup ElementLists)
    BY DEF IsLif
  <2> QED
    BY <2>1, <1>2 DEF HasFields
<1>6. ASSUME NEW i \in DOMAIN lif.layouts
      PROVE  IsSeq(rowAt(i)) /\ \A j \in DOMAIN rowAt(i) : IsElement(list, rowAt(i)[j])
  <2>1. /\ IsSeq(lif.layouts[i][list])
        /\ \A j \in DOMAIN lif.layouts[i][list] : IsElement(list, lif.layouts[i][list][j])
    BY DEF IsLif
  <2>2. rowAt(i) = [j \in 1 .. Len(lif.layouts[i][list]) |-> rowAt(i)[j]]
    BY <2>1, SeqShape
  <2>3. IsSeq(rowAt(i))
    BY <2>1, <2>2, SeqShape, FunctionIsSeq
  <2> QED
    BY <2>1, <2>3
<1> HIDE DEF new
<1>7. "layoutId" # list /\ \A i \in DOMAIN lif.layouts :
        ElementLists \cup {"layoutId"} \subseteq DOMAIN lif.layouts[i]
  BY DEF IsLif, HasFields, ElementLists
<1>8. IsLif(new)
  <2>1. ASSUME NEW i \in DOMAIN new.layouts, NEW l \in ElementLists
        PROVE  /\ IsSeq(new.layouts[i][l])
               /\ \A j \in DOMAIN new.layouts[i][l] : IsElement(l, new.layouts[i][l][j])
    <3>1. CASE l = list
      BY <3>1, <1>4, <1>5, <1>6
    <3>2. CASE l # list
      <4>1. new.layouts[i][l] = lif.layouts[i][l]
        BY <3>2, <1>4, <1>5, <1>7
      <4> QED
        BY <4>1, <1>4 DEF IsLif
    <3> QED
      BY <3>1, <3>2
  <2> QED
    BY <2>1, <1>2, <1>3, <1>4, <1>5 DEF IsLif
<1>9. SameIds(new, lif)
  BY <1>4, <1>5, <1>7 DEF SameIds
<1>10. ASSUME NEW l \in ElementLists, l # list
       PROVE  SameList(new, lif, l)
  <2>1. \A k \in DOMAIN lif.layouts : new.layouts[k][l] = lif.layouts[k][l]
    BY <1>5, <1>7, <1>10
  <2>2. Places(new, l) = Places(lif, l)
    BY <2>1, <1>4 DEF Places
  <2>3. \A p \in Places(new, l) : At(new, l, p) = At(lif, l, p)
    BY <2>1, <2>2, PlaceIsPair DEF At
  <2> QED
    BY <1>4, <2>2, <2>3 DEF SameList
<1>11. \A i \in DOMAIN lif.layouts : DOMAIN new.layouts[i][list] = DOMAIN lif.layouts[i][list]
  BY <1>5
<1>12. Places(new, list) = Places(lif, list)
  BY <1>4, <1>11 DEF Places
<1>13. ASSUME NEW p \in Places(lif, list)
       PROVE  At(new, list, p) = IF p \in DOMAIN elements THEN elements[p]
                                 ELSE At(lif, list, p)
  <2>1. /\ p = <<p[1], p[2]>>
        /\ p[1] \in DOMAIN lif.layouts
        /\ p[2] \in DOMAIN lif.layouts[p[1]][list]
    BY PlaceIsPair
  <2>2. At(new, list, p) = rowAt(p[1])[p[2]]
    BY <2>1, <1>5 DEF At
  <2> QED
    BY <2>1, <2>2 DEF At
<1> QED
  BY <1>8, <1>9, <1>10, <1>12, <1>13 DEF OnlyList, Changed, new

-----------------------------------------------------------------------------
(* An index and what it finds, under each of these changes.                *)

Indexed(lif, list, key, index) ==
  /\ index = [id \in DOMAIN index |-> index[id]]
  /\ \A p \in Places(lif, list) :
       /\ At(lif, list, p)[key] \in DOMAIN index
       /\ index[At(lif, list, p)[key]] = p
  /\ \A id \in DOMAIN index :
       /\ index[id] \in Places(lif, list)
       /\ At(lif, list, index[id])[key] = id

LEMMA ElementAt ==
  ASSUME NEW lif, IsLif(lif), NEW list \in ElementLists, NEW p \in Places(lif, list)
  PROVE  IsElement(list, At(lif, list, p))
BY PlaceIsPair DEF At, IsLif

LEMMA SameIndex ==
  ASSUME NEW lif, NEW new, NEW list, NEW key, NEW index,
         Indexed(lif, list, key, index), SameList(new, lif, list)
  PROVE  /\ Indexed(new, list, key, index)
         /\ Found(new, list, index) = Found(lif, list, index)
BY DEF Indexed, SameList, Found

LEMMA GrownIndex ==
  ASSUME NEW lif, NEW new, NEW list, NEW key, NEW index, NEW end, NEW x,
         Indexed(lif, list, key, index), Grown(new, lif, list, end, x),
         x[key] \notin DOMAIN index
  PROVE  /\ Indexed(new, list, key, With(index, x[key], end))
         /\ Found(new, list, With(index, x[key], end))
              = With(Found(lif, list, index), x[key], x)
<1> DEFINE larger == With(index, x[key], end)
<1>1. /\ DOMAIN larger = DOMAIN index \cup {x[key]}
      /\ larger[x[key]] = end
      /\ \A id \in DOMAIN index : larger[id] = index[id]
      /\ larger = [id \in DOMAIN larger |-> larger[id]]
  BY DEF With
<1> HIDE DEF larger
<1>2. \A p \in Places(new, list) :
        /\ At(new, list, p)[key] \in DOMAIN larger
        /\ larger[At(new, list, p)[key]] = p
  BY <1>1 DEF Indexed, Grown
<1>3. \A id \in DOMAIN larger :
        /\ larger[id] \in Places(new, list)
        /\ At(new, list, larger[id])[key] = id
        /\ At(new, list, larger[id])
             = IF id = x[key] THEN x ELSE At(lif, list, index[id])
  BY <1>1 DEF Indexed, Grown
<1>4. Found(new, list, larger) = With(Found(lif, list, index), x[key], x)
  BY <1>1, <1>3 DEF Found, With
<1> QED
  BY <1>1, <1>2, <1>3, <1>4 DEF Indexed, larger

(* The element that was moved keeps its layout.                            *)
IndexShrunk(new, lif, list, key, index, smaller, id) ==
  /\ Indexed(new, list, key, smaller)
  /\ Found(new, list, smaller) = Without(Found(lif, list, index), {id})
  /\ DOMAIN smaller = DOMAIN index \ {id}
  /\ \A x \in DOMAIN smaller : smaller[x][1] = index[x][1]

(* EraseSwap is the index of a list after swap and pop.                    *)
LEMMA ShrunkIndex ==
  ASSUME NEW lif, NEW new, NEW list, NEW key, NEW index,
         Indexed(lif, list, key, index), NEW id \in DOMAIN index,
         Shrunk(new, lif, list, index[id], LastPlace(lif, list, index[id]))
  PROVE  IndexShrunk(new, lif, list, key, index, EraseSwap(index, lif, list, key, id), id)
<1> DEFINE smaller == EraseSwap(index, lif, list, key, id)
           place == index[id]
           last == LastPlace(lif, list, place)
           moved == At(lif, list, last)[key]
<1>1. /\ last \in Places(lif, list) /\ last[1] = place[1]
      /\ Places(new, list) = Places(lif, list) \ {last}
      /\ \A p \in Places(new, list) :
           At(new, list, p) = IF p = place THEN At(lif, list, last) ELSE At(lif, list, p)
  BY DEF Shrunk
<1>2. smaller = IF moved = id THEN Without(index, {id})
                ELSE [Without(index, {id}) EXCEPT ![moved] = place]
  BY DEF EraseSwap, At, LastPlace
<1> HIDE DEF last
<1>3. moved \in DOMAIN index /\ index[moved] = last
  BY <1>1 DEF Indexed
<1>4. moved = id <=> last = place
  BY <1>1, <1>3 DEF Indexed
<1> HIDE DEF moved
<1>5. /\ DOMAIN smaller = DOMAIN index \ {id}
      /\ smaller = [x \in DOMAIN smaller |-> smaller[x]]
      /\ \A x \in DOMAIN smaller : smaller[x] = IF x = moved THEN place ELSE index[x]
  <2>1. CASE moved = id
    BY <2>1, <1>2 DEF Without
  <2>2. CASE moved # id
    BY <2>2, <1>2, <1>3 DEF Without
  <2> QED
    BY <2>1, <2>2
<1> HIDE DEF smaller
<1>6. ASSUME NEW x \in DOMAIN smaller
      PROVE  /\ smaller[x] \in Places(new, list)
             /\ At(new, list, smaller[x]) = At(lif, list, index[x])
             /\ smaller[x][1] = index[x][1]
  <2>1. x \in DOMAIN index /\ x # id /\ index[x] # place /\ index[x] \in Places(lif, list)
    BY <1>5 DEF Indexed
  <2>2. place \in Places(lif, list)
    BY DEF Indexed
  <2>3. CASE x = moved
    BY <2>1, <2>2, <2>3, <1>1, <1>3, <1>4, <1>5
  <2>4. CASE x # moved
    <3>1. index[x] # last
      BY <2>1, <2>4, <1>3 DEF Indexed
    <3> QED
      BY <2>1, <2>4, <3>1, <1>1, <1>5
  <2> QED
    BY <2>3, <2>4
<1>7. ASSUME NEW p \in Places(new, list)
      PROVE  /\ At(new, list, p)[key] \in DOMAIN smaller
             /\ smaller[At(new, list, p)[key]] = p
  <2>1. CASE p = place
    <3>1. At(new, list, p)[key] = moved /\ moved # id
      BY <2>1, <1>1, <1>4 DEF moved
    <3> QED
      BY <2>1, <3>1, <1>3, <1>5
  <2>2. CASE p # place
    <3>1. p # last /\ p \in Places(lif, list) /\ At(new, list, p) = At(lif, list, p)
      BY <2>2, <1>1
    <3>2. /\ At(lif, list, p)[key] \in DOMAIN index
          /\ index[At(lif, list, p)[key]] = p
      BY <3>1 DEF Indexed
    <3>3. At(lif, list, p)[key] # id /\ At(lif, list, p)[key] # moved
      BY <2>2, <3>1, <3>2, <1>3
    <3> QED
      BY <3>1, <3>2, <3>3, <1>5
  <2> QED
    BY <2>1, <2>2
<1>8. \A x \in DOMAIN smaller : At(new, list, smaller[x])[key] = x
  BY <1>5, <1>6 DEF Indexed
<1>9. Found(new, list, smaller) = Without(Found(lif, list, index), {id})
  BY <1>5, <1>6 DEF Found, Without
<1> QED
  BY <1>5, <1>6, <1>7, <1>8, <1>9 DEF Indexed, IndexShrunk, smaller

(* What an index finds when some of the elements were assigned to.         *)
Overlaid(found, index, elements) ==
  [id \in DOMAIN index |->
     IF index[id] \in DOMAIN elements THEN elements[index[id]] ELSE found[id]]

LEMMA ChangedIndex ==
  ASSUME NEW lif, NEW new, NEW list, NEW key, NEW index, NEW elements,
         Indexed(lif, list, key, index), Changed(new, lif, list, elements),
         \A p \in DOMAIN elements : elements[p][key] = At(lif, list, p)[key]
  PROVE  /\ Indexed(new, list, key, index)
         /\ Found(new, list, index) = Overlaid(Found(lif, list, index), index, elements)
<1>1. \A p \in Places(lif, list) : At(new, list, p)[key] = At(lif, list, p)[key]
  BY DEF Changed
<1>2. Indexed(new, list, key, index)
  BY <1>1 DEF Indexed, Changed
<1> QED
  BY <1>2 DEF Indexed, Changed, Found, Overlaid

OnlyAt(place, element) == [p \in {place} |-> element]

IndexRenamed(new, lif, list, key, index, index2, old, id, element) ==
  /\ Indexed(new, list, key, index2)
  /\ Found(new, list, index2) = With(Without(Found(lif, list, index), {old}), id, element)
  /\ DOMAIN index2 = (DOMAIN index \ {old}) \cup {id}
  /\ \A x \in DOMAIN index \ {old} : index2[x] = index[x]
  /\ index2[id] = index[old]

LEMMA RenamedIndex ==
  ASSUME NEW lif, NEW new, NEW list, NEW key, NEW index, NEW old, NEW id, NEW element,
         Indexed(lif, list, key, index), old \in DOMAIN index, id \notin DOMAIN index,
         element[key] = id, Changed(new, lif, list, OnlyAt(index[old], element))
  PROVE  IndexRenamed(new, lif, list, key, index, Rekey(index, old, id), old, id, element)
<1> DEFINE renamed == Rekey(index, old, id)
<1>1. /\ DOMAIN renamed = (DOMAIN index \ {old}) \cup {id}
      /\ \A x \in DOMAIN index \ {old} : renamed[x] = index[x]
      /\ renamed[id] = index[old]
      /\ renamed = [x \in DOMAIN renamed |-> renamed[x]]
  BY DEF Rekey, With, Without
<1> HIDE DEF renamed
<1>2. Places(new, list) = Places(lif, list)
  BY DEF Changed, OnlyAt
<1>3. \A p \in Places(lif, list) :
        At(new, list, p) = IF p = index[old] THEN element ELSE At(lif, list, p)
  BY DEF Changed, OnlyAt
<1>4. \A p \in Places(new, list) :
        /\ At(new, list, p)[key] \in DOMAIN renamed
        /\ renamed[At(new, list, p)[key]] = p
  <2> SUFFICES ASSUME NEW p \in Places(lif, list)
               PROVE  /\ At(new, list, p)[key] \in DOMAIN renamed
                      /\ renamed[At(new, list, p)[key]] = p
    BY <1>2
  <2>1. CASE p = index[old]
    BY <2>1, <1>1, <1>3
  <2>2. CASE p # index[old]
    BY <2>2, <1>1, <1>3 DEF Indexed
  <2> QED
    BY <2>1, <2>2
<1>5. \A x \in DOMAIN renamed :
        /\ renamed[x] \in Places(new, list)
        /\ At(new, list, renamed[x])[key] = x
        /\ At(new, list, renamed[x])
             = IF x = id THEN element ELSE At(lif, list, index[x])
  <2> SUFFICES ASSUME NEW x \in DOMAIN renamed
               PROVE  /\ renamed[x] \in Places(new, list)
                      /\ At(new, list, renamed[x])[key] = x
                      /\ At(new, list, renamed[x])
                           = IF x = id THEN element ELSE At(lif, list, index[x])
    OBVIOUS
  <2>1. CASE x = id
    BY <2>1, <1>1, <1>2, <1>3 DEF Indexed
  <2>2. CASE x # id
    <3>1. x \in DOMAIN index /\ x # old /\ index[x] # index[old]
      BY <2>2, <1>1 DEF Indexed
    <3> QED
      BY <2>2, <3>1, <1>1, <1>2, <1>3 DEF Indexed
  <2> QED
    BY <2>1, <2>2
<1>6. Found(new, list, renamed) = With(Without(Found(lif, list, index), {old}), id, element)
  BY <1>1, <1>5 DEF Found, With, Without
<1> QED
  BY <1>1, <1>4, <1>5, <1>6 DEF Indexed, IndexRenamed, renamed

(* Without a repeated id, rebuild_indices gives an index.                  *)
LEMMA IndexFromLif ==
  ASSUME NEW lif, NEW list, NEW key, ~ Repeated(lif, list, key)
  PROVE  Indexed(lif, list, key, IndexOf(lif, list, key))
<1> DEFINE index == IndexOf(lif, list, key)
<1>1. /\ DOMAIN index = IdsOf(lif, list, key)
      /\ index = [id \in DOMAIN index |-> index[id]]
  BY DEF IndexOf
<1>2. ASSUME NEW id \in IdsOf(lif, list, key)
      PROVE  index[id] \in Places(lif, list) /\ At(lif, list, index[id])[key] = id
  <2>1. index[id] = CHOOSE p \in Places(lif, list) : At(lif, list, p)[key] = id
    BY DEF IndexOf
  <2>2. \E p \in Places(lif, list) : At(lif, list, p)[key] = id
    BY DEF IdsOf
  <2> HIDE DEF index
  <2> QED
    BY <2>1, <2>2
<1> HIDE DEF index
<1>3. ASSUME NEW p \in Places(lif, list)
      PROVE  /\ At(lif, list, p)[key] \in DOMAIN index
             /\ index[At(lif, list, p)[key]] = p
  <2>1. At(lif, list, p)[key] \in IdsOf(lif, list, key)
    BY DEF IdsOf
  <2> QED
    BY <2>1, <1>1, <1>2 DEF Repeated
<1> QED
  BY <1>1, <1>2, <1>3 DEF Indexed, index

(* Whatever is an index is the one rebuild_indices gives.                  *)
LEMMA IndexIsUnique ==
  ASSUME NEW lif, NEW list, NEW key, NEW index, Indexed(lif, list, key, index)
  PROVE  /\ index = IndexOf(lif, list, key)
         /\ DOMAIN index = IdsOf(lif, list, key)
         /\ ~ Repeated(lif, list, key)
<1>1. DOMAIN index = IdsOf(lif, list, key)
  BY DEF Indexed, IdsOf
<1>2. ~ Repeated(lif, list, key)
  BY DEF Indexed, Repeated
<1>3. Indexed(lif, list, key, IndexOf(lif, list, key))
  BY <1>2, IndexFromLif
<1>4. DOMAIN IndexOf(lif, list, key) = DOMAIN index
  BY <1>1 DEF IndexOf
<1>5. \A id \in DOMAIN index : IndexOf(lif, list, key)[id] = index[id]
  BY <1>3, <1>4 DEF Indexed
<1>6. index = [id \in DOMAIN index |-> index[id]]
  BY DEF Indexed
<1>7. IndexOf(lif, list, key) = [id \in DOMAIN index |-> IndexOf(lif, list, key)[id]]
  BY <1>4 DEF IndexOf
<1>8. index = IndexOf(lif, list, key)
  BY ONLY <1>5, <1>6, <1>7
<1> QED
  BY <1>1, <1>2, <1>8

-----------------------------------------------------------------------------
(* The bags of edges and of stations, when what they list changes.         *)

ListsEdges(list, nodes, edges, end) == list = [n \in nodes |-> EdgesAt(edges, end, n)]

ListsStations(list, nodes, stations) ==
  /\ list = [n \in DOMAIN list |-> list[n]]
  /\ DOMAIN list \subseteq nodes
  /\ \A n \in nodes : Lookup(list, n) = Mentions(stations, n)

LEMMA OneListChanged ==
  ASSUME NEW list, NEW nodes, NEW edges, NEW more, NEW end, NEW n \in nodes, NEW bag,
         ListsEdges(list, nodes, edges, end),
         \A m \in nodes \ {n} : EdgesAt(more, end, m) = EdgesAt(edges, end, m),
         EdgesAt(more, end, n) = bag
  PROVE  /\ ListsEdges([list EXCEPT ![n] = bag], nodes, more, end)
         /\ list[n] = EdgesAt(edges, end, n)
BY DEF ListsEdges

(* The edges at a node when one is added, removed or gets a new id.        *)
LEMMA EdgesAdded ==
  ASSUME NEW edges, NEW e, e \notin DOMAIN edges, NEW x, NEW end, NEW n
  PROVE  /\ x[end] = n =>
              EdgesAt(With(edges, e, x), end, n) = EdgesAt(edges, end, n) (+) Once(e)
         /\ x[end] # n =>
              EdgesAt(With(edges, e, x), end, n) = EdgesAt(edges, end, n)
<1> DEFINE before == {d \in DOMAIN edges : edges[d][end] = n}
           after == {d \in DOMAIN With(edges, e, x) : With(edges, e, x)[d][end] = n}
<1>1. after = IF x[end] = n THEN before \cup {e} ELSE before
  BY DEF With
<1>2. e \notin before
  OBVIOUS
<1> HIDE DEF before, after
<1>3. x[end] = n => SetToBag(after) = SetToBag(before) (+) Once(e)
  BY <1>1, <1>2 DEF SetToBag, Once, (+)
<1> QED
  BY <1>1, <1>3 DEF EdgesAt, before, after

LEMMA EdgesRemoved ==
  ASSUME NEW edges, NEW e \in DOMAIN edges, NEW end, NEW n
  PROVE  /\ edges[e][end] = n =>
              EdgesAt(Without(edges, {e}), end, n) = EdgesAt(edges, end, n) (-) Once(e)
         /\ edges[e][end] # n =>
              EdgesAt(Without(edges, {e}), end, n) = EdgesAt(edges, end, n)
<1> DEFINE before == {d \in DOMAIN edges : edges[d][end] = n}
           after == {d \in DOMAIN Without(edges, {e}) : Without(edges, {e})[d][end] = n}
<1>1. after = before \ {e} /\ (edges[e][end] = n <=> e \in before)
  BY DEF Without
<1> HIDE DEF before, after
<1>2. e \in before => SetToBag(after) = SetToBag(before) (-) Once(e)
  BY <1>1 DEF SetToBag, Once, (-)
<1>3. e \notin before => after = before
  BY <1>1
<1> QED
  BY <1>1, <1>2, <1>3 DEF EdgesAt, before, after

LEMMA EdgesRekeyed ==
  ASSUME NEW edges, NEW old \in DOMAIN edges, NEW new, new \notin DOMAIN edges,
         NEW x, NEW end, x[end] = edges[old][end], NEW n
  PROVE  EdgesAt(With(Without(edges, {old}), new, x), end, n)
           = IF edges[old][end] = n THEN Rekey(EdgesAt(edges, end, n), old, new)
             ELSE EdgesAt(edges, end, n)
<1> DEFINE rekeyed == With(Without(edges, {old}), new, x)
           before == {d \in DOMAIN edges : edges[d][end] = n}
           after == {d \in DOMAIN rekeyed : rekeyed[d][end] = n}
<1>1. after = IF edges[old][end] = n THEN (before \ {old}) \cup {new} ELSE before
  BY DEF With, Without
<1>2. edges[old][end] = n <=> old \in before
  OBVIOUS
<1> HIDE DEF before, after
<1>3. old \in before => SetToBag((before \ {old}) \cup {new}) = Rekey(SetToBag(before), old, new)
  BY DEF SetToBag, Rekey, With, Without
<1> QED
  BY <1>1, <1>2, <1>3 DEF EdgesAt, before, after

LEMMA ListsEdgesAdded ==
  ASSUME NEW list, NEW nodes, NEW edges, NEW end, ListsEdges(list, nodes, edges, end),
         NEW e, e \notin DOMAIN edges, NEW x, x[end] \in nodes
  PROVE  ListsEdges([list EXCEPT ![x[end]] = @ (+) Once(e)], nodes,
                    With(edges, e, x), end)
<1> DEFINE n == x[end]
           more == With(edges, e, x)
<1>1. \A m \in nodes \ {n} : EdgesAt(more, end, m) = EdgesAt(edges, end, m)
  BY EdgesAdded
<1>2. EdgesAt(more, end, n) = EdgesAt(edges, end, n) (+) Once(e)
  BY EdgesAdded
<1>3. list[n] = EdgesAt(edges, end, n)
  BY DEF ListsEdges
<1> HIDE DEF more
<1>4. ListsEdges([list EXCEPT ![n] = EdgesAt(more, end, n)], nodes, more, end)
  BY <1>1, OneListChanged
<1> QED
  BY <1>2, <1>3, <1>4 DEF more

LEMMA ListsEdgesRemoved ==
  ASSUME NEW list, NEW nodes, NEW edges, NEW end, ListsEdges(list, nodes, edges, end),
         NEW e \in DOMAIN edges, edges[e][end] \in nodes
  PROVE  ListsEdges([list EXCEPT ![edges[e][end]] = @ (-) Once(e)], nodes,
                    Without(edges, {e}), end)
<1> DEFINE n == edges[e][end]
           less == Without(edges, {e})
<1>1. \A m \in nodes \ {n} : EdgesAt(less, end, m) = EdgesAt(edges, end, m)
  BY EdgesRemoved
<1>2. EdgesAt(less, end, n) = EdgesAt(edges, end, n) (-) Once(e)
  BY EdgesRemoved
<1>3. list[n] = EdgesAt(edges, end, n)
  BY DEF ListsEdges
<1> HIDE DEF less
<1>4. ListsEdges([list EXCEPT ![n] = EdgesAt(less, end, n)], nodes, less, end)
  BY <1>1, OneListChanged
<1> QED
  BY <1>2, <1>3, <1>4 DEF less

LEMMA ListsEdgesRekeyed ==
  ASSUME NEW list, NEW nodes, NEW edges, NEW end, ListsEdges(list, nodes, edges, end),
         NEW old \in DOMAIN edges, NEW new, new \notin DOMAIN edges,
         NEW x, x[end] = edges[old][end], x[end] \in nodes
  PROVE  ListsEdges([list EXCEPT ![x[end]] = Rekey(@, old, new)], nodes,
                    With(Without(edges, {old}), new, x), end)
<1> DEFINE n == x[end]
           rekeyed == With(Without(edges, {old}), new, x)
<1>1. \A m \in nodes \ {n} : EdgesAt(rekeyed, end, m) = EdgesAt(edges, end, m)
  BY EdgesRekeyed
<1>2. EdgesAt(rekeyed, end, n) = Rekey(EdgesAt(edges, end, n), old, new)
  BY EdgesRekeyed
<1>3. list[n] = EdgesAt(edges, end, n)
  BY DEF ListsEdges
<1> HIDE DEF rekeyed
<1>4. ListsEdges([list EXCEPT ![n] = EdgesAt(rekeyed, end, n)], nodes, rekeyed, end)
  BY <1>1, OneListChanged
<1> QED
  BY <1>2, <1>3, <1>4 DEF rekeyed

LEMMA NoEdges ==
  ASSUME NEW edges, NEW end, NEW n
  PROVE  EdgesAt(edges, end, n) = EmptyBag <=> \A e \in DOMAIN edges : edges[e][end] # n
<1> DEFINE S == {e \in DOMAIN edges : edges[e][end] = n}
<1>1. DOMAIN SetToBag(S) = S /\ DOMAIN SetToBag({}) = {}
  BY DEF SetToBag
<1>2. SetToBag(S) = SetToBag({}) <=> S = {}
  BY <1>1
<1> QED
  BY <1>2 DEF EdgesAt, EmptyBag

(* A station names each of its nodes at least once.                        *)
LEMMA TimesPositive ==
  ASSUME NEW s, IsElement("stations", s), NEW n \in Named(s)
  PROVE  Times(s, n) \in Nat \ {0}
<1> DEFINE list == s.interactionNodeIds
           S == {i \in DOMAIN list : list[i] = n}
<1>1. DOMAIN list = 1 .. Len(list) /\ Len(list) \in Nat
  BY SeqShape DEF IsElement
<1>2. IsFiniteSet(S)
  <2>1. IsFiniteSet(1 .. Len(list))
    BY <1>1, FS_Interval
  <2>2. S \subseteq 1 .. Len(list)
    BY <1>1
  <2> QED
    BY ONLY <2>1, <2>2, FS_Subset
<1>3. S # {}
  BY DEF Named, Elements
<1> QED
  BY <1>2, <1>3, FS_CardinalityType, FS_EmptySet DEF Times

(* The stations at a node when one is added, removed or gets a new id.     *)
LEMMA MentionsAdded ==
  ASSUME NEW stations, NEW s, s \notin DOMAIN stations, NEW x, NEW n,
         \A t \in DOMAIN stations : IsElement("stations", stations[t]),
         IsElement("stations", x)
  PROVE  Mentions(With(stations, s, x), n)
           = Mentions(stations, n) (+) MentionsIn(s, x, n)
<1>1. \A t \in DOMAIN stations :
        n \in Named(stations[t]) => Times(stations[t], n) \in Nat \ {0}
  BY TimesPositive
<1>2. n \in Named(x) => Times(x, n) \in Nat \ {0}
  BY TimesPositive
<1> QED
  BY <1>1, <1>2 DEF MentionsIn, Mentions, With, (+)

LEMMA MentionsRemoved ==
  ASSUME NEW stations, NEW s \in DOMAIN stations, NEW n,
         \A t \in DOMAIN stations : IsElement("stations", stations[t])
  PROVE  Mentions(Without(stations, {s}), n)
           = Mentions(stations, n) (-) MentionsIn(s, stations[s], n)
<1>1. \A t \in DOMAIN stations :
        n \in Named(stations[t]) => Times(stations[t], n) \in Nat \ {0}
  BY TimesPositive
<1> QED
  BY <1>1 DEF MentionsIn, Mentions, Without, (-)

LEMMA MentionsRekeyed ==
  ASSUME NEW stations, NEW old \in DOMAIN stations, NEW new, new \notin DOMAIN stations,
         NEW x, x.interactionNodeIds = stations[old].interactionNodeIds, NEW n
  PROVE  Mentions(With(Without(stations, {old}), new, x), n)
           = IF n \in Named(stations[old]) THEN Rekey(Mentions(stations, n), old, new)
             ELSE Mentions(stations, n)
<1>1. Named(x) = Named(stations[old]) /\ Times(x, n) = Times(stations[old], n)
  BY DEF Named, Times
<1> QED
  BY <1>1 DEF Mentions, With, Without, Rekey

LEMMA NoMentions ==
  ASSUME NEW stations, NEW n
  PROVE  Mentions(stations, n) = EmptyBag
           <=> \A s \in DOMAIN stations : n \notin Named(stations[s])
<1>1. DOMAIN Mentions(stations, n) = {s \in DOMAIN stations : n \in Named(stations[s])}
  BY DEF Mentions
<1>2. DOMAIN EmptyBag = {}
  BY DEF EmptyBag, SetToBag
<1>3. DOMAIN Mentions(stations, n) = {} => Mentions(stations, n) = EmptyBag
  BY DEF Mentions, EmptyBag, SetToBag
<1> QED
  BY <1>1, <1>2, <1>3

LEMMA NotNamed ==
  ASSUME NEW s, NEW x, NEW n, n \notin Named(x)
  PROVE  MentionsIn(s, x, n) = EmptyBag
BY NoMentions DEF MentionsIn

Longer(list, id, x) ==
  [n \in DOMAIN list \cup Named(x) |-> Lookup(list, n) (+) MentionsIn(id, x, n)]

Shorter(list, id, x) == [n \in DOMAIN list |-> list[n] (-) MentionsIn(id, x, n)]

Relabelled(list, old, new, x) ==
  [n \in DOMAIN list |-> IF n \in Named(x) THEN Rekey(list[n], old, new) ELSE list[n]]

LEMMA ListsStationsAdded ==
  ASSUME NEW list, NEW nodes, NEW stations, ListsStations(list, nodes, stations),
         NEW s, s \notin DOMAIN stations, NEW x, Named(x) \subseteq nodes,
         \A t \in DOMAIN stations : IsElement("stations", stations[t]),
         IsElement("stations", x)
  PROVE  ListsStations(Longer(list, s, x), nodes, With(stations, s, x))
<1> DEFINE longer == Longer(list, s, x)
           more == With(stations, s, x)
<1>1. ASSUME NEW n \in nodes
      PROVE  Lookup(longer, n) = Mentions(more, n)
  <2>1. Lookup(list, n) = Mentions(stations, n)
    BY DEF ListsStations
  <2>2. CASE n \in DOMAIN list \cup Named(x)
    <3>1. Lookup(longer, n) = Lookup(list, n) (+) MentionsIn(s, x, n)
      BY <2>2 DEF Lookup, Longer
    <3> QED
      BY <2>1, <3>1, MentionsAdded
  <2>3. CASE n \notin DOMAIN list \cup Named(x)
    <3>1. Lookup(longer, n) = EmptyBag /\ Lookup(list, n) = EmptyBag
      BY <2>3 DEF Lookup, Longer
    <3>2. \A t \in DOMAIN stations : n \notin Named(stations[t])
      BY <2>1, <3>1, NoMentions
    <3>3. \A t \in DOMAIN more : n \notin Named(more[t])
      BY <2>3, <3>2 DEF With
    <3>4. Mentions(more, n) = EmptyBag
      BY ONLY <3>3, NoMentions
    <3> QED
      BY <3>1, <3>4
  <2> QED
    BY <2>2, <2>3
<1>2. DOMAIN longer \subseteq nodes /\ longer = [n \in DOMAIN longer |-> longer[n]]
  BY DEF ListsStations, Longer
<1> QED
  BY <1>1, <1>2 DEF ListsStations

LEMMA ListsStationsRemoved ==
  ASSUME NEW list, NEW nodes, NEW stations, ListsStations(list, nodes, stations),
         NEW s \in DOMAIN stations,
         \A t \in DOMAIN stations : IsElement("stations", stations[t])
  PROVE  ListsStations(Shorter(list, s, stations[s]), nodes, Without(stations, {s}))
<1> DEFINE shorter == Shorter(list, s, stations[s])
           less == Without(stations, {s})
<1>1. ASSUME NEW n \in nodes
      PROVE  Lookup(shorter, n) = Mentions(less, n)
  <2>1. Lookup(list, n) = Mentions(stations, n)
    BY DEF ListsStations
  <2>2. CASE n \in DOMAIN list
    <3>1. Lookup(shorter, n) = Lookup(list, n) (-) MentionsIn(s, stations[s], n)
      BY <2>2 DEF Lookup, Shorter
    <3> QED
      BY <2>1, <3>1, MentionsRemoved
  <2>3. CASE n \notin DOMAIN list
    <3>1. Lookup(shorter, n) = EmptyBag /\ Lookup(list, n) = EmptyBag
      BY <2>3 DEF Lookup, Shorter
    <3>2. \A t \in DOMAIN stations : n \notin Named(stations[t])
      BY <2>1, <3>1, NoMentions
    <3>3. \A t \in DOMAIN less : n \notin Named(less[t])
      BY <3>2 DEF Without
    <3>4. Mentions(less, n) = EmptyBag
      BY ONLY <3>3, NoMentions
    <3> QED
      BY <3>1, <3>4
  <2> QED
    BY <2>2, <2>3
<1>2. DOMAIN shorter \subseteq nodes /\ shorter = [n \in DOMAIN shorter |-> shorter[n]]
  BY DEF ListsStations, Shorter
<1> QED
  BY <1>1, <1>2 DEF ListsStations

LEMMA ListsStationsRekeyed ==
  ASSUME NEW list, NEW nodes, NEW stations, ListsStations(list, nodes, stations),
         NEW old \in DOMAIN stations, NEW new, new \notin DOMAIN stations,
         NEW x, x.interactionNodeIds = stations[old].interactionNodeIds
  PROVE  ListsStations(Relabelled(list, old, new, stations[old]), nodes,
                       With(Without(stations, {old}), new, x))
<1> DEFINE list2 == Relabelled(list, old, new, stations[old])
           rekeyed == With(Without(stations, {old}), new, x)
<1>1. ASSUME NEW n \in nodes
      PROVE  Lookup(list2, n) = Mentions(rekeyed, n)
  <2>1. Lookup(list, n) = Mentions(stations, n)
    BY DEF ListsStations
  <2>2. Mentions(rekeyed, n) = IF n \in Named(stations[old])
                               THEN Rekey(Mentions(stations, n), old, new)
                               ELSE Mentions(stations, n)
    BY MentionsRekeyed
  <2>3. CASE n \in DOMAIN list
    BY <2>1, <2>2, <2>3 DEF Lookup, Relabelled
  <2>4. CASE n \notin DOMAIN list
    <3>1. Lookup(list2, n) = EmptyBag /\ Lookup(list, n) = EmptyBag
      BY <2>4 DEF Lookup, Relabelled
    <3>2. \A t \in DOMAIN stations : n \notin Named(stations[t])
      BY <2>1, <3>1, NoMentions
    <3> QED
      BY <2>1, <2>2, <3>1, <3>2
  <2> QED
    BY <2>3, <2>4
<1>2. DOMAIN list2 \subseteq nodes /\ list2 = [n \in DOMAIN list2 |-> list2[n]]
  BY DEF ListsStations, Relabelled
<1> QED
  BY <1>1, <1>2 DEF ListsStations

-----------------------------------------------------------------------------
(* The inductive invariant: the indices lead to the elements and back,     *)
(* every end and every interaction node is there, and the lists of a node  *)
(* hold what the elements say.                                             *)

GraphFields == {"lif", "node", "edge", "station", "outbound", "inbound", "stations"}

LayoutsDiffer(lif) ==
  \A i, j \in DOMAIN lif.layouts :
    i # j => lif.layouts[i].layoutId # lif.layouts[j].layoutId

Tables(lif, node, edge, station) ==
  /\ IsLif(lif)
  /\ LayoutsDiffer(lif)
  /\ Indexed(lif, "nodes", "nodeId", node)
  /\ Indexed(lif, "edges", "edgeId", edge)
  /\ Indexed(lif, "stations", "stationId", station)

(* An edge is in the layout of the node it leaves.                         *)
EndsKnown(node, edge, edges) ==
  /\ DOMAIN edges = DOMAIN edge
  /\ \A e \in DOMAIN edges :
       /\ edges[e].startNodeId \in DOMAIN node
       /\ node[edges[e].startNodeId][1] = edge[e][1]
       /\ edges[e].endNodeId \in DOMAIN node

StationsKnown(node, stations) ==
  \A s \in DOMAIN stations :
    /\ IsElement("stations", stations[s])
    /\ Named(stations[s]) \subseteq DOMAIN node

Lists(g, node, edge, edges, stations) ==
  /\ EndsKnown(node, edge, edges)
  /\ StationsKnown(node, stations)
  /\ ListsEdges(g.outbound, DOMAIN node, edges, "startNodeId")
  /\ ListsEdges(g.inbound, DOMAIN node, edges, "endNodeId")
  /\ ListsStations(g.stations, DOMAIN node, stations)

GraphInv(g) ==
  /\ DOMAIN g = GraphFields
  /\ Tables(g.lif, g.node, g.edge, g.station)
  /\ Lists(g, g.node, g.edge, Found(g.lif, "edges", g.edge),
           Found(g.lif, "stations", g.station))

LEMMA ListNames == {"nodes", "edges", "stations"} = ElementLists
BY DEF ElementLists

LEMMA LayoutsStayDifferent ==
  ASSUME NEW lif, NEW new, SameIds(new, lif), LayoutsDiffer(lif)
  PROVE  LayoutsDiffer(new)
BY DEF SameIds, LayoutsDiffer

(* A change of one list of the LIF leaves the other two indices as they    *)
(* are.                                                                    *)
LEMMA OnlyNodes ==
  ASSUME NEW lif, NEW new, NEW node, NEW edge, NEW station, NEW node2,
         Tables(lif, node, edge, station), OnlyList(new, lif, "nodes"),
         Indexed(new, "nodes", "nodeId", node2)
  PROVE  /\ Tables(new, node2, edge, station)
         /\ Found(new, "edges", edge) = Found(lif, "edges", edge)
         /\ Found(new, "stations", station) = Found(lif, "stations", station)
<1>1. SameList(new, lif, "edges") /\ SameList(new, lif, "stations")
  BY ListNames DEF OnlyList
<1>2. IsLif(new) /\ LayoutsDiffer(new)
  BY LayoutsStayDifferent DEF OnlyList, Tables
<1> QED
  BY <1>1, <1>2, SameIndex DEF Tables

LEMMA OnlyEdges ==
  ASSUME NEW lif, NEW new, NEW node, NEW edge, NEW station, NEW edge2,
         Tables(lif, node, edge, station), OnlyList(new, lif, "edges"),
         Indexed(new, "edges", "edgeId", edge2)
  PROVE  /\ Tables(new, node, edge2, station)
         /\ Found(new, "stations", station) = Found(lif, "stations", station)
<1>1. SameList(new, lif, "nodes") /\ SameList(new, lif, "stations")
  BY ListNames DEF OnlyList
<1>2. IsLif(new) /\ LayoutsDiffer(new)
  BY LayoutsStayDifferent DEF OnlyList, Tables
<1> QED
  BY <1>1, <1>2, SameIndex DEF Tables

LEMMA OnlyStations ==
  ASSUME NEW lif, NEW new, NEW node, NEW edge, NEW station, NEW station2,
         Tables(lif, node, edge, station), OnlyList(new, lif, "stations"),
         Indexed(new, "stations", "stationId", station2)
  PROVE  /\ Tables(new, node, edge, station2)
         /\ Found(new, "edges", edge) = Found(lif, "edges", edge)
<1>1. SameList(new, lif, "nodes") /\ SameList(new, lif, "edges")
  BY ListNames DEF OnlyList
<1>2. IsLif(new) /\ LayoutsDiffer(new)
  BY LayoutsStayDifferent DEF OnlyList, Tables
<1> QED
  BY <1>1, <1>2, SameIndex DEF Tables

-----------------------------------------------------------------------------
(* One lemma for each mutation.                                            *)

LEMMA AddNodeKeeps ==
  ASSUME GraphInv(graph), NEW n, IsElement("nodes", n), NEW l, AddNode(n, l)
  PROVE  GraphInv(graph')
<1> DEFINE edges == Found(graph.lif, "edges", graph.edge)
           stations == Found(graph.lif, "stations", graph.station)
           id == n.nodeId
<1>1. PICK i \in DOMAIN graph.lif.layouts :
        /\ id \notin DOMAIN graph.node
        /\ graph' = [graph EXCEPT
             !.lif = Appended(@, "nodes", i, n),
             !.node = With(@, id, EndPlace(graph.lif, "nodes", i)),
             !.outbound = With(@, id, Lookup(@, id)),
             !.inbound = With(@, id, Lookup(@, id))]
  BY DEF AddNode, LayoutsWith
<1> DEFINE new == Appended(graph.lif, "nodes", i, n)
           node == With(graph.node, id, EndPlace(graph.lif, "nodes", i))
<1>2. /\ DOMAIN graph' = GraphFields
      /\ graph'.lif = new /\ graph'.node = node
      /\ graph'.edge = graph.edge /\ graph'.station = graph.station
      /\ graph'.outbound = With(graph.outbound, id, Lookup(graph.outbound, id))
      /\ graph'.inbound = With(graph.inbound, id, Lookup(graph.inbound, id))
      /\ graph'.stations = graph.stations
  BY <1>1 DEF GraphInv, GraphFields
<1>3. /\ Tables(graph.lif, graph.node, graph.edge, graph.station)
      /\ Lists(graph, graph.node, graph.edge, edges, stations)
  BY DEF GraphInv
<1>4. IsLif(graph.lif) /\ Indexed(graph.lif, "nodes", "nodeId", graph.node)
  BY <1>3 DEF Tables
<1>5. /\ OnlyList(new, graph.lif, "nodes")
      /\ Grown(new, graph.lif, "nodes", EndPlace(graph.lif, "nodes", i), n)
  BY <1>4, AppendGrows, ListNames
<1> HIDE DEF new
<1>6. Indexed(new, "nodes", "nodeId", node)
  BY <1>1, <1>4, <1>5, GrownIndex
<1>7. /\ Tables(new, node, graph.edge, graph.station)
      /\ Found(new, "edges", graph.edge) = edges
      /\ Found(new, "stations", graph.station) = stations
  BY <1>3, <1>5, <1>6, OnlyNodes
<1> HIDE DEF edges, stations
<1>8. /\ DOMAIN node = DOMAIN graph.node \cup {id}
      /\ \A x \in DOMAIN graph.node : node[x] = graph.node[x]
  BY <1>1 DEF With
<1> HIDE DEF node
<1>9. EndsKnown(node, graph.edge, edges) /\ StationsKnown(node, stations)
  BY <1>3, <1>8 DEF Lists, EndsKnown, StationsKnown
<1>10. /\ EdgesAt(edges, "startNodeId", id) = EmptyBag
       /\ EdgesAt(edges, "endNodeId", id) = EmptyBag
  <2>1. \A e \in DOMAIN edges : edges[e].startNodeId # id /\ edges[e].endNodeId # id
    BY <1>1, <1>3 DEF Lists, EndsKnown
  <2> QED
    BY <2>1, NoEdges
<1>11. /\ ListsEdges(graph'.outbound, DOMAIN node, edges, "startNodeId")
       /\ ListsEdges(graph'.inbound, DOMAIN node, edges, "endNodeId")
  BY <1>1, <1>2, <1>3, <1>8, <1>10 DEF Lists, ListsEdges, With, Lookup
<1>12. Mentions(stations, id) = EmptyBag
  BY <1>1, <1>3, NoMentions DEF Lists, StationsKnown
<1>13. ListsStations(graph'.stations, DOMAIN node, stations)
  BY <1>1, <1>2, <1>3, <1>8, <1>12 DEF Lists, ListsStations, Lookup
<1> QED
  BY <1>2, <1>7, <1>9, <1>11, <1>13 DEF GraphInv, Lists

LEMMA AddEdgeKeeps ==
  ASSUME GraphInv(graph), NEW e, IsElement("edges", e), NEW l, AddEdge(e, l)
  PROVE  GraphInv(graph')
<1> DEFINE edges == Found(graph.lif, "edges", graph.edge)
           stations == Found(graph.lif, "stations", graph.station)
           id == e.edgeId
<1>1. PICK i \in DOMAIN graph.lif.layouts :
        /\ id \notin DOMAIN graph.edge
        /\ e.startNodeId \in DOMAIN graph.node
        /\ graph.node[e.startNodeId][1] = i
        /\ e.endNodeId \in DOMAIN graph.node
        /\ graph' = [graph EXCEPT
             !.lif = Appended(@, "edges", i, e),
             !.edge = With(@, id, EndPlace(graph.lif, "edges", i)),
             !.outbound[e.startNodeId] = @ (+) Once(id),
             !.inbound[e.endNodeId] = @ (+) Once(id)]
  BY DEF AddEdge, LayoutsWith
<1> DEFINE new == Appended(graph.lif, "edges", i, e)
           edge == With(graph.edge, id, EndPlace(graph.lif, "edges", i))
           more == With(edges, id, e)
<1>2. /\ DOMAIN graph' = GraphFields
      /\ graph'.lif = new /\ graph'.edge = edge
      /\ graph'.node = graph.node /\ graph'.station = graph.station
      /\ graph'.outbound = [graph.outbound EXCEPT ![e.startNodeId] = @ (+) Once(id)]
      /\ graph'.inbound = [graph.inbound EXCEPT ![e.endNodeId] = @ (+) Once(id)]
      /\ graph'.stations = graph.stations
  BY <1>1 DEF GraphInv, GraphFields
<1>3. /\ Tables(graph.lif, graph.node, graph.edge, graph.station)
      /\ Lists(graph, graph.node, graph.edge, edges, stations)
  BY DEF GraphInv
<1>4. IsLif(graph.lif) /\ Indexed(graph.lif, "edges", "edgeId", graph.edge)
  BY <1>3 DEF Tables
<1>5. /\ OnlyList(new, graph.lif, "edges")
      /\ Grown(new, graph.lif, "edges", EndPlace(graph.lif, "edges", i), e)
  BY <1>4, AppendGrows, ListNames
<1> HIDE DEF new
<1>6. Indexed(new, "edges", "edgeId", edge) /\ Found(new, "edges", edge) = more
  BY <1>1, <1>4, <1>5, GrownIndex
<1>7. /\ Tables(new, graph.node, edge, graph.station)
      /\ Found(new, "stations", graph.station) = stations
  BY <1>3, <1>5, <1>6, OnlyEdges
<1>8. id \notin DOMAIN edges
  BY <1>1 DEF Found
<1> HIDE DEF edges, stations
<1>9. edge[id][1] = i
  BY DEF With, EndPlace
<1>10. EndsKnown(graph.node, edge, more)
  BY <1>1, <1>3, <1>9 DEF Lists, EndsKnown, With
<1>11. ListsEdges(graph'.outbound, DOMAIN graph.node, more, "startNodeId")
  BY <1>1, <1>2, <1>3, <1>8, ListsEdgesAdded DEF Lists
<1>12. ListsEdges(graph'.inbound, DOMAIN graph.node, more, "endNodeId")
  BY <1>1, <1>2, <1>3, <1>8, ListsEdgesAdded DEF Lists
<1> QED
  BY <1>2, <1>3, <1>6, <1>7, <1>10, <1>11, <1>12 DEF GraphInv, Lists

LEMMA AddStationKeeps ==
  ASSUME GraphInv(graph), NEW s, IsElement("stations", s), NEW l, AddStation(s, l)
  PROVE  GraphInv(graph')
<1> DEFINE edges == Found(graph.lif, "edges", graph.edge)
           stations == Found(graph.lif, "stations", graph.station)
           id == s.stationId
<1>1. PICK i \in DOMAIN graph.lif.layouts :
        /\ id \notin DOMAIN graph.station
        /\ Named(s) \subseteq DOMAIN graph.node
        /\ graph' = [graph EXCEPT
             !.lif = Appended(@, "stations", i, s),
             !.station = With(@, id, EndPlace(graph.lif, "stations", i)),
             !.stations = Longer(@, id, s)]
  BY DEF AddStation, LayoutsWith, Longer
<1> DEFINE new == Appended(graph.lif, "stations", i, s)
           station == With(graph.station, id, EndPlace(graph.lif, "stations", i))
           more == With(stations, id, s)
<1>2. /\ DOMAIN graph' = GraphFields
      /\ graph'.lif = new /\ graph'.station = station
      /\ graph'.node = graph.node /\ graph'.edge = graph.edge
      /\ graph'.outbound = graph.outbound /\ graph'.inbound = graph.inbound
      /\ graph'.stations = Longer(graph.stations, id, s)
  BY <1>1 DEF GraphInv, GraphFields
<1>3. /\ Tables(graph.lif, graph.node, graph.edge, graph.station)
      /\ Lists(graph, graph.node, graph.edge, edges, stations)
  BY DEF GraphInv
<1>4. IsLif(graph.lif) /\ Indexed(graph.lif, "stations", "stationId", graph.station)
  BY <1>3 DEF Tables
<1>5. /\ OnlyList(new, graph.lif, "stations")
      /\ Grown(new, graph.lif, "stations", EndPlace(graph.lif, "stations", i), s)
  BY <1>4, AppendGrows, ListNames
<1> HIDE DEF new
<1>6. Indexed(new, "stations", "stationId", station) /\ Found(new, "stations", station) = more
  BY <1>1, <1>4, <1>5, GrownIndex
<1>7. /\ Tables(new, graph.node, graph.edge, station)
      /\ Found(new, "edges", graph.edge) = edges
  BY <1>3, <1>5, <1>6, OnlyStations
<1>8. id \notin DOMAIN stations
  BY <1>1 DEF Found
<1> HIDE DEF edges, stations
<1>9. StationsKnown(graph.node, more)
  BY <1>1, <1>3 DEF Lists, StationsKnown, With
<1>10. \A t \in DOMAIN stations : IsElement("stations", stations[t])
  BY <1>3 DEF Lists, StationsKnown
<1>11. ListsStations(graph.stations, DOMAIN graph.node, stations)
  BY <1>3 DEF Lists
<1>12. ListsStations(graph'.stations, DOMAIN graph.node, more)
  BY <1>1, <1>2, <1>8, <1>10, <1>11, ListsStationsAdded
<1> QED
  BY <1>2, <1>3, <1>6, <1>7, <1>9, <1>12 DEF GraphInv, Lists

(* No edge and no station refers to the node.                              *)
Unreferenced(edges, stations, id) ==
  /\ \A e \in DOMAIN edges : edges[e].startNodeId # id /\ edges[e].endNodeId # id
  /\ \A s \in DOMAIN stations : id \notin Named(stations[s])

EdgesOf(g) == Found(g.lif, "edges", g.edge)
StationsOf(g) == Found(g.lif, "stations", g.station)

LEMMA NodeDeletedKeeps ==
  ASSUME NEW g, GraphInv(g), NEW id \in DOMAIN g.node,
         Unreferenced(EdgesOf(g), StationsOf(g), id)
  PROVE  LET h == NodeDeleted(g, id)
         IN /\ GraphInv(h)
            /\ DOMAIN h.node = DOMAIN g.node \ {id}
            /\ EdgesOf(h) = EdgesOf(g) /\ StationsOf(h) = StationsOf(g)
<1> DEFINE h == NodeDeleted(g, id)
           new == Erased(g.lif, "nodes", g.node[id])
           node == EraseSwap(g.node, g.lif, "nodes", "nodeId", id)
           edges == EdgesOf(g)
           stations == StationsOf(g)
<1>1. /\ DOMAIN h = GraphFields
      /\ h.lif = new /\ h.node = node
      /\ h.edge = g.edge /\ h.station = g.station
      /\ h.outbound = Without(g.outbound, {id})
      /\ h.inbound = Without(g.inbound, {id})
      /\ h.stations = Without(g.stations, {id})
  BY DEF NodeDeleted, GraphInv, GraphFields
<1>2. /\ Tables(g.lif, g.node, g.edge, g.station)
      /\ Lists(g, g.node, g.edge, edges, stations)
  BY DEF GraphInv, EdgesOf, StationsOf
<1>3. IsLif(g.lif) /\ Indexed(g.lif, "nodes", "nodeId", g.node)
  BY <1>2 DEF Tables
<1>4. g.node[id] \in Places(g.lif, "nodes")
  BY <1>3 DEF Indexed
<1>5. /\ OnlyList(new, g.lif, "nodes")
      /\ Shrunk(new, g.lif, "nodes", g.node[id], LastPlace(g.lif, "nodes", g.node[id]))
  BY <1>3, <1>4, EraseShrinks, ListNames
<1> HIDE DEF new, h
<1>6. IndexShrunk(new, g.lif, "nodes", "nodeId", g.node, node, id)
  BY <1>3, <1>5, ShrunkIndex
<1> HIDE DEF node
<1>7. Tables(new, node, g.edge, g.station) /\ EdgesOf(h) = edges /\ StationsOf(h) = stations
  BY <1>1, <1>2, <1>5, <1>6, OnlyNodes DEF IndexShrunk, EdgesOf, StationsOf
<1> HIDE DEF edges, stations
<1>8. EndsKnown(node, g.edge, edges) /\ StationsKnown(node, stations)
  BY <1>2, <1>6 DEF IndexShrunk, Lists, EndsKnown, StationsKnown, Unreferenced, edges, stations
<1>9. /\ ListsEdges(h.outbound, DOMAIN node, edges, "startNodeId")
      /\ ListsEdges(h.inbound, DOMAIN node, edges, "endNodeId")
  BY <1>1, <1>2, <1>6 DEF IndexShrunk, Lists, ListsEdges, Without
<1>10. ListsStations(h.stations, DOMAIN node, stations)
  BY <1>1, <1>2, <1>6 DEF IndexShrunk, Lists, ListsStations, Without, Lookup
<1> QED
  BY <1>1, <1>6, <1>7, <1>8, <1>9, <1>10
     DEF IndexShrunk, GraphInv, Lists, h, edges, stations, EdgesOf, StationsOf

LEMMA DeleteNodeKeeps ==
  ASSUME GraphInv(graph), NEW id, DeleteNode(id)
  PROVE  GraphInv(graph')
<1>1. id \in DOMAIN graph.node /\ NodeIsFree(graph, id) /\ graph' = NodeDeleted(graph, id)
  BY DEF DeleteNode
<1>2. Lists(graph, graph.node, graph.edge, EdgesOf(graph), StationsOf(graph))
  BY DEF GraphInv, EdgesOf, StationsOf
<1>3. /\ EdgesAt(EdgesOf(graph), "startNodeId", id) = EmptyBag
      /\ EdgesAt(EdgesOf(graph), "endNodeId", id) = EmptyBag
      /\ Mentions(StationsOf(graph), id) = EmptyBag
  BY <1>1, <1>2 DEF NodeIsFree, Lists, ListsEdges, ListsStations
<1>4. Unreferenced(EdgesOf(graph), StationsOf(graph), id)
  <2>1. \A e \in DOMAIN EdgesOf(graph) : EdgesOf(graph)[e].startNodeId # id
    BY <1>3, NoEdges
  <2>2. \A e \in DOMAIN EdgesOf(graph) : EdgesOf(graph)[e].endNodeId # id
    BY <1>3, NoEdges
  <2> QED
    BY <2>1, <2>2, <1>3, NoMentions DEF Unreferenced
<1> QED
  BY <1>1, <1>4, NodeDeletedKeeps

LEMMA DeleteEdgeKeeps ==
  ASSUME GraphInv(graph), NEW id, DeleteEdge(id)
  PROVE  GraphInv(graph')
<1> DEFINE edges == EdgesOf(graph)
           stations == StationsOf(graph)
           e == edges[id]
           new == Erased(graph.lif, "edges", graph.edge[id])
           edge == EraseSwap(graph.edge, graph.lif, "edges", "edgeId", id)
           less == Without(edges, {id})
<1>1. id \in DOMAIN graph.edge /\ id \in DOMAIN edges
  BY DEF DeleteEdge, EdgesOf, Found
<1>2. At(graph.lif, "edges", graph.edge[id]) = e
  BY <1>1 DEF EdgesOf, Found
<1> HIDE DEF e
<1>3. graph' = [graph EXCEPT
        !.outbound[e.startNodeId] = @ (-) Once(id),
        !.inbound[e.endNodeId] = @ (-) Once(id),
        !.edge = EraseSwap(@, graph.lif, "edges", "edgeId", id),
        !.lif = Erased(@, "edges", graph.edge[id])]
  BY <1>2 DEF DeleteEdge
<1>4. /\ DOMAIN graph' = GraphFields
      /\ graph'.lif = new /\ graph'.edge = edge
      /\ graph'.node = graph.node /\ graph'.station = graph.station
      /\ graph'.outbound = [graph.outbound EXCEPT ![e.startNodeId] = @ (-) Once(id)]
      /\ graph'.inbound = [graph.inbound EXCEPT ![e.endNodeId] = @ (-) Once(id)]
      /\ graph'.stations = graph.stations
  BY <1>3 DEF GraphInv, GraphFields
<1>5. /\ Tables(graph.lif, graph.node, graph.edge, graph.station)
      /\ Lists(graph, graph.node, graph.edge, edges, stations)
  BY DEF GraphInv, EdgesOf, StationsOf
<1>6. IsLif(graph.lif) /\ Indexed(graph.lif, "edges", "edgeId", graph.edge)
  BY <1>5 DEF Tables
<1>7. graph.edge[id] \in Places(graph.lif, "edges")
  BY <1>1, <1>6 DEF Indexed
<1>8. /\ OnlyList(new, graph.lif, "edges")
      /\ Shrunk(new, graph.lif, "edges", graph.edge[id],
                LastPlace(graph.lif, "edges", graph.edge[id]))
  BY <1>6, <1>7, EraseShrinks, ListNames
<1> HIDE DEF new
<1>index. IndexShrunk(new, graph.lif, "edges", "edgeId", graph.edge, edge, id)
  BY <1>1, <1>6, <1>8, ShrunkIndex
<1> HIDE DEF edge
<1>9. /\ Indexed(new, "edges", "edgeId", edge)
      /\ Found(new, "edges", edge) = less
      /\ DOMAIN edge = DOMAIN graph.edge \ {id}
      /\ \A x \in DOMAIN edge : edge[x][1] = graph.edge[x][1]
  BY <1>index DEF IndexShrunk, EdgesOf
<1>10. /\ Tables(new, graph.node, edge, graph.station)
       /\ Found(new, "stations", graph.station) = stations
  BY <1>5, <1>8, <1>9, OnlyEdges DEF StationsOf
<1> HIDE DEF edges, stations
<1>11. EndsKnown(graph.node, edge, less)
  BY <1>5, <1>9 DEF Lists, EndsKnown, Without
<1>12. e.startNodeId \in DOMAIN graph.node /\ e.endNodeId \in DOMAIN graph.node
  BY <1>1, <1>5 DEF Lists, EndsKnown, e
<1>13. ListsEdges(graph'.outbound, DOMAIN graph.node, less, "startNodeId")
  BY <1>1, <1>4, <1>5, <1>12, ListsEdgesRemoved DEF Lists, e
<1>14. ListsEdges(graph'.inbound, DOMAIN graph.node, less, "endNodeId")
  BY <1>1, <1>4, <1>5, <1>12, ListsEdgesRemoved DEF Lists, e
<1> QED
  BY <1>4, <1>5, <1>9, <1>10, <1>11, <1>13, <1>14 DEF GraphInv, Lists

LEMMA DeleteStationKeeps ==
  ASSUME GraphInv(graph), NEW id, DeleteStation(id)
  PROVE  GraphInv(graph')
<1> DEFINE edges == EdgesOf(graph)
           stations == StationsOf(graph)
           s == stations[id]
           new == Erased(graph.lif, "stations", graph.station[id])
           station == EraseSwap(graph.station, graph.lif, "stations", "stationId", id)
           less == Without(stations, {id})
<1>1. id \in DOMAIN graph.station /\ id \in DOMAIN stations
  BY DEF DeleteStation, StationsOf, Found
<1>2. At(graph.lif, "stations", graph.station[id]) = s
  BY <1>1 DEF StationsOf, Found
<1> HIDE DEF s
<1>3. graph' = [graph EXCEPT
        !.stations = Shorter(@, id, s),
        !.station = EraseSwap(@, graph.lif, "stations", "stationId", id),
        !.lif = Erased(@, "stations", graph.station[id])]
  BY <1>2 DEF DeleteStation, Shorter
<1>4. /\ DOMAIN graph' = GraphFields
      /\ graph'.lif = new /\ graph'.station = station
      /\ graph'.node = graph.node /\ graph'.edge = graph.edge
      /\ graph'.outbound = graph.outbound /\ graph'.inbound = graph.inbound
      /\ graph'.stations = Shorter(graph.stations, id, s)
  BY <1>3 DEF GraphInv, GraphFields
<1>5. /\ Tables(graph.lif, graph.node, graph.edge, graph.station)
      /\ Lists(graph, graph.node, graph.edge, edges, stations)
  BY DEF GraphInv, EdgesOf, StationsOf
<1>6. IsLif(graph.lif) /\ Indexed(graph.lif, "stations", "stationId", graph.station)
  BY <1>5 DEF Tables
<1>7. graph.station[id] \in Places(graph.lif, "stations")
  BY <1>1, <1>6 DEF Indexed
<1>8. /\ OnlyList(new, graph.lif, "stations")
      /\ Shrunk(new, graph.lif, "stations", graph.station[id],
                LastPlace(graph.lif, "stations", graph.station[id]))
  BY <1>6, <1>7, EraseShrinks, ListNames
<1> HIDE DEF new
<1>index. IndexShrunk(new, graph.lif, "stations", "stationId", graph.station, station, id)
  BY <1>1, <1>6, <1>8, ShrunkIndex
<1> HIDE DEF station
<1>9. Indexed(new, "stations", "stationId", station) /\ Found(new, "stations", station) = less
  BY <1>index DEF IndexShrunk, StationsOf
<1>10. /\ Tables(new, graph.node, graph.edge, station)
       /\ Found(new, "edges", graph.edge) = edges
  BY <1>5, <1>8, <1>9, OnlyStations DEF EdgesOf
<1> HIDE DEF edges, stations
<1>11. StationsKnown(graph.node, less)
  BY <1>5 DEF Lists, StationsKnown, Without
<1>12. ListsStations(graph'.stations, DOMAIN graph.node, less)
  BY <1>1, <1>4, <1>5, ListsStationsRemoved DEF Lists, StationsKnown, s
<1> QED
  BY <1>4, <1>5, <1>9, <1>10, <1>11, <1>12 DEF GraphInv, Lists

-----------------------------------------------------------------------------
(* prune: one node after another.                                          *)

LEMMA LeastNat ==
  ASSUME NEW S \in SUBSET Nat, S # {}
  PROVE  \E m \in S : \A k \in S : ~ (k < m)
<1>1. IsWellFoundedOn(OpToRel(<, Nat), Nat)
  BY NatLessThanWellFounded, Zenon
<1>2. \E m \in S : \A k \in S : ~ (<<k, m>> \in OpToRel(<, Nat))
  BY <1>1, WFMin, Zenon
<1> QED
  BY <1>2, Zenon DEF OpToRel

Deletions(g, ids, n, after) ==
  after = [k \in 0 .. n |-> IF k = 0 THEN g ELSE NodeDeleted(after[k - 1], ids[k])]

(* The states of the graph between the deletions.                          *)
LEMMA DeletionsExist ==
  ASSUME NEW g, NEW ids, NEW n \in Nat
  PROVE  \E after : Deletions(g, ids, n, after)
<1> DEFINE Missing == {m \in Nat : ~ \E after : Deletions(g, ids, m, after)}
<1>1. ASSUME Missing # {}
      PROVE  FALSE
  <2>1. PICK m \in Missing : \A k \in Missing : ~ (k < m)
    <3> HIDE DEF Missing
    <3>1. ASSUME Missing \subseteq Nat
          PROVE  \E m \in Missing : \A k \in Missing : ~ (k < m)
      BY <1>1, <3>1, LeastNat
    <3>2. Missing \subseteq Nat
      BY DEF Missing
    <3> QED
      BY <3>1, <3>2
  <2>2. CASE m = 0
    <3>1. Deletions(g, ids, 0, [k \in 0 .. 0 |-> g])
      BY DEF Deletions
    <3> QED
      BY <2>2, <3>1
  <2>3. CASE m # 0
    <3>1. m - 1 \in Nat /\ m - 1 < m
      BY <2>3
    <3>2. PICK f : Deletions(g, ids, m - 1, f)
      BY <2>1, <3>1
    <3> DEFINE d == NodeDeleted(f[m - 1], ids[m])
               f2 == [k \in 0 .. m |-> IF k = m THEN d ELSE f[k]]
    <3>3. \A k \in 0 .. m - 1 : f[k] = IF k = 0 THEN g ELSE NodeDeleted(f[k - 1], ids[k])
      BY <3>2 DEF Deletions
    <3>4. ASSUME NEW k \in 0 .. m
          PROVE  f2[k] = IF k = 0 THEN g ELSE NodeDeleted(f2[k - 1], ids[k])
      <4>1. CASE k = m
        <5>1. m - 1 \in 0 .. m /\ m - 1 # m /\ f2[m - 1] = f[m - 1]
          BY <3>1
        <5> QED
          BY <4>1, <5>1, <2>3
      <4>2. CASE k # m
        <5>1. k \in 0 .. m - 1 /\ f2[k] = f[k]
          BY <4>2
        <5>2. k # 0 => k - 1 \in 0 .. m /\ k - 1 # m /\ f2[k - 1] = f[k - 1]
          BY <4>2
        <5> QED
          BY <3>3, <5>1, <5>2
      <4> QED
        BY <4>1, <4>2
    <3>5. Deletions(g, ids, m, f2)
      BY <3>4 DEF Deletions
    <3> QED
      BY <3>5
  <2> QED
    BY <2>2, <2>3
<1> QED
  BY <1>1

(* What is deleted one after another is what NodesDeleted deletes.         *)
LEMMA NodesDeletedIs ==
  ASSUME NEW g, NEW ids, Len(ids) \in Nat
  PROVE  \E after : /\ Deletions(g, ids, Len(ids), after)
                    /\ NodesDeleted(g, ids) = after[Len(ids)]
<1>1. \E after : Deletions(g, ids, Len(ids), after)
  BY DeletionsExist
<1> QED
  BY <1>1 DEF NodesDeleted, Deletions

(* A state of the graph after k of n deletions: the rest are still there.  *)
Remains(g, h, ids, k, n) ==
  /\ GraphInv(h)
  /\ EdgesOf(h) = EdgesOf(g) /\ StationsOf(h) = StationsOf(g)
  /\ \A j \in (k + 1) .. n : ids[j] \in DOMAIN h.node

LEMMA DeletionsKeep ==
  ASSUME NEW g, GraphInv(g), NEW n \in Nat, NEW ids, NEW after, Deletions(g, ids, n, after),
         \A j \in 1 .. n : /\ ids[j] \in DOMAIN g.node
                           /\ Unreferenced(EdgesOf(g), StationsOf(g), ids[j]),
         \A j, k \in 1 .. n : j < k => ids[j] # ids[k]
  PROVE  GraphInv(after[n])
<1> DEFINE Wrong == {k \in 0 .. n : ~ Remains(g, after[k], ids, k, n)}
<1>1. \A k \in 0 .. n : after[k] = IF k = 0 THEN g ELSE NodeDeleted(after[k - 1], ids[k])
  BY DEF Deletions
<1>2. Remains(g, after[0], ids, 0, n)
  BY <1>1 DEF Remains
<1>3. ASSUME NEW k \in 1 .. n, Remains(g, after[k - 1], ids, k - 1, n)
      PROVE  Remains(g, after[k], ids, k, n)
  <2>1. after[k] = NodeDeleted(after[k - 1], ids[k])
    BY <1>1
  <2>2. /\ GraphInv(after[k - 1])
        /\ ids[k] \in DOMAIN after[k - 1].node
        /\ Unreferenced(EdgesOf(after[k - 1]), StationsOf(after[k - 1]), ids[k])
    BY <1>3 DEF Remains
  <2>3. /\ GraphInv(after[k])
        /\ DOMAIN after[k].node = DOMAIN after[k - 1].node \ {ids[k]}
        /\ EdgesOf(after[k]) = EdgesOf(after[k - 1])
        /\ StationsOf(after[k]) = StationsOf(after[k - 1])
    BY <2>1, <2>2, NodeDeletedKeeps
  <2>4. \A j \in (k + 1) .. n : ids[j] # ids[k] /\ ids[j] \in DOMAIN after[k - 1].node
    BY <1>3 DEF Remains
  <2> QED
    BY <1>3, <2>3, <2>4 DEF Remains
<1>4. ASSUME Wrong # {}
      PROVE  FALSE
  <2>1. Wrong \in SUBSET Nat
    OBVIOUS
  <2>2. PICK m \in Wrong : \A k \in Wrong : ~ (k < m)
    <3> HIDE DEF Wrong
    <3> QED
      BY <1>4, <2>1, LeastNat
  <2>3. m # 0
    BY <1>2
  <2>4. m \in 1 .. n /\ m - 1 \in 0 .. n /\ m - 1 < m
    BY <2>3
  <2>5. Remains(g, after[m - 1], ids, m - 1, n)
    BY <2>2, <2>4
  <2> QED
    BY <1>3, <2>4, <2>5
<1>5. Remains(g, after[n], ids, n, n)
  BY <1>4
<1> QED
  BY <1>5 DEF Remains

LEMMA FiniteImage ==
  ASSUME NEW S, IsFiniteSet(S), NEW f, DOMAIN f = S
  PROVE  IsFiniteSet({f[x] : x \in S})
<1> DEFINE T == {f[x] : x \in S}
           h == [x \in S |-> f[x]]
<1>1. h \in Surjection(S, T)
  BY DEF Surjection
<1> QED
  BY <1>1, FS_Surjection

(* A LIF has finitely many elements.                                       *)
LEMMA PlacesFinite ==
  ASSUME NEW lif, IsLif(lif), NEW list \in ElementLists
  PROVE  IsFiniteSet(Places(lif, list))
<1> DEFINE row(i) == {<<i, j>> : j \in DOMAIN lif.layouts[i][list]}
           rows == [i \in DOMAIN lif.layouts |-> row(i)]
<1>1. ASSUME NEW s, IsSeq(s)
      PROVE  IsFiniteSet(DOMAIN s)
  <2>1. DOMAIN s = 1 .. Len(s) /\ Len(s) \in Nat
    BY <1>1, SeqShape
  <2> QED
    BY <2>1, FS_Interval
<1>2. ASSUME NEW i \in DOMAIN lif.layouts
      PROVE  IsFiniteSet(row(i))
  <2> DEFINE f == [j \in DOMAIN lif.layouts[i][list] |-> <<i, j>>]
  <2>1. IsFiniteSet(DOMAIN lif.layouts[i][list])
    BY <1>1 DEF IsLif
  <2>2. row(i) = {f[j] : j \in DOMAIN f} /\ DOMAIN f = DOMAIN lif.layouts[i][list]
    OBVIOUS
  <2> HIDE DEF f, row
  <2>3. IsFiniteSet({f[j] : j \in DOMAIN f})
    BY <2>1, <2>2, FiniteImage
  <2> QED
    BY <2>2, <2>3
<1>3. IsFiniteSet({rows[i] : i \in DOMAIN lif.layouts})
  <2>1. IsFiniteSet(DOMAIN lif.layouts)
    BY <1>1 DEF IsLif
  <2> QED
    BY <2>1, FiniteImage
<1>4. Places(lif, list) = UNION {rows[i] : i \in DOMAIN lif.layouts}
  BY DEF Places
<1> HIDE DEF row
<1> QED
  BY <1>2, <1>3, <1>4, FS_UNION

LEMMA IndexFinite ==
  ASSUME NEW lif, IsLif(lif), NEW list \in ElementLists, NEW key, NEW index,
         Indexed(lif, list, key, index)
  PROVE  IsFiniteSet(DOMAIN index)
<1>1. index \in Injection(DOMAIN index, Places(lif, list))
  BY DEF Indexed, Injection, IsInjective
<1> QED
  BY <1>1, PlacesFinite, FS_Injection

(* prune finds the nodes nothing refers to.                                *)
LEMMA VictimsUnreferenced ==
  ASSUME NEW g, GraphInv(g), NEW id \in UnconnectedNodes(g)
  PROVE  id \in DOMAIN g.node /\ Unreferenced(EdgesOf(g), StationsOf(g), id)
<1>1. /\ Lists(g, g.node, g.edge, EdgesOf(g), StationsOf(g))
      /\ Indexed(g.lif, "stations", "stationId", g.station)
  BY DEF GraphInv, EdgesOf, StationsOf, Tables
<1>2. /\ id \in DOMAIN g.node
      /\ g.outbound[id] = EmptyBag /\ g.inbound[id] = EmptyBag
      /\ \A p \in Places(g.lif, "stations") : id \notin Named(At(g.lif, "stations", p))
  BY DEF UnconnectedNodes
<1>3. /\ EdgesAt(EdgesOf(g), "startNodeId", id) = EmptyBag
      /\ EdgesAt(EdgesOf(g), "endNodeId", id) = EmptyBag
  BY <1>1, <1>2 DEF Lists, ListsEdges
<1>4. \A e \in DOMAIN EdgesOf(g) : EdgesOf(g)[e].startNodeId # id
  BY <1>3, NoEdges
<1>5. \A e \in DOMAIN EdgesOf(g) : EdgesOf(g)[e].endNodeId # id
  BY <1>3, NoEdges
<1>6. \A s \in DOMAIN StationsOf(g) : id \notin Named(StationsOf(g)[s])
  BY <1>1, <1>2 DEF StationsOf, Found, Indexed
<1> QED
  BY <1>2, <1>4, <1>5, <1>6 DEF Unreferenced

LEMMA BeforeIsStrict ==
  ASSUME NEW lif, IsLif(lif), NEW list \in ElementLists, NEW p \in Places(lif, list)
  PROVE  ~ Before(p, p)
<1>1. p[1] \in DOMAIN lif.layouts /\ p[2] \in DOMAIN lif.layouts[p[1]][list]
  BY PlaceIsPair
<1>2. p[1] \in Nat /\ p[2] \in Nat
  BY <1>1, SeqShape DEF IsLif
<1> QED
  BY <1>2 DEF Before

LEMMA PruneKeeps ==
  ASSUME GraphInv(graph), Prune
  PROVE  GraphInv(graph')
<1> DEFINE victims == UnconnectedNodes(graph)
           n == Cardinality(victims)
<1>1. PICK ids \in [1 .. n -> victims] :
        InFileOrder(graph, ids) /\ graph' = NodesDeleted(graph, ids)
  BY DEF Prune
<1>2. Indexed(graph.lif, "nodes", "nodeId", graph.node) /\ IsLif(graph.lif)
  BY DEF GraphInv, Tables
<1>3. n \in Nat
  <2>1. IsFiniteSet(DOMAIN graph.node)
    BY <1>2, IndexFinite, ListNames
  <2>2. victims \subseteq DOMAIN graph.node
    BY DEF UnconnectedNodes
  <2> QED
    BY <2>1, <2>2, FS_Subset, FS_CardinalityType
<1> HIDE DEF n
<1>4. Len(ids) = n /\ DOMAIN ids = 1 .. n
  <2>1. ids = [j \in 1 .. n |-> ids[j]]
    BY <1>1
  <2> QED
    BY <1>3, <2>1, FunctionIsSeq
<1>5. \A j \in 1 .. n : /\ ids[j] \in DOMAIN graph.node
                        /\ Unreferenced(EdgesOf(graph), StationsOf(graph), ids[j])
  BY <1>1, VictimsUnreferenced
<1>6. \A j, k \in 1 .. n : j < k => ids[j] # ids[k]
  <2>1. \A id \in DOMAIN graph.node : ~ Before(graph.node[id], graph.node[id])
    BY <1>2, BeforeIsStrict, ListNames DEF Indexed
  <2> QED
    BY <1>1, <1>4, <1>5, <2>1 DEF InFileOrder
<1>7. PICK after : /\ Deletions(graph, ids, n, after)
                   /\ NodesDeleted(graph, ids) = after[n]
  BY <1>3, <1>4, NodesDeletedIs
<1>8. GraphInv(after[n])
  BY <1>3, <1>5, <1>6, <1>7, DeletionsKeep
<1> QED
  BY <1>1, <1>7, <1>8

-----------------------------------------------------------------------------
(* A field of one element, or of several, is assigned to.                  *)

WithField(x, key, v) == [x EXCEPT ![key] = v]

LEMMA FieldShape ==
  ASSUME NEW list \in ElementLists, NEW x, IsElement(list, x), NEW key \in Fields[list],
         key # "interactionNodeIds", NEW v
  PROVE  /\ IsElement(list, WithField(x, key, v))
         /\ WithField(x, key, v)[key] = v
         /\ \A k \in Fields[list] : k # key => WithField(x, key, v)[k] = x[k]
<1>1. Fields[list] \subseteq DOMAIN x /\ x = [k \in DOMAIN x |-> x[k]]
  BY DEF IsElement, HasFields
<1>2. /\ DOMAIN WithField(x, key, v) = DOMAIN x
      /\ WithField(x, key, v) = [k \in DOMAIN x |-> WithField(x, key, v)[k]]
      /\ WithField(x, key, v)[key] = v
      /\ \A k \in DOMAIN x : k # key => WithField(x, key, v)[k] = x[k]
  BY <1>1 DEF WithField
<1>3. HasFields(WithField(x, key, v), Fields[list])
  BY <1>1, <1>2 DEF HasFields
<1>4. ASSUME list = "stations"
      PROVE  IsSeq(WithField(x, key, v).interactionNodeIds)
  <2>1. "interactionNodeIds" \in DOMAIN x
    BY <1>1, <1>4 DEF Fields, ElementLists
  <2> QED
    BY <2>1, <1>2, <1>4 DEF IsElement
<1> QED
  BY <1>1, <1>2, <1>3, <1>4 DEF IsElement

(* An element of a list gets a new id.                                     *)
LEMMA FieldRenamed ==
  ASSUME NEW lif, IsLif(lif), NEW list \in ElementLists,
         NEW key \in Fields[list], key # "interactionNodeIds",
         NEW index, Indexed(lif, list, key, index),
         NEW old \in DOMAIN index, NEW id, id \notin DOMAIN index
  PROVE  /\ OnlyList(FieldSet(lif, list, {index[old]}, key, id), lif, list)
         /\ IndexRenamed(FieldSet(lif, list, {index[old]}, key, id), lif, list, key,
                         index, Rekey(index, old, id), old, id,
                         WithField(Found(lif, list, index)[old], key, id))
<1> DEFINE place == index[old]
           element == WithField(Found(lif, list, index)[old], key, id)
           elements == OnlyAt(place, element)
           new == FieldSet(lif, list, {place}, key, id)
<1>1. place \in Places(lif, list) /\ Found(lif, list, index)[old] = At(lif, list, place)
  BY DEF Indexed, Found
<1>2. elements = [p \in {place} |-> [At(lif, list, p) EXCEPT ![key] = id]]
  BY <1>1 DEF WithField, OnlyAt
<1>3. new = Replaced(lif, list, elements)
  BY <1>2 DEF FieldSet
<1>4. IsElement(list, element) /\ element[key] = id
  BY <1>1, ElementAt, FieldShape
<1> HIDE DEF element, new
<1>5. \A p \in DOMAIN elements : IsElement(list, elements[p])
  BY <1>4 DEF OnlyAt
<1>6. OnlyList(new, lif, list) /\ Changed(new, lif, list, elements)
  <2> HIDE DEF elements
  <2> QED
    BY <1>3, <1>5, ReplaceChanges
<1>7. IndexRenamed(new, lif, list, key, index, Rekey(index, old, id), old, id, element)
  <2> HIDE DEF elements, place
  <2>1. Changed(new, lif, list, OnlyAt(index[old], element))
    BY <1>6 DEF elements, place
  <2> QED
    BY <2>1, <1>4, RenamedIndex
<1> QED
  BY <1>6, <1>7 DEF new, element

LEMMA UpdateEdgeIdKeeps ==
  ASSUME GraphInv(graph), NEW old, NEW id, UpdateEdgeId(old, id)
  PROVE  GraphInv(graph')
<1> DEFINE edges == EdgesOf(graph)
           stations == StationsOf(graph)
           e == edges[old]
           x == WithField(e, "edgeId", id)
           new == FieldSet(graph.lif, "edges", {graph.edge[old]}, "edgeId", id)
           edge == Rekey(graph.edge, old, id)
           rekeyed == With(Without(edges, {old}), id, x)
<1>1. old \in DOMAIN graph.edge /\ id \notin DOMAIN graph.edge
  BY DEF UpdateEdgeId
<1>2. At(graph.lif, "edges", graph.edge[old]) = e /\ DOMAIN edges = DOMAIN graph.edge
  BY <1>1 DEF EdgesOf, Found
<1> HIDE DEF e
<1>3. graph' = [graph EXCEPT
        !.lif = FieldSet(@, "edges", {graph.edge[old]}, "edgeId", id),
        !.outbound[e.startNodeId] = Rekey(@, old, id),
        !.inbound[e.endNodeId] = Rekey(@, old, id),
        !.edge = Rekey(@, old, id)]
  BY <1>2 DEF UpdateEdgeId
<1>4. /\ DOMAIN graph' = GraphFields
      /\ graph'.lif = new /\ graph'.edge = edge
      /\ graph'.node = graph.node /\ graph'.station = graph.station
      /\ graph'.outbound = [graph.outbound EXCEPT ![e.startNodeId] = Rekey(@, old, id)]
      /\ graph'.inbound = [graph.inbound EXCEPT ![e.endNodeId] = Rekey(@, old, id)]
      /\ graph'.stations = graph.stations
  BY <1>3 DEF GraphInv, GraphFields
<1>5. /\ Tables(graph.lif, graph.node, graph.edge, graph.station)
      /\ Lists(graph, graph.node, graph.edge, edges, stations)
  BY DEF GraphInv, EdgesOf, StationsOf
<1>6. IsLif(graph.lif) /\ Indexed(graph.lif, "edges", "edgeId", graph.edge)
  BY <1>5 DEF Tables
<1>7. /\ Fields["edges"] = {"edgeId", "startNodeId", "endNodeId"}
      /\ "edges" \in ElementLists
  BY DEF Fields, ElementLists
<1>8. IsElement("edges", e)
  BY <1>1, <1>2, <1>6, <1>7, ElementAt DEF Indexed
<1>9. x.startNodeId = e.startNodeId /\ x.endNodeId = e.endNodeId
  BY <1>7, <1>8, FieldShape
<1>10. /\ OnlyList(new, graph.lif, "edges")
       /\ IndexRenamed(new, graph.lif, "edges", "edgeId", graph.edge, edge, old, id, x)
  BY <1>1, <1>6, <1>7, FieldRenamed DEF EdgesOf, e
<1> HIDE DEF new, edge, x
<1>11. /\ OnlyList(new, graph.lif, "edges")
       /\ Indexed(new, "edges", "edgeId", edge)
       /\ Found(new, "edges", edge) = rekeyed
       /\ DOMAIN edge = (DOMAIN graph.edge \ {old}) \cup {id}
       /\ \A y \in DOMAIN graph.edge \ {old} : edge[y] = graph.edge[y]
       /\ edge[id] = graph.edge[old]
  BY <1>10 DEF IndexRenamed, EdgesOf
<1>12. /\ Tables(new, graph.node, edge, graph.station)
       /\ Found(new, "stations", graph.station) = stations
  BY <1>5, <1>11, OnlyEdges DEF StationsOf
<1> HIDE DEF edges, stations
<1>13. EndsKnown(graph.node, edge, rekeyed)
  BY <1>1, <1>2, <1>5, <1>9, <1>11 DEF Lists, EndsKnown, With, Without, e
<1>14. x.startNodeId \in DOMAIN graph.node /\ x.endNodeId \in DOMAIN graph.node
  BY <1>1, <1>2, <1>5, <1>9 DEF Lists, EndsKnown, e
<1>15. ListsEdges(graph'.outbound, DOMAIN graph.node, rekeyed, "startNodeId")
  BY <1>1, <1>2, <1>4, <1>5, <1>9, <1>14, ListsEdgesRekeyed DEF Lists, e
<1>16. ListsEdges(graph'.inbound, DOMAIN graph.node, rekeyed, "endNodeId")
  BY <1>1, <1>2, <1>4, <1>5, <1>9, <1>14, ListsEdgesRekeyed DEF Lists, e
<1> QED
  BY <1>4, <1>5, <1>11, <1>12, <1>13, <1>15, <1>16 DEF GraphInv, Lists

LEMMA UpdateStationIdKeeps ==
  ASSUME GraphInv(graph), NEW old, NEW id, UpdateStationId(old, id)
  PROVE  GraphInv(graph')
<1> DEFINE edges == EdgesOf(graph)
           stations == StationsOf(graph)
           s == stations[old]
           x == WithField(s, "stationId", id)
           new == FieldSet(graph.lif, "stations", {graph.station[old]}, "stationId", id)
           station == Rekey(graph.station, old, id)
           rekeyed == With(Without(stations, {old}), id, x)
<1>1. old \in DOMAIN graph.station /\ id \notin DOMAIN graph.station
  BY DEF UpdateStationId
<1>2. At(graph.lif, "stations", graph.station[old]) = s /\ DOMAIN stations = DOMAIN graph.station
  BY <1>1 DEF StationsOf, Found
<1> HIDE DEF s
<1>3. graph' = [graph EXCEPT
        !.lif = FieldSet(@, "stations", {graph.station[old]}, "stationId", id),
        !.stations = Relabelled(@, old, id, s),
        !.station = Rekey(@, old, id)]
  BY <1>2 DEF UpdateStationId, Relabelled
<1>4. /\ DOMAIN graph' = GraphFields
      /\ graph'.lif = new /\ graph'.station = station
      /\ graph'.node = graph.node /\ graph'.edge = graph.edge
      /\ graph'.outbound = graph.outbound /\ graph'.inbound = graph.inbound
      /\ graph'.stations = Relabelled(graph.stations, old, id, s)
  BY <1>3 DEF GraphInv, GraphFields
<1>5. /\ Tables(graph.lif, graph.node, graph.edge, graph.station)
      /\ Lists(graph, graph.node, graph.edge, edges, stations)
  BY DEF GraphInv, EdgesOf, StationsOf
<1>6. IsLif(graph.lif) /\ Indexed(graph.lif, "stations", "stationId", graph.station)
  BY <1>5 DEF Tables
<1>7. /\ Fields["stations"] = {"stationId", "interactionNodeIds"}
      /\ "stations" \in ElementLists
  BY DEF Fields, ElementLists
<1>8. IsElement("stations", s)
  BY <1>1, <1>2, <1>6, <1>7, ElementAt DEF Indexed
<1>9. /\ IsElement("stations", x)
      /\ x.interactionNodeIds = s.interactionNodeIds
  BY <1>7, <1>8, FieldShape
<1>10. /\ OnlyList(new, graph.lif, "stations")
       /\ IndexRenamed(new, graph.lif, "stations", "stationId", graph.station, station, old, id, x)
  BY <1>1, <1>6, <1>7, FieldRenamed DEF StationsOf, s
<1> HIDE DEF new, station, x
<1>11. /\ OnlyList(new, graph.lif, "stations")
       /\ Indexed(new, "stations", "stationId", station)
       /\ Found(new, "stations", station) = rekeyed
  BY <1>10 DEF IndexRenamed, StationsOf
<1>12. /\ Tables(new, graph.node, graph.edge, station)
       /\ Found(new, "edges", graph.edge) = edges
  BY <1>5, <1>11, OnlyStations DEF EdgesOf
<1> HIDE DEF edges, stations
<1>13. Named(x) = Named(s)
  BY <1>9 DEF Named
<1>14. StationsKnown(graph.node, rekeyed)
  BY <1>1, <1>2, <1>5, <1>9, <1>13 DEF Lists, StationsKnown, With, Without, s
<1>15. ListsStations(graph'.stations, DOMAIN graph.node, rekeyed)
  BY <1>1, <1>2, <1>4, <1>5, <1>9, ListsStationsRekeyed DEF Lists, s
<1> QED
  BY <1>4, <1>5, <1>11, <1>12, <1>14, <1>15 DEF GraphInv, Lists

-----------------------------------------------------------------------------
(* update_node_id: what referred to the old id refers to the new one.      *)

Moved(n, old, id) == IF n = old THEN id ELSE n

Rewritten(new, lif, list, key, index, found) ==
  /\ OnlyList(new, lif, list)
  /\ Indexed(new, list, key, index)
  /\ Found(new, list, index) = found

LEMMA ReplaceRewrites ==
  ASSUME NEW lif, IsLif(lif), NEW list \in ElementLists, NEW key, NEW index,
         Indexed(lif, list, key, index), NEW elements,
         \A p \in DOMAIN elements : /\ IsElement(list, elements[p])
                                    /\ elements[p][key] = At(lif, list, p)[key]
  PROVE  Rewritten(Replaced(lif, list, elements), lif, list, key, index,
                   Overlaid(Found(lif, list, index), index, elements))
<1> DEFINE new == Replaced(lif, list, elements)
<1>1. OnlyList(new, lif, list) /\ Changed(new, lif, list, elements)
  BY ReplaceChanges
<1> HIDE DEF new
<1>2. /\ Indexed(new, list, key, index)
      /\ Found(new, list, index) = Overlaid(Found(lif, list, index), index, elements)
  BY <1>1, ChangedIndex
<1> QED
  BY <1>1, <1>2 DEF Rewritten, new

Redirected(edges, end, old, id) ==
  [e \in DOMAIN edges |->
     IF edges[e][end] = old THEN WithField(edges[e], end, id) ELSE edges[e]]

FieldsAt(lif, list, places, key, v) ==
  [p \in places |-> WithField(At(lif, list, p), key, v)]

(* The edges in the list of a node are those whose end is renamed.         *)
LEMMA EndRenamedIs ==
  ASSUME NEW lif, IsLif(lif), NEW index, Indexed(lif, "edges", "edgeId", index),
         NEW end \in {"startNodeId", "endNodeId"}, NEW old, NEW id, NEW bag,
         bag = EdgesAt(Found(lif, "edges", index), end, old)
  PROVE  Rewritten(EndRenamed(lif, index, bag, end, id), lif, "edges", "edgeId", index,
                   Redirected(Found(lif, "edges", index), end, old, id))
<1> DEFINE edges == Found(lif, "edges", index)
           places == {index[e] : e \in BagToSet(bag)}
           elements == FieldsAt(lif, "edges", places, end, id)
<1>1. /\ DOMAIN edges = DOMAIN index
      /\ \A e \in DOMAIN index : edges[e] = At(lif, "edges", index[e])
  BY DEF Found
<1>2. BagToSet(bag) = {e \in DOMAIN index : edges[e][end] = old}
  BY <1>1 DEF EdgesAt, BagToSet, SetToBag
<1> HIDE DEF edges
<1>3. \A e \in DOMAIN index : index[e] \in places <=> edges[e][end] = old
  BY <1>2 DEF Indexed
<1>4. places \subseteq Places(lif, "edges")
  BY <1>2 DEF Indexed
<1> HIDE DEF places
<1>5. EndRenamed(lif, index, bag, end, id) = Replaced(lif, "edges", elements)
  BY DEF EndRenamed, FieldSet, FieldsAt, WithField, places
<1>6. /\ DOMAIN elements = places
      /\ \A p \in places : elements[p] = WithField(At(lif, "edges", p), end, id)
  BY DEF FieldsAt
<1> HIDE DEF elements
<1>7. /\ Fields["edges"] = {"edgeId", "startNodeId", "endNodeId"}
      /\ "edges" \in ElementLists
  BY DEF Fields, ElementLists
<1>8. ASSUME NEW p \in places
      PROVE  /\ IsElement("edges", elements[p])
             /\ elements[p]["edgeId"] = At(lif, "edges", p)["edgeId"]
  <2>1. IsElement("edges", At(lif, "edges", p))
    BY <1>4, <1>7, ElementAt
  <2> QED
    BY <2>1, <1>6, <1>7, FieldShape
<1>9. Overlaid(edges, index, elements) = Redirected(edges, end, old, id)
  BY <1>1, <1>3, <1>6 DEF Overlaid, Redirected
<1> QED
  BY <1>5, <1>6, <1>7, <1>8, <1>9, ReplaceRewrites DEF edges

LEMMA RedirectedEnds ==
  ASSUME NEW edges, NEW end \in {"startNodeId", "endNodeId"}, NEW old, NEW id,
         \A e \in DOMAIN edges : IsElement("edges", edges[e])
  PROVE  /\ DOMAIN Redirected(edges, end, old, id) = DOMAIN edges
         /\ \A e \in DOMAIN edges :
              /\ IsElement("edges", Redirected(edges, end, old, id)[e])
              /\ Redirected(edges, end, old, id)[e][end] = Moved(edges[e][end], old, id)
              /\ \A other \in {"startNodeId", "endNodeId"} :
                   other # end =>
                     Redirected(edges, end, old, id)[e][other] = edges[e][other]
<1> DEFINE edges2 == Redirected(edges, end, old, id)
<1>1. /\ Fields["edges"] = {"edgeId", "startNodeId", "endNodeId"}
      /\ "edges" \in ElementLists
  BY DEF Fields, ElementLists
<1>2. DOMAIN edges2 = DOMAIN edges
  BY DEF Redirected
<1>3. ASSUME NEW e \in DOMAIN edges
      PROVE  /\ IsElement("edges", edges2[e])
             /\ edges2[e][end] = Moved(edges[e][end], old, id)
             /\ \A other \in {"startNodeId", "endNodeId"} :
                  other # end => edges2[e][other] = edges[e][other]
  <2>1. CASE edges[e][end] = old
    <3>1. edges2[e] = WithField(edges[e], end, id)
      BY <2>1 DEF Redirected
    <3> QED
      BY <2>1, <3>1, <1>1, FieldShape DEF Moved
  <2>2. CASE edges[e][end] # old
    BY <2>2 DEF Redirected, Moved
  <2> QED
    BY <2>1, <2>2
<1> QED
  BY <1>2, <1>3

(* The list of a node is moved to its new id.                              *)
LEMMA ListsEdgesMoved ==
  ASSUME NEW list, NEW nodes, NEW edges, NEW end, ListsEdges(list, nodes, edges, end),
         NEW old \in nodes, NEW id, id \notin nodes, NEW edges2,
         DOMAIN edges2 = DOMAIN edges,
         \A e \in DOMAIN edges : /\ edges[e][end] \in nodes
                                 /\ edges2[e][end] = Moved(edges[e][end], old, id)
  PROVE  ListsEdges(Rekey(list, old, id), (nodes \ {old}) \cup {id}, edges2, end)
<1> DEFINE nodes2 == (nodes \ {old}) \cup {id}
           list2 == Rekey(list, old, id)
<1>1. \A e \in DOMAIN edges : edges2[e][end] = id <=> edges[e][end] = old
  BY DEF Moved
<1>2. EdgesAt(edges2, end, id) = EdgesAt(edges, end, old)
  BY <1>1 DEF EdgesAt
<1>3. ASSUME NEW n \in nodes \ {old}
      PROVE  EdgesAt(edges2, end, n) = EdgesAt(edges, end, n)
  <2>1. \A e \in DOMAIN edges : edges2[e][end] = n <=> edges[e][end] = n
    BY DEF Moved
  <2> QED
    BY <2>1 DEF EdgesAt
<1>4. /\ DOMAIN list = nodes
      /\ \A n \in nodes : list[n] = EdgesAt(edges, end, n)
  BY DEF ListsEdges
<1>5. /\ DOMAIN list2 = nodes2
      /\ list2 = [n \in nodes2 |-> list2[n]]
      /\ list2[id] = list[old]
      /\ \A n \in nodes \ {old} : list2[n] = list[n]
  BY <1>4 DEF Rekey, With, Without
<1> HIDE DEF list2
<1>6. \A n \in nodes2 : list2[n] = EdgesAt(edges2, end, n)
  BY <1>2, <1>3, <1>4, <1>5
<1> QED
  BY <1>5, <1>6 DEF ListsEdges, list2

Relinked(x, old, id) ==
  [x EXCEPT !.interactionNodeIds = [i \in DOMAIN @ |-> IF @[i] = old THEN id ELSE @[i]]]

(* The station y is x with one interaction node renamed.                   *)
Links(y, x, old, id) ==
  /\ IsElement("stations", y)
  /\ DOMAIN y.interactionNodeIds = DOMAIN x.interactionNodeIds
  /\ \A i \in DOMAIN x.interactionNodeIds :
       y.interactionNodeIds[i] = Moved(x.interactionNodeIds[i], old, id)

LEMMA RelinkedLinks ==
  ASSUME NEW x, IsElement("stations", x), NEW old, NEW id
  PROVE  /\ Links(Relinked(x, old, id), x, old, id)
         /\ Relinked(x, old, id).stationId = x.stationId
<1> DEFINE ids == x.interactionNodeIds
           moved == [i \in DOMAIN ids |-> IF ids[i] = old THEN id ELSE ids[i]]
           y == WithField(x, "interactionNodeIds", moved)
<1>1. Relinked(x, old, id) = y
  BY DEF Relinked, WithField
<1>2. {"stationId", "interactionNodeIds"} \subseteq DOMAIN x /\ x = [k \in DOMAIN x |-> x[k]]
  BY DEF IsElement, HasFields, Fields
<1>3. /\ DOMAIN y = DOMAIN x /\ y = [k \in DOMAIN y |-> y[k]]
      /\ y.interactionNodeIds = moved /\ y.stationId = x.stationId
  BY <1>2 DEF WithField
<1> HIDE DEF y
<1>4. IsSeq(moved)
  <2>1. IsSeq(ids)
    BY DEF IsElement
  <2>2. moved = [i \in 1 .. Len(ids) |-> moved[i]]
    BY <2>1, SeqShape
  <2> HIDE DEF moved
  <2> QED
    BY <2>1, <2>2, SeqShape, FunctionIsSeq
<1>5. IsElement("stations", y)
  BY <1>2, <1>3, <1>4 DEF IsElement, HasFields, Fields
<1>6. \A i \in DOMAIN ids : moved[i] = Moved(ids[i], old, id)
  BY DEF Moved
<1> QED
  BY <1>1, <1>3, <1>5, <1>6 DEF Links

(* A station mentions the new id where it mentioned the old one.           *)
LEMMA LinksMentions ==
  ASSUME NEW y, NEW x, NEW old, NEW id, Links(y, x, old, id), id \notin Named(x)
  PROVE  /\ id \in Named(y) <=> old \in Named(x)
         /\ Times(y, id) = Times(x, old)
         /\ \A n : n # old /\ n # id => /\ n \in Named(y) <=> n \in Named(x)
                                        /\ Times(y, n) = Times(x, n)
         /\ old # id => old \notin Named(y)
<1> DEFINE xs == x.interactionNodeIds
           ys == y.interactionNodeIds
<1>1. /\ DOMAIN ys = DOMAIN xs
      /\ \A i \in DOMAIN xs : ys[i] = Moved(xs[i], old, id)
      /\ \A i \in DOMAIN xs : xs[i] # id
  BY DEF Links, Named, Elements
<1>2. \A i \in DOMAIN xs : ys[i] = id <=> xs[i] = old
  BY <1>1 DEF Moved
<1>3. \A n : n # old /\ n # id => \A i \in DOMAIN xs : ys[i] = n <=> xs[i] = n
  BY <1>1 DEF Moved
<1>4. old # id => \A i \in DOMAIN xs : ys[i] # old
  BY <1>1 DEF Moved
<1>5. {i \in DOMAIN ys : ys[i] = id} = {i \in DOMAIN xs : xs[i] = old}
  BY <1>1, <1>2
<1>6. ASSUME NEW n, n # old, n # id
      PROVE  {i \in DOMAIN ys : ys[i] = n} = {i \in DOMAIN xs : xs[i] = n}
  BY <1>1, <1>3, <1>6
<1>7. Times(y, id) = Times(x, old)
  BY <1>5 DEF Times
<1>8. \A n : n # old /\ n # id => Times(y, n) = Times(x, n)
  BY <1>6 DEF Times
<1> QED
  BY <1>1, <1>2, <1>3, <1>4, <1>7, <1>8 DEF Named, Elements

LEMMA ListsStationsMoved ==
  ASSUME NEW list, NEW nodes, NEW stations, ListsStations(list, nodes, stations),
         NEW old \in nodes, NEW id, id \notin nodes, NEW stations2,
         DOMAIN stations2 = DOMAIN stations,
         \A s \in DOMAIN stations : /\ Named(stations[s]) \subseteq nodes
                                    /\ Links(stations2[s], stations[s], old, id)
  PROVE  ListsStations(Rekey(list, old, id), (nodes \ {old}) \cup {id}, stations2)
<1> DEFINE nodes2 == (nodes \ {old}) \cup {id}
           list2 == Rekey(list, old, id)
<1>1. ASSUME NEW s \in DOMAIN stations
      PROVE  /\ id \in Named(stations2[s]) <=> old \in Named(stations[s])
             /\ Times(stations2[s], id) = Times(stations[s], old)
             /\ \A n \in nodes \ {old} :
                  /\ n \in Named(stations2[s]) <=> n \in Named(stations[s])
                  /\ Times(stations2[s], n) = Times(stations[s], n)
  <2>1. id \notin Named(stations[s]) /\ Links(stations2[s], stations[s], old, id)
    OBVIOUS
  <2> QED
    BY <2>1, LinksMentions
<1>2. Mentions(stations2, id) = Mentions(stations, old)
  BY <1>1 DEF Mentions
<1>3. \A n \in nodes \ {old} : Mentions(stations2, n) = Mentions(stations, n)
  BY <1>1 DEF Mentions
<1>4. /\ DOMAIN list \subseteq nodes
      /\ list = [n \in DOMAIN list |-> list[n]]
      /\ \A n \in nodes : Lookup(list, n) = Mentions(stations, n)
  BY DEF ListsStations
<1>5. /\ DOMAIN list2 \subseteq nodes2
      /\ list2 = [n \in DOMAIN list2 |-> list2[n]]
      /\ Lookup(list2, id) = Lookup(list, old)
      /\ \A n \in nodes \ {old} : Lookup(list2, n) = Lookup(list, n)
  <2>1. CASE old \in DOMAIN list
    BY <2>1, <1>4 DEF Rekey, With, Without, Lookup
  <2>2. CASE old \notin DOMAIN list
    BY <2>2, <1>4 DEF Rekey, Lookup
  <2> QED
    BY <2>1, <2>2
<1> HIDE DEF list2
<1>6. \A n \in nodes2 : Lookup(list2, n) = Mentions(stations2, n)
  BY <1>2, <1>3, <1>4, <1>5
<1> QED
  BY <1>5, <1>6 DEF ListsStations, list2

Relinkeds(stations, old, id) ==
  [s \in DOMAIN stations |-> IF old \in Named(stations[s]) THEN Relinked(stations[s], old, id)
                             ELSE stations[s]]

LEMMA RelinkedsLink ==
  ASSUME NEW stations, NEW old, NEW id,
         \A s \in DOMAIN stations : IsElement("stations", stations[s])
  PROVE  /\ DOMAIN Relinkeds(stations, old, id) = DOMAIN stations
         /\ \A s \in DOMAIN stations :
              Links(Relinkeds(stations, old, id)[s], stations[s], old, id)
<1> DEFINE stations2 == Relinkeds(stations, old, id)
<1>1. ASSUME NEW s \in DOMAIN stations
      PROVE  Links(stations2[s], stations[s], old, id)
  <2>1. CASE old \in Named(stations[s])
    BY <2>1, RelinkedLinks DEF Relinkeds
  <2>2. CASE old \notin Named(stations[s])
    BY <2>2 DEF Relinkeds, Links, Moved, Named, Elements
  <2> QED
    BY <2>1, <2>2
<1> QED
  BY <1>1 DEF Relinkeds

RelinkedAt(lif, places, old, id) ==
  [p \in places |-> Relinked(At(lif, "stations", p), old, id)]

LEMMA InteractionRenamedIs ==
  ASSUME NEW lif, IsLif(lif), NEW index, Indexed(lif, "stations", "stationId", index),
         NEW old, NEW id, NEW bag, bag = Mentions(Found(lif, "stations", index), old)
  PROVE  Rewritten(InteractionRenamed(lif, index, bag, old, id), lif, "stations", "stationId",
                   index, Relinkeds(Found(lif, "stations", index), old, id))
<1> DEFINE stations == Found(lif, "stations", index)
           places == {index[s] : s \in BagToSet(bag)}
           elements == RelinkedAt(lif, places, old, id)
<1>1. /\ DOMAIN stations = DOMAIN index
      /\ \A s \in DOMAIN index : stations[s] = At(lif, "stations", index[s])
  BY DEF Found
<1>2. BagToSet(bag) = {s \in DOMAIN index : old \in Named(stations[s])}
  BY <1>1 DEF Mentions, BagToSet
<1> HIDE DEF stations
<1>3. \A s \in DOMAIN index : index[s] \in places <=> old \in Named(stations[s])
  BY <1>2 DEF Indexed
<1>4. places \subseteq Places(lif, "stations")
  BY <1>2 DEF Indexed
<1> HIDE DEF places
<1>5. InteractionRenamed(lif, index, bag, old, id) = Replaced(lif, "stations", elements)
  BY DEF InteractionRenamed, RelinkedAt, Relinked, places
<1>6. /\ DOMAIN elements = places
      /\ \A p \in places : elements[p] = Relinked(At(lif, "stations", p), old, id)
  BY DEF RelinkedAt
<1> HIDE DEF elements
<1>7. "stations" \in ElementLists
  BY DEF ElementLists
<1>8. ASSUME NEW p \in places
      PROVE  /\ IsElement("stations", elements[p])
             /\ elements[p]["stationId"] = At(lif, "stations", p)["stationId"]
  <2>1. IsElement("stations", At(lif, "stations", p))
    BY <1>4, <1>7, ElementAt
  <2> QED
    BY <2>1, <1>6, RelinkedLinks DEF Links
<1>9. Overlaid(stations, index, elements) = Relinkeds(stations, old, id)
  BY <1>1, <1>3, <1>6 DEF Overlaid, Relinkeds
<1> QED
  BY <1>5, <1>6, <1>7, <1>8, <1>9, ReplaceRewrites DEF stations

LEMMA EdgesAreElements ==
  ASSUME NEW lif, IsLif(lif), NEW index, Indexed(lif, "edges", "edgeId", index)
  PROVE  \A e \in DOMAIN Found(lif, "edges", index) :
           IsElement("edges", Found(lif, "edges", index)[e])
BY ElementAt, ListNames DEF Indexed, Found

(* The four renamings of the LIF, one after the other.                     *)
LEMMA RenamedInLif ==
  ASSUME NEW g, GraphInv(g), NEW old \in DOMAIN g.node, NEW id, id \notin DOMAIN g.node,
         NEW named, named = FieldSet(g.lif, "nodes", {g.node[old]}, "nodeId", id),
         NEW starts, starts = EndRenamed(named, g.edge, g.outbound[old], "startNodeId", id),
         NEW ends, ends = EndRenamed(starts, g.edge, g.inbound[old], "endNodeId", id),
         NEW linked, linked = InteractionRenamed(ends, g.station, Lookup(g.stations, old), old, id)
  PROVE  /\ Tables(linked, Rekey(g.node, old, id), g.edge, g.station)
         /\ Found(linked, "edges", g.edge) =
              Redirected(Redirected(EdgesOf(g), "startNodeId", old, id), "endNodeId", old, id)
         /\ Found(linked, "stations", g.station) = Relinkeds(StationsOf(g), old, id)
<1> DEFINE edges == EdgesOf(g)
           stations == StationsOf(g)
           node == Rekey(g.node, old, id)
           edges1 == Redirected(edges, "startNodeId", old, id)
           edges2 == Redirected(edges1, "endNodeId", old, id)
           stations2 == Relinkeds(stations, old, id)
<1>1. /\ Tables(g.lif, g.node, g.edge, g.station)
      /\ Lists(g, g.node, g.edge, edges, stations)
      /\ Found(g.lif, "edges", g.edge) = edges
      /\ Found(g.lif, "stations", g.station) = stations
  BY DEF GraphInv, EdgesOf, StationsOf
<1>2. IsLif(g.lif) /\ Indexed(g.lif, "nodes", "nodeId", g.node)
  BY <1>1 DEF Tables
<1>3. /\ ElementLists = {"nodes", "edges", "stations"}
      /\ "nodeId" \in Fields["nodes"]
  BY DEF ElementLists, Fields
<1>4. /\ g.outbound[old] = EdgesAt(edges, "startNodeId", old)
      /\ g.inbound[old] = EdgesAt(edges, "endNodeId", old)
      /\ Lookup(g.stations, old) = Mentions(stations, old)
  BY <1>1 DEF Lists, ListsEdges, ListsStations
<1>5. \A e \in DOMAIN edges : IsElement("edges", edges[e])
  BY <1>1, EdgesAreElements DEF Tables
<1> HIDE DEF edges, stations
<1>6. OnlyList(named, g.lif, "nodes") /\ Indexed(named, "nodes", "nodeId", node)
  <2>1. /\ OnlyList(named, g.lif, "nodes")
        /\ IndexRenamed(named, g.lif, "nodes", "nodeId", g.node, node, old, id,
                        WithField(Found(g.lif, "nodes", g.node)[old], "nodeId", id))
    BY <1>2, <1>3, FieldRenamed
  <2> HIDE DEF node
  <2> QED
    BY <2>1 DEF IndexRenamed
<1> HIDE DEF node
<1>7. /\ Tables(named, node, g.edge, g.station)
      /\ Found(named, "edges", g.edge) = edges
      /\ Found(named, "stations", g.station) = stations
  BY <1>1, <1>6, OnlyNodes
<1>8. Rewritten(starts, named, "edges", "edgeId", g.edge, edges1)
  <2>1. IsLif(named) /\ Indexed(named, "edges", "edgeId", g.edge)
    BY <1>7 DEF Tables
  <2> QED
    BY <2>1, <1>4, <1>7, EndRenamedIs
<1> HIDE DEF edges1
<1>9. /\ Tables(starts, node, g.edge, g.station)
      /\ Found(starts, "edges", g.edge) = edges1
      /\ Found(starts, "stations", g.station) = stations
  BY <1>7, <1>8, OnlyEdges DEF Rewritten
<1>10. EdgesAt(edges1, "endNodeId", old) = EdgesAt(edges, "endNodeId", old)
  <2>1. /\ DOMAIN edges1 = DOMAIN edges
        /\ \A e \in DOMAIN edges : edges1[e]["endNodeId"] = edges[e]["endNodeId"]
    BY <1>5, RedirectedEnds DEF edges1
  <2> QED
    BY <2>1 DEF EdgesAt
<1>11. Rewritten(ends, starts, "edges", "edgeId", g.edge, edges2)
  <2>1. IsLif(starts) /\ Indexed(starts, "edges", "edgeId", g.edge)
    BY <1>9 DEF Tables
  <2> QED
    BY <2>1, <1>4, <1>9, <1>10, EndRenamedIs
<1> HIDE DEF edges2
<1>12. /\ Tables(ends, node, g.edge, g.station)
       /\ Found(ends, "edges", g.edge) = edges2
       /\ Found(ends, "stations", g.station) = stations
  BY <1>9, <1>11, OnlyEdges DEF Rewritten
<1>13. Rewritten(linked, ends, "stations", "stationId", g.station, stations2)
  <2>1. IsLif(ends) /\ Indexed(ends, "stations", "stationId", g.station)
    BY <1>12 DEF Tables
  <2> QED
    BY <2>1, <1>4, <1>12, InteractionRenamedIs
<1> HIDE DEF stations2
<1>14. /\ Tables(linked, node, g.edge, g.station)
       /\ Found(linked, "edges", g.edge) = edges2
       /\ Found(linked, "stations", g.station) = stations2
  BY <1>12, <1>13, OnlyStations DEF Rewritten
<1> QED
  BY <1>14 DEF node, edges, stations, edges1, edges2, stations2

LEMMA UpdateNodeIdKeeps ==
  ASSUME GraphInv(graph), NEW old, NEW id, UpdateNodeId(old, id)
  PROVE  GraphInv(graph')
<1> DEFINE edges == EdgesOf(graph)
           stations == StationsOf(graph)
           node == Rekey(graph.node, old, id)
           edges1 == Redirected(edges, "startNodeId", old, id)
           edges2 == Redirected(edges1, "endNodeId", old, id)
           stations2 == Relinkeds(stations, old, id)
           named == FieldSet(graph.lif, "nodes", {graph.node[old]}, "nodeId", id)
           starts == EndRenamed(named, graph.edge, graph.outbound[old], "startNodeId", id)
           ends == EndRenamed(starts, graph.edge, graph.inbound[old], "endNodeId", id)
           linked == InteractionRenamed(ends, graph.station, Lookup(graph.stations, old), old, id)
<1>1. /\ old \in DOMAIN graph.node /\ id \notin DOMAIN graph.node
      /\ graph' = [graph EXCEPT
           !.lif = linked,
           !.node = Rekey(@, old, id),
           !.outbound = Rekey(@, old, id),
           !.inbound = Rekey(@, old, id),
           !.stations = Rekey(@, old, id)]
  BY DEF UpdateNodeId
<1>2. /\ DOMAIN graph' = GraphFields
      /\ graph'.lif = linked /\ graph'.node = node
      /\ graph'.edge = graph.edge /\ graph'.station = graph.station
      /\ graph'.outbound = Rekey(graph.outbound, old, id)
      /\ graph'.inbound = Rekey(graph.inbound, old, id)
      /\ graph'.stations = Rekey(graph.stations, old, id)
  <2> HIDE DEF linked
  <2> QED
    BY <1>1 DEF GraphInv, GraphFields
<1>3. /\ Tables(linked, node, graph.edge, graph.station)
      /\ Found(linked, "edges", graph.edge) = edges2
      /\ Found(linked, "stations", graph.station) = stations2
  <2> HIDE DEF named
  <2>1. named = FieldSet(graph.lif, "nodes", {graph.node[old]}, "nodeId", id)
    BY DEF named
  <2> HIDE DEF starts
  <2>2. starts = EndRenamed(named, graph.edge, graph.outbound[old], "startNodeId", id)
    BY DEF starts
  <2> HIDE DEF ends
  <2>3. ends = EndRenamed(starts, graph.edge, graph.inbound[old], "endNodeId", id)
    BY DEF ends
  <2> HIDE DEF linked
  <2>4. linked = InteractionRenamed(ends, graph.station, Lookup(graph.stations, old), old, id)
    BY DEF linked
  <2> QED
    BY <1>1, <2>1, <2>2, <2>3, <2>4, RenamedInLif
<1> HIDE DEF linked
<1>4. /\ Lists(graph, graph.node, graph.edge, edges, stations)
      /\ \A e \in DOMAIN edges : IsElement("edges", edges[e])
  BY EdgesAreElements DEF GraphInv, Tables, EdgesOf, StationsOf
<1> HIDE DEF edges, stations
<1>5. /\ DOMAIN node = (DOMAIN graph.node \ {old}) \cup {id}
      /\ \A x \in DOMAIN graph.node \ {old} : node[x] = graph.node[x]
      /\ node[id] = graph.node[old]
  <2>1. old \in DOMAIN graph.node /\ id \notin DOMAIN graph.node
    BY <1>1
  <2> QED
    BY ONLY <2>1 DEF node, Rekey, With, Without
<1> HIDE DEF node
<1>6. /\ DOMAIN edges1 = DOMAIN edges
      /\ \A e \in DOMAIN edges :
           /\ IsElement("edges", edges1[e])
           /\ edges1[e]["startNodeId"] = Moved(edges[e]["startNodeId"], old, id)
           /\ edges1[e]["endNodeId"] = edges[e]["endNodeId"]
  BY <1>4, RedirectedEnds
<1> HIDE DEF edges1
<1>7. /\ DOMAIN edges2 = DOMAIN edges1
      /\ \A e \in DOMAIN edges1 :
           /\ edges2[e]["endNodeId"] = Moved(edges1[e]["endNodeId"], old, id)
           /\ edges2[e]["startNodeId"] = edges1[e]["startNodeId"]
  BY <1>6, RedirectedEnds
<1> HIDE DEF edges2
<1>8. /\ DOMAIN edges2 = DOMAIN edges
      /\ \A e \in DOMAIN edges :
           /\ edges2[e]["startNodeId"] = Moved(edges[e]["startNodeId"], old, id)
           /\ edges2[e]["endNodeId"] = Moved(edges[e]["endNodeId"], old, id)
  BY <1>6, <1>7
<1>9. /\ DOMAIN edges = DOMAIN graph.edge
      /\ \A e \in DOMAIN edges :
           /\ edges[e]["startNodeId"] \in DOMAIN graph.node
           /\ graph.node[edges[e]["startNodeId"]][1] = graph.edge[e][1]
           /\ edges[e]["endNodeId"] \in DOMAIN graph.node
  BY <1>4 DEF Lists, EndsKnown
<1>10. EndsKnown(node, graph.edge, edges2)
  BY <1>5, <1>8, <1>9 DEF EndsKnown, Moved
<1>11. /\ DOMAIN stations2 = DOMAIN stations
       /\ \A s \in DOMAIN stations : Links(stations2[s], stations[s], old, id)
  BY <1>4, RelinkedsLink DEF Lists, StationsKnown
<1> HIDE DEF stations2
<1>12. \A s \in DOMAIN stations : Named(stations[s]) \subseteq DOMAIN graph.node
  BY <1>4 DEF Lists, StationsKnown
<1>13. StationsKnown(node, stations2)
  <2> SUFFICES ASSUME NEW s \in DOMAIN stations
               PROVE  /\ IsElement("stations", stations2[s])
                      /\ Named(stations2[s]) \subseteq DOMAIN node
    BY <1>11 DEF StationsKnown
  <2>1. IsElement("stations", stations2[s])
    BY <1>11 DEF Links
  <2>2. Named(stations2[s]) \subseteq DOMAIN node
    BY <1>5, <1>11, <1>12 DEF Links, Named, Elements, Moved
  <2> QED
    BY <2>1, <2>2
<1>14. ListsEdges(graph'.outbound, DOMAIN node, edges2, "startNodeId")
  <2>1. ListsEdges(graph.outbound, DOMAIN graph.node, edges, "startNodeId")
    BY <1>4 DEF Lists
  <2> QED
    BY <2>1, <1>1, <1>2, <1>5, <1>8, <1>9, ListsEdgesMoved
<1>15. ListsEdges(graph'.inbound, DOMAIN node, edges2, "endNodeId")
  <2>1. ListsEdges(graph.inbound, DOMAIN graph.node, edges, "endNodeId")
    BY <1>4 DEF Lists
  <2> QED
    BY <2>1, <1>1, <1>2, <1>5, <1>8, <1>9, ListsEdgesMoved
<1>16. ListsStations(graph'.stations, DOMAIN node, stations2)
  <2>1. ListsStations(graph.stations, DOMAIN graph.node, stations)
    BY <1>4 DEF Lists
  <2> QED
    BY <2>1, <1>1, <1>2, <1>5, <1>11, <1>12, ListsStationsMoved
<1> QED
  BY <1>2, <1>3, <1>10, <1>13, <1>14, <1>15, <1>16 DEF GraphInv, Lists

-----------------------------------------------------------------------------
(* from_lif: an accepted layout gives a graph that has the invariant.      *)

LEMMA AcceptedLayout ==
  ASSUME NEW lif, ValidateLayout(lif) = {}
  PROVE  /\ ~ DuplicateIds(lif)
         /\ ~ Unresolved(lif)
         /\ \A p \in Places(lif, "edges") :
              \E n \in Elements(lif.layouts[p[1]].nodes) :
                n.nodeId = At(lif, "edges", p).startNodeId
<1> DEFINE double == If(DuplicateIds(lif), "DUPLICATE_ID")
           open == If(Unresolved(lif), "DANGLING_NODE_REF")
           ofNodes == UNION {ValidateNode(At(lif, "nodes", p)) : p \in Places(lif, "nodes")}
           ofEdges == UNION {ValidateEdge(lif.layouts[p[1]], At(lif, "edges", p))
                             : p \in Places(lif, "edges")}
           ofStations == UNION {ValidateStation(At(lif, "stations", p))
                                : p \in Places(lif, "stations")}
<1>errors. double \cup open \cup ofNodes \cup ofEdges \cup ofStations = {}
  <2>1. lif.layouts # <<>>
    <3>1. lif.layouts = <<>> => ValidateLayout(lif) = {"EMPTY_REQUIRED_ARRAY"}
      BY DEF ValidateLayout
    <3> QED
      BY <3>1
  <2>2. ValidateLayout(lif) = double \cup open \cup ofNodes \cup ofEdges \cup ofStations
    BY <2>1 DEF ValidateLayout
  <2> QED
    BY ONLY <2>2, ValidateLayout(lif) = {}
<1>1. double = {} /\ open = {} /\ ofEdges = {}
  <2> HIDE DEF double, open, ofNodes, ofEdges, ofStations
  <2> QED
    BY <1>errors
<1>2. ~ DuplicateIds(lif) /\ ~ Unresolved(lif)
  BY <1>1 DEF If
<1> HIDE DEF double, open
<1>3. ASSUME NEW p \in Places(lif, "edges")
      PROVE  \E n \in Elements(lif.layouts[p[1]].nodes) :
               n.nodeId = At(lif, "edges", p).startNodeId
  <2> DEFINE e == At(lif, "edges", p)
             layout == lif.layouts[p[1]]
  <2>1. ValidateEdge(layout, e) = {}
    BY <1>1
  <2> HIDE DEF e, layout
  <2> DEFINE outside == If(\A n \in Elements(layout.nodes) : n.nodeId # e.startNodeId,
                           "DANGLING_NODE_REF")
  <2>2. outside = {}
    <3>1. outside \subseteq ValidateEdge(layout, e)
      <4> HIDE DEF outside
      <4>1. \E others : ValidateEdge(layout, e) = others \cup outside
        BY DEF ValidateEdge, outside
      <4> QED
        BY <4>1
    <3> QED
      BY ONLY <3>1, <2>1
  <2>3. \E n \in Elements(layout.nodes) : n.nodeId = e.startNodeId
    BY <2>2 DEF If
  <2> QED
    BY <2>3 DEF e, layout
<1> QED
  BY <1>2, <1>3

LEMMA StationsAtLists ==
  ASSUME NEW lif, NEW nodes, NEW stations,
         \A s \in DOMAIN stations : Named(stations[s]) \subseteq nodes,
         stations = Found(lif, "stations", IndexOf(lif, "stations", "stationId"))
  PROVE  ListsStations(StationsAt(lif), nodes, stations)
<1> DEFINE list == StationsAt(lif)
           named == UNION {Named(stations[s]) : s \in DOMAIN stations}
<1>1. list = [n \in named |-> Mentions(stations, n)]
  BY DEF StationsAt
<1>2. named \subseteq nodes
  OBVIOUS
<1>3. \A n : n \notin named => Mentions(stations, n) = EmptyBag
  BY NoMentions
<1> HIDE DEF named, list
<1>4. \A n \in nodes : Lookup(list, n) = Mentions(stations, n)
  BY <1>1, <1>3 DEF Lookup
<1> QED
  BY <1>1, <1>2, <1>4 DEF ListsStations, list

LEMMA FromLifGives ==
  ASSUME NEW lif, IsLif(lif), ValidateLayout(lif) = {}
  PROVE  GraphInv(RebuildIndices(lif))
<1> DEFINE g == RebuildIndices(lif)
           node == IndexOf(lif, "nodes", "nodeId")
           edge == IndexOf(lif, "edges", "edgeId")
           station == IndexOf(lif, "stations", "stationId")
           edges == Found(lif, "edges", edge)
           stations == Found(lif, "stations", station)
<1>1. /\ DOMAIN g = GraphFields
      /\ g.lif = lif /\ g.node = node /\ g.edge = edge /\ g.station = station
      /\ g.outbound = Incident(lif, "startNodeId")
      /\ g.inbound = Incident(lif, "endNodeId")
      /\ g.stations = StationsAt(lif)
  BY DEF RebuildIndices, GraphFields
<1> HIDE DEF g
<1>2. /\ ~ DuplicateIds(lif) /\ ~ Unresolved(lif)
      /\ \A p \in Places(lif, "edges") :
           \E n \in Elements(lif.layouts[p[1]].nodes) :
             n.nodeId = At(lif, "edges", p).startNodeId
  BY AcceptedLayout
<1>3. Tables(lif, node, edge, station)
  BY <1>2, IndexFromLif DEF Tables, DuplicateIds, LayoutsDiffer
<1>4. DOMAIN node = IdsOf(lif, "nodes", "nodeId")
  BY DEF IndexOf
<1> HIDE DEF node, edge, station
<1>5. /\ Indexed(lif, "nodes", "nodeId", node)
      /\ Indexed(lif, "edges", "edgeId", edge)
      /\ Indexed(lif, "stations", "stationId", station)
  BY <1>3 DEF Tables
<1>6. DOMAIN edges = DOMAIN edge /\ \A e \in DOMAIN edges :
        edge[e] \in Places(lif, "edges") /\ edges[e] = At(lif, "edges", edge[e])
  BY <1>5 DEF Found, Indexed
<1>7. DOMAIN stations = DOMAIN station /\ \A s \in DOMAIN stations :
        /\ station[s] \in Places(lif, "stations")
        /\ stations[s] = At(lif, "stations", station[s])
  BY <1>5 DEF Found, Indexed
<1> HIDE DEF edges, stations
<1>8. ASSUME NEW e \in DOMAIN edges
      PROVE  /\ edges[e].startNodeId \in DOMAIN node
             /\ node[edges[e].startNodeId][1] = edge[e][1]
             /\ edges[e].endNodeId \in DOMAIN node
  <2> DEFINE i == edge[e][1]
             start == edges[e].startNodeId
  <2>1. \E n \in Elements(lif.layouts[i].nodes) : n.nodeId = start
    BY <1>2, <1>6
  <2>2. PICK j \in DOMAIN lif.layouts[i].nodes : lif.layouts[i].nodes[j].nodeId = start
    BY <2>1 DEF Elements
  <2>3. i \in DOMAIN lif.layouts
    BY <1>6, PlaceIsPair
  <2>4. <<i, j>> \in Places(lif, "nodes") /\ At(lif, "nodes", <<i, j>>)["nodeId"] = start
    BY <2>2, <2>3, PlaceIn DEF At
  <2>5. start \in DOMAIN node /\ node[start] = <<i, j>>
    BY <2>4, <1>5 DEF Indexed
  <2>6. edges[e].endNodeId \in IdsOf(lif, "nodes", "nodeId")
    BY <1>2, <1>6 DEF Unresolved, IdsOf
  <2> QED
    BY <2>5, <2>6, <1>4
<1>9. EndsKnown(node, edge, edges)
  BY <1>6, <1>8 DEF EndsKnown
<1>10. ASSUME NEW s \in DOMAIN stations
       PROVE  IsElement("stations", stations[s]) /\ Named(stations[s]) \subseteq DOMAIN node
  <2>1. IsElement("stations", stations[s])
    BY <1>7, ElementAt, ListNames
  <2>2. Named(stations[s]) \subseteq IdsOf(lif, "nodes", "nodeId")
    BY <1>2, <1>7 DEF Unresolved, Named
  <2> QED
    BY <2>1, <2>2, <1>4
<1>11. StationsKnown(node, stations)
  BY <1>10 DEF StationsKnown
<1>12. /\ ListsEdges(g.outbound, DOMAIN node, edges, "startNodeId")
       /\ ListsEdges(g.inbound, DOMAIN node, edges, "endNodeId")
  BY <1>1, <1>4 DEF ListsEdges, Incident, edges, edge
<1>13. ListsStations(g.stations, DOMAIN node, stations)
  BY <1>1, <1>10, StationsAtLists DEF stations, station
<1> QED
  BY <1>1, <1>3, <1>9, <1>11, <1>12, <1>13 DEF GraphInv, Lists, g, edges, stations

-----------------------------------------------------------------------------
(* What the invariant says of a graph.                                     *)

LEMMA InvIndexed ==
  ASSUME GraphInv(graph)
  PROVE  GraphIndexed
<1> DEFINE lif == graph.lif
           edges == EdgesOf(graph)
           stations == StationsOf(graph)
           built == RebuildIndices(lif)
<1>1. /\ Indexed(lif, "nodes", "nodeId", graph.node)
      /\ Indexed(lif, "edges", "edgeId", graph.edge)
      /\ Indexed(lif, "stations", "stationId", graph.station)
      /\ Lists(graph, graph.node, graph.edge, edges, stations)
  BY DEF GraphInv, Tables, EdgesOf, StationsOf
<1>2. /\ graph.node = IndexOf(lif, "nodes", "nodeId")
      /\ graph.edge = IndexOf(lif, "edges", "edgeId")
      /\ graph.station = IndexOf(lif, "stations", "stationId")
      /\ DOMAIN graph.node = IdsOf(lif, "nodes", "nodeId")
  BY <1>1, IndexIsUnique
<1>3. /\ built.node = graph.node /\ built.edge = graph.edge /\ built.station = graph.station
      /\ built.outbound = Incident(lif, "startNodeId")
      /\ built.inbound = Incident(lif, "endNodeId")
      /\ built.stations = StationsAt(lif)
  BY <1>2 DEF RebuildIndices
<1> HIDE DEF built
<1>4. /\ edges = Found(lif, "edges", IndexOf(lif, "edges", "edgeId"))
      /\ stations = Found(lif, "stations", IndexOf(lif, "stations", "stationId"))
  BY <1>2 DEF EdgesOf, StationsOf
<1> HIDE DEF edges, stations
<1>5. /\ graph.outbound = [n \in DOMAIN graph.node |-> EdgesAt(edges, "startNodeId", n)]
      /\ graph.inbound = [n \in DOMAIN graph.node |-> EdgesAt(edges, "endNodeId", n)]
  BY <1>1 DEF Lists, ListsEdges
<1>6. graph.outbound = built.outbound /\ graph.inbound = built.inbound
  BY <1>2, <1>3, <1>4, <1>5 DEF Incident
<1>7. SameEntries(graph.stations, built.stations)
  <2>1. \A s \in DOMAIN stations : Named(stations[s]) \subseteq DOMAIN graph.node
    BY <1>1 DEF Lists, StationsKnown
  <2>2. ListsStations(built.stations, DOMAIN graph.node, stations)
    BY <2>1, <1>3, <1>4, StationsAtLists
  <2>3. ListsStations(graph.stations, DOMAIN graph.node, stations)
    BY <1>1 DEF Lists
  <2> QED
    BY <2>2, <2>3 DEF ListsStations, SameEntries
<1>8. ASSUME NEW from \in DOMAIN graph.node, NEW to \in DOMAIN graph.node
      PROVE  EdgesBetween(graph, from, to) =
               {At(lif, "edges", p).edgeId : p \in
                 {q \in Places(lif, "edges") : /\ At(lif, "edges", q).startNodeId = from
                                               /\ At(lif, "edges", q).endNodeId = to}}
  <2>1. /\ DOMAIN edges = DOMAIN graph.edge
        /\ \A e \in DOMAIN edges : edges[e] = At(lif, "edges", graph.edge[e])
    BY DEF EdgesOf, Found, edges
  <2>2. BagToSet(graph.outbound[from]) = {e \in DOMAIN edges : edges[e].startNodeId = from}
    BY <1>5 DEF EdgesAt, BagToSet, SetToBag
  <2>3. EdgesBetween(graph, from, to) =
          {e \in DOMAIN edges : edges[e].startNodeId = from /\ edges[e].endNodeId = to}
    BY <2>1, <2>2 DEF EdgesBetween
  <2>4. \A p \in Places(lif, "edges") :
          /\ At(lif, "edges", p).edgeId \in DOMAIN edges
          /\ edges[At(lif, "edges", p).edgeId] = At(lif, "edges", p)
    BY <2>1, <1>1 DEF Indexed
  <2>5. \A e \in DOMAIN edges : \E p \in Places(lif, "edges") :
          At(lif, "edges", p).edgeId = e /\ At(lif, "edges", p) = edges[e]
    BY <2>1, <1>1 DEF Indexed
  <2> QED
    BY <2>3, <2>4, <2>5
<1> QED
  BY <1>3, <1>6, <1>7, <1>8 DEF GraphIndexed, built

LEMMA InvClosed ==
  ASSUME GraphInv(graph)
  PROVE  LayoutClosed
<1> DEFINE lif == graph.lif
           edges == EdgesOf(graph)
           stations == StationsOf(graph)
<1>1. /\ LayoutsDiffer(lif)
      /\ Indexed(lif, "nodes", "nodeId", graph.node)
      /\ Indexed(lif, "edges", "edgeId", graph.edge)
      /\ Indexed(lif, "stations", "stationId", graph.station)
      /\ EndsKnown(graph.node, graph.edge, edges)
      /\ StationsKnown(graph.node, stations)
  BY DEF GraphInv, Tables, Lists, EdgesOf, StationsOf
<1>2. ~ DuplicateIds(lif)
  BY <1>1, IndexIsUnique DEF DuplicateIds, LayoutsDiffer
<1>3. DOMAIN graph.node = IdsOf(lif, "nodes", "nodeId")
  BY <1>1, IndexIsUnique
<1>4. ASSUME NEW p \in Places(lif, "edges")
      PROVE  LET e == At(lif, "edges", p)
             IN /\ e.startNodeId \in DOMAIN graph.node
                /\ graph.node[e.startNodeId][1] = p[1]
                /\ e.endNodeId \in DOMAIN graph.node
  <2>1. LET id == At(lif, "edges", p).edgeId
        IN /\ id \in DOMAIN graph.edge /\ graph.edge[id] = p
           /\ id \in DOMAIN edges /\ edges[id] = At(lif, "edges", p)
    BY <1>1 DEF Indexed, EdgesOf, Found
  <2> QED
    BY <2>1, <1>1 DEF EndsKnown
<1>5. ASSUME NEW p \in Places(lif, "stations")
      PROVE  Named(At(lif, "stations", p)) \subseteq DOMAIN graph.node
  <2>1. LET id == At(lif, "stations", p).stationId
        IN id \in DOMAIN stations /\ stations[id] = At(lif, "stations", p)
    BY <1>1 DEF Indexed, StationsOf, Found
  <2> QED
    BY <2>1, <1>1 DEF StationsKnown
<1> HIDE DEF edges, stations
<1>6. ~ Unresolved(lif)
  BY <1>3, <1>4, <1>5 DEF Unresolved, IdsOf, Named
<1>7. ASSUME NEW p \in Places(lif, "edges")
      PROVE  \E n \in Elements(lif.layouts[p[1]].nodes) :
               n.nodeId = At(lif, "edges", p).startNodeId
  <2> DEFINE start == At(lif, "edges", p).startNodeId
             q == graph.node[start]
  <2>1. start \in DOMAIN graph.node /\ q[1] = p[1]
    BY <1>4
  <2>2. q \in Places(lif, "nodes") /\ At(lif, "nodes", q)["nodeId"] = start
    BY <2>1, <1>1 DEF Indexed
  <2>3. q[2] \in DOMAIN lif.layouts[q[1]]["nodes"]
    BY <2>2, PlaceIsPair
  <2> QED
    BY <2>1, <2>2, <2>3 DEF At, Elements
<1> QED
  BY <1>2, <1>6, <1>7 DEF LayoutClosed

-----------------------------------------------------------------------------
(* No graph or one that has the invariant.                                 *)
GraphIInv == graph # None => GraphInv(graph)

(* Every edit keeps the invariant.                                         *)
LEMMA MutateKeeps ==
  ASSUME GraphInv(graph), Mutate
  PROVE  GraphInv(graph')
<1>1. ASSUME NEW n \in NewNodes, NEW l \in LayoutIds, AddNode(n, l)
      PROVE  GraphInv(graph')
  BY <1>1, AddNodeKeeps, GraphAssumption
<1>2. ASSUME NEW e \in NewEdges, NEW l \in LayoutIds, AddEdge(e, l)
      PROVE  GraphInv(graph')
  BY <1>2, AddEdgeKeeps, GraphAssumption
<1>3. ASSUME NEW s \in NewStations, NEW l \in LayoutIds, AddStation(s, l)
      PROVE  GraphInv(graph')
  BY <1>3, AddStationKeeps, GraphAssumption
<1>4. ASSUME NEW id, DeleteNode(id) \/ DeleteEdge(id) \/ DeleteStation(id)
      PROVE  GraphInv(graph')
  BY <1>4, DeleteNodeKeeps, DeleteEdgeKeeps, DeleteStationKeeps
<1>5. CASE Prune
  BY <1>5, PruneKeeps
<1>6. ASSUME NEW old, NEW id,
             UpdateNodeId(old, id) \/ UpdateEdgeId(old, id) \/ UpdateStationId(old, id)
      PROVE  GraphInv(graph')
  BY <1>6, UpdateNodeIdKeeps, UpdateEdgeIdKeeps, UpdateStationIdKeeps
<1> QED
  BY <1>1, <1>2, <1>3, <1>4, <1>5, <1>6 DEF Mutate

(* The indices lead to the elements and back, every reference of an edge   *)
(* and of a station is known, and a node lists the edges and stations that *)
(* refer to it, through every edit of the graph.                           *)
(* Code: from_lif and the mutations of graph.cpp.                          *)
THEOREM GraphInvariant == GraphSpec => []GraphIInv
<1>1. GraphInit => GraphIInv
  BY DEF GraphInit, GraphIInv
<1>2. ASSUME GraphIInv, GraphNext
      PROVE  GraphIInv'
  <2>1. ASSUME NEW lif \in Lifs, FromLif(lif)
        PROVE  GraphInv(graph')
    BY <2>1, FromLifGives, GraphAssumption DEF FromLif
  <2>2. ASSUME Mutate
        PROVE  GraphInv(graph')
    BY <1>2, <2>2, MutateKeeps DEF GraphIInv, Mutate
  <2> QED
    BY <1>2, <2>1, <2>2 DEF GraphNext, GraphIInv
<1>3. ASSUME GraphIInv, UNCHANGED graph
      PROVE  GraphIInv'
  BY <1>3 DEF GraphIInv
<1> QED
  BY <1>1, <1>2, <1>3, PTL DEF GraphSpec

(* After any edits the indices are those a rebuild from the layout gives,  *)
(* whatever the layouts and the edits.                                     *)
(* Code: graph.cpp's updates in place against rebuild_indices.             *)
THEOREM GraphStaysIndexed == GraphSpec => []GraphIndexed
<1>1. GraphIInv => GraphIndexed
  BY InvIndexed DEF GraphIInv, GraphIndexed
<1> QED
  BY <1>1, GraphInvariant, PTL

(* No edit leaves a reference open, an id twice or an edge in a layout     *)
(* that lacks its start node.                                              *)
(* Code: the guards of graph.cpp against validate_layout.                  *)
THEOREM LayoutStaysClosed == GraphSpec => []LayoutClosed
<1>1. GraphIInv => LayoutClosed
  BY InvClosed DEF GraphIInv, LayoutClosed
<1> QED
  BY <1>1, GraphInvariant, PTL
=============================================================================
