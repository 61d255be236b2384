--------------------------- MODULE McpTexts_proofs ---------------------------
(***************************************************************************)
(* Theorems of McpTexts and their proofs.                                  *)
(***************************************************************************)
EXTENDS McpTexts, DataLemmas

-----------------------------------------------------------------------------
(* Types of values.                                                        *)

JsonTypes == {"string", "number", "boolean", "null", "object", "array"}

LEMMA TypesOfValues ==
  /\ DOMAIN ValuesOf = JsonTypes
  /\ ValuesOf["string"] = {"secret", "plain", "masked", "empty", "text", "tools/call", "2.0"}
  /\ ValuesOf["number"] = {"number", "bignumber", "rounded"}
  /\ ValuesOf["boolean"] = {"true"}
  /\ ValuesOf["null"] = {"null"}
  /\ ValuesOf["object"] = {"{}"}
  /\ ValuesOf["array"] = {"[]"}
BY DEF ValuesOf, JsonTypes

(* No value is of two types.                                               *)
LEMMA ValuesApart ==
  ASSUME NEW a \in DOMAIN ValuesOf, NEW b \in DOMAIN ValuesOf,
         NEW v \in ValuesOf[a], v \in ValuesOf[b]
  PROVE  a = b
<1>1. a \in JsonTypes /\ b \in JsonTypes
  BY TypesOfValues
<1>2. CASE a = "string"
  BY <1>1, <1>2, TypesOfValues DEF JsonTypes
<1>3. CASE a = "number"
  BY <1>1, <1>3, TypesOfValues DEF JsonTypes
<1>4. CASE a = "boolean"
  BY <1>1, <1>4, TypesOfValues DEF JsonTypes
<1>5. CASE a = "null"
  BY <1>1, <1>5, TypesOfValues DEF JsonTypes
<1>6. CASE a = "object"
  BY <1>1, <1>6, TypesOfValues DEF JsonTypes
<1>7. CASE a = "array"
  BY <1>1, <1>7, TypesOfValues DEF JsonTypes
<1> QED BY <1>1, <1>2, <1>3, <1>4, <1>5, <1>6, <1>7 DEF JsonTypes

Typed(v) == \E type \in DOMAIN ValuesOf : v \in ValuesOf[type]

LEMMA TypeOfLeaf ==
  ASSUME NEW tree, NEW loc \in DOMAIN tree,
         NEW type \in DOMAIN ValuesOf, tree[loc] \in ValuesOf[type]
  PROVE  TypeAt(tree, loc) = type
<1>1. TypeAt(tree, loc) = CHOOSE t \in DOMAIN ValuesOf : tree[loc] \in ValuesOf[t]
  BY DEF TypeAt
<1>2. /\ TypeAt(tree, loc) \in DOMAIN ValuesOf
      /\ tree[loc] \in ValuesOf[TypeAt(tree, loc)]
  BY <1>1, Zenon
<1> QED BY <1>2, ValuesApart, Zenon

LEMMA LeafIsTyped ==
  ASSUME NEW tree, NEW loc \in DOMAIN tree, Typed(tree[loc])
  PROVE  /\ TypeAt(tree, loc) \in DOMAIN ValuesOf
         /\ tree[loc] \in ValuesOf[TypeAt(tree, loc)]
BY TypeOfLeaf DEF Typed

-----------------------------------------------------------------------------
(* Locations.                                                              *)

LEMMA StepFields ==
  ASSUME NEW step \in Steps
  PROVE  /\ step.kind \in {"key", "item"}
         /\ step.kind = "key" => step = Key(step.key) /\ step.key \in Seq(Symbols)
         /\ step.kind = "item" => step = Item(step.index) /\ step.index \in 0..2
BY DEF Steps, Key, Item, Digits

LEMMA KeyIsStep ==
  ASSUME NEW symbols \in Seq(Symbols)
  PROVE  Key(symbols) \in Steps /\ Key(symbols).kind = "key" /\ Key(symbols).key = symbols
BY DEF Steps, Key

LEMMA ItemIsStep ==
  ASSUME NEW i \in 0..2
  PROVE  Item(i) \in Steps /\ Item(i).kind = "item" /\ Item(i).index = i
BY DEF Steps, Item, Digits

LEMMA SymbolsAre ==
  /\ {".", "[", "]", "0", "1", "2"} \subseteq Symbols
  /\ \A field \in DOMAIN Capital :
       field \in Symbols /\ Capital[field] \in Symbols /\ field \notin DOMAIN Wide
<1>1. "0" \in ToSet(Digits) /\ "1" \in ToSet(Digits) /\ "2" \in ToSet(Digits)
  BY DEF Digits, ToSet
<1> QED BY <1>1, SymbolAssumption DEF Decimal

(* What a prefix is, step by step.                                         *)
LEMMA PrefixIs ==
  ASSUME NEW l \in Seq(Steps), NEW m \in Seq(Steps)
  PROVE  IsPrefix(l, m) <=> Len(l) <= Len(m) /\ \A i \in 1..Len(l) : l[i] = m[i]
<1>1. Len(l) \in Nat /\ Len(m) \in Nat
  OBVIOUS
<1>2. SUFFICES ASSUME Len(l) <= Len(m)
               PROVE  SubSeq(l, 1, Len(l)) = SubSeq(m, 1, Len(l))
                        <=> \A i \in 1..Len(l) : l[i] = m[i]
  BY DEF IsPrefix
<1>3. SubSeq(l, 1, Len(l)) = l
  OBVIOUS
<1> DEFINE front == SubSeq(m, 1, Len(l))
<1>4. front \in Seq(Steps) /\ Len(front) = Len(l) /\ \A i \in 1..Len(l) : front[i] = m[i]
  BY <1>1, <1>2
<1> HIDE DEF front
<1>5. (\A i \in 1..Len(l) : l[i] = front[i]) => l = front
  BY <1>4, SeqEqual
<1> QED BY <1>3, <1>4, <1>5 DEF front

LEMMA FrontIs ==
  ASSUME NEW l \in Seq(Steps), l # << >>
  PROVE  /\ Front(l) \in Seq(Steps) /\ Len(Front(l)) = Len(l) - 1 /\ Len(l) \in Nat \ {0}
         /\ \A i \in 1..(Len(l) - 1) : Front(l)[i] = l[i]
         /\ Last(l) = l[Len(l)] /\ Last(l) \in Steps
         /\ l = Append(Front(l), Last(l))
<1>1. Len(l) \in Nat \ {0}
  BY EmptySeq
<1>2. /\ Front(l) \in Seq(Steps) /\ Len(Front(l)) = Len(l) - 1
      /\ \A i \in 1..(Len(l) - 1) : Front(l)[i] = l[i]
  <2>1. 0 \in Nat /\ Len(l) - 1 \in Nat /\ 0 <= Len(l) - 1 /\ Len(l) - 1 <= Len(l)
    BY <1>1
  <2>2. /\ SubSeq(l, 0 + 1, Len(l) - 1) \in Seq(Steps)
        /\ Len(SubSeq(l, 0 + 1, Len(l) - 1)) = (Len(l) - 1) - 0
        /\ \A i \in 1..((Len(l) - 1) - 0) : SubSeq(l, 0 + 1, Len(l) - 1)[i] = l[0 + i]
    BY <2>1, StretchOf
  <2>3. /\ 0 + 1 = 1 /\ (Len(l) - 1) - 0 = Len(l) - 1
        /\ \A i \in 1..(Len(l) - 1) : 0 + i = i
    BY <1>1
  <2>4. Front(l) = SubSeq(l, 0 + 1, Len(l) - 1)
    BY <2>3 DEF Front
  <2> HIDE DEF Front
  <2> QED BY <2>2, <2>3, <2>4
<1>3. Last(l) = l[Len(l)] /\ Last(l) \in Steps
  BY <1>1 DEF Last
<1>4. l = Append(Front(l), Last(l))
  <2> HIDE DEF Front, Last
  <2> DEFINE r == Append(Front(l), Last(l))
  <2>1. r \in Seq(Steps) /\ Len(r) = Len(l)
    BY <1>1, <1>2, <1>3
  <2>2. ASSUME NEW i \in 1..Len(l) PROVE r[i] = l[i]
    <3>1. CASE i = Len(l)
      BY <1>1, <1>2, <1>3, <3>1
    <3>2. CASE i # Len(l)
      <4>1. i \in 1..(Len(l) - 1)
        BY <1>1, <3>2
      <4> QED BY <1>2, <1>3, <4>1
    <3> QED BY <3>1, <3>2
  <2> HIDE DEF r
  <2>3. r = l
    BY <2>1, <2>2, SeqEqual
  <2> QED BY <2>3 DEF r
<1> QED BY <1>1, <1>2, <1>3, <1>4

LEMMA AppendIs ==
  ASSUME NEW l \in Seq(Steps), NEW step \in Steps
  PROVE  /\ Append(l, step) \in Seq(Steps) /\ Len(Append(l, step)) = Len(l) + 1
         /\ Append(l, step) # << >>
         /\ Front(Append(l, step)) = l /\ Last(Append(l, step)) = step
         /\ \A i \in 1..Len(l) : Append(l, step)[i] = l[i]
<1> DEFINE m == Append(l, step)
<1>1. /\ m \in Seq(Steps) /\ Len(m) = Len(l) + 1 /\ Len(l) \in Nat /\ m[Len(l) + 1] = step
      /\ \A i \in 1..Len(l) : m[i] = l[i]
  OBVIOUS
<1>2. m # << >>
  BY <1>1
<1> HIDE DEF m
<1>3. Last(m) = step
  BY <1>1 DEF Last
<1>4. Front(m) = l
  <2>1. /\ Front(m) \in Seq(Steps) /\ Len(Front(m)) = Len(l)
        /\ \A i \in 1..Len(l) : Front(m)[i] = l[i]
    <3>1. (Len(l) + 1) - 1 = Len(l)
      BY <1>1
    <3>2. /\ Front(m) \in Seq(Steps) /\ Len(Front(m)) = Len(m) - 1
          /\ \A i \in 1..(Len(m) - 1) : Front(m)[i] = m[i]
      BY <1>1, <1>2, FrontIs
    <3> QED BY <1>1, <3>1, <3>2
  <2> QED BY <2>1, SeqEqual
<1> QED BY <1>1, <1>2, <1>3, <1>4 DEF m

(* A node below another one lies below a child of it.                      *)
LEMMA ChildBelow ==
  ASSUME NEW n \in Seq(Steps), NEW l \in Seq(Steps), IsPrefix(n, l), n # l
  PROVE  LET c == Append(n, l[Len(n) + 1])
         IN  /\ c \in Seq(Steps) /\ Front(c) = n /\ Last(c) = l[Len(n) + 1]
             /\ IsPrefix(c, l) /\ c # << >> /\ Len(n) + 1 <= Len(l) /\ l[Len(n) + 1] \in Steps
<1> DEFINE c == Append(n, l[Len(n) + 1])
<1>1. Len(n) <= Len(l) /\ \A i \in 1..Len(n) : n[i] = l[i]
  BY PrefixIs
<1>2. Len(n) \in Nat /\ Len(l) \in Nat
  OBVIOUS
<1>3. Len(n) # Len(l)
  BY <1>1, SeqEqual
<1>4. Len(n) + 1 <= Len(l) /\ Len(n) + 1 \in 1..Len(l)
  BY <1>1, <1>2, <1>3
<1>5. l[Len(n) + 1] \in Steps
  BY <1>4
<1>6. /\ c \in Seq(Steps) /\ Len(c) = Len(n) + 1 /\ c # << >>
      /\ Front(c) = n /\ Last(c) = l[Len(n) + 1]
      /\ \A i \in 1..Len(n) : c[i] = n[i]
  BY <1>5, AppendIs
<1> HIDE DEF c
<1>7. \A i \in 1..Len(c) : c[i] = l[i]
  <2> TAKE i \in 1..Len(c)
  <2>1. CASE i = Len(n) + 1
    BY <1>6, <2>1 DEF Last
  <2>2. CASE i # Len(n) + 1
    <3>1. i \in 1..Len(n)
      BY <1>2, <1>6, <2>2
    <3> QED BY <1>1, <1>6, <3>1
  <2> QED BY <2>1, <2>2
<1>8. IsPrefix(c, l)
  BY <1>4, <1>6, <1>7, PrefixIs
<1> QED BY <1>4, <1>5, <1>6, <1>8 DEF c

-----------------------------------------------------------------------------
(* Trees.                                                                  *)

LEMMA LeafIs ==
  ASSUME NEW tree, IsTree(tree), NEW loc \in DOMAIN tree
  PROVE  loc \in Seq(Steps) /\ Typed(tree[loc])
BY DEF IsTree, Typed

LEMMA NodeIs ==
  ASSUME NEW tree, IsTree(tree), NEW n \in Nodes(tree)
  PROVE  n \in Seq(Steps) /\ \E loc \in DOMAIN tree : IsPrefix(n, loc)
<1>1. PICK loc \in DOMAIN tree : \E k \in 0..Len(loc) : n = SubSeq(loc, 1, k)
  BY DEF Nodes
<1>2. PICK k \in 0..Len(loc) : n = SubSeq(loc, 1, k)
  BY <1>1
<1>3. loc \in Seq(Steps) /\ Len(loc) \in Nat
  BY LeafIs
<1>4. n \in Seq(Steps) /\ Len(n) = k
  BY <1>2, <1>3, SplitAt
<1>5. k <= Len(loc)
  BY <1>3
<1>6. IsPrefix(n, loc)
  BY <1>2, <1>4, <1>5, <1>3 DEF IsPrefix
<1> QED BY <1>4, <1>6

LEMMA PrefixIsNode ==
  ASSUME NEW tree, IsTree(tree), NEW n \in Seq(Steps), NEW loc \in DOMAIN tree, IsPrefix(n, loc)
  PROVE  n \in Nodes(tree)
<1>1. loc \in Seq(Steps) /\ Len(loc) \in Nat /\ Len(n) \in Nat /\ SubSeq(n, 1, Len(n)) = n
  BY LeafIs
<1>2. n = SubSeq(loc, 1, Len(n)) /\ Len(n) \in 0..Len(loc)
  BY <1>1 DEF IsPrefix
<1>3. n \in {SubSeq(loc, 1, k) : k \in 0..Len(loc)}
  BY <1>2
<1> QED BY <1>3, Zenon DEF Nodes

LEMMA PrefixOfPrefix ==
  ASSUME NEW l \in Seq(Steps), NEW m \in Seq(Steps), NEW n \in Seq(Steps),
         IsPrefix(l, m), IsPrefix(m, n)
  PROVE  IsPrefix(l, n)
<1>1. /\ Len(l) <= Len(m) /\ \A i \in 1..Len(l) : l[i] = m[i]
      /\ Len(m) <= Len(n) /\ \A i \in 1..Len(m) : m[i] = n[i]
  BY PrefixIs
<1>2. Len(l) \in Nat /\ Len(m) \in Nat /\ Len(n) \in Nat
  OBVIOUS
<1>3. Len(l) <= Len(n) /\ \A i \in 1..Len(l) : i \in 1..Len(m)
  BY <1>1, <1>2
<1>4. \A i \in 1..Len(l) : l[i] = n[i]
  BY <1>1, <1>3
<1> QED BY <1>3, <1>4, PrefixIs

LEMMA PrefixOfNode ==
  ASSUME NEW tree, IsTree(tree), NEW m \in Nodes(tree), NEW n \in Seq(Steps), IsPrefix(n, m)
  PROVE  n \in Nodes(tree)
<1>1. m \in Seq(Steps)
  BY NodeIs
<1>2. PICK loc \in DOMAIN tree : IsPrefix(m, loc)
  BY NodeIs
<1>3. loc \in Seq(Steps)
  BY LeafIs
<1>4. IsPrefix(n, loc)
  BY <1>1, <1>2, <1>3, PrefixOfPrefix
<1> QED BY <1>4, PrefixIsNode

LEMMA FrontIsPrefix ==
  ASSUME NEW l \in Seq(Steps), l # << >>
  PROVE  IsPrefix(Front(l), l) /\ Front(l) # l
<1>1. /\ Front(l) \in Seq(Steps) /\ Len(Front(l)) = Len(l) - 1 /\ Len(l) \in Nat \ {0}
      /\ \A i \in 1..(Len(l) - 1) : Front(l)[i] = l[i]
  BY FrontIs
<1>2. Len(Front(l)) <= Len(l) /\ Len(Front(l)) # Len(l)
  BY <1>1
<1>3. IsPrefix(Front(l), l)
  BY <1>1, <1>2, PrefixIs
<1> QED BY <1>2, <1>3

(* The children of a node tell whether it is an object or an array.        *)
LEMMA TypeOfParent ==
  ASSUME NEW tree, IsTree(tree), NEW m \in Nodes(tree), m # << >>
  PROVE  /\ Front(m) \in Seq(Steps) /\ Front(m) \in Nodes(tree) /\ Front(m) \notin DOMAIN tree
         /\ TypeAt(tree, Front(m)) = IF Last(m).kind = "key" THEN "object" ELSE "array"
<1> DEFINE n == Front(m)
<1>1. m \in Seq(Steps)
  BY NodeIs
<1>2. PICK loc \in DOMAIN tree : IsPrefix(m, loc)
  BY NodeIs
<1>3. loc \in Seq(Steps)
  BY LeafIs
<1>4. /\ n \in Seq(Steps) /\ Len(n) = Len(m) - 1 /\ Len(m) \in Nat \ {0}
      /\ Last(m) = m[Len(m)] /\ Last(m) \in Steps
  BY <1>1, FrontIs
<1>5. IsPrefix(n, m) /\ n # m
  BY <1>1, FrontIsPrefix
<1> HIDE DEF n
<1>6. IsPrefix(n, loc)
  BY <1>1, <1>2, <1>3, <1>4, <1>5, PrefixOfPrefix
<1>7. Len(m) <= Len(loc) /\ loc[Len(m)] = m[Len(m)]
  <2>1. Len(m) <= Len(loc) /\ \A i \in 1..Len(m) : m[i] = loc[i]
    BY <1>1, <1>2, <1>3, PrefixIs
  <2>2. Len(m) \in 1..Len(m)
    BY <1>4
  <2> QED BY <2>1, <2>2
<1>8. n \notin DOMAIN tree
  <2> SUFFICES ASSUME n \in DOMAIN tree PROVE FALSE
    OBVIOUS
  <2>1. n = loc
    BY <1>6 DEF IsTree
  <2>2. Len(n) < Len(loc)
    <3>1. Len(loc) \in Nat
      BY <1>3
    <3> QED BY <1>4, <1>7, <3>1
  <2>3. Len(loc) \in Nat
    BY <1>3
  <2> QED BY <2>1, <2>2, <2>3
<1>9. Len(n) + 1 = Len(m)
  BY <1>4
<1>10. ASSUME Last(m).kind # "key", NEW l \in DOMAIN tree, IsPrefix(n, l), l[Len(n) + 1].kind = "key"
       PROVE  FALSE
  <2> DEFINE c == Append(n, l[Len(n) + 1])
  <2>1. l \in Seq(Steps) /\ n # l
    BY <1>8, <1>10, LeafIs
  <2>2. c \in Seq(Steps) /\ Front(c) = n /\ Last(c) = l[Len(n) + 1] /\ IsPrefix(c, l) /\ c # << >>
    BY <1>4, <1>10, <2>1, ChildBelow
  <2> HIDE DEF c
  <2>3. c \in Nodes(tree)
    BY <2>2, PrefixIsNode
  <2>4. Last(c).kind = Last(m).kind
    BY <2>2, <2>3 DEF IsTree, n
  <2> QED BY <1>10, <2>2, <2>4
<1>11. TypeAt(tree, n) = IF Last(m).kind = "key" THEN "object" ELSE "array"
  <2>1. TypeAt(tree, n) = IF \E l \in DOMAIN tree : IsPrefix(n, l) /\ l[Len(n) + 1].kind = "key"
                            THEN "object" ELSE "array"
    BY <1>8 DEF TypeAt
  <2>2. CASE Last(m).kind = "key"
    BY <1>4, <1>6, <1>7, <1>9, <2>1, <2>2
  <2>3. CASE Last(m).kind # "key"
    BY <1>10, <2>1, <2>3
  <2> QED BY <2>2, <2>3
<1>12. n \in Nodes(tree)
  BY <1>4, <1>5, PrefixOfNode
<1> QED BY <1>4, <1>8, <1>11, <1>12 DEF n

(* Where a value is set depends on the shape of the tree alone.            *)
LEMMA SameTargets ==
  ASSUME NEW tree, NEW other, DOMAIN other = DOMAIN tree,
         \A loc \in DOMAIN tree :
           Typed(tree[loc]) /\ Typed(other[loc]) /\ (tree[loc] = "{}" <=> other[loc] = "{}"),
         NEW segments
  PROVE  Targets(other, segments) = Targets(tree, segments)
<1>1. Nodes(other) = Nodes(tree)
  BY DEF Nodes
<1>2. ASSUME NEW n PROVE TypeAt(other, n) = "object" <=> TypeAt(tree, n) = "object"
  <2>1. CASE n \in DOMAIN tree
    <3>1. ASSUME NEW v, Typed(v[n]), n \in DOMAIN v
          PROVE  TypeAt(v, n) = "object" <=> v[n] = "{}"
      <4>1. TypeAt(v, n) \in DOMAIN ValuesOf /\ v[n] \in ValuesOf[TypeAt(v, n)]
        BY <3>1, LeafIsTyped
      <4>2. "object" \in DOMAIN ValuesOf /\ ValuesOf["object"] = {"{}"}
        BY TypesOfValues DEF JsonTypes
      <4>3. v[n] = "{}" => TypeAt(v, n) = "object"
        BY <3>1, <4>2, TypeOfLeaf
      <4> QED BY <4>1, <4>2, <4>3
    <3> QED BY <2>1, <3>1
  <2>2. CASE n \notin DOMAIN tree
    BY <2>2 DEF TypeAt
  <2> QED BY <2>1, <2>2
<1> QED BY <1>1, <1>2 DEF Targets

LEMMA SetOnLeaf ==
  ASSUME NEW tree, IsTree(tree), NEW patch, DOMAIN patch = DOMAIN tree, NEW target \in DOMAIN tree, NEW v
  PROVE  SetValue(patch, target, v) = [loc \in DOMAIN tree |-> IF loc = target THEN v ELSE patch[loc]]
<1>1. {l \in DOMAIN patch : ~IsPrefix(target, l) /\ ~IsPrefix(l, target)} \cup {target} = DOMAIN tree
  <2>1. \A l \in DOMAIN tree : IsPrefix(target, l) \/ IsPrefix(l, target) => l = target
    BY DEF IsTree
  <2> QED BY <2>1
<1> QED BY <1>1 DEF SetValue

-----------------------------------------------------------------------------
(* The inductive invariant.                                                *)

Secrets == {loc \in Texts : message[loc] = "secret"}

(* Where the mask of a text would be set.                                  *)
Reached(loc) == Targets(message, ParsePath(PathOf(loc)))

(* No path leads to a place other than the text's own.                     *)
Exact == \A loc \in Texts : Reached(loc) \subseteq {loc}

PatchedSoFar ==
  [loc \in DOMAIN message |->
     IF loc \in Secrets /\ PathOf(loc) \notin toReplace THEN "masked" ELSE Decoded(message)[loc]]

LeavesAreTyped(tree) == \A loc \in DOMAIN tree : Typed(tree[loc])

InspectInv ==
  /\ DOMAIN replacements = {PathOf(loc) : loc \in Secrets \ toInspect}
  /\ Texts # {}

ReplaceInv ==
  /\ DOMAIN replacements = {PathOf(loc) : loc \in Secrets}
  /\ Secrets # {}
  /\ LeavesAreTyped(patched)
  /\ Exact => patched = PatchedSoFar

(* A path that leads nowhere is what keeps a mask from a message.          *)
SentInv ==
  /\ LeavesAreTyped(sent)
  /\ Exact => \/ sent = Masked
              \/ sent = message /\ \E loc \in Secrets : Reached(loc) = {}

TextsInv ==
  /\ side \in {"request", "response"}
  /\ phase \in {"parse", "inspect", "replace", "sent", "blocked"}
  /\ IsTree(message)
  /\ toInspect \subseteq Texts
  /\ replacements = [path \in DOMAIN replacements |-> "masked"]
  /\ DOMAIN replacements \subseteq {PathOf(loc) : loc \in Secrets}
  /\ toReplace \subseteq DOMAIN replacements
  /\ phase = "parse" => DOMAIN replacements = {} /\ toInspect = {}
  /\ phase = "inspect" => InspectInv
  /\ phase = "replace" => ReplaceInv
  /\ phase = "sent" => SentInv
  /\ Texts = {} => phase = "parse" \/ (phase = "sent" /\ sent = message)

(* What does not change when the message and its side do not.              *)
LEMMA SameMessage ==
  ASSUME side' = side, message' = message
  PROVE  /\ Texts' = Texts /\ Secrets' = Secrets /\ Masked' = Masked
         /\ Exact' = Exact /\ IsTree(message)' = IsTree(message)
         /\ \A loc : PathOf(loc)' = PathOf(loc) /\ Reached(loc)' = Reached(loc)
<1>1. Texts' = Texts
  BY DEF Texts
<1>2. Secrets' = Secrets
  BY <1>1 DEF Secrets
<1>3. Masked' = Masked
  BY <1>1 DEF Masked
<1>4. \A loc : PathOf(loc)' = PathOf(loc)
  BY DEF PathOf, Recorded
<1>5. \A loc : Reached(loc)' = Reached(loc)
  BY <1>4 DEF Reached
<1>6. Exact' = Exact
  BY <1>1, <1>5 DEF Exact
<1> QED BY <1>1, <1>2, <1>3, <1>4, <1>5, <1>6

LEMMA TextsAreLeaves ==
  ASSUME NEW loc \in Texts
  PROVE  loc \in DOMAIN message /\ NonEmptyString(message, loc)
<1>1. \A l : NonEmptyString(message, l) => l \in DOMAIN message
  <2> TAKE l
  <2>1. l \notin DOMAIN message => TypeAt(message, l) \in {"object", "array"}
    BY DEF TypeAt
  <2> QED BY <2>1 DEF NonEmptyString
<1>2. CASE side = "response"
  BY <1>1, <1>2 DEF Texts, ResponseTexts
<1>3. CASE side # "response"
  BY <1>3 DEF Texts, RequestTexts
<1> QED BY <1>2, <1>3

LEMMA SecretIs ==
  ASSUME NEW loc \in Secrets
  PROVE  loc \in Texts /\ loc \in DOMAIN message /\ message[loc] = "secret"
BY TextsAreLeaves DEF Secrets

LEMMA DecodedIs ==
  ASSUME NEW tree, LeavesAreTyped(tree)
  PROVE  /\ DOMAIN Decoded(tree) = DOMAIN tree
         /\ \A loc \in DOMAIN tree :
              /\ Typed(Decoded(tree)[loc])
              /\ Decoded(tree)[loc] = "{}" <=> tree[loc] = "{}"
              /\ Decoded(tree)[loc] = "secret" <=> tree[loc] = "secret"
<1>1. DOMAIN Decoded(tree) = DOMAIN tree
  BY DEF Decoded
<1>2. ASSUME NEW loc \in DOMAIN tree
      PROVE  /\ Typed(Decoded(tree)[loc])
             /\ Decoded(tree)[loc] = "{}" <=> tree[loc] = "{}"
             /\ Decoded(tree)[loc] = "secret" <=> tree[loc] = "secret"
  <2>1. Decoded(tree)[loc] = IF tree[loc] = "bignumber" THEN "rounded" ELSE tree[loc]
    BY DEF Decoded
  <2>2. Typed("rounded")
    BY TypesOfValues DEF Typed, JsonTypes
  <2>3. Typed(tree[loc])
    BY DEF LeavesAreTyped
  <2> QED BY <2>1, <2>2, <2>3
<1> QED BY <1>1, <1>2

LEMMA MessageIsTyped ==
  ASSUME IsTree(message)
  PROVE  LeavesAreTyped(message)
BY LeafIs DEF LeavesAreTyped

LEMMA MaskIsTyped == Typed("masked")
BY TypesOfValues DEF Typed, JsonTypes

LEMMA InvInit ==
  ASSUME Init
  PROVE  TextsInv
<1>1. IsTree(message)
  BY TreeAssumption DEF Init
<1>2. DOMAIN replacements = {} /\ replacements = [path \in DOMAIN replacements |-> "masked"]
  <2>1. replacements = << >>
    BY DEF Init
  <2> QED BY <2>1
<1> QED BY <1>1, <1>2 DEF Init, TextsInv

LEMMA InvPassThrough ==
  ASSUME TextsInv, PassThrough
  PROVE  TextsInv'
<1>1. /\ side' = side /\ message' = message /\ toInspect' = toInspect
      /\ replacements' = replacements /\ toReplace' = toReplace
      /\ phase = "parse" /\ phase' = "sent" /\ sent' = message /\ Texts = {}
  BY DEF PassThrough
<1>2. /\ Texts' = Texts /\ Secrets' = Secrets /\ Masked' = Masked
      /\ Exact' = Exact /\ IsTree(message)' = IsTree(message)
      /\ \A loc : PathOf(loc)' = PathOf(loc) /\ Reached(loc)' = Reached(loc)
  BY <1>1, SameMessage
<1>3. SentInv'
  <2>1. LeavesAreTyped(sent)'
    BY <1>1, MessageIsTyped DEF TextsInv, LeavesAreTyped
  <2>2. Masked = message
    BY <1>1 DEF Masked
  <2> QED BY <1>1, <1>2, <2>1, <2>2 DEF SentInv
<1> QED BY <1>1, <1>2, <1>3 DEF TextsInv

LEMMA InvExtractTexts ==
  ASSUME TextsInv, ExtractTexts
  PROVE  TextsInv'
<1>1. /\ side' = side /\ message' = message /\ toInspect' = Texts
      /\ replacements' = replacements /\ toReplace' = toReplace
      /\ phase = "parse" /\ phase' = "inspect" /\ Texts # {}
  BY DEF ExtractTexts
<1>2. /\ Texts' = Texts /\ Secrets' = Secrets
      /\ IsTree(message)' = IsTree(message)
      /\ \A loc : PathOf(loc)' = PathOf(loc)
  BY <1>1, SameMessage
<1>3. InspectInv'
  <2>1. DOMAIN replacements = {} /\ Secrets \subseteq Texts
    BY <1>1 DEF TextsInv, Secrets
  <2> QED BY <1>1, <1>2, <2>1 DEF InspectInv
<1> QED BY <1>1, <1>2, <1>3 DEF TextsInv

LEMMA InvKeepText ==
  ASSUME TextsInv, NEW loc, KeepText(loc)
  PROVE  TextsInv'
<1>1. /\ side' = side /\ message' = message /\ toInspect' = toInspect \ {loc}
      /\ replacements' = replacements /\ toReplace' = toReplace
      /\ phase = "inspect" /\ phase' = "inspect" /\ loc \in toInspect /\ message[loc] # "secret"
  BY DEF KeepText
<1>2. /\ Texts' = Texts /\ Secrets' = Secrets
      /\ IsTree(message)' = IsTree(message)
      /\ \A l : PathOf(l)' = PathOf(l)
  BY <1>1, SameMessage
<1>3. InspectInv'
  <2>1. Secrets \ toInspect' = Secrets \ toInspect
    BY <1>1 DEF Secrets
  <2> QED BY <1>1, <1>2, <2>1 DEF TextsInv, InspectInv
<1> QED BY <1>1, <1>2, <1>3 DEF TextsInv, InspectInv

LEMMA InvMaskText ==
  ASSUME TextsInv, NEW loc, MaskText(loc)
  PROVE  TextsInv'
<1>1. /\ side' = side /\ message' = message /\ toInspect' = toInspect \ {loc}
      /\ replacements' = [path \in DOMAIN replacements \cup {PathOf(loc)} |-> "masked"]
      /\ toReplace' = toReplace
      /\ phase = "inspect" /\ phase' = "inspect" /\ loc \in toInspect /\ message[loc] = "secret"
  BY DEF MaskText
<1>2. /\ Texts' = Texts /\ Secrets' = Secrets
      /\ IsTree(message)' = IsTree(message)
      /\ \A l : PathOf(l)' = PathOf(l)
  BY <1>1, SameMessage
<1>3. loc \in Secrets
  BY <1>1 DEF TextsInv, Secrets
<1>4. DOMAIN replacements' = DOMAIN replacements \cup {PathOf(loc)}
  BY <1>1
<1>5. InspectInv'
  <2>1. Secrets \ toInspect' = (Secrets \ toInspect) \cup {loc}
    BY <1>1, <1>3
  <2>2. DOMAIN replacements = {PathOf(l) : l \in Secrets \ toInspect} /\ Texts # {}
    BY <1>1 DEF TextsInv, InspectInv
  <2>3. DOMAIN replacements' = {PathOf(l) : l \in Secrets \ toInspect'}
    BY <1>4, <2>1, <2>2
  <2> QED BY <1>2, <2>2, <2>3 DEF InspectInv
<1>6. replacements' = [path \in DOMAIN replacements' |-> "masked"]
  BY <1>1, <1>4
<1>7. DOMAIN replacements' \subseteq {PathOf(l) : l \in Secrets}
  BY <1>3, <1>4 DEF TextsInv
<1>8. toReplace' \subseteq DOMAIN replacements' /\ toInspect' \subseteq Texts
  BY <1>1, <1>4 DEF TextsInv
<1> QED BY <1>1, <1>2, <1>5, <1>6, <1>7, <1>8 DEF TextsInv, InspectInv

LEMMA InvBlockText ==
  ASSUME TextsInv, NEW loc, BlockText(loc)
  PROVE  TextsInv'
<1>1. /\ side' = side /\ message' = message /\ toInspect' = toInspect
      /\ replacements' = replacements /\ toReplace' = toReplace
      /\ phase = "inspect" /\ phase' = "blocked"
  BY DEF BlockText
<1>2. /\ Texts' = Texts /\ Secrets' = Secrets
      /\ IsTree(message)' = IsTree(message)
      /\ \A l : PathOf(l)' = PathOf(l)
  BY <1>1, SameMessage
<1> QED BY <1>1, <1>2 DEF TextsInv, InspectInv

LEMMA InvSendUnchanged ==
  ASSUME TextsInv, SendUnchanged
  PROVE  TextsInv'
<1>1. /\ side' = side /\ message' = message /\ toInspect' = toInspect
      /\ replacements' = replacements /\ toReplace' = toReplace
      /\ phase = "inspect" /\ phase' = "sent" /\ sent' = message
      /\ toInspect = {} /\ replacements = << >>
  BY DEF SendUnchanged
<1>2. /\ Texts' = Texts /\ Secrets' = Secrets /\ Masked' = Masked
      /\ Exact' = Exact /\ IsTree(message)' = IsTree(message)
      /\ \A l : PathOf(l)' = PathOf(l) /\ Reached(l)' = Reached(l)
  BY <1>1, SameMessage
<1>3. Secrets = {}
  <2>1. DOMAIN replacements = {}
    BY <1>1
  <2>2. DOMAIN replacements = {PathOf(loc) : loc \in Secrets \ toInspect}
    BY <1>1 DEF TextsInv, InspectInv
  <2> QED BY <1>1, <2>1, <2>2
<1>4. SentInv'
  <2>1. LeavesAreTyped(sent)'
    BY <1>1, MessageIsTyped DEF TextsInv, LeavesAreTyped
  <2>2. Masked = message
    BY <1>3 DEF Masked, Secrets
  <2> QED BY <1>1, <1>2, <2>1, <2>2 DEF SentInv
<1> QED BY <1>1, <1>2, <1>4 DEF TextsInv, InspectInv

LEMMA InvStartReplacing ==
  ASSUME TextsInv, StartReplacing
  PROVE  TextsInv'
<1>1. /\ side' = side /\ message' = message /\ toInspect' = toInspect
      /\ replacements' = replacements /\ toReplace' = DOMAIN replacements
      /\ phase = "inspect" /\ phase' = "replace" /\ patched' = Decoded(message)
      /\ toInspect = {} /\ replacements # << >>
  BY DEF StartReplacing
<1>2. /\ Texts' = Texts /\ Secrets' = Secrets
      /\ Exact' = Exact /\ IsTree(message)' = IsTree(message)
      /\ \A l : PathOf(l)' = PathOf(l)
  BY <1>1, SameMessage
<1>3. DOMAIN replacements = {PathOf(loc) : loc \in Secrets}
  BY <1>1 DEF TextsInv, InspectInv
<1>4. Secrets # {}
  <2> SUFFICES ASSUME DOMAIN replacements = {} PROVE FALSE
    BY <1>3
  <2>1. replacements = [path \in {} |-> "masked"]
    BY DEF TextsInv
  <2> QED BY <1>1, <2>1
<1>5. LeavesAreTyped(message)
  BY MessageIsTyped DEF TextsInv
<1>6. LeavesAreTyped(patched)' /\ DOMAIN Decoded(message) = DOMAIN message
  BY <1>1, <1>5, DecodedIs DEF LeavesAreTyped
<1>7. patched' = PatchedSoFar'
  <2>1. PatchedSoFar' = [loc \in DOMAIN message |->
          IF loc \in Secrets /\ PathOf(loc) \notin DOMAIN replacements THEN "masked" ELSE Decoded(message)[loc]]
    BY <1>1, <1>2 DEF PatchedSoFar
  <2>2. \A loc \in Secrets : PathOf(loc) \in DOMAIN replacements
    BY <1>3
  <2>3. PatchedSoFar' = [loc \in DOMAIN message |-> Decoded(message)[loc]]
    BY <2>1, <2>2
  <2>4. Decoded(message) = [loc \in DOMAIN message |-> Decoded(message)[loc]]
    BY DEF Decoded
  <2> QED BY <1>1, <2>3, <2>4
<1>8. ReplaceInv'
  BY <1>1, <1>2, <1>3, <1>4, <1>6, <1>7 DEF ReplaceInv
<1> QED BY <1>1, <1>2, <1>8 DEF TextsInv, InspectInv

(* The path of a mask leads to the same place in what is patched so far.   *)
LEMMA PatchedTargets ==
  ASSUME TextsInv, phase = "replace", Exact, NEW loc \in Secrets
  PROVE  Targets(patched, ParsePath(PathOf(loc))) = Reached(loc)
<1>1. patched = PatchedSoFar /\ LeavesAreTyped(patched) /\ LeavesAreTyped(message)
  BY MessageIsTyped DEF TextsInv, ReplaceInv
<1>2. /\ DOMAIN Decoded(message) = DOMAIN message
      /\ \A l \in DOMAIN message : Decoded(message)[l] = "{}" <=> message[l] = "{}"
  BY <1>1, DecodedIs
<1>3. DOMAIN patched = DOMAIN message
  BY <1>1 DEF PatchedSoFar
<1>4. \A l \in DOMAIN message : message[l] = "{}" <=> patched[l] = "{}"
  <2> TAKE l \in DOMAIN message
  <2>1. patched[l] = IF l \in Secrets /\ PathOf(l) \notin toReplace THEN "masked" ELSE Decoded(message)[l]
    BY <1>1 DEF PatchedSoFar
  <2>2. l \in Secrets => message[l] = "secret"
    BY SecretIs
  <2> QED BY <1>2, <2>1, <2>2
<1> HIDE DEF TextsInv
<1>5. \A l \in DOMAIN message : Typed(message[l]) /\ Typed(patched[l])
  BY <1>1, <1>3 DEF LeavesAreTyped
<1> QED BY <1>3, <1>4, <1>5, SameTargets DEF Reached

LEMMA InvReplaceText ==
  ASSUME TextsInv, NEW path, ReplaceText(path)
  PROVE  TextsInv'
<1>1. /\ side' = side /\ message' = message /\ toInspect' = toInspect
      /\ replacements' = replacements /\ toReplace' = toReplace \ {path}
      /\ phase = "replace" /\ phase' = "replace" /\ path \in toReplace
  BY DEF ReplaceText
<1>2. PICK target \in Targets(patched, ParsePath(path)) :
        patched' = SetValue(patched, target, replacements[path])
  BY DEF ReplaceText
<1>3. /\ Texts' = Texts /\ Secrets' = Secrets
      /\ Exact' = Exact /\ IsTree(message)' = IsTree(message)
      /\ \A l : PathOf(l)' = PathOf(l)
  BY <1>1, SameMessage
<1>4. /\ DOMAIN replacements = {PathOf(loc) : loc \in Secrets} /\ Secrets # {}
      /\ LeavesAreTyped(patched)
      /\ Exact => patched = PatchedSoFar
  BY <1>1 DEF TextsInv, ReplaceInv
<1>5. path \in DOMAIN replacements /\ replacements[path] = "masked"
  BY <1>1 DEF TextsInv
<1>6. patched' = SetValue(patched, target, "masked")
  BY <1>2, <1>5
<1>7. LeavesAreTyped(patched)'
  <2>1. ASSUME NEW loc \in DOMAIN patched' PROVE Typed(patched'[loc])
    <3>1. /\ loc = target \/ loc \in DOMAIN patched
          /\ patched'[loc] = IF loc = target THEN "masked" ELSE patched[loc]
      BY <1>6 DEF SetValue
    <3> QED BY <1>4, <3>1, MaskIsTyped DEF LeavesAreTyped
  <2> QED BY <2>1 DEF LeavesAreTyped
<1>8. ASSUME Exact PROVE patched' = PatchedSoFar'
  <2>1. PICK own \in Secrets : path = PathOf(own)
    BY <1>4, <1>5
  <2>2. own \in Texts /\ own \in DOMAIN message /\ IsTree(message)
    BY SecretIs DEF TextsInv
  <2>3. Targets(patched, ParsePath(path)) = Reached(own)
    BY <1>1, <1>8, <2>1, PatchedTargets
  <2>4. target = own /\ Reached(own) = {own}
    BY <1>2, <1>8, <2>2, <2>3 DEF Exact
  <2>5. \A loc \in Secrets : PathOf(loc) = path => loc = own
    <3> TAKE loc \in Secrets
    <3> HAVE PathOf(loc) = path
    <3>1. Reached(loc) = Reached(own)
      BY <2>1 DEF Reached
    <3>2. Reached(loc) \subseteq {loc}
      BY <1>8, SecretIs DEF Exact
    <3> QED BY <2>4, <3>1, <3>2
  <2>6. DOMAIN patched = DOMAIN message
    BY <1>4, <1>8 DEF PatchedSoFar
  <2>7. patched' = [loc \in DOMAIN message |-> IF loc = own THEN "masked" ELSE patched[loc]]
    BY <1>6, <2>2, <2>4, <2>6, SetOnLeaf
  <2>8. PatchedSoFar' = [loc \in DOMAIN message |->
          IF loc \in Secrets /\ PathOf(loc) \notin toReplace \ {path} THEN "masked"
            ELSE Decoded(message)[loc]]
    BY <1>1, <1>3 DEF PatchedSoFar
  <2>9. ASSUME NEW loc \in DOMAIN message
        PROVE  (IF loc = own THEN "masked" ELSE patched[loc])
                 = IF loc \in Secrets /\ PathOf(loc) \notin toReplace \ {path} THEN "masked"
                     ELSE Decoded(message)[loc]
    <3>1. patched[loc] = IF loc \in Secrets /\ PathOf(loc) \notin toReplace THEN "masked"
                           ELSE Decoded(message)[loc]
      BY <1>4, <1>8 DEF PatchedSoFar
    <3>2. CASE loc = own
      BY <2>1, <3>2
    <3>3. CASE loc # own
      BY <2>5, <3>1, <3>3
    <3> QED BY <3>2, <3>3
  <2> QED BY <2>7, <2>8, <2>9
<1>9. ReplaceInv'
  BY <1>1, <1>3, <1>4, <1>7, <1>8 DEF ReplaceInv
<1> QED BY <1>1, <1>3, <1>9 DEF TextsInv

LEMMA InvReplaceFails ==
  ASSUME TextsInv, NEW path, ReplaceFails(path)
  PROVE  TextsInv'
<1>1. /\ side' = side /\ message' = message /\ toInspect' = toInspect
      /\ replacements' = replacements /\ toReplace' = toReplace
      /\ phase = "replace" /\ phase' = "sent" /\ path \in toReplace /\ sent' = message
      /\ Targets(patched, ParsePath(path)) = {}
  BY DEF ReplaceFails
<1>2. /\ Texts' = Texts /\ Secrets' = Secrets /\ Masked' = Masked
      /\ Exact' = Exact /\ IsTree(message)' = IsTree(message)
      /\ \A l : PathOf(l)' = PathOf(l) /\ Reached(l)' = Reached(l)
  BY <1>1, SameMessage
<1>3. PICK own \in Secrets : path = PathOf(own)
  BY <1>1 DEF TextsInv
<1>4. Exact => Reached(own) = {}
  BY <1>1, <1>3, PatchedTargets
<1>5. LeavesAreTyped(sent)'
  BY <1>1, MessageIsTyped DEF TextsInv, LeavesAreTyped
<1>6. SentInv'
  BY <1>1, <1>2, <1>4, <1>5 DEF SentInv
<1>7. Texts # {}
  BY SecretIs
<1> QED BY <1>1, <1>2, <1>6, <1>7 DEF TextsInv

LEMMA InvSendPatched ==
  ASSUME TextsInv, SendPatched
  PROVE  TextsInv'
<1>1. /\ side' = side /\ message' = message /\ toInspect' = toInspect
      /\ replacements' = replacements /\ toReplace' = toReplace
      /\ phase = "replace" /\ phase' = "sent" /\ toReplace = {} /\ sent' = patched
  BY DEF SendPatched
<1>2. /\ Texts' = Texts /\ Secrets' = Secrets /\ Masked' = Masked
      /\ Exact' = Exact /\ IsTree(message)' = IsTree(message)
      /\ \A l : PathOf(l)' = PathOf(l) /\ Reached(l)' = Reached(l)
  BY <1>1, SameMessage
<1>3. /\ Secrets # {} /\ LeavesAreTyped(patched)
      /\ Exact => patched = PatchedSoFar
  BY <1>1 DEF TextsInv, ReplaceInv
<1>4. PatchedSoFar = Masked
  <2>1. PatchedSoFar = [loc \in DOMAIN message |->
                          IF loc \in Secrets THEN "masked" ELSE Decoded(message)[loc]]
    BY <1>1 DEF PatchedSoFar
  <2>2. Masked = [loc \in DOMAIN message |->
                    IF loc \in Texts /\ message[loc] = "secret" THEN "masked" ELSE Decoded(message)[loc]]
    BY <1>3 DEF Masked, Secrets
  <2>3. \A loc : loc \in Secrets <=> loc \in Texts /\ message[loc] = "secret"
    BY DEF Secrets
  <2> QED BY <2>1, <2>2, <2>3
<1>5. LeavesAreTyped(sent)'
  BY <1>1, <1>3 DEF LeavesAreTyped
<1>6. SentInv'
  BY <1>1, <1>2, <1>3, <1>4, <1>5 DEF SentInv
<1>7. Texts # {}
  BY <1>3, SecretIs
<1> QED BY <1>1, <1>2, <1>6, <1>7 DEF TextsInv

LEMMA InvStutter ==
  ASSUME TextsInv, UNCHANGED vars
  PROVE  TextsInv'
<1>1. /\ side' = side /\ message' = message /\ toInspect' = toInspect
      /\ replacements' = replacements /\ toReplace' = toReplace /\ patched' = patched
      /\ sent' = sent /\ phase' = phase
  BY DEF vars
<1>2. /\ Texts' = Texts /\ Secrets' = Secrets /\ Masked' = Masked
      /\ Exact' = Exact /\ IsTree(message)' = IsTree(message)
      /\ \A l : PathOf(l)' = PathOf(l) /\ Reached(l)' = Reached(l)
  BY <1>1, SameMessage
<1>3. PatchedSoFar' = PatchedSoFar
  BY <1>1, <1>2 DEF PatchedSoFar
<1>4. /\ InspectInv' = InspectInv /\ ReplaceInv' = ReplaceInv /\ SentInv' = SentInv
  BY <1>1, <1>2, <1>3 DEF InspectInv, ReplaceInv, SentInv, LeavesAreTyped
<1> QED BY <1>1, <1>2, <1>4 DEF TextsInv

(* The locations, paths and masks of one message stay in step from the     *)
(* extraction to the body that goes out (server.go:397-450,                *)
(* parser.go:154-264).                                                     *)
THEOREM TextsInvHolds == Spec => []TextsInv
<1>1. Init => TextsInv
  BY InvInit
<1>2. TextsInv /\ [Next]_vars => TextsInv'
  <2> SUFFICES ASSUME TextsInv, [Next]_vars PROVE TextsInv'
    OBVIOUS
  <2>1. CASE PassThrough
    BY <2>1, InvPassThrough
  <2>2. CASE ExtractTexts
    BY <2>2, InvExtractTexts
  <2>3. ASSUME NEW loc \in toInspect, KeepText(loc) PROVE TextsInv'
    BY <2>3, InvKeepText
  <2>4. ASSUME NEW loc \in toInspect, MaskText(loc) PROVE TextsInv'
    BY <2>4, InvMaskText
  <2>5. ASSUME NEW loc \in toInspect, BlockText(loc) PROVE TextsInv'
    BY <2>5, InvBlockText
  <2>6. CASE SendUnchanged
    BY <2>6, InvSendUnchanged
  <2>7. CASE StartReplacing
    BY <2>7, InvStartReplacing
  <2>8. ASSUME NEW path \in toReplace, ReplaceText(path) PROVE TextsInv'
    BY <2>8, InvReplaceText
  <2>9. ASSUME NEW path \in toReplace, ReplaceFails(path) PROVE TextsInv'
    BY <2>9, InvReplaceFails
  <2>10. CASE SendPatched
    BY <2>10, InvSendPatched
  <2>11. CASE UNCHANGED vars
    BY <2>11, InvStutter
  <2> QED BY <2>1, <2>2, <2>3, <2>4, <2>5, <2>6, <2>7, <2>8, <2>9, <2>10, <2>11 DEF Next
<1> QED BY <1>1, <1>2, PTL DEF Spec

(* The types of the variables.                                             *)
THEOREM TextTypes == Spec => []TypeOK
<1>1. TextsInv => TypeOK
  <2> SUFFICES ASSUME TextsInv PROVE TypeOK
    OBVIOUS
  <2>1. \A loc \in Secrets : loc \in Texts
    BY SecretIs
  <2>2. LeavesAreTyped(message)
    BY MessageIsTyped DEF TextsInv
  <2>3. ASSUME NEW tree \in Trees, NEW loc \in DOMAIN tree
        PROVE  \E type \in DOMAIN ValuesOf : tree[loc] \in ValuesOf[type]
    <3>1. LeavesAreTyped(tree)
      BY <2>2 DEF Trees, TextsInv, ReplaceInv, SentInv
    <3> QED BY <3>1 DEF LeavesAreTyped, Typed
  <2> QED BY <2>1, <2>3 DEF TextsInv, TypeOK
<1> QED BY <1>1, TextsInvHolds, PTL

(* If every text can be addressed, the body goes out with exactly the      *)
(* masked texts changed, whatever the order of Go's maps                   *)
(* (server.go:421-450, parser.go:154-175).                                 *)
THEOREM MasksAreExact == Spec => []RewrittenExactly
<1>1. TextsInv => RewrittenExactly
  <2> SUFFICES ASSUME TextsInv, phase = "sent", \A loc \in Texts : Addressable(loc)
               PROVE  sent = Masked
    BY DEF RewrittenExactly
  <2>1. \A loc \in Texts : Reached(loc) = {loc}
    BY DEF Addressable, Reached
  <2>2. Exact
    BY <2>1 DEF Exact
  <2>3. ~ \E loc \in Secrets : Reached(loc) = {}
    BY <2>1, SecretIs
  <2> QED BY <2>2, <2>3 DEF TextsInv, SentInv
<1> QED BY <1>1, TextsInvHolds, PTL

LEMMA MembersAre ==
  ASSUME NEW tree, NEW node, NEW field \in DOMAIN Capital
  PROVE  \A loc : loc \in Members(tree, node, field) <=>
                    /\ \/ loc = Append(node, Key(<<field>>))
                       \/ loc = Append(node, Key(<<Capital[field]>>))
                    /\ Present(tree, loc)
BY DEF Members

LEMMA FieldsAre ==
  /\ DOMAIN Capital = {"jsonrpc", "method", "params", "name", "arguments", "result", "error",
                       "content", "isError", "type", "text"}
  /\ Capital["method"] = "Method"
BY DEF Capital

(* A request that calls no tool and an error go out as they came           *)
(* (mcpparser.go:50-53, 84-87).                                            *)
THEOREM OthersPass == Spec => []OthersPassUntouched
<1>1. ASSUME IsOther PROVE Texts = {}
  <2>1. CASE side = "request" /\ \A method \in {"method", "Method"} :
                                   Leaf(<<Key(<<method>>)>>) # "tools/call"
    <3>1. ~Reads(message, << >>, "method", "tools/call")
      <4> SUFFICES ASSUME NEW loc \in Members(message, << >>, "method"),
                          loc \in DOMAIN message, message[loc] = "tools/call"
                   PROVE  FALSE
        BY DEF Reads
      <4>1. \/ loc = Append(<< >>, Key(<<"method">>))
            \/ loc = Append(<< >>, Key(<<"Method">>))
        <5>1. "method" \in DOMAIN Capital /\ Capital["method"] = "Method"
          BY FieldsAre
        <5>2. \/ loc = Append(<< >>, Key(<<"method">>))
              \/ loc = Append(<< >>, Key(<<Capital["method"]>>))
          BY <5>1, MembersAre
        <5> QED BY <5>1, <5>2
      <4>2. \A step : Append(<< >>, step) = <<step>>
        OBVIOUS
      <4>3. Leaf(loc) = "tools/call"
        BY DEF Leaf
      <4> QED BY <2>1, <4>1, <4>2, <4>3
    <3>2. ArgumentObjects(message) = {}
      BY <3>1 DEF ArgumentObjects
    <3> QED BY <2>1, <3>2 DEF Texts, RequestTexts
  <2>2. CASE side = "response" /\ ~Fits(<<Key(<<"error">>)>>, "null")
    <3> DEFINE error == <<Key(<<"error">>)>>
    <3>1. Present(message, error) /\ TypeAt(message, error) # "null"
      BY <2>2 DEF Fits
    <3>2. error \in Members(message, << >>, "error")
      <4>1. error = Append(<< >>, Key(<<"error">>))
        OBVIOUS
      <4> HIDE DEF error
      <4> QED BY <3>1, <4>1, MembersAre, FieldsAre
    <3> HIDE DEF error
    <3>3. ~Decodes(message, << >>, [jsonrpc |-> "string", error |-> "null"])
      <4>1. /\ "error" \in DOMAIN [jsonrpc |-> "string", error |-> "null"]
            /\ [jsonrpc |-> "string", error |-> "null"]["error"] = "null"
        OBVIOUS
      <4> QED BY <3>1, <3>2, <4>1 DEF Decodes
    <3>4. ContentItems(message) = {}
      BY <3>3 DEF ContentItems
    <3> QED BY <2>2, <3>4 DEF Texts, ResponseTexts
  <2> QED BY <1>1, <2>1, <2>2 DEF IsOther
<1>2. TextsInv => OthersPassUntouched
  BY <1>1 DEF TextsInv, OthersPassUntouched
<1> QED BY <1>2, TextsInvHolds, PTL

-----------------------------------------------------------------------------
(* Writing and reading paths.                                              *)

(* Induction over a set of numbers.                                        *)
LEMMA AllNumbers ==
  ASSUME NEW S, 0 \in S, \A k \in Nat : k \in S => k + 1 \in S
  PROVE  \A k \in Nat : k \in S
<1> DEFINE failing == {k \in Nat : k \notin S}
<1> SUFFICES ASSUME failing # {} PROVE FALSE
  OBVIOUS
<1>1. failing \in SUBSET Nat
  OBVIOUS
<1>2. PICK k \in failing : \A j \in failing : k <= j
  BY <1>1, LeastOf
<1>3. k # 0 /\ k \in Nat /\ k \notin S
  BY <1>2
<1>4. k - 1 \in Nat /\ (k - 1) + 1 = k /\ ~(k <= k - 1)
  BY <1>3
<1>5. k - 1 \in S
  BY <1>2, <1>4
<1> QED BY <1>3, <1>4, <1>5

(* f is what Path writes, step by step.                                    *)
AreWritten(f, steps, n) ==
  f = [i \in 0..n |-> IF i = 0 THEN << >> ELSE f[i - 1] \o Show(steps, i)]

LEMMA WrittenExist ==
  ASSUME NEW steps, NEW n \in Nat
  PROVE  \E f : AreWritten(f, steps, n)
<1> DEFINE S == {k \in Nat : \E f : AreWritten(f, steps, k)}
<1>1. 0 \in S
  <2> DEFINE f == [i \in 0..0 |-> << >>]
  <2>1. f = [i \in 0..0 |-> IF i = 0 THEN << >> ELSE f[i - 1] \o Show(steps, i)]
    OBVIOUS
  <2>2. AreWritten(f, steps, 0)
    BY <2>1 DEF AreWritten
  <2> QED BY <2>2
<1>2. ASSUME NEW k \in Nat, k \in S PROVE k + 1 \in S
  <2>1. PICK f : AreWritten(f, steps, k)
    BY <1>2
  <2> DEFINE g == [i \in 0..(k + 1) |-> IF i = k + 1 THEN f[k] \o Show(steps, k + 1) ELSE f[i]]
             h == [i \in 0..(k + 1) |-> IF i = 0 THEN << >> ELSE g[i - 1] \o Show(steps, i)]
  <2>2. ASSUME NEW i \in 0..(k + 1) PROVE g[i] = h[i]
    <3>1. CASE i = k + 1
      <4>1. i # 0 /\ i - 1 \in 0..(k + 1) /\ i - 1 = k /\ k # k + 1
        BY <3>1
      <4>2. g[i - 1] = f[k]
        BY <4>1
      <4> QED BY <3>1, <4>1, <4>2
    <3>2. CASE i # k + 1
      <4>1. i \in 0..k
        BY <3>2
      <4>2. g[i] = f[i]
        BY <3>2
      <4>3. f[i] = IF i = 0 THEN << >> ELSE f[i - 1] \o Show(steps, i)
        BY <2>1, <4>1, Zenon DEF AreWritten
      <4>4. i # 0 => g[i - 1] = f[i - 1]
        <5> HAVE i # 0
        <5>1. i - 1 \in 0..(k + 1) /\ i - 1 # k + 1
          BY <4>1
        <5> QED BY <5>1
      <4> HIDE DEF g
      <4>5. h[i] = IF i = 0 THEN << >> ELSE g[i - 1] \o Show(steps, i)
        OBVIOUS
      <4> QED BY <4>2, <4>3, <4>4, <4>5
    <3> QED BY <3>1, <3>2
  <2>3. g = h
    BY <2>2
  <2> HIDE DEF g
  <2>4. AreWritten(g, steps, k + 1)
    BY <2>3 DEF AreWritten
  <2>5. \E w : AreWritten(w, steps, k + 1)
    BY <2>4
  <2> QED BY <2>5
<1> HIDE DEF S
<1>3. n \in S
  BY <1>1, <1>2, AllNumbers
<1> QED BY <1>3 DEF S

(* A path grows by one step after the other.                               *)
LEMMA PathIs ==
  ASSUME NEW steps, Len(steps) \in Nat
  PROVE  \E f : /\ f[0] = << >> /\ Path(steps) = f[Len(steps)]
                /\ \A i \in 1..Len(steps) : f[i] = f[i - 1] \o Show(steps, i)
<1> DEFINE n == Len(steps)
           w == CHOOSE f : AreWritten(f, steps, n)
<1>1. \E f : AreWritten(f, steps, n)
  BY WrittenExist
<1>2. Path(steps) = w[n]
  BY Zenon DEF Path, AreWritten
<1>3. AreWritten(w, steps, n)
  BY <1>1, Zenon
<1>4. n \in Nat
  OBVIOUS
<1> HIDE DEF w, n
<1>5. \A i \in 0..n : w[i] = IF i = 0 THEN << >> ELSE w[i - 1] \o Show(steps, i)
  BY <1>3, Zenon DEF AreWritten
<1>6. 0 \in 0..n /\ \A i \in 1..n : i \in 0..n /\ i # 0
  BY <1>4
<1>7. w[0] = << >> /\ \A i \in 1..n : w[i] = w[i - 1] \o Show(steps, i)
  BY <1>5, <1>6
<1> QED BY <1>2, <1>7 DEF n

(* f is what the rounds of parsePath's loop come to.                       *)
Start == [segments |-> << >>, current |-> << >>, upTo |-> 0]

AreScans(f, path, n) == f = [i \in 0..n |-> IF i = 0 THEN Start ELSE Look(path, f[i - 1], i)]

LEMMA ScansExist ==
  ASSUME NEW path, NEW n \in Nat
  PROVE  \E f : AreScans(f, path, n)
<1> DEFINE S == {k \in Nat : \E f : AreScans(f, path, k)}
<1>1. 0 \in S
  <2> DEFINE f == [i \in 0..0 |-> Start]
  <2>1. f = [i \in 0..0 |-> IF i = 0 THEN Start ELSE Look(path, f[i - 1], i)]
    OBVIOUS
  <2>2. AreScans(f, path, 0)
    BY <2>1 DEF AreScans
  <2> QED BY <2>2
<1>2. ASSUME NEW k \in Nat, k \in S PROVE k + 1 \in S
  <2>1. PICK f : AreScans(f, path, k)
    BY <1>2
  <2> DEFINE g == [i \in 0..(k + 1) |-> IF i = k + 1 THEN Look(path, f[k], k + 1) ELSE f[i]]
             h == [i \in 0..(k + 1) |-> IF i = 0 THEN Start ELSE Look(path, g[i - 1], i)]
  <2>2. ASSUME NEW i \in 0..(k + 1) PROVE g[i] = h[i]
    <3>1. CASE i = k + 1
      <4>1. i # 0 /\ i - 1 \in 0..(k + 1) /\ i - 1 = k /\ k # k + 1
        BY <3>1
      <4>2. g[i - 1] = f[k]
        BY <4>1
      <4> QED BY <3>1, <4>1, <4>2
    <3>2. CASE i # k + 1
      <4>1. i \in 0..k
        BY <3>2
      <4>2. g[i] = f[i]
        BY <3>2
      <4>3. f[i] = IF i = 0 THEN Start ELSE Look(path, f[i - 1], i)
        BY <2>1, <4>1, Zenon DEF AreScans
      <4>4. i # 0 => g[i - 1] = f[i - 1]
        <5> HAVE i # 0
        <5>1. i - 1 \in 0..(k + 1) /\ i - 1 # k + 1
          BY <4>1
        <5> QED BY <5>1
      <4> HIDE DEF g
      <4>5. h[i] = IF i = 0 THEN Start ELSE Look(path, g[i - 1], i)
        OBVIOUS
      <4> QED BY <4>2, <4>3, <4>4, <4>5
    <3> QED BY <3>1, <3>2
  <2>3. g = h
    BY <2>2
  <2> HIDE DEF g
  <2>4. AreScans(g, path, k + 1)
    BY <2>3 DEF AreScans
  <2>5. \E w : AreScans(w, path, k + 1)
    BY <2>4
  <2> QED BY <2>5
<1> HIDE DEF S
<1>3. n \in S
  BY <1>1, <1>2, AllNumbers
<1> QED BY <1>3 DEF S

(* g is the state of the loop behind each symbol of the path.              *)
Scans(g, path) == g[0] = Start /\ \A i \in 1..Len(path) : g[i] = Look(path, g[i - 1], i)

LEMMA ParsePathIs ==
  ASSUME NEW path, Len(path) \in Nat
  PROVE  \E g : Scans(g, path) /\ ParsePath(path) = Cut(g[Len(path)]).segments
<1> DEFINE n == Len(path)
           w == CHOOSE f : AreScans(f, path, n)
<1>1. \E f : AreScans(f, path, n)
  BY ScansExist
<1>2. ParsePath(path) = Cut(w[n]).segments
  BY Zenon DEF ParsePath, AreScans, Start
<1>3. AreScans(w, path, n)
  BY <1>1, Zenon
<1>4. n \in Nat
  OBVIOUS
<1> HIDE DEF w, n
<1>5. \A i \in 0..n : w[i] = IF i = 0 THEN Start ELSE Look(path, w[i - 1], i)
  BY <1>3, Zenon DEF AreScans
<1>6. 0 \in 0..n /\ \A i \in 1..n : i \in 0..n /\ i # 0
  BY <1>4
<1>7. w[0] = Start /\ \A i \in 1..n : w[i] = Look(path, w[i - 1], i)
  BY <1>5, <1>6
<1>8. Scans(w, path)
  BY <1>7 DEF Scans, n
<1> QED BY <1>2, <1>8 DEF n

Scanners == [segments : Seq(Seq(Symbols)), current : Seq(Symbols), upTo : Nat]

LEMMA CutIs ==
  ASSUME NEW scan \in Scanners
  PROVE  /\ Cut(scan) \in Scanners
         /\ Cut(scan).current = << >> /\ Cut(scan).upTo = scan.upTo
         /\ Cut(scan).segments = IF scan.current = << >> THEN scan.segments
                                   ELSE Append(scan.segments, scan.current)
         /\ scan.current = << >> => Cut(scan) = scan
<1>1. CASE scan.current = << >>
  BY <1>1 DEF Cut
<1>2. CASE scan.current # << >>
  <2>1. Append(scan.segments, scan.current) \in Seq(Seq(Symbols)) /\ << >> \in Seq(Symbols)
    BY DEF Scanners
  <2> QED BY <1>2, <2>1 DEF Cut, Scanners
<1> QED BY <1>1, <1>2

(* What stands between brackets has been taken.                            *)
LEMMA LookInside ==
  ASSUME NEW path, NEW scan \in Scanners, NEW i \in Nat, i <= scan.upTo
  PROVE  Look(path, scan, i) = scan
BY DEF Look, Scanners

LEMMA LookAtDot ==
  ASSUME NEW path, NEW scan \in Scanners, NEW i \in Nat, i > scan.upTo, path[i] = "."
  PROVE  Look(path, scan, i) = Cut(scan)
BY DEF Look, Scanners

LEMMA LookAtOther ==
  ASSUME NEW path, NEW scan \in Scanners, NEW i \in Nat, i > scan.upTo,
         path[i] \in Symbols, path[i] \notin {".", "["} \cup DOMAIN Wide
  PROVE  Look(path, scan, i) = [scan EXCEPT !.current = Append(@, path[i])]
<1>1. Look(path, scan, i) = [scan EXCEPT !.current = @ \o Runes(path[i])]
  BY DEF Look, Scanners
<1>2. Runes(path[i]) = <<path[i]>>
  BY DEF Runes
<1>3. scan.current \in Seq(Symbols)
  BY DEF Scanners
<1> DEFINE current == scan.current
           symbol == path[i]
<1>4. current \in Seq(Symbols) /\ symbol \in Symbols
  BY <1>3
<1> HIDE DEF current, symbol
<1>5. current \o <<symbol>> = Append(current, symbol)
  BY <1>4
<1> QED BY <1>1, <1>2, <1>5 DEF current, symbol

LEMMA LookAtBracket ==
  ASSUME NEW path \in Seq(Symbols), NEW scan \in Scanners, NEW i \in Nat, i > scan.upTo,
         i + 2 <= Len(path), path[i] = "[", path[i + 1] # "]", path[i + 2] = "]"
  PROVE  Look(path, scan, i) = [segments |-> Append(Cut(scan).segments, <<path[i + 1]>>),
                                current |-> << >>, upTo |-> i + 2]
<1> DEFINE closing == Closing(path, i)
<1>0. Len(path) \in Nat
  OBVIOUS
<1>1. /\ i + 2 \in closing
      /\ \A j \in closing : j \in Nat /\ i + 2 <= j
  <2>1. i + 2 \in (i + 1)..Len(path)
    BY <1>0
  <2>2. ASSUME NEW j \in closing PROVE j \in Nat /\ i + 2 <= j
    <3>1. j \in (i + 1)..Len(path) /\ path[j] = "]"
      BY DEF Closing
    <3>2. j # i + 1
      BY <3>1
    <3> QED BY <1>0, <3>1, <3>2
  <2> QED BY <2>1, <2>2 DEF Closing
<1> HIDE DEF closing
<1>2. Min(closing) = i + 2
  <2>1. \E x \in closing : \A y \in closing : x <= y
    BY <1>1
  <2>2. Min(closing) \in closing /\ \A y \in closing : Min(closing) <= y
    BY <2>1, Zenon DEF Min
  <2> QED BY <1>1, <2>2
<1>3. SubSeq(path, i + 1, (i + 2) - 1) = <<path[i + 1]>>
  <2> DEFINE s == SubSeq(path, i + 1, (i + 2) - 1)
  <2>1. i \in Nat /\ i + 1 \in Nat /\ i <= i + 1 /\ i + 1 <= Len(path)
        /\ (i + 2) - 1 = i + 1 /\ (i + 1) - i = 1
    BY <1>0
  <2>2. /\ SubSeq(path, i + 1, i + 1) \in Seq(Symbols)
        /\ Len(SubSeq(path, i + 1, i + 1)) = (i + 1) - i
        /\ \A k \in 1..((i + 1) - i) : SubSeq(path, i + 1, i + 1)[k] = path[i + k]
    BY <2>1, StretchOf
  <2>3. s \in Seq(Symbols) /\ Len(s) = 1 /\ s[1] = path[i + 1]
    BY <2>1, <2>2
  <2>4. path[i + 1] \in Symbols
    <3>1. i + 1 \in 1..Len(path)
      BY <1>0
    <3> QED BY <3>1
  <2> HIDE DEF s
  <2>5. <<path[i + 1]>> \in Seq(Symbols) /\ Len(<<path[i + 1]>>) = 1 /\ <<path[i + 1]>>[1] = path[i + 1]
    BY <2>4
  <2>6. s = <<path[i + 1]>>
    BY <2>3, <2>5, SeqEqual
  <2> QED BY <2>6 DEF s
<1>4. Look(path, scan, i) =
        [Cut(scan) EXCEPT !.segments = Append(@, SubSeq(path, i + 1, Min(closing) - 1)),
                          !.upTo = Min(closing)]
  <2>1. ~(i <= scan.upTo) /\ closing # {}
    BY <1>1 DEF Scanners
  <2> QED BY <2>1 DEF Look, closing
<1>5. Cut(scan) \in Scanners /\ Cut(scan).current = << >>
  BY CutIs
<1>6. Look(path, scan, i) =
        [Cut(scan) EXCEPT !.segments = Append(@, <<path[i + 1]>>), !.upTo = i + 2]
  BY <1>2, <1>3, <1>4
<1> QED BY <1>5, <1>6 DEF Scanners

(* The loop has taken the segments that end at position a.                 *)
Stands(scan, segments, a) ==
  scan \in Scanners /\ scan.upTo <= a /\ Cut(scan).segments = segments

PlainKey(key) ==
  key \in Seq(Symbols) /\ key # << >> /\ ({".", "["} \cup DOMAIN Wide) \cap ToSet(key) = {}

(* The symbols of a key are put together.                                  *)
LEMMA KeyIsRead ==
  ASSUME NEW path \in Seq(Symbols), NEW g, Scans(g, path), NEW a \in Nat, NEW key, PlainKey(key),
         a + Len(key) <= Len(path), \A j \in 1..Len(key) : path[a + j] = key[j],
         g[a] \in Scanners, g[a].current = << >>, g[a].upTo <= a
  PROVE  Stands(g[a + Len(key)], Append(g[a].segments, key), a + Len(key))
<1> DEFINE Read(k) == [g[a] EXCEPT !.current = SubSeq(key, 1, k)]
           S == {k \in Nat : k <= Len(key) => g[a + k] = Read(k)}
<1>1. key \in Seq(Symbols) /\ Len(key) \in Nat \ {0} /\ Len(path) \in Nat
  BY EmptySeq DEF PlainKey
<1>2. \A k \in 1..Len(key) : 
        path[a + k] = key[k] /\ key[k] \notin {".", "["} \cup DOMAIN Wide /\ key[k] \in Symbols
  <2> TAKE k \in 1..Len(key)
  <2>1. k \in DOMAIN key /\ key[k] \in Symbols
    BY <1>1
  <2>2. key[k] \in ToSet(key)
    BY <2>1 DEF ToSet
  <2> QED BY <2>1, <2>2 DEF PlainKey
<1>3. \A k \in 0..Len(key) :
        /\ SubSeq(key, 1, k) \in Seq(Symbols)
        /\ k # 0 => SubSeq(key, 1, k) = Append(SubSeq(key, 1, k - 1), key[k])
  <2> TAKE k \in 0..Len(key)
  <2>1. SubSeq(key, 1, k) \in Seq(Symbols) /\ Len(SubSeq(key, 1, k)) = k
    BY <1>1, SplitAt
  <2>2. ASSUME k # 0 PROVE SubSeq(key, 1, k) = Append(SubSeq(key, 1, k - 1), key[k])
    BY <1>1, <2>2
  <2> QED BY <2>1, <2>2
<1>4. 0 \in S
  <2>1. SubSeq(key, 1, 0) = << >> /\ a + 0 = a
    OBVIOUS
  <2>2. g[a] = Read(0)
    BY <2>1 DEF Scanners
  <2> HIDE DEF Read
  <2> QED BY <2>1, <2>2
<1>5. ASSUME NEW k \in Nat, k \in S PROVE k + 1 \in S
  <2> SUFFICES ASSUME k + 1 <= Len(key) PROVE g[a + (k + 1)] = Read(k + 1)
    OBVIOUS
  <2>1. /\ k <= Len(key) /\ k \in 0..Len(key) /\ k + 1 \in 1..Len(key) /\ k + 1 \in 0..Len(key)
        /\ (k + 1) - 1 = k /\ k + 1 # 0
        /\ a + (k + 1) \in 1..Len(path) /\ (a + (k + 1)) - 1 = a + k
        /\ a + (k + 1) \in Nat /\ a < a + (k + 1)
    BY <1>1
  <2>2. g[a + k] = Read(k)
    BY <1>5, <2>1
  <2>3. Read(k) \in Scanners /\ Read(k).upTo = g[a].upTo /\ Read(k).current = SubSeq(key, 1, k)
    BY <1>3, <2>1 DEF Scanners
  <2>4. g[a + (k + 1)] = Look(path, g[a + k], a + (k + 1))
    BY <2>1 DEF Scans
  <2>5. /\ path[a + (k + 1)] = key[k + 1] /\ key[k + 1] \in Symbols
        /\ key[k + 1] \notin {".", "["} \cup DOMAIN Wide
    BY <1>2, <2>1
  <2>6. a + (k + 1) > Read(k).upTo
    <3>1. g[a].upTo \in Nat
      BY DEF Scanners
    <3>2. a + (k + 1) > g[a].upTo
      BY <3>1
    <3> QED BY <2>3, <3>2
  <2>7. Append(SubSeq(key, 1, k), key[k + 1]) = SubSeq(key, 1, k + 1)
    BY <1>3, <2>1
  <2> DEFINE before == Read(k)
  <2>8. before \in Scanners /\ g[a + k] = before /\ a + (k + 1) > before.upTo
        /\ before.current = SubSeq(key, 1, k)
    BY <2>2, <2>3, <2>6
  <2>9. [before EXCEPT !.current = SubSeq(key, 1, k + 1)] = Read(k + 1)
    BY DEF Scanners
  <2> HIDE DEF before, Read
  <2>10. g[a + (k + 1)] = [before EXCEPT !.current = Append(@, key[k + 1])]
    <3>1. /\ path[a + (k + 1)] \notin {".", "["} \cup DOMAIN Wide /\ path[a + (k + 1)] \in Symbols
          /\ a + (k + 1) \in Nat
      BY <2>1, <2>5
    <3>2. Look(path, before, a + (k + 1)) = [before EXCEPT !.current = Append(@, path[a + (k + 1)])]
      <4> DEFINE i == a + (k + 1)
      <4>1. /\ i \in Nat /\ i > before.upTo /\ before \in Scanners
            /\ path[i] \notin {".", "["} \cup DOMAIN Wide /\ path[i] \in Symbols
        BY <2>8, <3>1
      <4> HIDE DEF i
      <4>2. Look(path, before, i) = [before EXCEPT !.current = Append(@, path[i])]
        BY <4>1, LookAtOther
      <4> QED BY <4>2 DEF i
    <3> QED BY <2>4, <2>5, <2>8, <3>2
  <2>11. g[a + (k + 1)] = [before EXCEPT !.current = SubSeq(key, 1, k + 1)]
    BY <2>7, <2>8, <2>10 DEF Scanners
  <2> QED BY <2>9, <2>11
<1> HIDE DEF S
<1>6. Len(key) \in S
  BY <1>1, <1>4, <1>5, AllNumbers
<1>7. g[a + Len(key)] = [g[a] EXCEPT !.current = key]
  <2>1. SubSeq(key, 1, Len(key)) = key
    BY <1>1
  <2> QED BY <1>1, <1>6, <2>1 DEF S
<1> DEFINE end == [g[a] EXCEPT !.current = key]
<1>8. /\ end \in Scanners /\ end.current = key /\ end.segments = g[a].segments
      /\ end.upTo = g[a].upTo
  BY <1>1 DEF Scanners
<1> HIDE DEF end
<1>9. Cut(end).segments = Append(g[a].segments, key)
  BY <1>8, CutIs DEF PlainKey
<1>10. end.upTo <= a + Len(key)
  BY <1>1, <1>8 DEF Scanners
<1> QED BY <1>7, <1>8, <1>9, <1>10 DEF Stands, end

LEMMA DottedKeyIsRead ==
  ASSUME NEW path \in Seq(Symbols), NEW g, Scans(g, path), NEW a \in Nat, NEW key, PlainKey(key),
         (a + 1) + Len(key) <= Len(path), path[a + 1] = ".",
         \A j \in 1..Len(key) : path[(a + 1) + j] = key[j],
         NEW segments, Stands(g[a], segments, a)
  PROVE  Stands(g[(a + 1) + Len(key)], Append(segments, key), (a + 1) + Len(key))
<1> DEFINE i == a + 1
           before == g[a]
<1>1. Len(key) \in Nat /\ Len(path) \in Nat
  BY DEF PlainKey
<1>2. i \in Nat /\ i \in 1..Len(path) /\ i - 1 = a
  BY <1>1
<1>3. g[i] = Look(path, before, i)
  <2>1. g[i] = Look(path, g[i - 1], i)
    BY <1>2 DEF Scans
  <2> QED BY <1>2, <2>1
<1>4. before \in Scanners /\ before.upTo <= a /\ Cut(before).segments = segments
  BY DEF Stands
<1>5. i > before.upTo /\ before.upTo <= i
  <2>1. before.upTo \in Nat
    BY <1>4 DEF Scanners
  <2> QED BY <1>4, <2>1
<1> HIDE DEF i, before
<1>6. Look(path, before, i) = Cut(before)
  BY <1>2, <1>4, <1>5, LookAtDot DEF i
<1>7. /\ g[i] \in Scanners /\ g[i].current = << >> /\ g[i].upTo <= i
      /\ g[i].segments = segments
  BY <1>3, <1>4, <1>5, <1>6, CutIs
<1>8. i + Len(key) <= Len(path) /\ \A j \in 1..Len(key) : path[i + j] = key[j]
  BY DEF i
<1>9. Stands(g[i + Len(key)], Append(g[i].segments, key), i + Len(key))
  BY <1>2, <1>7, <1>8, KeyIsRead
<1> QED BY <1>7, <1>9 DEF i

LEMMA ItemIsRead ==
  ASSUME NEW path \in Seq(Symbols), NEW g, Scans(g, path), NEW a \in Nat, a + 3 <= Len(path),
         path[a + 1] = "[", path[a + 2] # "]", path[a + 3] = "]",
         NEW segments, Stands(g[a], segments, a)
  PROVE  Stands(g[a + 3], Append(segments, <<path[a + 2]>>), a + 3)
<1> DEFINE i == a + 1
           before == g[a]
           read == [segments |-> Append(segments, <<path[a + 2]>>), current |-> << >>, upTo |-> a + 3]
<1>1. Len(path) \in Nat
  OBVIOUS
<1>2. /\ i \in Nat /\ i \in 1..Len(path) /\ i - 1 = a /\ i + 2 <= Len(path)
      /\ i + 1 = a + 2 /\ i + 2 = a + 3
      /\ a + 2 \in 1..Len(path) /\ a + 3 \in 1..Len(path)
      /\ (a + 2) - 1 = i /\ (a + 3) - 1 = a + 2
      /\ a + 2 \in Nat /\ a + 3 \in Nat /\ a + 2 <= a + 3 /\ a + 3 <= a + 3
  BY <1>1
<1>3. g[i] = Look(path, before, i)
  <2>1. g[i] = Look(path, g[i - 1], i)
    BY <1>2 DEF Scans
  <2> QED BY <1>2, <2>1
<1>4. before \in Scanners /\ before.upTo <= a /\ Cut(before).segments = segments
  BY DEF Stands
<1>5. i > before.upTo
  <2>1. before.upTo \in Nat
    BY <1>4 DEF Scanners
  <2> QED BY <1>4, <2>1
<1>6. path[a + 2] \in Symbols
  BY <1>2
<1>7. read \in Scanners /\ read.upTo = a + 3 /\ read.current = << >> /\ read.segments = Append(segments, <<path[a + 2]>>)
  <2>1. segments \in Seq(Seq(Symbols))
    BY <1>4, CutIs DEF Scanners
  <2>2. <<path[a + 2]>> \in Seq(Symbols) /\ << >> \in Seq(Symbols)
    BY <1>6
  <2>3. Append(segments, <<path[a + 2]>>) \in Seq(Seq(Symbols))
    BY <2>1, <2>2
  <2> QED BY <1>2, <2>2, <2>3 DEF Scanners
<1>8. path[i] = "[" /\ path[i + 1] # "]" /\ path[i + 2] = "]"
  BY <1>2
<1> HIDE DEF i, before
<1>9. Look(path, before, i) = [segments |-> Append(Cut(before).segments, <<path[i + 1]>>),
                               current |-> << >>, upTo |-> i + 2]
  BY <1>2, <1>4, <1>5, <1>8, LookAtBracket
<1>10. g[i] = read
  BY <1>2, <1>3, <1>4, <1>9
<1> HIDE DEF read
<1>11. g[a + 2] = read
  <2>1. g[a + 2] = Look(path, g[(a + 2) - 1], a + 2)
    BY <1>2 DEF Scans
  <2>2. Look(path, read, a + 2) = read
    BY <1>2, <1>7, LookInside
  <2> QED BY <1>2, <1>10, <2>1, <2>2
<1>12. g[a + 3] = read
  <2>1. g[a + 3] = Look(path, g[(a + 3) - 1], a + 3)
    BY <1>2 DEF Scans
  <2>2. Look(path, read, a + 3) = read
    BY <1>2, <1>7, LookInside
  <2> QED BY <1>2, <1>11, <2>1, <2>2
<1>13. Cut(read).segments = Append(segments, <<path[a + 2]>>)
  BY <1>7, CutIs
<1> QED BY <1>2, <1>7, <1>12, <1>13 DEF Stands

Segment(step) == IF step.kind = "item" THEN <<Digits[step.index + 1]>> ELSE step.key

Segments(steps) == [i \in 1..Len(steps) |-> Segment(steps[i])]

LEMMA DigitsAre ==
  /\ \A i \in 0..2 : Digits[i + 1] \in {"0", "1", "2"}
  /\ \A i, j \in 0..2 : Digits[i + 1] = Digits[j + 1] => i = j
<1>1. Digits[1] = "0" /\ Digits[2] = "1" /\ Digits[3] = "2"
  BY DEF Digits
<1>2. \A i \in 0..2 : (i = 0 /\ i + 1 = 1) \/ (i = 1 /\ i + 1 = 2) \/ (i = 2 /\ i + 1 = 3)
  OBVIOUS
<1> QED BY <1>1, <1>2

PlainStep(step) == step.kind = "key" => PlainKey(step.key)

LEMMA PlainSteps ==
  ASSUME NEW steps \in Seq(Steps), PlainKeys(steps)
  PROVE  \A i \in 1..Len(steps) : PlainStep(steps[i])
<1> TAKE i \in 1..Len(steps)
<1>1. steps[i] \in Steps /\ i \in DOMAIN steps
  OBVIOUS
<1>2. steps[i].kind = "key" => steps[i].key \in Seq(Symbols)
  BY <1>1, StepFields
<1> QED BY <1>1, <1>2 DEF PlainKeys, PlainKey, PlainStep

(* What is written for a step.                                             *)
LEMMA ShowIs ==
  ASSUME NEW steps \in Seq(Steps), NEW i \in 1..Len(steps)
  PROVE  /\ Show(steps, i) \in Seq(Symbols)
         /\ Segment(steps[i]) \in Seq(Symbols)
         /\ steps[i].kind = "key" /\ i # 1 =>
              Show(steps, i) = <<".">> \o steps[i].key /\ Segment(steps[i]) = steps[i].key
         /\ steps[i].kind = "key" /\ i = 1 =>
              Show(steps, i) = steps[i].key /\ Segment(steps[i]) = steps[i].key
         /\ steps[i].kind # "key" =>
              /\ Len(Show(steps, i)) = 3 /\ Show(steps, i)[1] = "[" /\ Show(steps, i)[3] = "]"
              /\ Show(steps, i)[2] # "]" /\ Segment(steps[i]) = <<Show(steps, i)[2]>>
<1> DEFINE step == steps[i]
<1>1. step \in Steps
  OBVIOUS
<1>2. /\ step.kind \in {"key", "item"}
      /\ step.kind = "key" => step.key \in Seq(Symbols)
      /\ step.kind = "item" => step.index \in 0..2
  BY <1>1, StepFields
<1>3. CASE step.kind = "key"
  <2>1. Segment(step) = step.key
    BY <1>3 DEF Segment
  <2>2. Show(steps, i) = (IF i = 1 THEN << >> ELSE <<".">>) \o step.key
    BY <1>3 DEF Show
  <2>3. step.key \in Seq(Symbols) /\ << >> \o step.key = step.key /\ <<".">> \o step.key \in Seq(Symbols)
    BY <1>2, <1>3, SymbolsAre
  <2> HIDE DEF step
  <2> QED BY <1>2, <1>3, <2>1, <2>2, <2>3 DEF step
<1>4. CASE step.kind # "key"
  <2>1. step.kind = "item" /\ step.index \in 0..2
    BY <1>2, <1>4
  <2> DEFINE d == Digits[step.index + 1]
  <2>2. Segment(step) = <<d>>
    BY <2>1 DEF Segment
  <2>3. Show(steps, i) = <<"[", d, "]">>
    BY <2>1 DEF Show
  <2>4. d \in {"0", "1", "2"}
    BY <2>1, DigitsAre
  <2> HIDE DEF d
  <2>5. d \in Symbols /\ d # "]"
    BY <2>4, SymbolsAre
  <2>6. <<"[", d, "]">> \in Seq(Symbols) /\ <<d>> \in Seq(Symbols)
    BY <2>5, SymbolsAre
  <2> HIDE DEF step
  <2> QED BY <1>4, <2>2, <2>3, <2>5, <2>6 DEF step
<1> QED BY <1>3, <1>4

(* f is the path as it is written, a prefix at a time.                     *)
Writes(f, steps) ==
  f[0] = << >> /\ \A i \in 1..Len(steps) : f[i] = f[i - 1] \o Show(steps, i)

LEMMA WrittenAreTyped ==
  ASSUME NEW steps \in Seq(Steps), NEW f, Writes(f, steps)
  PROVE  \A k \in 0..Len(steps) : f[k] \in Seq(Symbols)
<1> DEFINE n == Len(steps)
           S == {k \in Nat : k <= n => f[k] \in Seq(Symbols)}
<1>1. n \in Nat
  OBVIOUS
<1>2. 0 \in S
  <2>1. f[0] = << >> /\ << >> \in Seq(Symbols)
    BY EmptySeq DEF Writes
  <2>2. f[0] \in Seq(Symbols)
    BY <2>1
  <2> QED BY <2>2
<1>3. ASSUME NEW k \in Nat, k \in S PROVE k + 1 \in S
  <2> SUFFICES ASSUME k + 1 <= n PROVE f[k + 1] \in Seq(Symbols)
    OBVIOUS
  <2>1. k <= n /\ k + 1 \in 1..n /\ (k + 1) - 1 = k
    BY <1>1
  <2>2. f[k] \in Seq(Symbols)
    BY <1>3, <2>1
  <2>3. f[k + 1] = f[k] \o Show(steps, k + 1)
    BY <2>1 DEF Writes
  <2>4. Show(steps, k + 1) \in Seq(Symbols)
    BY <2>1, ShowIs
  <2> HIDE DEF S
  <2> QED BY <2>2, <2>3, <2>4
<1> HIDE DEF S
<1>4. \A k \in Nat : k \in S
  BY <1>2, <1>3, AllNumbers
<1> QED BY <1>1, <1>4 DEF S

(* What is written stays.                                                  *)
LEMMA WrittenStays ==
  ASSUME NEW steps \in Seq(Steps), NEW f, Writes(f, steps), NEW i \in 0..Len(steps)
  PROVE  \A j \in 1..Len(f[i]) : f[Len(steps)][j] = f[i][j] /\ Len(f[i]) <= Len(f[Len(steps)])
<1> DEFINE n == Len(steps)
           Kept(k) == Len(f[i]) <= Len(f[k]) /\ \A j \in 1..Len(f[i]) : f[k][j] = f[i][j]
           S == {m \in Nat : i + m <= n => Kept(i + m)}
<1>1. n \in Nat /\ i \in Nat /\ i <= n
  OBVIOUS
<1>2. \A k \in 0..n : f[k] \in Seq(Symbols) /\ Len(f[k]) \in Nat
  BY WrittenAreTyped
<1>3. 0 \in S
  <2>1. i + 0 = i /\ Len(f[i]) \in Nat
    BY <1>1, <1>2
  <2> QED BY <2>1
<1>4. ASSUME NEW m \in Nat, m \in S PROVE m + 1 \in S
  <2> SUFFICES ASSUME i + (m + 1) <= n PROVE Kept(i + (m + 1))
    OBVIOUS
  <2> DEFINE k == i + m
  <2>1. i + (m + 1) = k + 1 /\ k \in 0..n /\ k + 1 \in 1..n /\ k + 1 \in 0..n /\ (k + 1) - 1 = k
    BY <1>1
  <2>2. Kept(k)
    BY <1>4, <2>1
  <2> HIDE DEF k, S
  <2>3. f[k + 1] = f[k] \o Show(steps, k + 1) /\ Show(steps, k + 1) \in Seq(Symbols)
    <3>1. f[k + 1] = f[(k + 1) - 1] \o Show(steps, k + 1)
      BY <2>1 DEF Writes
    <3>2. Show(steps, k + 1) \in Seq(Symbols)
      BY <2>1, ShowIs
    <3> QED BY <2>1, <3>1, <3>2
  <2>4. f[k] \in Seq(Symbols) /\ Len(f[k]) \in Nat /\ Len(f[i]) \in Nat
    BY <1>1, <1>2, <2>1
  <2>5. /\ Len(f[k + 1]) >= Len(f[k])
        /\ \A j \in 1..Len(f[k]) : f[k + 1][j] = f[k][j]
    <3>1. ASSUME NEW s \in Seq(Symbols), NEW t \in Seq(Symbols)
          PROVE  Len(s \o t) >= Len(s) /\ \A j \in 1..Len(s) : (s \o t)[j] = s[j]
      OBVIOUS
    <3> QED BY <2>3, <2>4, <3>1
  <2>6. Len(f[k + 1]) \in Nat
    BY <1>2, <2>1
  <2>7. Len(f[i]) <= Len(f[k + 1]) /\ \A j \in 1..Len(f[i]) : j \in 1..Len(f[k])
    BY <2>2, <2>4, <2>5, <2>6
  <2>8. Kept(k + 1)
    BY <2>2, <2>5, <2>7
  <2> QED BY <2>1, <2>8
<1> HIDE DEF S
<1>5. n - i \in S
  BY <1>1, <1>3, <1>4, AllNumbers
<1>6. Kept(n)
  <2>1. n - i \in Nat /\ i + (n - i) = n /\ n <= n
    BY <1>1
  <2> QED BY <1>5, <2>1 DEF S
<1> QED BY <1>6

(* What is written after k steps, and what the loop has made of it.        *)
LEMMA StepIsRead ==
  ASSUME NEW steps \in Seq(Steps), NEW f, Writes(f, steps),
         NEW g, Scans(g, f[Len(steps)]), steps[1].kind = "key",
         NEW k \in Nat, k + 1 \in 1..Len(steps), PlainStep(steps[k + 1]),
         NEW segments, Stands(g[Len(f[k])], segments, Len(f[k])), k = 0 => segments = << >>
  PROVE  Stands(g[Len(f[k + 1])], Append(segments, Segment(steps[k + 1])), Len(f[k + 1]))
<1> DEFINE n == Len(steps)
           p == f[n]
           a == Len(f[k])
           show == Show(steps, k + 1)
<1>1. n \in Nat /\ k \in 0..n /\ k + 1 \in 0..n /\ (k + 1) - 1 = k /\ n \in 0..n
  OBVIOUS
<1>2. f[k] \in Seq(Symbols) /\ f[k + 1] \in Seq(Symbols) /\ p \in Seq(Symbols)
  BY <1>1, WrittenAreTyped
<1>3. f[k + 1] = f[k] \o show
  <2>1. f[k + 1] = f[(k + 1) - 1] \o show
    BY DEF Writes
  <2> QED BY <1>1, <2>1
<1>4. /\ show \in Seq(Symbols)
      /\ steps[k + 1].kind = "key" => PlainKey(steps[k + 1].key)
      /\ steps[k + 1].kind = "key" /\ k + 1 # 1 =>
           show = <<".">> \o steps[k + 1].key /\ Segment(steps[k + 1]) = steps[k + 1].key
      /\ steps[k + 1].kind = "key" /\ k + 1 = 1 =>
           show = steps[k + 1].key /\ Segment(steps[k + 1]) = steps[k + 1].key
      /\ steps[k + 1].kind # "key" =>
           /\ Len(show) = 3 /\ show[1] = "[" /\ show[3] = "]"
           /\ show[2] # "]" /\ Segment(steps[k + 1]) = <<show[2]>>
  <2>1. steps[k + 1].kind = "key" => PlainKey(steps[k + 1].key)
    BY DEF PlainStep
  <2> QED BY <2>1, ShowIs
<1> DEFINE step == steps[k + 1]
<1> HIDE DEF show
<1>5. /\ a \in Nat /\ Len(show) \in Nat /\ Len(p) \in Nat
      /\ Len(f[k + 1]) = a + Len(show)
      /\ \A j \in 1..Len(show) : f[k + 1][a + j] = show[j]
  <2>1. show \in Seq(Symbols)
    BY <1>4
  <2>2. a \in Nat /\ Len(p) \in Nat /\ Len(show) \in Nat
    BY <1>2, <2>1, LenProperties
  <2>3. IsJoin(Symbols, f[k] \o show, f[k], show)
    BY <1>2, <2>1, BothParts
  <2> QED BY <1>3, <2>2, <2>3 DEF IsJoin
<1>6. /\ Len(f[k + 1]) > 0 => a + Len(show) <= Len(p)
      /\ \A j \in 1..Len(show) : p[a + j] = show[j]
  <2>1. \A j \in 1..Len(f[k + 1]) : p[j] = f[k + 1][j] /\ Len(f[k + 1]) <= Len(p)
    BY <1>1, WrittenStays
  <2>2. \A j \in 1..Len(show) : a + j \in 1..Len(f[k + 1])
    BY <1>5
  <2>3. Len(f[k + 1]) > 0 => 1 \in 1..Len(f[k + 1])
    BY <1>5
  <2> QED BY <1>5, <2>1, <2>2, <2>3
<1>7. Scans(g, p) /\ Stands(g[a], segments, a)
  OBVIOUS
<1> HIDE DEF p, a, step
<1>8. CASE step.kind # "key"
  <2>1. /\ Len(show) = 3 /\ show[1] = "[" /\ show[3] = "]"
        /\ show[2] # "]" /\ Segment(step) = <<show[2]>>
    BY <1>4, <1>8 DEF step
  <2>2. /\ a + 3 <= Len(p) /\ p[a + 1] = "[" /\ p[a + 2] = show[2] /\ p[a + 3] = "]"
    BY <1>5, <1>6, <2>1
  <2>3. Stands(g[a + 3], Append(segments, <<p[a + 2]>>), a + 3)
    BY <1>2, <1>5, <1>7, <2>1, <2>2, ItemIsRead
  <2> QED BY <1>5, <2>1, <2>2, <2>3 DEF step
<1>9. CASE step.kind = "key" /\ k + 1 # 1
  <2> DEFINE key == step.key
  <2>1. PlainKey(key) /\ show = <<".">> \o key /\ Segment(step) = key
    BY <1>4, <1>9 DEF step
  <2> HIDE DEF key
  <2>2. key \in Seq(Symbols) /\ Len(key) \in Nat
    BY <2>1 DEF PlainKey
  <2>3. /\ Len(show) = 1 + Len(key) /\ show[1] = "."
        /\ \A j \in 1..Len(key) : show[1 + j] = key[j]
    <3>1. <<".">> \in Seq(Symbols) /\ Len(<<".">>) = 1 /\ <<".">>[1] = "."
      BY SymbolsAre
    <3> QED BY <2>1, <2>2, <3>1
  <2>4. /\ (a + 1) + Len(key) <= Len(p) /\ p[a + 1] = "."
        /\ (a + 1) + Len(key) = a + Len(show)
    BY <1>5, <1>6, <2>2, <2>3
  <2>5. \A j \in 1..Len(key) : p[(a + 1) + j] = key[j]
    <3> TAKE j \in 1..Len(key)
    <3>1. 1 + j \in 1..Len(show) /\ a + (1 + j) = (a + 1) + j
      BY <1>5, <2>2, <2>3
    <3> QED BY <1>6, <2>3, <3>1
  <2>6. Stands(g[(a + 1) + Len(key)], Append(segments, key), (a + 1) + Len(key))
    BY <1>2, <1>5, <1>7, <2>1, <2>4, <2>5, DottedKeyIsRead
  <2> QED BY <1>5, <2>1, <2>4, <2>6 DEF step
<1>10. CASE k + 1 = 1
  <2> DEFINE key == step.key
  <2>1. k = 0 /\ step.kind = "key" /\ segments = << >>
    BY <1>10 DEF step
  <2>2. PlainKey(key) /\ show = key /\ Segment(step) = key
    BY <1>4, <1>10, <2>1 DEF step
  <2> HIDE DEF key
  <2>3. a = 0
    BY <2>1 DEF a, Writes
  <2>4. g[a] = Start
    BY <1>7, <2>3 DEF Scans
  <2>5. g[a] \in Scanners /\ g[a].current = << >> /\ g[a].upTo <= a /\ g[a].segments = << >>
    BY <2>3, <2>4 DEF Start, Scanners
  <2>6. Len(key) # 0 /\ a + Len(key) <= Len(p) /\ \A j \in 1..Len(key) : p[a + j] = key[j]
    <3>1. key # << >> /\ key \in Seq(Symbols)
      BY <2>2 DEF PlainKey
    <3>2. Len(key) # 0
      BY <3>1, EmptySeq
    <3> QED BY <1>5, <1>6, <2>2, <3>1, <3>2
  <2>7. Stands(g[a + Len(key)], Append(g[a].segments, key), a + Len(key))
    BY <1>2, <1>5, <1>7, <2>2, <2>5, <2>6, KeyIsRead
  <2> QED BY <1>5, <2>1, <2>2, <2>5, <2>7 DEF step
<1> QED BY <1>8, <1>9, <1>10

(* Behind plain steps the loop has the segments of these steps.            *)
LEMMA PlainStepsAreRead ==
  ASSUME NEW steps \in Seq(Steps), NEW f, Writes(f, steps), NEW g, Scans(g, f[Len(steps)]),
         steps # << >>, steps[1].kind = "key",
         NEW m \in 0..Len(steps), \A i \in 1..m : PlainStep(steps[i])
  PROVE  Stands(g[Len(f[m])], SubSeq(Segments(steps), 1, m), Len(f[m]))
<1> DEFINE n == Len(steps)
           segments == Segments(steps)
<1>1. n \in Nat \ {0}
  BY EmptySeq
<1>2. segments \in Seq(Seq(Symbols)) /\ Len(segments) = n
  <2>1. \A i \in 1..n : Segment(steps[i]) \in Seq(Symbols)
    BY ShowIs
  <2> QED BY <1>1, <2>1 DEF Segments
<1>3. \A i \in 1..n : segments[i] = Segment(steps[i])
  BY DEF Segments
<1> HIDE DEF segments
<1> DEFINE S == {k \in Nat : k <= m => Stands(g[Len(f[k])], SubSeq(segments, 1, k), Len(f[k]))}
<1>4. 0 \in S
  <2>1. f[0] = << >> /\ Len(f[0]) = 0 /\ g[0] = Start
    BY DEF Writes, Scans
  <2>2. Start \in Scanners /\ Start.upTo <= 0 /\ Start.segments = << >> /\ Start.current = << >>
    BY DEF Start, Scanners
  <2>3. Cut(Start).segments = << >>
    BY <2>2, CutIs
  <2>4. SubSeq(segments, 1, 0) = << >>
    BY <1>2
  <2> QED BY <2>1, <2>2, <2>3, <2>4 DEF Stands
<1>5. ASSUME NEW k \in Nat, k \in S PROVE k + 1 \in S
  <2> SUFFICES ASSUME k + 1 <= m
               PROVE  Stands(g[Len(f[k + 1])], SubSeq(segments, 1, k + 1), Len(f[k + 1]))
    OBVIOUS
  <2>1. k <= m /\ k + 1 \in 1..m /\ k + 1 \in 1..n /\ k + 1 \in 1..Len(steps) /\ k <= n
    BY <1>1
  <2>2. Stands(g[Len(f[k])], SubSeq(segments, 1, k), Len(f[k]))
    BY <1>5, <2>1
  <2>3. k = 0 => SubSeq(segments, 1, k) = << >>
    BY <1>2
  <2>4. PlainStep(steps[k + 1])
    BY <2>1
  <2>5. Stands(g[Len(f[k + 1])], Append(SubSeq(segments, 1, k), Segment(steps[k + 1])), Len(f[k + 1]))
    BY <2>1, <2>2, <2>3, <2>4, StepIsRead
  <2>6. Append(SubSeq(segments, 1, k), segments[k + 1]) = SubSeq(segments, 1, k + 1)
    BY <1>2, <2>1
  <2> QED BY <1>3, <2>1, <2>5, <2>6
<1> HIDE DEF S
<1>6. \A k \in Nat : k \in S
  BY <1>4, <1>5, AllNumbers
<1>7. m \in Nat /\ m <= m
  BY <1>1
<1> QED BY <1>6, <1>7 DEF S, segments

(* parsePath undoes the path of plain keys (parser.go:125-150, 186-224).   *)
LEMMA PathIsRead ==
  ASSUME NEW steps \in Seq(Steps), steps # << >>, steps[1].kind = "key", PlainKeys(steps)
  PROVE  ParsePath(Path(steps)) = Segments(steps)
<1> DEFINE n == Len(steps)
           segments == Segments(steps)
<1>1. n \in Nat \ {0} /\ n \in 0..n
  BY EmptySeq
<1>2. PICK f : Writes(f, steps) /\ Path(steps) = f[n]
  <2>1. Len(steps) \in Nat
    OBVIOUS
  <2> QED BY <2>1, PathIs DEF Writes
<1>3. PICK g : Scans(g, f[n]) /\ ParsePath(f[n]) = Cut(g[Len(f[n])]).segments
  <2>1. Len(f[n]) \in Nat
    BY <1>1, <1>2, WrittenAreTyped, LenProperties
  <2> QED BY <2>1, ParsePathIs
<1>4. Stands(g[Len(f[n])], SubSeq(segments, 1, n), Len(f[n]))
  <2>1. \A i \in 1..n : PlainStep(steps[i])
    BY PlainSteps
  <2> QED BY <1>1, <1>2, <1>3, <2>1, PlainStepsAreRead
<1>5. SubSeq(segments, 1, n) = segments
  <2>1. \A i \in 1..n : Segment(steps[i]) \in Seq(Symbols)
    BY ShowIs
  <2>2. segments \in Seq(Seq(Symbols)) /\ Len(segments) = n
    BY <1>1, <2>1 DEF Segments
  <2> HIDE DEF segments
  <2> QED BY <2>2
<1> QED BY <1>2, <1>3, <1>4, <1>5 DEF Stands

-----------------------------------------------------------------------------
(* Where a path leads.                                                     *)

(* A segment of one digit is that index.                                   *)
LEMMA DigitScansAs ==
  ASSUME NEW i \in 0..2, NEW j \in 0..2
  PROVE  ScansAs(<<Digits[i + 1]>>, j) <=> i = j
<1> DEFINE segment == <<Digits[i + 1]>>
<1>1. Len(segment) = 1 /\ segment[1] = Digits[i + 1]
  OBVIOUS
<1> HIDE DEF segment
<1>2. ScansAs(segment, j) => i = j
  <2> HAVE ScansAs(segment, j)
  <2>1. PICK k \in 1..Len(segment) : segment[k] = Digits[j + 1]
    BY DEF ScansAs
  <2>2. k = 1
    BY <1>1, <2>1
  <2> QED BY <1>1, <2>1, <2>2, DigitsAre
<1>3. i = j => ScansAs(segment, j)
  <2> HAVE i = j
  <2>1. 1 \in 1..Len(segment) /\ ~(1 < Len(segment)) /\ segment[1] = Digits[j + 1]
    BY <1>1
  <2>2. \A h \in 1..(1 - 1) : FALSE
    OBVIOUS
  <2> QED BY <2>1, <2>2 DEF ScansAs
<1> QED BY <1>2, <1>3 DEF segment

LEMMA FollowsOwn ==
  ASSUME NEW step \in Steps
  PROVE  Follows(step, Segment(step))
<1>1. CASE step.kind = "key"
  BY <1>1, StepFields DEF Follows, Segment
<1>2. CASE step.kind # "key"
  <2>1. step.kind = "item" /\ Segment(step) = <<Digits[step.index + 1]>> /\ step.index \in 0..2
    BY <1>2, StepFields DEF Segment
  <2>2. ScansAs(Segment(step), step.index)
    BY <2>1, DigitScansAs
  <2> QED BY <2>1, <2>2 DEF Follows
<1> QED BY <1>1, <1>2

(* A segment leads to the step it was written for, among steps of its kind.*)
LEMMA FollowsOneOfAKind ==
  ASSUME NEW step \in Steps, NEW own \in Steps, step.kind = own.kind, Follows(step, Segment(own))
  PROVE  step = own
<1>1. CASE own.kind = "key"
  <2>1. own = Key(own.key) /\ Segment(own) = own.key /\ step.kind # "item"
    BY <1>1, StepFields DEF Segment
  <2> QED BY <2>1 DEF Follows
<1>2. CASE own.kind # "key"
  <2>1. /\ own.kind = "item" /\ step.kind = "item"
        /\ own = Item(own.index) /\ step = Item(step.index)
        /\ own.index \in 0..2 /\ step.index \in 0..2
        /\ Segment(own) = <<Digits[own.index + 1]>>
    BY <1>2, StepFields DEF Segment
  <2>2. step # Key(Segment(own))
    BY <2>1 DEF Key
  <2>3. ScansAs(Segment(own), step.index)
    BY <2>2 DEF Follows
  <2>4. own.index = step.index
    BY <2>1, <2>3, DigitScansAs
  <2> QED BY <2>1, <2>4
<1> QED BY <1>1, <1>2

LEMMA FirstSteps ==
  ASSUME NEW l \in Seq(Steps), NEW k \in 0..Len(l)
  PROVE  /\ SubSeq(l, 1, k) \in Seq(Steps) /\ Len(SubSeq(l, 1, k)) = k
         /\ \A i \in 1..k : SubSeq(l, 1, k)[i] = l[i]
         /\ IsPrefix(SubSeq(l, 1, k), l)
<1> DEFINE m == SubSeq(l, 1, k)
<1>1. Len(l) \in Nat /\ k \in Nat /\ k <= Len(l)
  OBVIOUS
<1>2. m \in Seq(Steps) /\ Len(m) = k /\ \A i \in 1..k : m[i] = l[i]
  <2>1. 0 \in Nat /\ 0 <= k /\ 0 + 1 = 1 /\ k - 0 = k /\ \A i \in 1..k : 0 + i = i
    BY <1>1
  <2>2. /\ SubSeq(l, 0 + 1, k) \in Seq(Steps) /\ Len(SubSeq(l, 0 + 1, k)) = k - 0
        /\ \A i \in 1..(k - 0) : SubSeq(l, 0 + 1, k)[i] = l[0 + i]
    BY <1>1, <2>1, StretchOf
  <2> QED BY <2>1, <2>2
<1> HIDE DEF m
<1>3. IsPrefix(m, l)
  BY <1>1, <1>2, PrefixIs
<1> QED BY <1>2, <1>3 DEF m

(* The segments of a path to a node lead to no other.                      *)
LEMMA NodeReached ==
  ASSUME NEW tree, IsTree(tree), NEW l \in Nodes(tree), NEW m \in Nodes(tree), Len(l) = Len(m),
         \A i \in 1..Len(m) : Follows(l[i], Segment(m[i]))
  PROVE  l = m
<1> DEFINE n == Len(m)
           S == {k \in Nat : k <= n => \A i \in 1..k : l[i] = m[i]}
<1>1. l \in Seq(Steps) /\ m \in Seq(Steps) /\ n \in Nat
  <2>1. l \in Seq(Steps) /\ m \in Seq(Steps)
    BY NodeIs
  <2> QED BY <2>1
<1>2. 0 \in S
  OBVIOUS
<1>3. ASSUME NEW k \in Nat, k \in S PROVE k + 1 \in S
  <2> SUFFICES ASSUME k + 1 <= n PROVE \A i \in 1..(k + 1) : l[i] = m[i]
    OBVIOUS
  <2>1. k <= n /\ k + 1 \in 1..n /\ k + 1 \in 0..n /\ k \in 0..n /\ k + 1 # 0 /\ (k + 1) - 1 = k
    BY <1>1
  <2>2. \A i \in 1..k : l[i] = m[i]
    BY <1>3, <2>1
  <2> DEFINE c == SubSeq(l, 1, k + 1)
             d == SubSeq(m, 1, k + 1)
  <2>3. /\ c \in Seq(Steps) /\ Len(c) = k + 1 /\ (\A i \in 1..(k + 1) : c[i] = l[i])
        /\ IsPrefix(c, l)
    BY <1>1, <2>1, FirstSteps
  <2>4. /\ d \in Seq(Steps) /\ Len(d) = k + 1 /\ (\A i \in 1..(k + 1) : d[i] = m[i])
        /\ IsPrefix(d, m)
    BY <1>1, <2>1, FirstSteps
  <2> HIDE DEF c, d, S
  <2>5. c \in Nodes(tree) /\ d \in Nodes(tree)
    BY <2>3, <2>4, PrefixOfNode
  <2>6. c # << >> /\ d # << >>
    BY <2>1, <2>3, <2>4, EmptySeq
  <2>7. /\ Front(c) \in Seq(Steps) /\ Len(Front(c)) = k /\ \A i \in 1..k : Front(c)[i] = l[i]
        /\ Last(c) = l[k + 1]
    <3>1. /\ Front(c) \in Seq(Steps) /\ Len(Front(c)) = Len(c) - 1
          /\ (\A i \in 1..(Len(c) - 1) : Front(c)[i] = c[i]) /\ Last(c) = c[Len(c)]
      BY <2>3, <2>6, FrontIs
    <3>2. \A i \in 1..k : i \in 1..(k + 1)
      OBVIOUS
    <3>3. k + 1 \in 1..(k + 1)
      OBVIOUS
    <3> QED BY <2>1, <2>3, <3>1, <3>2, <3>3
  <2>8. /\ Front(d) \in Seq(Steps) /\ Len(Front(d)) = k /\ \A i \in 1..k : Front(d)[i] = m[i]
        /\ Last(d) = m[k + 1]
    <3>1. /\ Front(d) \in Seq(Steps) /\ Len(Front(d)) = Len(d) - 1
          /\ (\A i \in 1..(Len(d) - 1) : Front(d)[i] = d[i]) /\ Last(d) = d[Len(d)]
      BY <2>4, <2>6, FrontIs
    <3>2. \A i \in 1..k : i \in 1..(k + 1)
      OBVIOUS
    <3>3. k + 1 \in 1..(k + 1)
      OBVIOUS
    <3> QED BY <2>1, <2>4, <3>1, <3>2, <3>3
  <2>9. Front(c) = Front(d)
    BY <2>2, <2>7, <2>8, SeqEqual
  <2>10. Last(c).kind = Last(d).kind
    BY <2>5, <2>6, <2>9 DEF IsTree
  <2>11. l[k + 1] = m[k + 1]
    <3>1. l[k + 1] \in Steps /\ m[k + 1] \in Steps
      BY <1>1, <2>1
    <3>2. l[k + 1].kind = m[k + 1].kind
      BY <2>7, <2>8, <2>10
    <3>3. Follows(l[k + 1], Segment(m[k + 1]))
      BY <2>1
    <3> QED BY <3>1, <3>2, <3>3, FollowsOneOfAKind
  <2>12. \A i \in 1..(k + 1) : i \in 1..k \/ i = k + 1
    OBVIOUS
  <2> QED BY <2>2, <2>11, <2>12
<1> HIDE DEF S
<1>4. n \in S
  BY <1>1, <1>2, <1>3, AllNumbers
<1>5. \A i \in 1..n : l[i] = m[i]
  BY <1>1, <1>4 DEF S
<1> QED BY <1>1, <1>5, SeqEqual

LEMMA SegmentsAre ==
  ASSUME NEW steps \in Seq(Steps), steps # << >>
  PROVE  /\ Len(Segments(steps)) = Len(steps) /\ Len(steps) \in Nat \ {0}
         /\ \A i \in 1..Len(steps) : Segments(steps)[i] = Segment(steps[i])
         /\ Last(Segments(steps)) = Segment(Last(steps))
<1>1. Len(steps) \in Nat \ {0}
  BY EmptySeq
<1>2. Segments(steps) = [i \in 1..Len(steps) |-> Segment(steps[i])]
  BY DEF Segments
<1>3. Len(Segments(steps)) = Len(steps)
  BY <1>1, <1>2
<1>4. Len(steps) \in 1..Len(steps)
  BY <1>1
<1>5. \A i \in 1..Len(steps) : Segments(steps)[i] = Segment(steps[i])
  BY <1>2
<1> QED BY <1>1, <1>3, <1>4, <1>5 DEF Last

(* A member is the only place that its path leads to, and an item none:    *)
(* setValueAtPathRecursive sets members alone (parser.go:236-244).         *)
LEMMA OwnTarget ==
  ASSUME NEW tree, IsTree(tree), NEW loc \in DOMAIN tree, loc # << >>
  PROVE  Targets(tree, Segments(loc)) = IF Last(loc).kind = "key" THEN {loc} ELSE {}
<1> DEFINE segments == Segments(loc)
           front == Front(loc)
<1>1. loc \in Seq(Steps)
  BY LeafIs
<1>2. loc \in Nodes(tree)
  <2>1. IsPrefix(loc, loc)
    BY <1>1, PrefixIs
  <2> QED BY <1>1, <2>1, PrefixIsNode
<1>3. /\ front \in Seq(Steps) /\ Len(front) = Len(loc) - 1 /\ Len(loc) \in Nat \ {0}
      /\ \A i \in 1..(Len(loc) - 1) : front[i] = loc[i]
      /\ Last(loc) \in Steps /\ loc = Append(front, Last(loc))
  BY <1>1, FrontIs
<1>4. /\ front \in Nodes(tree)
      /\ TypeAt(tree, front) = IF Last(loc).kind = "key" THEN "object" ELSE "array"
  BY <1>2, TypeOfParent
<1>5. /\ Len(segments) = Len(loc)
      /\ \A i \in 1..Len(loc) : segments[i] = Segment(loc[i])
      /\ Last(segments) = Segment(Last(loc))
  BY <1>1, SegmentsAre
<1> HIDE DEF segments, front
<1>6. \A i \in 1..Len(front) : i \in 1..Len(loc) /\ segments[i] = Segment(front[i]) /\ front[i] \in Steps
  <2> TAKE i \in 1..Len(front)
  <2>1. i \in 1..(Len(loc) - 1) /\ i \in 1..Len(loc) /\ front[i] \in Steps
    BY <1>3
  <2> QED BY <1>3, <1>5, <2>1
<1> DEFINE Leads(n) == /\ Len(n) = Len(segments) - 1
                       /\ TypeAt(tree, n) = "object"
                       /\ \A i \in 1..Len(n) : Follows(n[i], segments[i])
<1>7. ASSUME NEW n \in Nodes(tree), Leads(n) PROVE n = front
  <2>1. Len(n) = Len(front)
    BY <1>3, <1>5, <1>7
  <2>2. \A i \in 1..Len(front) : Follows(n[i], Segment(front[i]))
    BY <1>6, <1>7, <2>1
  <2> QED BY <1>4, <2>1, <2>2, NodeReached
<1>8. Leads(front) <=> Last(loc).kind = "key"
  <2>1. Len(front) = Len(segments) - 1
    BY <1>3, <1>5
  <2>2. \A i \in 1..Len(front) : Follows(front[i], segments[i])
    BY <1>6, FollowsOwn
  <2> QED BY <1>4, <2>1, <2>2
<1>9. Targets(tree, segments) = {Append(n, Key(Last(segments))) : n \in {m \in Nodes(tree) : Leads(m)}}
  BY DEF Targets
<1> HIDE DEF Leads
<1>10. CASE Last(loc).kind = "key"
  <2>1. Key(Last(segments)) = Last(loc)
    BY <1>3, <1>5, <1>10, StepFields DEF Segment
  <2>2. {m \in Nodes(tree) : Leads(m)} = {front}
    BY <1>4, <1>7, <1>8, <1>10
  <2> QED BY <1>3, <1>9, <1>10, <2>1, <2>2 DEF segments
<1>11. CASE Last(loc).kind # "key"
  <2>1. {m \in Nodes(tree) : Leads(m)} = {}
    BY <1>7, <1>8, <1>11
  <2> QED BY <1>9, <1>11, <2>1 DEF segments
<1> QED BY <1>10, <1>11

(* A field of the body, of params or of result that is spelled otherwise   *)
(* hides what lies below it from the path.                                 *)
LEMMA OtherSpelling ==
  ASSUME NEW tree, IsTree(tree), NEW loc \in DOMAIN tree, NEW steps \in Seq(Steps),
         Len(steps) = Len(loc), NEW k \in 0..1, k + 1 < Len(loc),
         \A i \in 1..k : steps[i] = loc[i],
         NEW field \in DOMAIN Capital,
         steps[k + 1] = Key(<<field>>), loc[k + 1] = Key(<<Capital[field]>>)
  PROVE  Targets(tree, Segments(steps)) = {}
<1> DEFINE segments == Segments(steps)
           d == SubSeq(loc, 1, k + 1)
           m == SubSeq(loc, 1, k)
<1>1. /\ loc \in Seq(Steps) /\ Len(loc) \in Nat /\ steps # << >>
      /\ k \in Nat /\ k + 1 \in 1..Len(loc) /\ k \in 0..Len(loc) /\ k + 1 \in 0..Len(loc)
  BY LeafIs
<1>2. /\ d \in Seq(Steps) /\ Len(d) = k + 1 /\ (\A i \in 1..(k + 1) : d[i] = loc[i])
      /\ IsPrefix(d, loc)
  BY <1>1, FirstSteps
<1>3. /\ m \in Seq(Steps) /\ Len(m) = k /\ (\A i \in 1..k : m[i] = loc[i])
      /\ IsPrefix(m, loc)
  BY <1>1, FirstSteps
<1>4. /\ Len(segments) = Len(loc)
      /\ \A i \in 1..Len(loc) : segments[i] = Segment(steps[i])
  BY <1>1, SegmentsAre
<1> HIDE DEF segments, d, m
<1>5. d \in Nodes(tree) /\ m \in Nodes(tree)
  BY <1>2, <1>3, PrefixIsNode
<1> SUFFICES ASSUME NEW n \in Nodes(tree), Len(n) = Len(segments) - 1,
                    \A i \in 1..Len(n) : Follows(n[i], segments[i])
             PROVE  FALSE
  BY DEF Targets, segments
<1> DEFINE c == SubSeq(n, 1, k + 1)
           l == SubSeq(n, 1, k)
<1>6. /\ n \in Seq(Steps) /\ Len(n) = Len(loc) - 1
      /\ k + 1 \in 1..Len(n) /\ k \in 0..Len(n) /\ k + 1 \in 0..Len(n)
  <2>1. n \in Seq(Steps) /\ Len(n) = Len(loc) - 1
    BY <1>4, NodeIs
  <2> QED BY <1>1, <2>1
<1>7. /\ c \in Seq(Steps) /\ Len(c) = k + 1 /\ (\A i \in 1..(k + 1) : c[i] = n[i])
      /\ IsPrefix(c, n)
  BY <1>6, FirstSteps
<1>8. /\ l \in Seq(Steps) /\ Len(l) = k /\ (\A i \in 1..k : l[i] = n[i])
      /\ IsPrefix(l, n)
  BY <1>6, FirstSteps
<1> HIDE DEF c, l
<1>9. c \in Nodes(tree) /\ l \in Nodes(tree)
  BY <1>7, <1>8, PrefixOfNode
<1>10. l = m
  <2>1. \A i \in 1..k : Follows(l[i], Segment(m[i]))
    <3> TAKE i \in 1..k
    <3>1. i \in 1..Len(n) /\ i \in 1..Len(loc)
      BY <1>1, <1>6
    <3> QED BY <1>3, <1>4, <1>8, <3>1
  <2> QED BY <1>3, <1>5, <1>8, <1>9, <2>1, NodeReached
<1>11. c = Append(l, n[k + 1]) /\ Front(c) = l /\ Last(c) = n[k + 1] /\ c # << >>
  <2>1. n[k + 1] \in Steps
    BY <1>6
  <2> DEFINE r == Append(l, n[k + 1])
  <2>2. /\ r \in Seq(Steps) /\ Len(r) = k + 1 /\ r # << >> /\ Front(r) = l /\ Last(r) = n[k + 1]
        /\ \A i \in 1..k : r[i] = l[i]
    BY <1>8, <2>1, AppendIs
  <2> HIDE DEF r
  <2>3. \A i \in 1..(k + 1) : r[i] = c[i]
    <3> TAKE i \in 1..(k + 1)
    <3>1. i \in 1..k \/ i = k + 1
      OBVIOUS
    <3> QED BY <1>7, <1>8, <2>2, <3>1 DEF Last
  <2>4. r = c
    BY <1>7, <2>2, <2>3, SeqEqual
  <2> QED BY <2>2, <2>4 DEF r
<1>12. d = Append(m, loc[k + 1]) /\ Front(d) = m /\ Last(d) = loc[k + 1] /\ d # << >>
  <2>1. loc[k + 1] \in Steps
    BY <1>1
  <2> DEFINE r == Append(m, loc[k + 1])
  <2>2. /\ r \in Seq(Steps) /\ Len(r) = k + 1 /\ r # << >> /\ Front(r) = m /\ Last(r) = loc[k + 1]
        /\ \A i \in 1..k : r[i] = m[i]
    BY <1>3, <2>1, AppendIs
  <2> HIDE DEF r
  <2>3. \A i \in 1..(k + 1) : r[i] = d[i]
    <3> TAKE i \in 1..(k + 1)
    <3>1. i \in 1..k \/ i = k + 1
      OBVIOUS
    <3> QED BY <1>2, <1>3, <2>2, <3>1 DEF Last
  <2>4. r = d
    BY <1>2, <2>2, <2>3, SeqEqual
  <2> QED BY <2>2, <2>4 DEF r
<1>13. n[k + 1] = Key(<<field>>)
  <2>1. n[k + 1].kind = "key"
    <3>1. Front(c) = Front(d) /\ c # << >> /\ d # << >>
      BY <1>10, <1>11, <1>12
    <3>2. Last(c).kind = Last(d).kind
      BY <1>5, <1>9, <3>1 DEF IsTree
    <3>3. n[k + 1].kind = loc[k + 1].kind
      BY <1>11, <1>12, <3>2
    <3> QED BY <3>3 DEF Key
  <2>2. Follows(n[k + 1], Segment(steps[k + 1]))
    BY <1>1, <1>4, <1>6
  <2>3. Segment(steps[k + 1]) = <<field>>
    BY DEF Segment, Key
  <2> QED BY <2>1, <2>2, <2>3 DEF Follows
<1>14. c \in Members(tree, m, field) /\ d \in Members(tree, m, field)
  <2>1. Present(tree, c) /\ Present(tree, d)
    <3>1. \A node \in Nodes(tree) : Present(tree, node)
      BY NodeIs DEF Present
    <3> QED BY <1>5, <1>9, <3>1
  <2> QED BY <1>10, <1>11, <1>12, <1>13, <2>1, MembersAre
<1>15. c = d
  <2>1. Len(m) <= 1
    BY <1>3
  <2> QED BY <1>5, <1>14, <2>1 DEF IsTree
<1>16. Key(<<field>>) = Key(<<Capital[field]>>)
  BY <1>11, <1>12, <1>13, <1>15
<1>17. field = Capital[field]
  <2>1. <<field>> = <<Capital[field]>>
    BY <1>16 DEF Key
  <2> QED BY <2>1
<1> QED BY <1>17 DEF Capital

(* A step as it is recorded and as it stands in the message.               *)
IsRecordOf(step, own) ==
  step = own \/ \E field \in DOMAIN Capital : step = Key(<<field>>) /\ own = Key(<<Capital[field]>>)

IsFieldOf(loc, node, field) ==
  /\ loc \in Seq(Steps) /\ Front(loc) = node /\ Len(loc) = Len(node) + 1
  /\ \A i \in 1..Len(node) : loc[i] = node[i]
  /\ IsRecordOf(Key(<<field>>), loc[Len(node) + 1])
  /\ Key(<<field>>) \in Steps

LEMMA FieldIsRecorded ==
  ASSUME NEW tree, NEW node \in Seq(Steps), NEW field \in DOMAIN Capital,
         NEW loc \in Members(tree, node, field)
  PROVE  IsFieldOf(loc, node, field)
<1>1. PICK symbol \in {field, Capital[field]} : loc = Append(node, Key(<<symbol>>))
  BY DEF Members
<1>2. Key(<<field>>) \in Steps /\ Key(<<symbol>>) \in Steps
  <2>1. <<field>> \in Seq(Symbols) /\ <<symbol>> \in Seq(Symbols)
    BY <1>1, SymbolsAre
  <2> QED BY <2>1, KeyIsStep
<1>3. /\ loc \in Seq(Steps) /\ Front(loc) = node /\ Len(loc) = Len(node) + 1 /\ loc # << >>
      /\ \A i \in 1..Len(node) : loc[i] = node[i]
      /\ Last(loc) = Key(<<symbol>>)
  BY <1>1, <1>2, AppendIs
<1>4. loc[Len(node) + 1] = Key(<<symbol>>)
  BY <1>3 DEF Last
<1> QED BY <1>1, <1>2, <1>3, <1>4 DEF IsRecordOf, IsFieldOf

LEMMA ItemIsRecorded ==
  ASSUME NEW tree, NEW node \in Seq(Steps), NEW loc \in Items(tree, node)
  PROVE  /\ loc \in Seq(Steps) /\ Front(loc) = node /\ Len(loc) = Len(node) + 1
         /\ \A i \in 1..Len(node) : loc[i] = node[i]
         /\ loc[Len(node) + 1] \in Steps /\ loc[Len(node) + 1].kind = "item"
<1>1. PICK i \in 0..(Len(Digits) - 1) : loc = Append(node, Item(i))
  BY DEF Items
<1>2. i \in 0..2
  BY DEF Digits
<1>3. Item(i) \in Steps /\ Item(i).kind = "item"
  BY <1>2, ItemIsStep
<1>4. /\ loc \in Seq(Steps) /\ Front(loc) = node /\ Len(loc) = Len(node) + 1
      /\ \A j \in 1..Len(node) : loc[j] = node[j]
      /\ Last(loc) = Item(i)
  BY <1>1, <1>3, AppendIs
<1>5. loc[Len(node) + 1] = Item(i)
  BY <1>4 DEF Last
<1> QED BY <1>3, <1>4, <1>5

(* Below the arguments a text is recorded as it stands.                    *)
LEMMA RequestIsRecorded ==
  ASSUME IsTree(message), side = "request", NEW loc \in Texts
  PROVE  /\ loc \in Seq(Steps) /\ Recorded(loc) \in Seq(Steps)
         /\ Len(Recorded(loc)) = Len(loc) /\ Len(loc) >= 3
         /\ Recorded(loc)[1] = Key(<<"params">>) /\ Recorded(loc)[2] = Key(<<"arguments">>)
         /\ IsRecordOf(Recorded(loc)[1], loc[1]) /\ IsRecordOf(Recorded(loc)[2], loc[2])
         /\ \A i \in 3..Len(loc) : Recorded(loc)[i] = loc[i]
<1>1. loc \in DOMAIN message /\ loc \in Seq(Steps) /\ Len(loc) \in Nat
  BY TextsAreLeaves, LeafIs
<1>2. PICK arguments \in ArgumentObjects(message) : IsStrictPrefix(arguments, loc)
  BY DEF Texts, RequestTexts
<1>3. PICK params \in Members(message, << >>, "params") : arguments \in Members(message, params, "arguments")
  BY <1>2 DEF ArgumentObjects
<1>4. "params" \in DOMAIN Capital /\ "arguments" \in DOMAIN Capital
  BY FieldsAre
<1>5. /\ params \in Seq(Steps) /\ Len(params) = 1
      /\ IsRecordOf(Key(<<"params">>), params[1]) /\ Key(<<"params">>) \in Steps
  <2>1. << >> \in Seq(Steps) /\ Len(<< >>) = 0
    BY EmptySeq
  <2>2. IsFieldOf(params, << >>, "params")
    BY <1>3, <1>4, <2>1, FieldIsRecorded
  <2> QED BY <2>1, <2>2 DEF IsFieldOf
<1>6. /\ arguments \in Seq(Steps) /\ Len(arguments) = 2 /\ arguments[1] = params[1]
      /\ IsRecordOf(Key(<<"arguments">>), arguments[2]) /\ Key(<<"arguments">>) \in Steps
  <2>1. IsFieldOf(arguments, params, "arguments")
    BY <1>3, <1>4, <1>5, FieldIsRecorded
  <2> QED BY <1>5, <2>1 DEF IsFieldOf
<1>7. IsPrefix(arguments, loc) /\ arguments # loc
  BY <1>2 DEF IsStrictPrefix
<1>8. Len(loc) >= 3 /\ loc[1] = params[1] /\ loc[2] = arguments[2]
  <2>1. Len(arguments) <= Len(loc) /\ \A i \in 1..Len(arguments) : arguments[i] = loc[i]
    BY <1>1, <1>6, <1>7, PrefixIs
  <2>2. Len(loc) # 2
    BY <1>1, <1>6, <1>7, <2>1, SeqEqual
  <2> QED BY <1>1, <1>6, <2>1, <2>2
<1> DEFINE rest == SubSeq(loc, 3, Len(loc))
<1>9. /\ rest \in Seq(Steps) /\ Len(rest) = Len(loc) - 2
      /\ \A i \in 1..(Len(loc) - 2) : rest[i] = loc[2 + i]
  <2> DEFINE two == 2
             n == Len(loc)
  <2>1. two \in Nat /\ n \in Nat /\ two <= n /\ n <= n /\ loc \in Seq(Steps) /\ n <= Len(loc)
    BY <1>1, <1>8
  <2>3. two + 1 = 3 /\ two = 2 /\ n = Len(loc)
    OBVIOUS
  <2> HIDE DEF two, n
  <2>2. /\ SubSeq(loc, two + 1, n) \in Seq(Steps)
        /\ Len(SubSeq(loc, two + 1, n)) = n - two
        /\ \A i \in 1..(n - two) : SubSeq(loc, two + 1, n)[i] = loc[two + i]
    BY <2>1, StretchOf
  <2> QED BY <2>2, <2>3
<1>10. /\ Arguments \in Seq(Steps) /\ Len(Arguments) = 2
       /\ Arguments[1] = Key(<<"params">>) /\ Arguments[2] = Key(<<"arguments">>)
  BY <1>5, <1>6 DEF Arguments
<1>11. Recorded(loc) = Arguments \o rest
  BY DEF Recorded
<1> HIDE DEF rest
<1>12. /\ Recorded(loc) \in Seq(Steps) /\ Len(Recorded(loc)) = Len(loc)
       /\ Recorded(loc)[1] = Key(<<"params">>) /\ Recorded(loc)[2] = Key(<<"arguments">>)
       /\ \A i \in 1..Len(rest) : Recorded(loc)[2 + i] = rest[i]
  <2>1. IsJoin(Steps, Recorded(loc), Arguments, rest)
    BY <1>9, <1>10, <1>11, BothParts
  <2>2. 2 + Len(rest) = Len(loc) /\ 1 \in 1..2 /\ 2 \in 1..2
    BY <1>1, <1>9
  <2> QED BY <1>10, <2>1, <2>2 DEF IsJoin
<1>13. \A i \in 3..Len(loc) : Recorded(loc)[i] = loc[i]
  <2> TAKE i \in 3..Len(loc)
  <2>1. i - 2 \in 1..Len(rest) /\ i - 2 \in 1..(Len(loc) - 2) /\ 2 + (i - 2) = i
    BY <1>1, <1>9
  <2> QED BY <1>9, <1>12, <2>1
<1> QED BY <1>1, <1>5, <1>6, <1>8, <1>12, <1>13

LEMMA ResponseIsRecorded ==
  ASSUME side = "response", NEW loc \in Texts
  PROVE  /\ loc \in Seq(Steps) /\ Recorded(loc) \in Seq(Steps)
         /\ Len(Recorded(loc)) = 4 /\ Len(loc) = 4
         /\ Recorded(loc)[1] = Key(<<"result">>) /\ Recorded(loc)[2] = Key(<<"content">>)
         /\ Recorded(loc)[4] = Key(<<"text">>) /\ loc[3].kind = "item"
         /\ IsRecordOf(Recorded(loc)[1], loc[1]) /\ IsRecordOf(Recorded(loc)[2], loc[2])
         /\ Recorded(loc)[3] = loc[3] /\ IsRecordOf(Recorded(loc)[4], loc[4])
         /\ Last(Recorded(loc)) = Recorded(loc)[4] /\ Last(loc) = loc[4]
<1>1. PICK item \in ContentItems(message) : loc \in Members(message, item, "text")
  BY DEF Texts, ResponseTexts
<1>2. PICK result \in Members(message, << >>, "result") :
        item \in UNION {Items(message, content) : content \in Members(message, result, "content")}
  BY <1>1 DEF ContentItems
<1>3. PICK content \in Members(message, result, "content") : item \in Items(message, content)
  BY <1>2
<1>4. /\ "result" \in DOMAIN Capital /\ "content" \in DOMAIN Capital /\ "text" \in DOMAIN Capital
      /\ << >> \in Seq(Steps) /\ Len(<< >>) = 0
  BY FieldsAre, EmptySeq
<1>5. /\ result \in Seq(Steps) /\ Len(result) = 1 /\ IsRecordOf(Key(<<"result">>), result[1])
      /\ Key(<<"result">>) \in Steps
  <2>1. IsFieldOf(result, << >>, "result")
    BY <1>2, <1>4, FieldIsRecorded
  <2> QED BY <1>4, <2>1 DEF IsFieldOf
<1>6. /\ content \in Seq(Steps) /\ Len(content) = 2 /\ content[1] = result[1]
      /\ IsRecordOf(Key(<<"content">>), content[2]) /\ Key(<<"content">>) \in Steps
  <2>1. IsFieldOf(content, result, "content")
    BY <1>3, <1>4, <1>5, FieldIsRecorded
  <2> QED BY <1>5, <2>1 DEF IsFieldOf
<1>7. /\ item \in Seq(Steps) /\ Len(item) = 3 /\ item[1] = content[1] /\ item[2] = content[2]
      /\ item[3] \in Steps /\ item[3].kind = "item"
  <2>1. /\ item \in Seq(Steps) /\ Len(item) = Len(content) + 1
        /\ (\A i \in 1..Len(content) : item[i] = content[i])
        /\ item[Len(content) + 1] \in Steps /\ item[Len(content) + 1].kind = "item"
    BY <1>3, <1>6, ItemIsRecorded
  <2> QED BY <1>6, <2>1
<1>8. /\ loc \in Seq(Steps) /\ Len(loc) = 4
      /\ loc[1] = item[1] /\ loc[2] = item[2] /\ loc[3] = item[3]
      /\ IsRecordOf(Key(<<"text">>), loc[4]) /\ Key(<<"text">>) \in Steps
  <2>1. IsFieldOf(loc, item, "text")
    BY <1>1, <1>4, <1>7, FieldIsRecorded
  <2> QED BY <1>7, <2>1 DEF IsFieldOf
<1>9. Recorded(loc) = <<Key(<<"result">>), Key(<<"content">>), loc[3], Key(<<"text">>)>>
  BY DEF Recorded, TextOf
<1> DEFINE result1 == Key(<<"result">>)
           content1 == Key(<<"content">>)
           text1 == Key(<<"text">>)
<1>10. result1 \in Steps /\ content1 \in Steps /\ text1 \in Steps
  BY <1>5, <1>6, <1>8
<1>11. Recorded(loc) = <<result1, content1, loc[3], text1>>
  BY <1>9
<1>12. /\ IsRecordOf(result1, loc[1]) /\ IsRecordOf(content1, loc[2]) /\ IsRecordOf(text1, loc[4])
       /\ loc[3] \in Steps /\ loc[3].kind = "item"
  BY <1>5, <1>6, <1>7, <1>8
<1>13. result1 = Key(<<"result">>) /\ content1 = Key(<<"content">>) /\ text1 = Key(<<"text">>)
  OBVIOUS
<1> HIDE DEF result1, content1, text1
<1>14. /\ Recorded(loc) \in Seq(Steps) /\ Len(Recorded(loc)) = 4
       /\ Recorded(loc)[1] = result1 /\ Recorded(loc)[2] = content1
       /\ Recorded(loc)[3] = loc[3] /\ Recorded(loc)[4] = text1
  BY <1>10, <1>11, <1>12
<1> QED BY <1>8, <1>12, <1>13, <1>14 DEF Last

LEMMA TextIsRecorded ==
  ASSUME IsTree(message), side \in {"request", "response"}, NEW loc \in Texts
  PROVE  /\ loc \in Seq(Steps) /\ Recorded(loc) \in Seq(Steps)
         /\ Len(Recorded(loc)) = Len(loc) /\ Len(loc) >= 3 /\ Len(loc) \in Nat
         /\ Recorded(loc)[1].kind = "key"
         /\ \A i \in 1..Len(loc) : IsRecordOf(Recorded(loc)[i], loc[i])
         /\ side = "response" => Last(Recorded(loc)) = Recorded(loc)[4] /\ Last(loc) = loc[4]
         /\ \A i \in 3..Len(loc) : Recorded(loc)[i] = loc[i] \/ (side = "response" /\ i = 4)
<1>1. CASE side = "request"
  <2>1. /\ loc \in Seq(Steps) /\ Recorded(loc) \in Seq(Steps)
        /\ Len(Recorded(loc)) = Len(loc) /\ Len(loc) >= 3
        /\ Recorded(loc)[1] = Key(<<"params">>)
        /\ IsRecordOf(Recorded(loc)[1], loc[1]) /\ IsRecordOf(Recorded(loc)[2], loc[2])
        /\ \A i \in 3..Len(loc) : Recorded(loc)[i] = loc[i]
    BY <1>1, RequestIsRecorded
  <2>2. Len(loc) \in Nat /\ \A i \in 1..Len(loc) : i = 1 \/ i = 2 \/ i \in 3..Len(loc)
    BY <2>1
  <2>3. \A step : IsRecordOf(step, step)
    BY DEF IsRecordOf
  <2>4. \A i \in 1..Len(loc) : IsRecordOf(Recorded(loc)[i], loc[i])
    BY <2>1, <2>2, <2>3
  <2>5. Recorded(loc)[1].kind = "key"
    BY <2>1 DEF Key
  <2> QED BY <1>1, <2>1, <2>2, <2>4, <2>5
<1>2. CASE side = "response"
  <2>1. /\ loc \in Seq(Steps) /\ Recorded(loc) \in Seq(Steps)
        /\ Len(Recorded(loc)) = 4 /\ Len(loc) = 4
        /\ Recorded(loc)[1] = Key(<<"result">>)
        /\ IsRecordOf(Recorded(loc)[1], loc[1]) /\ IsRecordOf(Recorded(loc)[2], loc[2])
        /\ Recorded(loc)[3] = loc[3] /\ IsRecordOf(Recorded(loc)[4], loc[4])
        /\ Last(Recorded(loc)) = Recorded(loc)[4] /\ Last(loc) = loc[4]
    BY <1>2, ResponseIsRecorded
  <2>2. \A i \in 1..4 : i = 1 \/ i = 2 \/ i = 3 \/ i = 4
    OBVIOUS
  <2>3. \A step : IsRecordOf(step, step)
    BY DEF IsRecordOf
  <2>4. \A i \in 1..4 : IsRecordOf(Recorded(loc)[i], loc[i])
    BY <2>1, <2>2, <2>3
  <2>5. \A i \in 3..4 : i = 3 \/ i = 4
    OBVIOUS
  <2>6. Recorded(loc)[1].kind = "key"
    BY <2>1 DEF Key
  <2> QED BY <1>2, <2>1, <2>4, <2>5, <2>6
<1> QED BY <1>1, <1>2

LEMMA RecordIsPlain ==
  ASSUME IsTree(message), side \in {"request", "response"}, NEW loc \in Texts, PlainKeys(loc)
  PROVE  PlainKeys(Recorded(loc))
<1> DEFINE rec == Recorded(loc)
<1>1. /\ loc \in Seq(Steps) /\ rec \in Seq(Steps) /\ Len(rec) = Len(loc)
      /\ \A i \in 1..Len(loc) : IsRecordOf(rec[i], loc[i])
  BY TextIsRecorded
<1> HIDE DEF rec
<1>2. DOMAIN rec = 1..Len(loc) /\ DOMAIN loc = 1..Len(loc)
  BY <1>1
<1> SUFFICES ASSUME NEW i \in 1..Len(loc), rec[i].kind = "key"
             PROVE  rec[i].key # << >> /\ ({".", "["} \cup DOMAIN Wide) \cap ToSet(rec[i].key) = {}
  BY <1>2 DEF PlainKeys, rec
<1>3. CASE rec[i] = loc[i]
  BY <1>2, <1>3 DEF PlainKeys
<1>4. CASE \E field \in DOMAIN Capital : rec[i] = Key(<<field>>)
  <2>1. PICK field \in DOMAIN Capital : rec[i] = Key(<<field>>)
    BY <1>4
  <2>2. rec[i].key = <<field>>
    BY <2>1 DEF Key
  <2>3. field \notin {".", "["} \cup DOMAIN Wide
    BY FieldsAre, SymbolsAre
  <2>4. ToSet(<<field>>) = {field}
    BY DEF ToSet
  <2> QED BY <2>2, <2>3, <2>4
<1> QED BY <1>1, <1>3, <1>4 DEF IsRecordOf

(* Where the mask of a text with plain keys is set, if anywhere.           *)
LEMMA PlainIsReached ==
  ASSUME IsTree(message), side \in {"request", "response"}, NEW loc \in Texts, PlainKeys(loc),
         side = "response" => Last(loc) = Last(Recorded(loc))
  PROVE  Reached(loc) = IF Recorded(loc) = loc /\ Last(loc).kind = "key" THEN {loc} ELSE {}
<1> DEFINE rec == Recorded(loc)
<1>1. /\ loc \in Seq(Steps) /\ rec \in Seq(Steps)
      /\ Len(rec) = Len(loc) /\ Len(loc) >= 3 /\ Len(loc) \in Nat
      /\ rec[1].kind = "key"
      /\ \A i \in 1..Len(loc) : IsRecordOf(rec[i], loc[i])
      /\ side = "response" => Last(rec) = rec[4] /\ Last(loc) = loc[4]
      /\ \A i \in 3..Len(loc) : rec[i] = loc[i] \/ (side = "response" /\ i = 4)
  BY TextIsRecorded
<1>2. loc \in DOMAIN message /\ loc # << >> /\ rec # << >>
  <2>1. loc \in DOMAIN message
    BY TextsAreLeaves
  <2> HIDE DEF rec
  <2> QED BY <1>1, <2>1
<1>3. Reached(loc) = Targets(message, Segments(rec))
  <2>1. ParsePath(Path(rec)) = Segments(rec)
    BY <1>1, <1>2, RecordIsPlain, PathIsRead
  <2> QED BY <2>1 DEF Reached, PathOf
<1>4. side = "response" => Last(loc) = Last(rec)
  OBVIOUS
<1> HIDE DEF rec
<1>5. \A i \in 3..Len(loc) : rec[i] = loc[i]
  BY <1>1, <1>4
<1>6. 1 \in 1..Len(loc) /\ 2 \in 1..Len(loc) /\ 0 \in 0..1 /\ 1 \in 0..1 /\ 0 + 1 = 1 /\ 1 + 1 = 2
      /\ 1 < Len(loc) /\ 2 < Len(loc)
  BY <1>1
<1>7. ASSUME NEW k \in 0..1, rec[k + 1] # loc[k + 1], \A i \in 1..k : rec[i] = loc[i]
      PROVE  Targets(message, Segments(rec)) = {}
  <2>1. k + 1 \in 1..Len(loc) /\ k + 1 < Len(loc)
    BY <1>1
  <2>2. PICK field \in DOMAIN Capital : rec[k + 1] = Key(<<field>>) /\ loc[k + 1] = Key(<<Capital[field]>>)
    BY <1>1, <1>7, <2>1 DEF IsRecordOf
  <2> QED BY <1>1, <1>2, <1>7, <2>1, <2>2, OtherSpelling
<1>8. CASE rec[1] # loc[1]
  <2>1. \A i \in 1..0 : rec[i] = loc[i]
    OBVIOUS
  <2>2. Targets(message, Segments(rec)) = {}
    BY <1>6, <1>7, <1>8, <2>1
  <2> QED BY <1>3, <1>8, <2>2 DEF rec
<1>9. CASE rec[1] = loc[1] /\ rec[2] # loc[2]
  <2>1. \A i \in 1..1 : rec[i] = loc[i]
    BY <1>9
  <2>2. Targets(message, Segments(rec)) = {}
    BY <1>6, <1>7, <1>9, <2>1
  <2> QED BY <1>3, <1>9, <2>2 DEF rec
<1>10. CASE rec[1] = loc[1] /\ rec[2] = loc[2]
  <2>1. \A i \in 1..Len(loc) : i = 1 \/ i = 2 \/ i \in 3..Len(loc)
    BY <1>1
  <2>2. \A i \in 1..Len(loc) : rec[i] = loc[i]
    BY <1>5, <1>10, <2>1
  <2>3. rec = loc
    BY <1>1, <2>2, SeqEqual
  <2>4. Targets(message, Segments(loc)) = IF Last(loc).kind = "key" THEN {loc} ELSE {}
    BY <1>2, OwnTarget
  <2> QED BY <1>3, <2>3, <2>4 DEF rec
<1> QED BY <1>8, <1>9, <1>10

-----------------------------------------------------------------------------
(* What a path that leads back was written from.  Each segment it is cut   *)
(* into is a run of letters or what stands behind a bracket.  The first key*)
(* that is not plain would be read from behind a bracket of its own, which *)
(* it cannot be, or has a wide character, which makes the segment longer   *)
(* than the key (parser.go:186-224).                                       *)

(* The first closing bracket.                                              *)
LEMMA ClosingIs ==
  ASSUME NEW path \in Seq(Symbols), NEW i \in 1..Len(path), Closing(path, i) # {}
  PROVE  /\ Min(Closing(path, i)) \in (i + 1)..Len(path)
         /\ path[Min(Closing(path, i))] = "]"
         /\ \A j \in (i + 1)..Len(path) : path[j] = "]" => Min(Closing(path, i)) <= j
<1> DEFINE closing == Closing(path, i)
           c == Min(closing)
<1>1. \A j : j \in closing <=> j \in (i + 1)..Len(path) /\ path[j] = "]"
  BY DEF Closing
<1>2. Len(path) \in Nat
  OBVIOUS
<1>3. closing \in SUBSET Nat /\ closing # {}
  <2>1. \A j \in (i + 1)..Len(path) : j \in Nat
    BY <1>2
  <2> QED BY <1>1, <2>1
<1> HIDE DEF closing
<1>4. \E m \in closing : \A j \in closing : m <= j
  BY <1>3, LeastOf
<1>5. c \in closing /\ \A j \in closing : c <= j
  BY <1>4, Zenon DEF Min
<1> HIDE DEF c
<1> QED BY <1>1, <1>5 DEF c, closing

(* What stands between the bracket at i and the next closing one.          *)
Bracketed(path, i) == SubSeq(path, i + 1, Min(Closing(path, i)) - 1)

LEMMA ContentIs ==
  ASSUME NEW path \in Seq(Symbols), NEW i \in 1..Len(path), Closing(path, i) # {},
         NEW c, c = Min(Closing(path, i))
  PROVE  /\ c \in (i + 1)..Len(path) /\ path[c] = "]"
         /\ \A j \in (i + 1)..(c - 1) : path[j] # "]"
         /\ Bracketed(path, i) \in Seq(Symbols) /\ Len(Bracketed(path, i)) = c - i - 1
         /\ \A x \in 1..(c - i - 1) : Bracketed(path, i)[x] = path[i + x]
<1>1. /\ c \in (i + 1)..Len(path) /\ path[c] = "]"
      /\ \A j \in (i + 1)..Len(path) : path[j] = "]" => c <= j
  BY ClosingIs
<1>2. Len(path) \in Nat
  OBVIOUS
<1> DEFINE z == c - 1
<1>3. i \in Nat /\ z \in Nat /\ i <= z /\ z <= Len(path) /\ z - i = c - i - 1 /\ z = c - 1
  BY <1>1, <1>2
<1>4. \A j \in (i + 1)..(c - 1) : path[j] # "]"
  <2> TAKE j \in (i + 1)..(c - 1)
  <2>1. j \in (i + 1)..Len(path) /\ ~(c <= j)
    BY <1>1, <1>2
  <2> QED BY <1>1, <2>1
<1> HIDE DEF z
<1>5. /\ SubSeq(path, i + 1, z) \in Seq(Symbols)
      /\ Len(SubSeq(path, i + 1, z)) = z - i
      /\ \A x \in 1..(z - i) : SubSeq(path, i + 1, z)[x] = path[i + x]
  BY <1>3, StretchOf
<1>6. Bracketed(path, i) = SubSeq(path, i + 1, z)
  BY <1>3 DEF Bracketed
<1> QED BY <1>1, <1>3, <1>4, <1>5, <1>6

(* A round of the loop takes what stands behind a bracket for a segment,   *)
(* ends a segment, or adds to one.                                         *)
Opens(path, scan, i) == i > scan.upTo /\ path[i] = "[" /\ Closing(path, i) # {}

Ends(path, scan, i) ==
  i > scan.upTo /\ (path[i] = "." \/ (path[i] = "[" /\ Closing(path, i) = {}))

Adds(path, scan, i) == i > scan.upTo /\ path[i] \notin {".", "["}

LEMMA RoundsAre ==
  ASSUME NEW path, NEW scan \in Scanners, NEW i \in Nat
  PROVE  \/ i <= scan.upTo
         \/ Opens(path, scan, i)
         \/ Ends(path, scan, i)
         \/ Adds(path, scan, i)
BY DEF Opens, Ends, Adds, Scanners

(* What is no syntax of the path.                                          *)
Letters == Symbols \ {".", "["}

LEMMA RunesAre ==
  ASSUME NEW symbol \in Letters
  PROVE  /\ Runes(symbol) \in Seq(Letters) /\ Len(Runes(symbol)) >= 1
         /\ symbol \in DOMAIN Wide => Len(Runes(symbol)) > 1
<1>1. CASE symbol \notin DOMAIN Wide
  <2>1. Runes(symbol) = <<symbol>>
    BY <1>1 DEF Runes
  <2>2. <<symbol>> \in Seq(Letters) /\ Len(<<symbol>>) = 1
    OBVIOUS
  <2> QED BY <1>1, <2>1, <2>2
<1>2. CASE symbol \in DOMAIN Wide
  <2> DEFINE bytes == Wide[symbol]
  <2>1. bytes \in Seq(DOMAIN Wide) /\ Len(bytes) > 1 /\ Runes(symbol) = bytes
    BY <1>2, SymbolAssumption DEF Runes
  <2>2. DOMAIN Wide \subseteq Letters
    <3>1. DOMAIN Wide \subseteq Symbols /\ "." \notin DOMAIN Wide /\ "[" \notin DOMAIN Wide
      BY SymbolAssumption
    <3> QED BY <3>1 DEF Letters
  <2> HIDE DEF bytes
  <2>3. bytes \in Seq(Letters) /\ Len(bytes) \in Nat
    BY <2>1, <2>2
  <2> QED BY <2>1, <2>3
<1> QED BY <1>1, <1>2

LEMMA LookOpens ==
  ASSUME NEW path \in Seq(Symbols), NEW scan \in Scanners, NEW i \in 1..Len(path),
         Opens(path, scan, i)
  PROVE  /\ Look(path, scan, i) \in Scanners
         /\ Look(path, scan, i).segments = Append(Cut(scan).segments, Bracketed(path, i))
         /\ Look(path, scan, i).current = << >>
         /\ Look(path, scan, i).upTo = Min(Closing(path, i))
<1> DEFINE c == Min(Closing(path, i))
           content == Bracketed(path, i)
           cut == Cut(scan)
<1>1. cut \in Scanners /\ cut.current = << >>
  BY CutIs
<1>2. content \in Seq(Symbols) /\ c \in Nat
  <2>1. Closing(path, i) # {} /\ c = Min(Closing(path, i))
    BY DEF Opens
  <2>2. c \in (i + 1)..Len(path) /\ content \in Seq(Symbols)
    BY <2>1, ContentIs
  <2> QED BY <2>2
<1>3. Look(path, scan, i) =
        [Cut(scan) EXCEPT !.segments = Append(@, SubSeq(path, i + 1, Min(Closing(path, i)) - 1)),
                          !.upTo = Min(Closing(path, i))]
  <2>1. i > scan.upTo /\ ~(i <= scan.upTo) /\ path[i] = "[" /\ Closing(path, i) # {}
    BY DEF Opens, Scanners
  <2> QED BY <2>1 DEF Look
<1>4. Look(path, scan, i) = [cut EXCEPT !.segments = Append(@, content), !.upTo = c]
  BY <1>3 DEF Bracketed
<1> HIDE DEF c, content, cut
<1>5. Append(cut.segments, content) \in Seq(Seq(Symbols))
  BY <1>1, <1>2 DEF Scanners
<1>6. /\ [cut EXCEPT !.segments = Append(@, content), !.upTo = c] \in Scanners
      /\ [cut EXCEPT !.segments = Append(@, content), !.upTo = c].segments = Append(cut.segments, content)
      /\ [cut EXCEPT !.segments = Append(@, content), !.upTo = c].current = << >>
      /\ [cut EXCEPT !.segments = Append(@, content), !.upTo = c].upTo = c
  BY <1>1, <1>2, <1>5 DEF Scanners
<1> QED BY <1>4, <1>6 DEF c, content, cut

LEMMA LookEnds ==
  ASSUME NEW path, NEW scan \in Scanners, NEW i \in Nat, Ends(path, scan, i)
  PROVE  Look(path, scan, i) = Cut(scan)
<1>1. /\ i > scan.upTo /\ ~(i <= scan.upTo)
      /\ path[i] = "." \/ (path[i] = "[" /\ Closing(path, i) = {})
  BY DEF Ends, Scanners
<1>2. ~(path[i] = "[" /\ Closing(path, i) # {})
  BY <1>1
<1> QED BY <1>1, <1>2 DEF Look

LEMMA LookAdds ==
  ASSUME NEW path \in Seq(Symbols), NEW scan \in Scanners, NEW i \in 1..Len(path),
         Adds(path, scan, i)
  PROVE  /\ Look(path, scan, i) = [scan EXCEPT !.current = @ \o Runes(path[i])]
         /\ Look(path, scan, i) \in Scanners
         /\ path[i] \in Letters
<1>1. i > scan.upTo /\ ~(i <= scan.upTo) /\ path[i] \notin {".", "["}
  BY DEF Adds, Scanners
<1>2. path[i] \in Letters
  BY <1>1 DEF Letters
<1>3. Look(path, scan, i) = [scan EXCEPT !.current = @ \o Runes(path[i])]
  BY <1>1 DEF Look
<1> DEFINE runes == Runes(path[i])
<1>4. runes \in Seq(Symbols)
  <2>1. runes \in Seq(Letters)
    BY <1>2, RunesAre
  <2> HIDE DEF runes
  <2> QED BY <2>1 DEF Letters
<1> HIDE DEF runes
<1>5. scan.current \o runes \in Seq(Symbols)
  <2>1. scan.current \in Seq(Symbols)
    BY DEF Scanners
  <2> QED BY <1>4, <2>1
<1>6. [scan EXCEPT !.current = @ \o runes] \in Scanners
  BY <1>5 DEF Scanners
<1>7. Look(path, scan, i) \in Scanners
  BY <1>3, <1>6 DEF runes
<1> QED BY <1>2, <1>3, <1>7

LEMMA LookIsTyped ==
  ASSUME NEW path \in Seq(Symbols), NEW scan \in Scanners, NEW i \in 1..Len(path)
  PROVE  Look(path, scan, i) \in Scanners
<1>1. i \in Nat
  OBVIOUS
<1>2. CASE i <= scan.upTo
  BY <1>1, <1>2, LookInside
<1>3. CASE Opens(path, scan, i)
  BY <1>3, LookOpens
<1>4. CASE Ends(path, scan, i)
  BY <1>1, <1>4, LookEnds, CutIs
<1>5. CASE Adds(path, scan, i)
  BY <1>5, LookAdds
<1> QED BY <1>1, <1>2, <1>3, <1>4, <1>5, RoundsAre

LEMMA ScansAreTyped ==
  ASSUME NEW path \in Seq(Symbols), NEW g, Scans(g, path)
  PROVE  \A k \in 0..Len(path) : g[k] \in Scanners
<1> DEFINE S == {k \in Nat : k <= Len(path) => g[k] \in Scanners}
<1>1. Len(path) \in Nat
  OBVIOUS
<1>2. 0 \in S
  <2>1. g[0] = Start /\ Start \in Scanners
    BY DEF Scans, Start, Scanners
  <2> QED BY <2>1
<1>3. ASSUME NEW k \in Nat, k \in S PROVE k + 1 \in S
  <2> SUFFICES ASSUME k + 1 <= Len(path) PROVE g[k + 1] \in Scanners
    OBVIOUS
  <2>1. k + 1 \in 1..Len(path) /\ (k + 1) - 1 = k /\ k <= Len(path) /\ k + 1 \in Nat
    BY <1>1
  <2> DEFINE i == k + 1
             scan == g[k]
  <2>2. scan \in Scanners
    BY <1>3, <2>1
  <2>3. g[i] = Look(path, scan, i) /\ i \in Nat /\ i \in 1..Len(path)
    BY <2>1 DEF Scans
  <2> HIDE DEF i, scan, S
  <2>4. g[i] \in Scanners
    BY <2>2, <2>3, LookIsTyped
  <2> QED BY <2>4 DEF i
<1> HIDE DEF S
<1>4. \A k \in Nat : k \in S
  BY <1>2, <1>3, AllNumbers
<1> QED BY <1>1, <1>4 DEF S

(* What the loop has: the segments taken, and the one under way.           *)
LEMMA CutParts ==
  ASSUME NEW scan \in Scanners, NEW n, n = Len(scan.segments)
  PROVE  /\ n \in Nat /\ Cut(scan).segments \in Seq(Seq(Symbols))
         /\ scan.current = << >> => Cut(scan).segments = scan.segments
         /\ scan.current # << >> =>
              Len(Cut(scan).segments) = n + 1 /\ Cut(scan).segments[n + 1] = scan.current
         /\ \A i \in 1..n : Cut(scan).segments[i] = scan.segments[i]
         /\ n <= Len(Cut(scan).segments) /\ Len(Cut(scan).segments) <= n + 1
<1> DEFINE segments == scan.segments
           current == scan.current
           cut == Cut(scan).segments
<1>1. segments \in Seq(Seq(Symbols)) /\ current \in Seq(Symbols) /\ n = Len(segments) /\ n \in Nat
  BY DEF Scanners
<1>2. cut = IF current = << >> THEN segments ELSE Append(segments, current)
  BY CutIs
<1> HIDE DEF segments, current, cut
<1>3. CASE current = << >>
  <2>1. cut = segments
    BY <1>2, <1>3
  <2> QED BY <1>1, <1>3, <2>1 DEF cut, segments, current
<1>4. CASE current # << >>
  <2>1. cut = Append(segments, current)
    BY <1>2, <1>4
  <2>2. /\ cut \in Seq(Seq(Symbols)) /\ Len(cut) = n + 1 /\ cut[n + 1] = current
        /\ \A i \in 1..n : cut[i] = segments[i]
    BY <1>1, <2>1
  <2>3. n <= Len(cut) /\ Len(cut) <= n + 1
    BY <1>1, <2>2
  <2> QED BY <1>1, <1>4, <2>2, <2>3 DEF cut, segments, current
<1> QED BY <1>3, <1>4

(* What was taken stays, and what is under way only grows.                 *)
Onward(s, t) ==
  /\ Len(s.segments) <= Len(t.segments)
  /\ \A i \in 1..Len(s.segments) : t.segments[i] = s.segments[i]
  /\ s.upTo <= t.upTo
  /\ Len(s.segments) = Len(t.segments) => t.upTo = s.upTo
  /\ Len(Cut(s).segments) <= Len(Cut(t).segments)
  /\ \A i \in 1..Len(Cut(s).segments) : Len(Cut(s).segments[i]) <= Len(Cut(t).segments[i])

LEMMA OnwardStays ==
  ASSUME NEW s \in Scanners
  PROVE  Onward(s, s)
<1>1. s.upTo \in Nat /\ Len(s.segments) \in Nat
  BY DEF Scanners
<1> DEFINE cut == Cut(s).segments
<1>2. cut \in Seq(Seq(Symbols))
  BY CutParts
<1>3. Onward(s, s) <=>
        /\ Len(s.segments) <= Len(s.segments)
        /\ s.upTo <= s.upTo
        /\ Len(cut) <= Len(cut)
        /\ \A i \in 1..Len(cut) : Len(cut[i]) <= Len(cut[i])
  BY DEF Onward
<1> HIDE DEF cut
<1>4. Len(cut) \in Nat /\ \A i \in 1..Len(cut) : Len(cut[i]) \in Nat
  BY <1>2
<1>5. Len(cut) <= Len(cut) /\ \A i \in 1..Len(cut) : Len(cut[i]) <= Len(cut[i])
  BY <1>4
<1> QED BY <1>1, <1>3, <1>5

LEMMA OnwardAgain ==
  ASSUME NEW s \in Scanners, NEW t \in Scanners, NEW u \in Scanners, Onward(s, t), Onward(t, u)
  PROVE  Onward(s, u)
<1> DEFINE ls == Len(s.segments)
           lt == Len(t.segments)
           lu == Len(u.segments)
           cs == Cut(s).segments
           ct == Cut(t).segments
           cu == Cut(u).segments
<1>1. ls \in Nat /\ lt \in Nat /\ lu \in Nat /\ s.upTo \in Nat /\ t.upTo \in Nat /\ u.upTo \in Nat
  BY DEF Scanners
<1>2. cs \in Seq(Seq(Symbols)) /\ ct \in Seq(Seq(Symbols)) /\ cu \in Seq(Seq(Symbols))
  BY CutParts
<1>3. /\ ls <= lt /\ lt <= lu /\ s.upTo <= t.upTo /\ t.upTo <= u.upTo
      /\ ls = lt => t.upTo = s.upTo
      /\ lt = lu => u.upTo = t.upTo
      /\ Len(cs) <= Len(ct) /\ Len(ct) <= Len(cu)
  BY DEF Onward
<1>4. /\ \A i \in 1..ls : t.segments[i] = s.segments[i]
      /\ \A i \in 1..lt : u.segments[i] = t.segments[i]
      /\ \A i \in 1..Len(cs) : Len(cs[i]) <= Len(ct[i])
      /\ \A i \in 1..Len(ct) : Len(ct[i]) <= Len(cu[i])
  BY DEF Onward
<1>5. Onward(s, u) <=>
        /\ ls <= lu
        /\ \A i \in 1..ls : u.segments[i] = s.segments[i]
        /\ s.upTo <= u.upTo
        /\ ls = lu => u.upTo = s.upTo
        /\ Len(cs) <= Len(cu)
        /\ \A i \in 1..Len(cs) : Len(cs[i]) <= Len(cu[i])
  BY DEF Onward
<1> HIDE DEF ls, lt, lu, cs, ct, cu
<1>6. Len(cs) \in Nat /\ Len(ct) \in Nat /\ Len(cu) \in Nat
  BY <1>2
<1>7. ls <= lu /\ s.upTo <= u.upTo /\ Len(cs) <= Len(cu)
  BY <1>1, <1>3, <1>6
<1>8. ls = lu => u.upTo = s.upTo
  BY <1>1, <1>3
<1>9. \A i \in 1..ls : u.segments[i] = s.segments[i]
  <2> TAKE i \in 1..ls
  <2>1. i \in 1..lt
    BY <1>1, <1>3
  <2> QED BY <1>4, <2>1
<1>10. \A i \in 1..Len(cs) : Len(cs[i]) <= Len(cu[i])
  <2> TAKE i \in 1..Len(cs)
  <2>1. i \in 1..Len(ct) /\ i \in 1..Len(cu)
    BY <1>3, <1>6
  <2>2. Len(cs[i]) \in Nat /\ Len(ct[i]) \in Nat /\ Len(cu[i]) \in Nat
    BY <1>2, <2>1
  <2>3. Len(cs[i]) <= Len(ct[i]) /\ Len(ct[i]) <= Len(cu[i])
    BY <1>4, <2>1
  <2> QED BY <2>2, <2>3
<1> QED BY <1>5, <1>7, <1>8, <1>9, <1>10

(* An opening bracket takes what was under way for a segment too.          *)
IsTaking(path, scan, i, read, n) ==
  /\ read \in Scanners /\ n \in Nat /\ n = Len(Cut(scan).segments) /\ Len(read.segments) = n + 1
  /\ read.segments[n + 1] = Bracketed(path, i)
  /\ \A j \in 1..n : read.segments[j] = Cut(scan).segments[j]
  /\ Cut(read).segments = read.segments /\ read.current = << >>
  /\ read.upTo = Min(Closing(path, i)) /\ read.upTo > i /\ i > scan.upTo

LEMMA OpeningTakes ==
  ASSUME NEW path \in Seq(Symbols), NEW scan \in Scanners, NEW i \in 1..Len(path),
         Opens(path, scan, i)
  PROVE  IsTaking(path, scan, i, Look(path, scan, i), Len(Cut(scan).segments))
<1> DEFINE cut == Cut(scan).segments
           content == Bracketed(path, i)
           read == Look(path, scan, i)
           n == Len(cut)
<1>1. /\ read \in Scanners /\ read.segments = Append(cut, content) /\ read.current = << >>
      /\ read.upTo = Min(Closing(path, i))
  BY LookOpens
<1>2. cut \in Seq(Seq(Symbols)) /\ n = Len(cut)
  BY CutParts
<1>3. content \in Seq(Symbols) /\ read.upTo \in (i + 1)..Len(path)
  BY <1>1, ContentIs DEF Opens
<1>4. Cut(read).segments = read.segments
  BY <1>1, CutParts
<1>5. read.upTo > i /\ i > scan.upTo
  <2>1. Len(path) \in Nat /\ i \in Nat
    OBVIOUS
  <2> QED BY <1>3, <2>1 DEF Opens
<1> HIDE DEF cut, content, read, n
<1>6. /\ n \in Nat /\ Len(Append(cut, content)) = n + 1 /\ Append(cut, content)[n + 1] = content
      /\ \A j \in 1..n : Append(cut, content)[j] = cut[j]
  BY <1>2, <1>3
<1>7. IsTaking(path, scan, i, read, n)
  BY <1>1, <1>2, <1>4, <1>5, <1>6 DEF IsTaking, cut, content
<1> QED BY <1>7 DEF read, n, cut

LEMMA OpeningIsOnward ==
  ASSUME NEW path \in Seq(Symbols), NEW scan \in Scanners, NEW i \in 1..Len(path),
         Opens(path, scan, i)
  PROVE  Onward(scan, Look(path, scan, i))
<1> DEFINE read == Look(path, scan, i)
           cut == Cut(scan).segments
           m == Len(scan.segments)
           n == Len(cut)
<1>1. /\ read \in Scanners /\ n \in Nat /\ Len(read.segments) = n + 1
      /\ \A j \in 1..n : read.segments[j] = cut[j]
      /\ Cut(read).segments = read.segments
      /\ read.upTo > i /\ i > scan.upTo
  <2>1. IsTaking(path, scan, i, read, n)
    BY OpeningTakes
  <2> QED BY <2>1 DEF IsTaking
<1>2. /\ m \in Nat /\ cut \in Seq(Seq(Symbols)) /\ m <= n
      /\ \A j \in 1..m : cut[j] = scan.segments[j]
  BY CutParts
<1>3. scan.upTo \in Nat /\ read.upTo \in Nat /\ i \in Nat
  BY <1>1 DEF Scanners
<1>4. Onward(scan, read) <=>
        /\ m <= Len(read.segments)
        /\ \A j \in 1..m : read.segments[j] = scan.segments[j]
        /\ scan.upTo <= read.upTo
        /\ m = Len(read.segments) => read.upTo = scan.upTo
        /\ n <= Len(Cut(read).segments)
        /\ \A j \in 1..n : Len(cut[j]) <= Len(Cut(read).segments[j])
  BY DEF Onward
<1> HIDE DEF read, cut, m, n
<1>5. m <= n + 1 /\ m # n + 1 /\ n <= n + 1 /\ scan.upTo <= read.upTo
  BY <1>1, <1>2, <1>3
<1>6. \A j \in 1..m : read.segments[j] = scan.segments[j]
  <2> TAKE j \in 1..m
  <2>1. j \in 1..n
    BY <1>1, <1>2
  <2> QED BY <1>1, <1>2, <2>1
<1>7. \A j \in 1..n : Len(cut[j]) <= Len(Cut(read).segments[j])
  <2> TAKE j \in 1..n
  <2>1. cut[j] \in Seq(Symbols)
    BY <1>2 DEF n
  <2>2. Len(cut[j]) \in Nat
    BY <2>1, LenProperties
  <2>3. Cut(read).segments[j] = cut[j]
    BY <1>1
  <2> QED BY <2>2, <2>3
<1>8. Onward(scan, read)
  BY <1>1, <1>4, <1>5, <1>6, <1>7
<1> QED BY <1>8 DEF read

LEMMA EndIsOnward ==
  ASSUME NEW scan \in Scanners
  PROVE  Onward(scan, Cut(scan))
<1> DEFINE cut == Cut(scan)
           m == Len(scan.segments)
           n == Len(cut.segments)
<1>1. cut \in Scanners /\ cut.current = << >> /\ cut.upTo = scan.upTo /\ scan.upTo \in Nat
  BY CutIs DEF Scanners
<1>2. /\ m \in Nat /\ cut.segments \in Seq(Seq(Symbols)) /\ m <= n
      /\ \A j \in 1..m : cut.segments[j] = scan.segments[j]
  BY CutParts
<1> HIDE DEF cut
<1>3. Cut(cut) = cut
  BY <1>1, CutIs
<1>4. n \in Nat /\ \A j \in 1..n : Len(cut.segments[j]) \in Nat
  BY <1>2
<1>5. Len(Cut(cut).segments) = n /\ n <= n
      /\ \A j \in 1..n : Len(cut.segments[j]) <= Len(Cut(cut).segments[j])
  BY <1>3, <1>4
<1>6. Onward(scan, cut)
  BY <1>1, <1>2, <1>5 DEF Onward, cut
<1> QED BY <1>6 DEF cut

LEMMA AddingIsOnward ==
  ASSUME NEW scan \in Scanners, NEW runes \in Seq(Symbols), Len(runes) >= 1,
         NEW read, read = [scan EXCEPT !.current = @ \o runes]
  PROVE  Onward(scan, read)
<1> DEFINE cut == Cut(scan).segments
           m == Len(scan.segments)
           n == Len(cut)
           current == scan.current
           longer == current \o runes
<1>0. current \in Seq(Symbols) /\ scan.upTo \in Nat
  BY DEF Scanners
<1>1. /\ longer \in Seq(Symbols) /\ longer # << >>
      /\ Len(current) \in Nat /\ Len(longer) >= Len(current) /\ Len(longer) \in Nat
  <2> HIDE DEF current
  <2>1. Len(longer) = Len(current) + Len(runes) /\ longer \in Seq(Symbols)
    BY <1>0
  <2>2. Len(current) \in Nat /\ Len(runes) \in Nat
    BY <1>0
  <2>3. Len(longer) # 0
    BY <2>1, <2>2
  <2> QED BY <2>1, <2>2, <2>3
<1>2. read \in Scanners /\ read.segments = scan.segments /\ read.current = longer /\ read.upTo = scan.upTo
  BY <1>1 DEF Scanners
<1>3. /\ m \in Nat /\ cut \in Seq(Seq(Symbols)) /\ m <= n /\ n <= m + 1
      /\ \A j \in 1..m : cut[j] = scan.segments[j]
      /\ n = m + 1 => cut[m + 1] = current
  <2>1. /\ m \in Nat /\ cut \in Seq(Seq(Symbols)) /\ m <= n /\ n <= m + 1
        /\ \A j \in 1..m : cut[j] = scan.segments[j]
        /\ scan.current = << >> => cut = scan.segments
        /\ scan.current # << >> => n = m + 1 /\ cut[m + 1] = scan.current
    BY CutParts
  <2>2. m + 1 # m
    BY <2>1
  <2> QED BY <2>1, <2>2
<1> DEFINE after == Cut(read).segments
<1>4. /\ after \in Seq(Seq(Symbols)) /\ Len(after) = m + 1 /\ after[m + 1] = longer
      /\ \A j \in 1..m : after[j] = scan.segments[j]
  <2>1. m = Len(read.segments) /\ read \in Scanners /\ read.current # << >>
    BY <1>1, <1>2
  <2>2. read.segments = scan.segments /\ read.current = longer
    BY <1>2
  <2> HIDE DEF m, longer
  <2>3. /\ after \in Seq(Seq(Symbols))
        /\ Len(after) = m + 1 /\ after[m + 1] = read.current
        /\ \A j \in 1..m : after[j] = read.segments[j]
    BY <2>1, CutParts
  <2> QED BY <2>2, <2>3
<1>5. Onward(scan, read) <=>
        /\ m <= Len(read.segments)
        /\ \A j \in 1..m : read.segments[j] = scan.segments[j]
        /\ scan.upTo <= read.upTo
        /\ m = Len(read.segments) => read.upTo = scan.upTo
        /\ n <= Len(after)
        /\ \A j \in 1..n : Len(cut[j]) <= Len(after[j])
  BY DEF Onward
<1>6. m = Len(read.segments)
  BY <1>2
<1> HIDE DEF cut, m, n, current, longer, after
<1>7. m <= m /\ scan.upTo <= scan.upTo
  BY <1>0, <1>3
<1>8. \A j \in 1..n : Len(cut[j]) <= Len(after[j])
  <2> TAKE j \in 1..n
  <2>1. cut[j] \in Seq(Symbols)
    BY <1>3 DEF n
  <2>2. Len(cut[j]) \in Nat
    BY <2>1, LenProperties
  <2>3. CASE j \in 1..m
    <3>1. after[j] = cut[j]
      BY <1>3, <1>4, <2>3
    <3> QED BY <2>2, <3>1
  <2>4. CASE j \notin 1..m
    <3>1. n \in Nat
      BY <1>3 DEF n
    <3>2. j = m + 1 /\ n = m + 1
      BY <1>3, <2>4, <3>1
    <3>3. cut[j] = current /\ after[j] = longer
      BY <1>3, <1>4, <3>2
    <3> QED BY <1>1, <3>3
  <2> QED BY <2>3, <2>4
<1> QED BY <1>2, <1>3, <1>4, <1>5, <1>6, <1>7, <1>8

LEMMA LookIsOnward ==
  ASSUME NEW path \in Seq(Symbols), NEW scan \in Scanners, NEW i \in 1..Len(path)
  PROVE  Onward(scan, Look(path, scan, i))
<1>1. i \in Nat
  OBVIOUS
<1>2. CASE i <= scan.upTo
  BY <1>1, <1>2, LookInside, OnwardStays
<1>3. CASE Opens(path, scan, i)
  BY <1>3, OpeningIsOnward
<1>4. CASE Ends(path, scan, i)
  BY <1>1, <1>4, LookEnds, EndIsOnward
<1>5. CASE Adds(path, scan, i)
  <2> DEFINE runes == Runes(path[i])
             read == Look(path, scan, i)
  <2>1. read = [scan EXCEPT !.current = @ \o runes] /\ path[i] \in Letters
    BY <1>5, LookAdds
  <2>2. runes \in Seq(Symbols) /\ Len(runes) >= 1
    <3>1. runes \in Seq(Letters) /\ Len(runes) >= 1
      BY <2>1, RunesAre
    <3> HIDE DEF runes
    <3> QED BY <3>1 DEF Letters
  <2> HIDE DEF runes, read
  <2>3. Onward(scan, read)
    BY <2>1, <2>2, AddingIsOnward
  <2> QED BY <2>3 DEF read
<1> QED BY <1>1, <1>2, <1>3, <1>4, <1>5, RoundsAre

LEMMA ScansGoOn ==
  ASSUME NEW path \in Seq(Symbols), NEW g, Scans(g, path), NEW j \in 0..Len(path),
         NEW k \in j..Len(path)
  PROVE  Onward(g[j], g[k])
<1> DEFINE S == {d \in Nat : j + d <= Len(path) => Onward(g[j], g[j + d])}
<1>1. Len(path) \in Nat /\ j \in Nat /\ \A i \in 0..Len(path) : g[i] \in Scanners
  BY ScansAreTyped
<1>2. 0 \in S
  <2>1. j + 0 = j /\ g[j] \in Scanners
    BY <1>1
  <2> QED BY <2>1, OnwardStays
<1>3. ASSUME NEW d \in Nat, d \in S PROVE d + 1 \in S
  <2> SUFFICES ASSUME j + (d + 1) <= Len(path) PROVE Onward(g[j], g[j + (d + 1)])
    OBVIOUS
  <2> DEFINE i == j + (d + 1)
             before == g[j + d]
             first == g[j]
             after == g[i]
  <2>1. /\ i \in 1..Len(path) /\ i \in 0..Len(path) /\ i - 1 = j + d
        /\ j + d \in 0..Len(path) /\ j + d <= Len(path) /\ j \in 0..Len(path)
    BY <1>1
  <2>2. Onward(first, before)
    BY <1>3, <2>1
  <2>3. first \in Scanners /\ before \in Scanners /\ after \in Scanners
    BY <1>1, <2>1
  <2>4. after = Look(path, before, i)
    BY <2>1 DEF Scans
  <2> HIDE DEF first, before, after
  <2>5. Onward(before, after)
    <3> HIDE DEF i
    <3> QED BY <2>1, <2>3, <2>4, LookIsOnward
  <2>6. Onward(first, after)
    BY <2>2, <2>3, <2>5, OnwardAgain
  <2> QED BY <2>6 DEF first, after
<1> HIDE DEF S
<1>4. \A d \in Nat : d \in S
  BY <1>2, <1>3, AllNumbers
<1>5. k - j \in Nat /\ j + (k - j) = k /\ k <= Len(path)
  BY <1>1
<1>6. j + (k - j) <= Len(path) => Onward(g[j], g[j + (k - j)])
  BY <1>4, <1>5 DEF S
<1> QED BY <1>5, <1>6

(* Where a segment comes from: symbols of a key, put together, or what     *)
(* stands behind a bracket that the loop came to.                          *)
IsRun(segment) == segment \in Seq(Letters) /\ segment # << >>

IsOpened(path, g, k, i, segment) ==
  \E q \in 1..k :
    Opens(path, g[q - 1], q) /\ Len(g[q].segments) = i /\ segment = Bracketed(path, q)

Origins(path, g, k, segments) ==
  \A i \in 1..Len(segments) : IsRun(segments[i]) \/ IsOpened(path, g, k, i, segments[i])

LEMMA OriginsStay ==
  ASSUME NEW path, NEW g, NEW k \in Nat, NEW segments, Origins(path, g, k, segments)
  PROVE  Origins(path, g, k + 1, segments)
<1> SUFFICES ASSUME NEW i \in 1..Len(segments), ~IsRun(segments[i])
             PROVE  IsOpened(path, g, k + 1, i, segments[i])
  BY DEF Origins
<1>1. IsOpened(path, g, k, i, segments[i])
  BY DEF Origins
<1>2. PICK q \in 1..k :
        Opens(path, g[q - 1], q) /\ Len(g[q].segments) = i /\ segments[i] = Bracketed(path, q)
  BY <1>1 DEF IsOpened
<1>3. q \in 1..(k + 1)
  OBVIOUS
<1> QED BY <1>2, <1>3 DEF IsOpened

LEMMA CutOrigins ==
  ASSUME NEW path, NEW g, NEW k \in Nat, NEW scan \in Scanners, scan.current \in Seq(Letters),
         Origins(path, g, k, scan.segments)
  PROVE  Origins(path, g, k, Cut(scan).segments)
<1> DEFINE cut == Cut(scan).segments
           m == Len(scan.segments)
<1>1. /\ m \in Nat /\ cut \in Seq(Seq(Symbols))
      /\ scan.current = << >> => cut = scan.segments
      /\ scan.current # << >> => Len(cut) = m + 1 /\ cut[m + 1] = scan.current
      /\ \A i \in 1..m : cut[i] = scan.segments[i]
      /\ Len(cut) <= m + 1
  BY CutParts
<1>2. \A i \in 1..m : IsRun(scan.segments[i]) \/ IsOpened(path, g, k, i, scan.segments[i])
  BY DEF Origins
<1> HIDE DEF cut, m
<1> SUFFICES ASSUME NEW i \in 1..Len(cut)
             PROVE  IsRun(cut[i]) \/ IsOpened(path, g, k, i, cut[i])
  BY DEF Origins, cut
<1>3. CASE i \in 1..m
  <2>1. cut[i] = scan.segments[i]
    BY <1>1, <1>3
  <2> QED BY <1>2, <1>3, <2>1
<1>4. CASE i \notin 1..m
  <2>1. Len(cut) \in Nat
    BY <1>1, LenProperties
  <2>2. i = m + 1 /\ Len(cut) # m
    BY <1>1, <1>4, <2>1
  <2>3. scan.current # << >>
    BY <1>1, <2>2 DEF m
  <2>4. cut[i] = scan.current
    BY <1>1, <2>2, <2>3
  <2>5. IsRun(cut[i])
    BY <2>3, <2>4 DEF IsRun
  <2> QED BY <2>5
<1> QED BY <1>3, <1>4

LEMMA LookOrigins ==
  ASSUME NEW path \in Seq(Symbols), NEW g, Scans(g, path), NEW k \in Nat, k + 1 <= Len(path),
         g[k].current \in Seq(Letters), Origins(path, g, k, g[k].segments)
  PROVE  g[k + 1].current \in Seq(Letters) /\ Origins(path, g, k + 1, g[k + 1].segments)
<1> DEFINE i == k + 1
           scan == g[k]
           read == g[i]
<1>1. k \in 0..Len(path) /\ i \in 1..Len(path) /\ i \in Nat /\ i - 1 = k /\ i \in 1..i
  BY LenProperties
<1>2. scan \in Scanners /\ scan = g[i - 1]
  BY <1>1, ScansAreTyped
<1>3. read = Look(path, scan, i)
  BY <1>1 DEF Scans
<1>4. scan.current \in Seq(Letters) /\ Origins(path, g, i, scan.segments)
  BY OriginsStay
<1>5. Origins(path, g, i, Cut(scan).segments)
  BY <1>1, <1>2, <1>4, CutOrigins
<1>6. << >> \in Seq(Letters)
  BY EmptySeq
<1> DEFINE Goal == read.current \in Seq(Letters) /\ Origins(path, g, i, read.segments)
<1> HIDE DEF i, scan, read
<1>7. CASE i <= scan.upTo
  <2>1. read = scan
    BY <1>1, <1>2, <1>3, <1>7, LookInside
  <2> QED BY <1>4, <2>1 DEF i, scan, read
<1>8. CASE Opens(path, scan, i)
  <2> DEFINE cut == Cut(scan).segments
             n == Len(cut)
  <2>1. /\ n \in Nat /\ Len(read.segments) = n + 1
        /\ read.segments[n + 1] = Bracketed(path, i)
        /\ \A j \in 1..n : read.segments[j] = cut[j]
        /\ read.current = << >>
    <3>1. IsTaking(path, scan, i, read, n)
      BY <1>1, <1>2, <1>3, <1>8, OpeningTakes
    <3> QED BY <3>1 DEF IsTaking
  <2>2. \A j \in 1..n : IsRun(cut[j]) \/ IsOpened(path, g, i, j, cut[j])
    BY <1>5 DEF Origins
  <2> HIDE DEF cut, n
  <2>3. ASSUME NEW j \in 1..Len(read.segments)
        PROVE  IsRun(read.segments[j]) \/ IsOpened(path, g, i, j, read.segments[j])
    <3>1. CASE j \in 1..n
      BY <2>1, <2>2, <3>1
    <3>2. CASE j \notin 1..n
      <4>1. j = n + 1
        BY <2>1, <3>2
      <4>2. Len(g[i].segments) = j /\ read.segments[j] = Bracketed(path, i) /\ Opens(path, g[i - 1], i)
        BY <1>2, <1>8, <2>1, <4>1 DEF read
      <4>3. IsOpened(path, g, i, j, read.segments[j])
        BY <1>1, <4>2 DEF IsOpened
      <4> QED BY <4>3
    <3> QED BY <3>1, <3>2
  <2>4. Origins(path, g, i, read.segments)
    BY <2>3 DEF Origins
  <2> QED BY <1>6, <2>1, <2>4 DEF i, read
<1>9. CASE Ends(path, scan, i)
  <2>1. read = Cut(scan)
    BY <1>1, <1>2, <1>3, <1>9, LookEnds
  <2>2. read.current = << >>
    BY <1>2, <2>1, CutIs
  <2> QED BY <1>5, <1>6, <2>1, <2>2 DEF i, read
<1>10. CASE Adds(path, scan, i)
  <2> DEFINE runes == Runes(path[i])
             current == scan.current
  <2>1. read = [scan EXCEPT !.current = @ \o runes] /\ path[i] \in Letters
    BY <1>1, <1>2, <1>3, <1>10, LookAdds
  <2>2. runes \in Seq(Letters)
    BY <2>1, RunesAre
  <2>3. current \in Seq(Letters)
    BY <1>4
  <2>4. read.segments = scan.segments /\ read.current = current \o runes
    BY <1>2, <2>1 DEF Scanners
  <2> HIDE DEF runes, current
  <2>5. current \o runes \in Seq(Letters)
    BY <2>2, <2>3
  <2> QED BY <1>4, <2>4, <2>5 DEF i, read
<1> QED BY <1>1, <1>2, <1>7, <1>8, <1>9, <1>10, RoundsAre

(* Of each segment of a path.                                              *)
LEMMA ReadOrigins ==
  ASSUME NEW path \in Seq(Symbols), NEW g, Scans(g, path)
  PROVE  Origins(path, g, Len(path), Cut(g[Len(path)]).segments)
<1> DEFINE S == {k \in Nat : k <= Len(path) =>
                   g[k].current \in Seq(Letters) /\ Origins(path, g, k, g[k].segments)}
           l == Len(path)
<1>1. l \in Nat /\ l <= l /\ l \in 0..l
  OBVIOUS
<1>2. 0 \in S
  <2>1. g[0].current = << >> /\ g[0].segments = << >>
    BY DEF Scans, Start
  <2>2. << >> \in Seq(Letters) /\ Len(<< >>) = 0
    BY EmptySeq
  <2>3. \A i \in 1..0 : FALSE
    OBVIOUS
  <2>4. Origins(path, g, 0, g[0].segments)
    BY <2>1, <2>2, <2>3 DEF Origins
  <2> QED BY <2>1, <2>2, <2>4
<1>3. ASSUME NEW k \in Nat, k \in S PROVE k + 1 \in S
  <2> SUFFICES ASSUME k + 1 <= Len(path)
               PROVE  g[k + 1].current \in Seq(Letters) /\ Origins(path, g, k + 1, g[k + 1].segments)
    OBVIOUS
  <2>1. k <= Len(path)
    BY <1>1
  <2>2. g[k].current \in Seq(Letters) /\ Origins(path, g, k, g[k].segments)
    BY <1>3, <2>1
  <2> QED BY <2>2, LookOrigins
<1> HIDE DEF S
<1>4. l \in S
  BY <1>1, <1>2, <1>3, AllNumbers
<1>5. g[l].current \in Seq(Letters) /\ Origins(path, g, l, g[l].segments)
  BY <1>1, <1>4 DEF S, l
<1>6. g[l] \in Scanners
  BY <1>1, ScansAreTyped
<1> QED BY <1>1, <1>5, <1>6, CutOrigins

(* Where a step stands in the path.                                        *)
LEMMA LengthsGrow ==
  ASSUME NEW steps \in Seq(Steps), NEW f, Writes(f, steps), NEW i \in 0..Len(steps),
         NEW k \in i..Len(steps)
  PROVE  Len(f[i]) \in Nat /\ Len(f[k]) \in Nat /\ Len(f[i]) <= Len(f[k])
<1> DEFINE n == Len(steps)
           S == {d \in Nat : i + d <= n => Len(f[i]) <= Len(f[i + d])}
<1>1. n \in Nat /\ i \in Nat /\ k \in 0..n
  OBVIOUS
<1>2. \A j \in 0..n : f[j] \in Seq(Symbols) /\ Len(f[j]) \in Nat
  BY WrittenAreTyped
<1>3. 0 \in S
  <2>1. i + 0 = i /\ Len(f[i]) \in Nat
    BY <1>1, <1>2
  <2> QED BY <2>1
<1>4. ASSUME NEW d \in Nat, d \in S PROVE d + 1 \in S
  <2> SUFFICES ASSUME i + (d + 1) <= n PROVE Len(f[i]) <= Len(f[i + (d + 1)])
    OBVIOUS
  <2> DEFINE j == i + (d + 1)
             show == Show(steps, j)
             before == f[j - 1]
  <2>1. j \in 1..n /\ j - 1 = i + d /\ j - 1 \in 0..n /\ j \in 0..n /\ i + d <= n
    BY <1>1
  <2>2. Len(f[i]) <= Len(before)
    BY <1>4, <2>1
  <2>3. f[j] = before \o show
    BY <2>1 DEF Writes
  <2>4. show \in Seq(Symbols)
    BY <2>1, ShowIs
  <2>5. before \in Seq(Symbols) /\ Len(before) \in Nat /\ Len(f[j]) \in Nat /\ Len(f[i]) \in Nat
    BY <1>1, <1>2, <2>1
  <2> HIDE DEF j, show, before, S
  <2>6. Len(before \o show) = Len(before) + Len(show) /\ Len(show) \in Nat
    BY <2>4, <2>5
  <2>7. Len(f[i]) <= Len(f[j])
    BY <2>2, <2>3, <2>5, <2>6
  <2> QED BY <2>7 DEF j
<1> HIDE DEF S
<1>5. \A d \in Nat : d \in S
  BY <1>3, <1>4, AllNumbers
<1>6. k - i \in Nat /\ i + (k - i) = k /\ k <= n
  BY <1>1
<1>7. i + (k - i) <= n => Len(f[i]) <= Len(f[i + (k - i)])
  BY <1>5, <1>6 DEF S
<1> QED BY <1>1, <1>2, <1>6, <1>7

LEMMA StepAt ==
  ASSUME NEW steps \in Seq(Steps), NEW f, Writes(f, steps), NEW r \in 1..Len(f[Len(steps)])
  PROVE  \E k \in 1..Len(steps) : Len(f[k - 1]) < r /\ r <= Len(f[k])
<1> DEFINE n == Len(steps)
           beyond == {k \in 0..n : r <= Len(f[k])}
<1>1. n \in Nat /\ n \in 0..n
  OBVIOUS
<1>2. \A j \in 0..n : Len(f[j]) \in Nat
  BY WrittenAreTyped
<1>3. r \in Nat /\ r <= Len(f[n]) /\ r >= 1
  BY <1>1, <1>2
<1>4. beyond \in SUBSET Nat /\ beyond # {}
  BY <1>1, <1>3
<1>5. PICK k \in beyond : \A j \in beyond : k <= j
  BY <1>4, LeastOf
<1>6. k \in 0..n /\ r <= Len(f[k])
  BY <1>5
<1>7. k # 0
  <2>1. Len(f[0]) = 0
    BY DEF Writes
  <2> QED BY <1>3, <1>6, <2>1
<1>8. k \in 1..n /\ k - 1 \in 0..n /\ ~(k <= k - 1)
  BY <1>1, <1>6, <1>7
<1>9. k - 1 \notin beyond
  BY <1>5, <1>8
<1>10. Len(f[k - 1]) < r
  BY <1>2, <1>3, <1>8, <1>9
<1> QED BY <1>6, <1>8, <1>10

IsStepAt(steps, f, k, a, e) ==
  /\ a = Len(f[k - 1]) /\ e = Len(f[k]) /\ a \in Nat /\ e \in Nat
  /\ a <= e /\ e <= Len(f[Len(steps)])
  /\ steps[k].kind = "key" =>
       /\ steps[k].key \in Seq(Symbols)
       /\ a + Len(steps[k].key) <= e
       /\ k # 1 => e = a + 1 + Len(steps[k].key) /\ f[Len(steps)][a + 1] = "."
       /\ k = 1 => e = a + Len(steps[k].key)
       /\ \A x \in 1..Len(steps[k].key) :
            f[Len(steps)][e - Len(steps[k].key) + x] = steps[k].key[x]
  /\ steps[k].kind # "key" =>
       /\ e = a + 3 /\ f[Len(steps)][a + 1] = "[" /\ f[Len(steps)][a + 3] = "]"
       /\ f[Len(steps)][a + 2] \in {"0", "1", "2"}

LEMMA StepIsWritten ==
  ASSUME NEW steps \in Seq(Steps), NEW f, Writes(f, steps), NEW k \in 1..Len(steps)
  PROVE  IsStepAt(steps, f, k, Len(f[k - 1]), Len(f[k]))
<1> DEFINE n == Len(steps)
           path == f[n]
           a == Len(f[k - 1])
           e == Len(f[k])
           show == Show(steps, k)
           step == steps[k]
           key == step.key
<1>1. n \in Nat /\ k \in 0..n /\ k - 1 \in 0..n /\ n \in 0..n /\ k \in k..n /\ n \in k..n /\ k \in (k - 1)..n
  OBVIOUS
<1>2. a \in Nat /\ e \in Nat /\ a <= e /\ e <= Len(path)
  BY <1>1, LengthsGrow
<1>3. IsJoin(Symbols, f[k], f[k - 1], show)
  <2>1. f[k] = f[k - 1] \o show
    BY DEF Writes
  <2>2. f[k - 1] \in Seq(Symbols) /\ show \in Seq(Symbols)
    BY <1>1, WrittenAreTyped, ShowIs
  <2> QED BY <2>1, <2>2, BothParts
<1>4. show \in Seq(Symbols) /\ Len(show) \in Nat
  <2>1. show \in Seq(Symbols)
    BY ShowIs
  <2> QED BY <2>1, LenProperties
<1>5. e = a + Len(show) /\ \A x \in 1..Len(show) : f[k][a + x] = show[x]
  BY <1>3 DEF IsJoin
<1>6. \A x \in 1..e : path[x] = f[k][x]
  BY <1>1, WrittenStays
<1>7. \A x \in 1..Len(show) : path[a + x] = show[x]
  <2> TAKE x \in 1..Len(show)
  <2>1. a + x \in 1..e
    BY <1>2, <1>4, <1>5
  <2> QED BY <1>5, <1>6, <2>1
<1>8. /\ step \in Steps
      /\ step.kind \in {"key", "item"}
      /\ step.kind = "key" => key \in Seq(Symbols)
      /\ step.kind = "item" => step.index \in 0..2
  <2>1. step \in Steps
    OBVIOUS
  <2> QED BY <2>1, StepFields
<1> DEFINE AsKey == /\ key \in Seq(Symbols)
                    /\ a + Len(key) <= e
                    /\ k # 1 => e = a + 1 + Len(key) /\ path[a + 1] = "."
                    /\ k = 1 => e = a + Len(key)
                    /\ \A x \in 1..Len(key) : path[e - Len(key) + x] = key[x]
           AsItem == /\ e = a + 3 /\ path[a + 1] = "[" /\ path[a + 3] = "]"
                     /\ path[a + 2] \in {"0", "1", "2"}
<1>9. step.kind = "key" /\ k # 1 => AsKey
  <2> HAVE step.kind = "key" /\ k # 1
  <2>1. show = <<".">> \o key /\ key \in Seq(Symbols)
    BY <1>8, ShowIs
  <2> HIDE DEF show, step, key, a, e, path
  <2>2. <<".">> \in Seq(Symbols) /\ Len(<<".">>) = 1 /\ <<".">>[1] = "." /\ Len(key) \in Nat
    BY <2>1, SymbolsAre
  <2>3. IsJoin(Symbols, show, <<".">>, key)
    BY <2>1, <2>2, BothParts
  <2>4. /\ Len(show) = 1 + Len(key) /\ show[1] = "."
        /\ \A x \in 1..Len(key) : show[1 + x] = key[x]
    BY <2>2, <2>3 DEF IsJoin
  <2>5. e = a + 1 + Len(key) /\ a + Len(key) <= e /\ 1 \in 1..Len(show)
    BY <1>2, <1>5, <2>2, <2>4
  <2>6. path[a + 1] = "."
    BY <1>7, <2>4, <2>5
  <2>7. \A x \in 1..Len(key) : path[e - Len(key) + x] = key[x]
    <3> TAKE x \in 1..Len(key)
    <3>1. 1 + x \in 1..Len(show) /\ e - Len(key) + x = a + (1 + x)
      BY <1>2, <2>2, <2>4, <2>5
    <3> QED BY <1>7, <2>4, <3>1
  <2> QED BY <2>1, <2>5, <2>6, <2>7
<1>10. step.kind = "key" /\ k = 1 => AsKey
  <2> HAVE step.kind = "key" /\ k = 1
  <2>1. show = key /\ key \in Seq(Symbols)
    BY <1>8, ShowIs
  <2> HIDE DEF show, step, key, a, e, path
  <2>2. e = a + Len(key) /\ a + Len(key) <= e /\ Len(key) \in Nat
    BY <1>2, <1>4, <1>5, <2>1
  <2>3. \A x \in 1..Len(key) : path[e - Len(key) + x] = key[x]
    <3> TAKE x \in 1..Len(key)
    <3>1. e - Len(key) + x = a + x
      BY <1>2, <2>2
    <3> QED BY <1>7, <2>1, <3>1
  <2> QED BY <2>1, <2>2, <2>3
<1>11. step.kind # "key" => AsItem
  <2> HAVE step.kind # "key"
  <2> DEFINE d == Digits[step.index + 1]
  <2>1. show = <<"[", d, "]">>
    BY <1>8 DEF Show
  <2>2. d \in {"0", "1", "2"}
    BY <1>8, DigitsAre
  <2> HIDE DEF show, step, key, a, e, path, d
  <2>3. Len(show) = 3 /\ show[1] = "[" /\ show[2] = d /\ show[3] = "]"
    BY <2>1
  <2>4. 1 \in 1..Len(show) /\ 2 \in 1..Len(show) /\ 3 \in 1..Len(show)
    BY <2>3
  <2>5. path[a + 1] = "[" /\ path[a + 2] = d /\ path[a + 3] = "]" /\ e = a + 3
    BY <1>5, <1>7, <2>3, <2>4
  <2> QED BY <2>2, <2>5
<1>12. step.kind = "key" => AsKey
  BY <1>9, <1>10
<1> HIDE DEF a, e, path, key, step, AsKey, AsItem
<1>13. IsStepAt(steps, f, k, a, e)
  BY <1>2, <1>11, <1>12 DEF IsStepAt, AsKey, AsItem, a, e, path, key, step
<1> QED BY <1>13 DEF a, e

(* A bracket in the path of a key is one of its symbols.                   *)
HeldAt(key, e, r, symbol) == \E x \in 1..Len(key) : r = e - Len(key) + x /\ key[x] = symbol

LEMMA BracketInStep ==
  ASSUME NEW steps \in Seq(Steps), NEW f, Writes(f, steps), NEW k \in 1..Len(steps),
         NEW r \in Nat, Len(f[k - 1]) < r, r <= Len(f[k]),
         f[Len(steps)][r] \in {"[", "]"}
  PROVE  /\ steps[k].kind = "key" => HeldAt(steps[k].key, Len(f[k]), r, f[Len(steps)][r])
         /\ steps[k].kind # "key" /\ f[Len(steps)][r] = "[" => r = Len(f[k - 1]) + 1
<1> DEFINE path == f[Len(steps)]
           a == Len(f[k - 1])
           e == Len(f[k])
           key == steps[k].key
           l == Len(key)
<1>1. IsStepAt(steps, f, k, a, e)
  BY StepIsWritten
<1>2. a \in Nat /\ e \in Nat /\ a < r /\ r <= e
  BY <1>1 DEF IsStepAt
<1>3. steps[k].kind = "key" =>
        /\ key \in Seq(Symbols)
        /\ k # 1 => e = a + 1 + l /\ path[a + 1] = "."
        /\ k = 1 => e = a + l
        /\ \A x \in 1..l : path[e - l + x] = key[x]
  BY <1>1 DEF IsStepAt
<1>4. steps[k].kind # "key" =>
        /\ e = a + 3 /\ path[a + 3] = "]" /\ path[a + 2] \in {"0", "1", "2"}
  BY <1>1 DEF IsStepAt
<1>5. path[r] \in {"[", "]"}
  OBVIOUS
<1>6. ASSUME steps[k].kind = "key"
      PROVE  HeldAt(key, e, r, path[r])
  <2>1. l \in Nat
    BY <1>3, <1>6, LenProperties
  <2> HIDE DEF path, a, e, key, l
  <2>2. r > e - l
    <3>1. CASE k # 1
      <4>1. r # a + 1
        BY <1>3, <1>5, <1>6, <3>1
      <4> QED BY <1>2, <1>3, <1>6, <2>1, <3>1, <4>1
    <3>2. CASE k = 1
      BY <1>2, <1>3, <1>6, <2>1, <3>2
    <3> QED BY <3>1, <3>2
  <2> DEFINE x == r - (e - l)
  <2>3. x \in 1..l /\ r = e - l + x
    BY <1>2, <2>1, <2>2
  <2> HIDE DEF x
  <2>4. key[x] = path[r]
    BY <1>3, <1>6, <2>3
  <2> QED BY <2>3, <2>4 DEF HeldAt, l
<1>7. ASSUME steps[k].kind # "key", path[r] = "["
      PROVE  r = a + 1
  <2>1. r = a + 1 \/ r = a + 2 \/ r = a + 3
    BY <1>2, <1>4, <1>7
  <2> HIDE DEF path, a
  <2> QED BY <1>4, <1>7, <2>1
<1> QED BY <1>6, <1>7

(* A path that leads back to the keys it was written from.                 *)
Returns(steps, f, g, read) ==
  /\ steps \in Seq(Steps) /\ Writes(f, steps) /\ Scans(g, f[Len(steps)])
  /\ read = Cut(g[Len(f[Len(steps)])]).segments
  /\ Len(read) = Len(steps)
  /\ \A i \in 1..Len(steps) : steps[i].kind = "key" => read[i] = steps[i].key

(* The bracket at q is opened, and what it holds is segment i.             *)
OpensAs(path, g, q, i) ==
  q \in 1..Len(path) /\ Opens(path, g[q - 1], q) /\ Len(g[q].segments) = i

StandsIn(f, k, r) == Len(f[k - 1]) < r /\ r <= Len(f[k])

LEMMA PathIsTyped ==
  ASSUME NEW steps, NEW f, NEW g, NEW read, Returns(steps, f, g, read)
  PROVE  f[Len(steps)] \in Seq(Symbols) /\ Len(f[Len(steps)]) \in Nat /\ Len(steps) \in Nat
<1>1. steps \in Seq(Steps) /\ Writes(f, steps)
  BY DEF Returns
<1>2. Len(steps) \in Nat /\ Len(steps) \in 0..Len(steps)
  BY <1>1
<1>3. f[Len(steps)] \in Seq(Symbols)
  BY <1>1, <1>2, WrittenAreTyped
<1> QED BY <1>2, <1>3, LenProperties

(* A key with a bracket, or with a dot, or an empty one can only be read   *)
(* from between brackets.                                                  *)
LEMMA OddKeyIsOpened ==
  ASSUME NEW steps, NEW f, NEW g, NEW read, Returns(steps, f, g, read),
         NEW j \in 1..Len(steps), steps[j].kind = "key", ~IsRun(steps[j].key)
  PROVE  \E q \in 1..Len(f[Len(steps)]) :
           /\ OpensAs(f[Len(steps)], g, q, j)
           /\ steps[j].key = Bracketed(f[Len(steps)], q)
<1> DEFINE path == f[Len(steps)]
<1>1. path \in Seq(Symbols)
  BY PathIsTyped
<1>2. /\ Scans(g, path) /\ read = Cut(g[Len(path)]).segments
      /\ j \in 1..Len(read) /\ read[j] = steps[j].key
  BY DEF Returns
<1> HIDE DEF path
<1>3. Origins(path, g, Len(path), read)
  BY <1>1, <1>2, ReadOrigins
<1>4. IsOpened(path, g, Len(path), j, read[j])
  BY <1>2, <1>3 DEF Origins
<1>5. PICK q \in 1..Len(path) :
        Opens(path, g[q - 1], q) /\ Len(g[q].segments) = j /\ read[j] = Bracketed(path, q)
  BY <1>4 DEF IsOpened
<1>6. OpensAs(path, g, q, j) /\ steps[j].key = Bracketed(path, q)
  BY <1>2, <1>5 DEF OpensAs
<1> QED BY <1>6 DEF path

LEMMA BracketIsOdd ==
  ASSUME NEW key, NEW x \in 1..Len(key), key[x] = "["
  PROVE  ~IsRun(key)
<1> SUFFICES ASSUME key \in Seq(Letters) PROVE FALSE
  BY DEF IsRun
<1>1. key[x] \in Letters
  OBVIOUS
<1> QED BY <1>1 DEF Letters

LEMMA EntriesIn ==
  ASSUME NEW S, NEW T, NEW s \in Seq(S), \A x \in 1..Len(s) : s[x] \in T
  PROVE  s \in Seq(T)
<1> DEFINE n == Len(s)
<1>1. n \in Nat /\ s = [x \in 1..n |-> s[x]]
  OBVIOUS
<1> HIDE DEF n
<1>2. s \in [1..n -> T]
  BY <1>1 DEF n
<1> QED BY <1>1, <1>2

LEMMA OpenedInKey ==
  ASSUME NEW steps, NEW f, NEW g, NEW read, Returns(steps, f, g, read),
         NEW q, NEW i, OpensAs(f[Len(steps)], g, q, i), ~IsRun(Bracketed(f[Len(steps)], q))
  PROVE  \E j \in 1..Len(steps) :
           StandsIn(f, j, q) /\ steps[j].kind = "key" /\ HeldAt(steps[j].key, Len(f[j]), q, "[")
<1> DEFINE path == f[Len(steps)]
<1>1. path \in Seq(Symbols) /\ Len(path) \in Nat
  BY PathIsTyped
<1>2. steps \in Seq(Steps) /\ Writes(f, steps)
  BY DEF Returns
<1>3. q \in 1..Len(path) /\ q \in Nat /\ path[q] = "[" /\ Closing(path, q) # {}
  BY <1>1 DEF OpensAs, Opens
<1>4. PICK j \in 1..Len(steps) : Len(f[j - 1]) < q /\ q <= Len(f[j])
  BY <1>2, <1>3, StepAt
<1>5. /\ steps[j].kind = "key" => HeldAt(steps[j].key, Len(f[j]), q, path[q])
      /\ steps[j].kind # "key" => q = Len(f[j - 1]) + 1
  BY <1>2, <1>3, <1>4, BracketInStep
<1>6. steps[j].kind = "key"
  <2> SUFFICES ASSUME steps[j].kind # "key" PROVE FALSE
    OBVIOUS
  <2> DEFINE a == Len(f[j - 1])
             c == Min(Closing(path, q))
             content == Bracketed(path, q)
  <2>1. IsStepAt(steps, f, j, a, Len(f[j]))
    BY <1>2, StepIsWritten
  <2>2. /\ a \in Nat /\ a + 3 <= Len(path) /\ path[a + 3] = "]"
        /\ path[a + 2] \in {"0", "1", "2"} /\ q = a + 1
    BY <1>5, <2>1 DEF IsStepAt
  <2> HIDE DEF path, a
  <2>3. /\ c \in (q + 1)..Len(path) /\ path[c] = "]" /\ content \in Seq(Symbols)
        /\ Len(content) = c - q - 1
        /\ \A x \in 1..(c - q - 1) : content[x] = path[q + x]
    BY <1>1, <1>3, ContentIs
  <2>4. \A y \in (q + 1)..Len(path) : path[y] = "]" => c <= y
    BY <1>1, <1>3, ClosingIs
  <2> HIDE DEF c, content
  <2>5. a + 3 \in (q + 1)..Len(path)
    BY <1>1, <2>2
  <2>6. c <= a + 3
    BY <2>2, <2>4, <2>5
  <2>7. path[a + 2] # "]"
    BY <2>2
  <2>8. c # a + 2
    BY <2>3, <2>7
  <2>9. c = a + 3
    BY <1>1, <2>2, <2>3, <2>6, <2>8
  <2>10. Len(content) = 1 /\ c - q - 1 = 1 /\ q + 1 = a + 2
    BY <2>2, <2>3, <2>9
  <2>11. content[1] = path[a + 2]
    BY <2>3, <2>10
  <2>12. content[1] \in Letters
    BY <2>2, <2>11, SymbolsAre DEF Letters
  <2>13. content \in Seq(Letters)
    <3>1. \A x \in 1..Len(content) : content[x] \in Letters
      BY <2>10, <2>12
    <3> QED BY <2>3, <3>1, EntriesIn
  <2>14. content # << >>
    BY <2>10
  <2> QED BY <2>13, <2>14 DEF IsRun, content, path
<1>7. HeldAt(steps[j].key, Len(f[j]), q, "[")
  BY <1>3, <1>5, <1>6
<1> QED BY <1>4, <1>6, <1>7 DEF StandsIn

(* A bracket opens behind the one before.                                  *)
LEMMA OpenersInOrder ==
  ASSUME NEW path \in Seq(Symbols), NEW g, Scans(g, path), NEW q, NEW i, OpensAs(path, g, q, i),
         NEW r, NEW j, OpensAs(path, g, r, j), i < j
  PROVE  Min(Closing(path, q)) < r
<1> DEFINE last == g[r - 1]
           read == g[q]
           next == g[r]
           l == Len(path)
<1>1. /\ q \in 1..l /\ r \in 1..l /\ Opens(path, g[q - 1], q) /\ Opens(path, last, r)
      /\ Len(read.segments) = i /\ Len(next.segments) = j
  BY DEF OpensAs
<1>2. l \in Nat /\ q \in Nat /\ r \in Nat /\ q \in 0..l /\ r \in 0..l /\ q - 1 \in 0..l /\ r - 1 \in 0..l
  BY <1>1, LenProperties
<1>3. \A k \in 0..l : g[k] \in Scanners
  BY ScansAreTyped
<1>4. read \in Scanners /\ last \in Scanners /\ next \in Scanners
  BY <1>2, <1>3
<1>5. i \in Nat /\ j \in Nat
  BY <1>1, <1>4 DEF Scanners
<1>6. q < r
  <2> SUFFICES ASSUME r <= q PROVE FALSE
    BY <1>2
  <2>1. q \in r..l
    BY <1>1, <1>2
  <2>2. Onward(next, read)
    BY <1>2, <2>1, ScansGoOn
  <2>3. j <= i
    BY <1>1, <2>2 DEF Onward
  <2> QED BY <1>5, <2>3
<1>7. Onward(read, last)
  <2>1. r - 1 \in q..l
    BY <1>1, <1>2, <1>6
  <2> QED BY <1>2, <2>1, ScansGoOn
<1>8. read.upTo = Min(Closing(path, q))
  <2>1. g[q - 1] \in Scanners /\ read = Look(path, g[q - 1], q)
    BY <1>1, <1>2, <1>3 DEF Scans
  <2> QED BY <1>1, <2>1, LookOpens
<1>9. read.upTo <= last.upTo /\ last.upTo < r
  BY <1>1, <1>2, <1>7 DEF Onward, Opens
<1>10. read.upTo \in Nat /\ last.upTo \in Nat
  BY <1>4 DEF Scanners
<1> HIDE DEF read, last
<1>11. read.upTo < r
  BY <1>2, <1>9, <1>10
<1> QED BY <1>8, <1>11

LEMMA HoldsNoClosing ==
  ASSUME NEW path \in Seq(Symbols), NEW g, NEW q, NEW i, OpensAs(path, g, q, i)
  PROVE  \A x \in 1..Len(Bracketed(path, q)) : Bracketed(path, q)[x] # "]"
<1> DEFINE c == Min(Closing(path, q))
           content == Bracketed(path, q)
<1>1. q \in 1..Len(path) /\ q \in Nat /\ Closing(path, q) # {} /\ Len(path) \in Nat
  BY LenProperties DEF OpensAs, Opens
<1>2. /\ c \in (q + 1)..Len(path)
      /\ \A j \in (q + 1)..(c - 1) : path[j] # "]"
      /\ Len(content) = c - q - 1
      /\ \A x \in 1..(c - q - 1) : content[x] = path[q + x]
  BY <1>1, ContentIs
<1> HIDE DEF c, content
<1>3. ASSUME NEW x \in 1..Len(content) PROVE content[x] # "]"
  <2>1. x \in 1..(c - q - 1) /\ q + x \in (q + 1)..(c - 1)
    BY <1>1, <1>2
  <2> QED BY <1>2, <2>1
<1> QED BY <1>3 DEF content

(* If a bracket that opens in a key is segment i, no later key is          *)
(* one that holds a bracket: it would be read from behind one that opens   *)
(* later still, and so on.                                                 *)
LateOpener(steps, f, g, j) ==
  /\ j \in 1..Len(steps) /\ steps[j].kind = "key"
  /\ \E q \in 1..Len(f[Len(steps)]), i \in 1..(j - 1) :
       OpensAs(f[Len(steps)], g, q, i) /\ StandsIn(f, j, q)

(* A key that holds a bracket behind the opening of an earlier segment is  *)
(* read from a bracket that opens behind the key.                          *)
LEMMA OpenedBehind ==
  ASSUME NEW steps, NEW f, NEW g, NEW read, Returns(steps, f, g, read),
         NEW j \in 1..Len(steps), steps[j].kind = "key",
         NEW x \in 1..Len(steps[j].key), steps[j].key[x] = "[",
         NEW q, NEW i, OpensAs(f[Len(steps)], g, q, i), i < j,
         Min(Closing(f[Len(steps)], q)) > Len(f[j - 1])
  PROVE  \E k \in (j + 1)..Len(steps) : LateOpener(steps, f, g, k)
<1> DEFINE path == f[Len(steps)]
           key == steps[j].key
           c == Min(Closing(path, q))
<1>1. path \in Seq(Symbols) /\ Len(path) \in Nat /\ Len(steps) \in Nat
  BY PathIsTyped
<1>2. steps \in Seq(Steps) /\ Writes(f, steps) /\ Scans(g, path)
  BY DEF Returns
<1>3. ~IsRun(key)
  BY BracketIsOdd
<1>4. PICK r \in 1..Len(path) : OpensAs(path, g, r, j) /\ key = Bracketed(path, r)
  BY <1>3, OddKeyIsOpened
<1>5. c < r
  BY <1>1, <1>2, <1>4, OpenersInOrder
<1>6. \A y \in 1..Len(key) : key[y] # "]"
  BY <1>1, <1>4, HoldsNoClosing
<1>7. c \in 1..Len(path) /\ path[c] = "]"
  <2>1. q \in 1..Len(path) /\ Closing(path, q) # {}
    BY DEF OpensAs, Opens
  <2>2. c \in (q + 1)..Len(path) /\ path[c] = "]"
    BY <1>1, <2>1, ClosingIs
  <2> HIDE DEF c
  <2> QED BY <1>1, <2>1, <2>2
<1>8. c > Len(f[j])
  <2> SUFFICES ASSUME c <= Len(f[j]) PROVE FALSE
    <3>1. Len(f[j]) \in Nat
      BY <1>2, StepIsWritten DEF IsStepAt
    <3> HIDE DEF c
    <3> QED BY <1>1, <1>7, <3>1
  <2>1. c \in Nat /\ path[c] \in {"[", "]"}
    BY <1>1, <1>7
  <2> HIDE DEF c
  <2>2. HeldAt(key, Len(f[j]), c, path[c])
    <3>1. Len(f[j - 1]) < c
      BY DEF c
    <3> QED BY <1>2, <2>1, <3>1, BracketInStep
  <2> QED BY <1>6, <1>7, <2>2 DEF HeldAt
<1>9. PICK k \in 1..Len(steps) : StandsIn(f, k, r) /\ steps[k].kind = "key"
  BY <1>3, <1>4, OpenedInKey
<1>10. k > j
  <2> SUFFICES ASSUME k <= j PROVE FALSE
    BY <1>1
  <2>1. j \in k..Len(steps) /\ k \in 0..Len(steps)
    BY <1>1
  <2>2. Len(f[k]) <= Len(f[j]) /\ Len(f[k]) \in Nat /\ Len(f[j]) \in Nat
    BY <1>2, <2>1, LengthsGrow
  <2>3. r <= Len(f[k])
    BY <1>9 DEF StandsIn
  <2> HIDE DEF c
  <2> QED BY <1>1, <1>5, <1>7, <1>8, <2>2, <2>3
<1>11. k \in (j + 1)..Len(steps) /\ j \in 1..(k - 1)
  BY <1>1, <1>10
<1>12. LateOpener(steps, f, g, k)
  BY <1>4, <1>9, <1>11 DEF LateOpener
<1> QED BY <1>11, <1>12

LEMMA NoLateOpener ==
  ASSUME NEW steps, NEW f, NEW g, NEW read, Returns(steps, f, g, read), NEW j
  PROVE  ~LateOpener(steps, f, g, j)
<1> DEFINE n == Len(steps)
           late == {k \in 1..n : LateOpener(steps, f, g, k)}
           last == Max(late)
<1> SUFFICES ASSUME LateOpener(steps, f, g, j) PROVE FALSE
  OBVIOUS
<1>1. n \in Nat
  BY PathIsTyped
<1>2. j \in late
  BY DEF LateOpener
<1>3. late \subseteq 0..n /\ late # {}
  BY <1>1, <1>2
<1>4. last \in late /\ \A k \in late : k <= last
  BY <1>1, <1>3, MaxOfBounded
<1> HIDE DEF last
<1>5. last \in 1..n /\ LateOpener(steps, f, g, last)
  BY <1>4
<1> DEFINE path == f[n]
<1>6. PICK q \in 1..Len(path), i \in 1..(last - 1) : OpensAs(path, g, q, i) /\ StandsIn(f, last, q)
  BY <1>5 DEF LateOpener
<1>7. steps[last].kind = "key" /\ i < last
  BY <1>1, <1>5, <1>6 DEF LateOpener
<1>8. steps \in Seq(Steps) /\ Writes(f, steps) /\ path \in Seq(Symbols) /\ Len(path) \in Nat
  BY PathIsTyped DEF Returns
<1>9. path[q] = "[" /\ Closing(path, q) # {} /\ q \in Nat
  BY <1>6, <1>8 DEF OpensAs, Opens
<1>10. PICK x \in 1..Len(steps[last].key) : steps[last].key[x] = "["
  <2>1. Len(f[last - 1]) < q /\ q <= Len(f[last]) /\ path[q] \in {"[", "]"}
    BY <1>6, <1>9 DEF StandsIn
  <2>2. HeldAt(steps[last].key, Len(f[last]), q, path[q])
    BY <1>5, <1>7, <1>8, <1>9, <2>1, BracketInStep
  <2> QED BY <1>9, <2>2 DEF HeldAt
<1>11. Min(Closing(path, q)) > Len(f[last - 1])
  <2> DEFINE c == Min(Closing(path, q))
  <2>1. c \in (q + 1)..Len(path)
    BY <1>6, <1>8, <1>9, ClosingIs
  <2>2. Len(f[last - 1]) \in Nat
    BY <1>5, <1>8, StepIsWritten DEF IsStepAt
  <2>3. Len(f[last - 1]) < q
    BY <1>6 DEF StandsIn
  <2> HIDE DEF c
  <2> QED BY <1>8, <1>9, <2>1, <2>2, <2>3 DEF c
<1>12. PICK k \in (last + 1)..n : LateOpener(steps, f, g, k)
  BY <1>5, <1>6, <1>7, <1>10, <1>11, OpenedBehind
<1>13. k \in late /\ ~(k <= last)
  BY <1>1, <1>5, <1>12
<1> QED BY <1>4, <1>13

(* The loop has taken the steps before the m-th, each for one segment.     *)
InStep(steps, f, g, m) ==
  /\ m \in 2..Len(steps) /\ steps[m].kind = "key"
  /\ g[Len(f[m - 1])] \in Scanners /\ g[Len(f[m - 1])].upTo <= Len(f[m - 1])
  /\ Len(Cut(g[Len(f[m - 1])]).segments) = m - 1

(* The dot ends the segment before.                                        *)
IsBehindDot(path, g, a, m) ==
  /\ a \in Nat /\ a + 1 \in 1..Len(path) /\ g[a + 1] \in Scanners
  /\ g[a + 1].current = << >> /\ g[a + 1].upTo <= a
  /\ Len(g[a + 1].segments) = m - 1

LEMMA BehindDot ==
  ASSUME NEW steps, NEW f, NEW g, NEW read, Returns(steps, f, g, read),
         NEW m, InStep(steps, f, g, m)
  PROVE  IsBehindDot(f[Len(steps)], g, Len(f[m - 1]), m)
<1> DEFINE path == f[Len(steps)]
           a == Len(f[m - 1])
           scan == g[a]
           i == a + 1
<1>1. path \in Seq(Symbols) /\ Len(path) \in Nat /\ Len(steps) \in Nat
  BY PathIsTyped
<1>2. steps \in Seq(Steps) /\ Writes(f, steps) /\ Scans(g, path)
  BY DEF Returns
<1>3. /\ m \in 1..Len(steps) /\ m # 1 /\ steps[m].kind = "key"
      /\ scan \in Scanners /\ scan.upTo <= a /\ Len(Cut(scan).segments) = m - 1
  BY <1>1 DEF InStep
<1>4. IsStepAt(steps, f, m, a, Len(f[m]))
  BY <1>2, <1>3, StepIsWritten
<1>5. a \in Nat /\ Len(steps[m].key) \in Nat /\ a + 1 + Len(steps[m].key) <= Len(path) /\ path[a + 1] = "."
  <2>1. steps[m].key \in Seq(Symbols)
    BY <1>3, <1>4 DEF IsStepAt
  <2>2. Len(steps[m].key) \in Nat
    BY <2>1, LenProperties
  <2> QED BY <1>3, <1>4, <2>2 DEF IsStepAt
<1>6. scan.upTo \in Nat
  BY <1>3 DEF Scanners
<1>7. i \in Nat /\ i \in 1..Len(path) /\ i - 1 = a /\ i > scan.upTo /\ path[i] = "."
  <2> DEFINE l == Len(steps[m].key)
             u == scan.upTo
  <2>1. u <= a /\ u \in Nat /\ l \in Nat /\ a + 1 + l <= Len(path)
    BY <1>3, <1>5, <1>6
  <2> HIDE DEF a, path, l, u
  <2>2. i \in Nat /\ i \in 1..Len(path) /\ i - 1 = a /\ i > u
    BY <1>1, <1>5, <2>1
  <2> QED BY <1>5, <2>2 DEF u
<1>8. g[i] = Look(path, scan, i)
  BY <1>2, <1>7 DEF Scans
<1> HIDE DEF scan, i
<1>9. g[i] = Cut(scan)
  BY <1>3, <1>7, <1>8, LookAtDot
<1>10. g[i] \in Scanners /\ g[i].current = << >> /\ g[i].upTo = scan.upTo
  BY <1>3, <1>9, CutIs
<1>11. g[i].upTo <= a /\ Len(g[i].segments) = m - 1
  BY <1>3, <1>9, <1>10
<1> QED BY <1>5, <1>7, <1>10, <1>11 DEF IsBehindDot, i

(* What stands before the bracket in a key that is read from behind it is  *)
(* no segment of its own.                                                  *)
LEMMA OnlyDotsBefore ==
  ASSUME NEW path \in Seq(Symbols), NEW g, Scans(g, path), NEW a, NEW m, IsBehindDot(path, g, a, m),
         NEW q, OpensAs(path, g, q, m), NEW y \in (a + 2)..(q - 1)
  PROVE  path[y] \in {".", "["}
<1> DEFINE l == Len(path)
           first == g[a + 1]
           before == g[y - 1]
           after == g[y]
           last == g[q - 1]
<1>1. l \in Nat /\ a \in Nat /\ q \in 1..l /\ q \in Nat
  BY LenProperties DEF IsBehindDot, OpensAs
<1>2. /\ y \in Nat /\ y \in 1..l /\ y \in 0..l /\ y - 1 \in 0..l /\ a + 1 \in 0..l /\ q - 1 \in 0..l
      /\ y - 1 \in (a + 1)..l /\ q - 1 \in y..l /\ q - 1 \in (y - 1)..l /\ q - 1 \in Nat
  BY <1>1
<1>3. first \in Scanners /\ before \in Scanners /\ after \in Scanners /\ last \in Scanners
  BY <1>2, ScansAreTyped
<1>4. first.upTo <= a /\ Len(first.segments) = m - 1
  BY DEF IsBehindDot
<1>5. Onward(first, before) /\ Onward(before, last) /\ Onward(after, last)
  BY <1>2, ScansGoOn
<1>6. Len(Cut(last).segments) = m - 1 /\ m \in Nat
  <2>1. Opens(path, last, q) /\ Len(g[q].segments) = m /\ g[q] = Look(path, last, q)
    BY <1>1 DEF OpensAs, Scans
  <2>2. IsTaking(path, last, q, Look(path, last, q), Len(Cut(last).segments))
    BY <1>1, <1>3, <2>1, OpeningTakes
  <2> HIDE DEF last
  <2> QED BY <2>1, <2>2 DEF IsTaking
<1>7. after = Look(path, before, y)
  BY <1>2 DEF Scans
<1> HIDE DEF first, before, after, last
<1>8. /\ Len(first.segments) <= Len(before.segments)
      /\ Len(before.segments) <= Len(Cut(before).segments)
      /\ Len(Cut(before).segments) <= Len(Cut(last).segments)
      /\ Len(Cut(after).segments) <= Len(Cut(last).segments)
      /\ Len(first.segments) = Len(before.segments) => before.upTo = first.upTo
  <2>1. Len(before.segments) <= Len(Cut(before).segments)
    BY <1>3, CutParts
  <2> QED BY <1>5, <2>1 DEF Onward
<1>9. Len(before.segments) \in Nat /\ Len(Cut(before).segments) \in Nat /\ before.upTo \in Nat
  <2>1. Cut(before).segments \in Seq(Seq(Symbols))
    BY <1>3, CutParts
  <2> QED BY <1>3, <2>1, LenProperties DEF Scanners
<1>10. Len(before.segments) = m - 1
  BY <1>4, <1>6, <1>8, <1>9
<1>11. y > before.upTo
  <2>1. before.upTo <= a
    BY <1>4, <1>8, <1>10
  <2> QED BY <1>1, <1>2, <1>9, <2>1
<1> SUFFICES ASSUME path[y] \notin {".", "["} PROVE FALSE
  OBVIOUS
<1> DEFINE runes == Runes(path[y])
           current == before.current
<1>12. Adds(path, before, y)
  BY <1>11 DEF Adds
<1>13. /\ after = [before EXCEPT !.current = @ \o runes] /\ after \in Scanners
       /\ runes \in Seq(Letters) /\ Len(runes) >= 1
  BY <1>2, <1>3, <1>7, <1>12, LookAdds, RunesAre
<1>14. after.segments = before.segments /\ after.current = current \o runes /\ current \in Seq(Symbols)
  BY <1>3, <1>13 DEF Scanners
<1> HIDE DEF runes, current
<1>15. current \o runes # << >>
  <2>1. runes \in Seq(Symbols)
    BY <1>13 DEF Letters
  <2>2. Len(current \o runes) = Len(current) + Len(runes) /\ Len(current) \in Nat /\ Len(runes) \in Nat
    BY <1>14, <2>1
  <2>3. Len(current \o runes) # 0
    BY <1>13, <2>2
  <2> QED BY <2>3
<1>16. Len(Cut(after).segments) = (m - 1) + 1
  <2> DEFINE k == Len(after.segments)
  <2>1. k = m - 1
    BY <1>10, <1>14
  <2>2. k = Len(after.segments) /\ after.current # << >>
    BY <1>14, <1>15
  <2> HIDE DEF k
  <2>3. Len(Cut(after).segments) = k + 1
    BY <1>3, <2>2, CutParts
  <2> QED BY <2>1, <2>3
<1> QED BY <1>6, <1>8, <1>16

(* A key is read back from behind a bracket of its own only if it ends in  *)
(* an index: its symbols recur at the distance of the bracket from its     *)
(* beginning, and those before the bracket are no letters.                 *)
LEMMA PeriodicKey ==
  ASSUME NEW key, Len(key) \in Nat, NEW b \in 1..Len(key),
         \A x \in 1..b : key[x] \in {".", "["},
         \A x \in (b + 1)..Len(key) : key[x] = key[x - b]
  PROVE  \A x \in 1..Len(key) : key[x] \in {".", "["}
<1> DEFINE l == Len(key)
           odd == {x \in 1..l : key[x] \notin {".", "["}}
<1> SUFFICES ASSUME odd # {} PROVE FALSE
  OBVIOUS
<1>1. l \in Nat /\ b \in 1..l
  OBVIOUS
<1>2. odd \in SUBSET Nat
  BY <1>1
<1>3. PICK x \in odd : \A y \in odd : x <= y
  BY <1>2, LeastOf
<1>4. x \in 1..l /\ key[x] \notin {".", "["}
  BY <1>3
<1>5. x \notin 1..b
  BY <1>4
<1>6. x \in (b + 1)..l /\ x - b \in 1..l /\ ~(x <= x - b)
  BY <1>1, <1>4, <1>5
<1>7. key[x - b] = key[x]
  BY <1>6
<1>8. x - b \in odd
  BY <1>4, <1>6, <1>7
<1> QED BY <1>3, <1>6, <1>8

(* The last bracket of a key that is read from behind a bracket of its own *)
(* recurs behind the key.  If that is in another key, it opens too late.   *)
LEMMA RecursInItem ==
  ASSUME NEW steps, NEW f, NEW g, NEW read, Returns(steps, f, g, read),
         NEW m \in 1..Len(steps), NEW q, OpensAs(f[Len(steps)], g, q, m),
         NEW r, r \in (q + 1)..(Min(Closing(f[Len(steps)], q)) - 1), r > Len(f[m]),
         f[Len(steps)][r] = "["
  PROVE  /\ Min(Closing(f[Len(steps)], q)) = r + 2
         /\ f[Len(steps)][r + 1] \in {"0", "1", "2"}
<1> DEFINE path == f[Len(steps)]
           c == Min(Closing(path, q))
<1>1. path \in Seq(Symbols) /\ Len(path) \in Nat /\ Len(steps) \in Nat
  BY PathIsTyped
<1>2. steps \in Seq(Steps) /\ Writes(f, steps) /\ Scans(g, path)
  BY DEF Returns
<1>3. q \in 1..Len(path) /\ q \in Nat /\ Closing(path, q) # {}
  BY <1>1 DEF OpensAs, Opens
<1>4. /\ c \in (q + 1)..Len(path) /\ path[c] = "]"
      /\ \A y \in (q + 1)..Len(path) : path[y] = "]" => c <= y
  BY <1>1, <1>3, ClosingIs
<1>5. r \in (q + 1)..(c - 1) /\ path[r] = "["
  OBVIOUS
<1> HIDE DEF c
<1>6. r \in 1..Len(path) /\ r \in Nat /\ r < c
  BY <1>1, <1>3, <1>4, <1>5
<1>7. PICK j \in 1..Len(steps) : Len(f[j - 1]) < r /\ r <= Len(f[j])
  BY <1>2, <1>6, StepAt
<1>8. m < j
  <2> SUFFICES ASSUME j <= m PROVE FALSE
    BY <1>1
  <2>1. m \in j..Len(steps) /\ j \in 0..Len(steps)
    BY <1>1
  <2>2. Len(f[j]) <= Len(f[m]) /\ Len(f[j]) \in Nat /\ Len(f[m]) \in Nat
    BY <1>2, <2>1, LengthsGrow
  <2> HIDE DEF path
  <2> QED BY <1>6, <1>7, <2>2
<1>9. /\ steps[j].kind = "key" => HeldAt(steps[j].key, Len(f[j]), r, path[r])
      /\ steps[j].kind # "key" => r = Len(f[j - 1]) + 1
  BY <1>2, <1>5, <1>6, <1>7, BracketInStep
<1>10. steps[j].kind # "key"
  <2> SUFFICES ASSUME steps[j].kind = "key" PROVE FALSE
    OBVIOUS
  <2>1. PICK x \in 1..Len(steps[j].key) : steps[j].key[x] = "["
    BY <1>5, <1>9 DEF HeldAt
  <2>2. c > Len(f[j - 1])
    <3>1. Len(f[j - 1]) \in Nat
      BY <1>2, StepIsWritten DEF IsStepAt
    <3>2. c \in Nat
      BY <1>3, <1>4
    <3> HIDE DEF path
    <3> QED BY <1>6, <1>7, <3>1, <3>2
  <2>3. \E k \in (j + 1)..Len(steps) : LateOpener(steps, f, g, k)
    BY <1>8, <2>1, <2>2, OpenedBehind DEF c
  <2> QED BY <2>3, NoLateOpener
<1> DEFINE a == Len(f[j - 1])
<1>11. a \in Nat /\ a + 3 <= Len(path) /\ path[a + 3] = "]" /\ path[a + 2] \in {"0", "1", "2"} /\ r = a + 1
  <2>1. IsStepAt(steps, f, j, a, Len(f[j]))
    BY <1>2, StepIsWritten
  <2> QED BY <1>9, <1>10, <2>1 DEF IsStepAt
<1> HIDE DEF a, path
<1>12. c <= a + 3
  <2>1. a + 3 \in (q + 1)..Len(path)
    BY <1>1, <1>3, <1>5, <1>11
  <2> QED BY <1>4, <1>11, <2>1
<1>13. c # a + 2
  BY <1>4, <1>11
<1>14. c = r + 2 /\ r + 1 = a + 2
  BY <1>1, <1>3, <1>4, <1>6, <1>11, <1>12, <1>13
<1> QED BY <1>11, <1>14 DEF c, path

LEMMA KeyIsRun ==
  ASSUME NEW steps, NEW f, NEW g, NEW read, Returns(steps, f, g, read),
         NEW m, InStep(steps, f, g, m)
  PROVE  IsRun(steps[m].key)
<1> DEFINE path == f[Len(steps)]
           key == steps[m].key
           a == Len(f[m - 1])
           l == Len(key)
<1> SUFFICES ASSUME ~IsRun(key) PROVE FALSE
  OBVIOUS
<1>1. path \in Seq(Symbols) /\ Len(path) \in Nat /\ Len(steps) \in Nat
  BY PathIsTyped
<1>2. steps \in Seq(Steps) /\ Writes(f, steps) /\ Scans(g, path)
  BY DEF Returns
<1>3. m \in 2..Len(steps) /\ m \in 1..Len(steps) /\ m \in Nat /\ m # 1 /\ steps[m].kind = "key"
  BY <1>1 DEF InStep
<1>4. IsBehindDot(path, g, a, m)
  BY BehindDot
<1>5. PICK q \in 1..Len(path) : OpensAs(path, g, q, m) /\ key = Bracketed(path, q)
  BY <1>3, OddKeyIsOpened
<1>6. /\ key \in Seq(Symbols) /\ Len(f[m]) = a + 1 + l /\ a \in Nat
      /\ \A x \in 1..l : path[Len(f[m]) - l + x] = key[x]
  <2>1. IsStepAt(steps, f, m, a, Len(f[m]))
    BY <1>2, <1>3, StepIsWritten
  <2> QED BY <1>3, <2>1 DEF IsStepAt
<1>7. l \in Nat
  BY <1>6, LenProperties
<1>8. \A x \in 1..l : path[a + 1 + x] = key[x]
  <2> TAKE x \in 1..l
  <2>1. Len(f[m]) - l + x = a + 1 + x
    <3> HIDE DEF a, l
    <3> QED BY <1>6, <1>7
  <2> QED BY <1>6, <2>1
(* The bracket is one of the key.                                          *)
<1>9. a < q
  <2> SUFFICES ASSUME q <= a PROVE FALSE
    <3> HIDE DEF a, path
    <3> QED BY <1>5, <1>6
  <2>1. a \in q..Len(path) /\ q \in 0..Len(path) /\ q \in Nat
    <3> HIDE DEF path
    <3> QED BY <1>1, <1>4, <1>5 DEF IsBehindDot
  <2>2. Onward(g[q], g[a])
    BY <1>1, <1>2, <2>1, ScansGoOn
  <2>3. g[a] \in Scanners /\ Len(Cut(g[a]).segments) = m - 1
    BY DEF InStep
  <2>4. Len(g[a].segments) <= m - 1 /\ Len(g[a].segments) \in Nat
    BY <2>3, CutParts
  <2>5. m <= Len(g[a].segments)
    BY <1>5, <2>2 DEF OpensAs, Onward
  <2> QED BY <1>3, <2>4, <2>5
<1>10. PICK j \in 1..Len(steps) :
         StandsIn(f, j, q) /\ steps[j].kind = "key" /\ HeldAt(steps[j].key, Len(f[j]), q, "[")
  BY <1>5, OpenedInKey
<1>11. m <= j
  <2> SUFFICES ASSUME j <= m - 1 PROVE FALSE
    BY <1>1, <1>3
  <2>1. m - 1 \in j..Len(steps) /\ j \in 0..Len(steps)
    BY <1>1, <1>3
  <2>2. Len(f[j]) <= a /\ Len(f[j]) \in Nat
    BY <1>2, <2>1, LengthsGrow
  <2>3. q <= Len(f[j])
    BY <1>10 DEF StandsIn
  <2> HIDE DEF a, path
  <2> QED BY <1>5, <1>6, <1>9, <2>2, <2>3
<1>12. j = m
  <2> SUFFICES ASSUME m < j PROVE FALSE
    BY <1>1, <1>3, <1>11
  <2>1. m \in 1..(j - 1)
    BY <1>1, <1>3
  <2>2. LateOpener(steps, f, g, j)
    BY <1>5, <1>10, <2>1 DEF LateOpener
  <2> QED BY <2>2, NoLateOpener
<1>13. PICK b \in 1..l : q = a + 1 + b /\ key[b] = "["
  <2>1. PICK x \in 1..l : q = Len(f[m]) - l + x /\ key[x] = "["
    BY <1>10, <1>12 DEF HeldAt
  <2>2. q = a + 1 + x
    <3> HIDE DEF a, l, path
    <3> QED BY <1>6, <1>7, <2>1
  <2> QED BY <2>1, <2>2
<1> DEFINE c == Min(Closing(path, q))
<1>14. /\ c \in (q + 1)..Len(path) /\ l = c - q - 1
       /\ \A x \in 1..(c - q - 1) : key[x] = path[q + x]
  <2>1. Closing(path, q) # {}
    BY <1>5 DEF OpensAs, Opens
  <2> QED BY <1>1, <1>5, <2>1, ContentIs
<1>15. c = q + l + 1 /\ q \in Nat /\ \A x \in 1..l : key[x] = path[q + x]
  <2> HIDE DEF c, l, path, key
  <2>1. q \in Nat /\ c \in Int /\ l = c - q - 1
    BY <1>1, <1>5, <1>14
  <2>2. c = q + l + 1 /\ c - q - 1 = l
    BY <2>1
  <2> QED BY <1>14, <2>1, <2>2
(* Its last bracket recurs behind it.                                      *)
<1> DEFINE brackets == {x \in 1..l : key[x] = "["}
           z == Max(brackets)
<1>16. z \in 1..l /\ key[z] = "[" /\ \A x \in 1..l : key[x] = "[" => x <= z
  <2>1. brackets \subseteq 0..l /\ brackets # {}
    BY <1>7, <1>13
  <2>2. z \in brackets /\ \A x \in brackets : x <= z
    BY <1>7, <2>1, MaxOfBounded
  <2> HIDE DEF z
  <2> QED BY <2>2
<1> HIDE DEF z, c, a, l
<1> DEFINE r == q + z
<1>17. r \in (q + 1)..(c - 1) /\ path[r] = "["
  BY <1>7, <1>15, <1>16
<1>18. r > Len(f[m])
  <2> SUFFICES ASSUME r <= Len(f[m]) PROVE FALSE
    BY <1>6, <1>7, <1>15, <1>16
  <2>1. b + z \in 1..l /\ a + 1 + (b + z) = r
    BY <1>6, <1>7, <1>13, <1>16
  <2>2. key[b + z] = "["
    BY <1>8, <1>17, <2>1
  <2> QED BY <1>7, <1>13, <1>16, <2>1, <2>2
<1>19. c = r + 2 /\ path[r + 1] \in {"0", "1", "2"}
  <2> HIDE DEF r
  <2>1. /\ Min(Closing(f[Len(steps)], q)) = r + 2
        /\ f[Len(steps)][r + 1] \in {"0", "1", "2"}
    BY <1>3, <1>5, <1>17, <1>18, RecursInItem DEF c
  <2> QED BY <2>1 DEF c
<1>20. key[l] \in {"0", "1", "2"} /\ l \in 1..l
  <2>1. l \in 1..l
    BY <1>7, <1>13
  <2>2. r + 1 = q + l
    <3>1. c = r + 2 /\ c = q + l + 1 /\ r \in Nat /\ q \in Nat
      BY <1>7, <1>15, <1>16, <1>19
    <3> HIDE DEF r, path, key
    <3> QED BY <1>7, <3>1
  <2> QED BY <1>15, <1>19, <2>1, <2>2
(* But its symbols are none but dots and brackets.                         *)
<1>24. a \in Nat /\ l \in Nat /\ b \in Nat /\ 1 <= b /\ b <= l /\ q = a + 1 + b
  <2>1. a \in Nat /\ l \in Nat /\ b \in 1..l /\ q = a + 1 + b
    BY <1>6, <1>7, <1>13
  <2> QED BY <2>1
<1>21. \A x \in 1..b : key[x] \in {".", "["}
  <2> TAKE x \in 1..b
  <2>1. CASE x = b
    BY <1>13, <2>1
  <2>2. CASE x # b
    <3> DEFINE y == a + 1 + x
    <3>1. y \in (a + 2)..(q - 1) /\ x \in 1..l
      BY <1>24, <2>2
    <3>2. path[y] = key[x]
      BY <1>8, <3>1
    <3> HIDE DEF y, path
    <3>3. path[y] \in {".", "["}
      BY <1>1, <1>2, <1>4, <1>5, <3>1, OnlyDotsBefore
    <3> QED BY <3>2, <3>3
  <2> QED BY <2>1, <2>2
<1>22. \A x \in (b + 1)..l : key[x] = key[x - b]
  <2> TAKE x \in (b + 1)..l
  <2>1. x \in 1..l /\ x - b \in 1..l /\ a + 1 + x = q + (x - b)
    BY <1>24
  <2> QED BY <1>8, <1>15, <2>1
<1>23. \A x \in 1..l : key[x] \in {".", "["}
  <2> HIDE DEF key
  <2> QED BY <1>7, <1>13, <1>21, <1>22, PeriodicKey DEF l
<1> QED BY <1>20, <1>23

(* A letter makes what is under way longer, a wide one by more than one.   *)
LEMMA LetterIsAdded ==
  ASSUME NEW path \in Seq(Symbols), NEW scan \in Scanners, NEW i \in 1..Len(path),
         i > scan.upTo, path[i] \in Letters, NEW read, read = Look(path, scan, i)
  PROVE  /\ read.segments = scan.segments /\ read.upTo = scan.upTo
         /\ Len(scan.current) + 1 <= Len(read.current)
         /\ path[i] \in DOMAIN Wide => Len(scan.current) + 1 < Len(read.current)
<1> DEFINE runes == Runes(path[i])
           current == scan.current
<1>1. Adds(path, scan, i)
  BY DEF Adds, Letters
<1>2. read = [scan EXCEPT !.current = @ \o runes]
  BY <1>1, LookAdds
<1>3. runes \in Seq(Symbols) /\ Len(runes) >= 1 /\ (path[i] \in DOMAIN Wide => Len(runes) > 1)
  <2>1. runes \in Seq(Letters) /\ Len(runes) >= 1 /\ (path[i] \in DOMAIN Wide => Len(runes) > 1)
    BY RunesAre
  <2> HIDE DEF runes
  <2> QED BY <2>1 DEF Letters
<1>4. /\ read.segments = scan.segments /\ read.upTo = scan.upTo
      /\ read.current = current \o runes /\ current \in Seq(Symbols)
  BY <1>2 DEF Scanners
<1> HIDE DEF runes, current
<1>5. Len(read.current) = Len(current) + Len(runes) /\ Len(current) \in Nat /\ Len(runes) \in Nat
  BY <1>3, <1>4
<1>6. /\ Len(current) + 1 <= Len(read.current)
      /\ Len(runes) > 1 => Len(current) + 1 < Len(read.current)
  BY <1>3, <1>5
<1> QED BY <1>3, <1>4, <1>6 DEF current

(* As long as the key, and longer behind a wide letter.                    *)
HasRead(path, g, a, key, m, h) ==
  /\ Len(g[a + 1 + h].segments) = m - 1 /\ g[a + 1 + h].upTo <= a
  /\ h <= Len(g[a + 1 + h].current)
  /\ \A x \in 1..h : key[x] \in DOMAIN Wide => h < Len(g[a + 1 + h].current)

LEMMA KeyIsTaken ==
  ASSUME NEW path \in Seq(Symbols), NEW g, Scans(g, path), NEW a, NEW m, IsBehindDot(path, g, a, m),
         NEW key \in Seq(Letters), a + 1 + Len(key) <= Len(path),
         \A x \in 1..Len(key) : path[a + 1 + x] = key[x]
  PROVE  HasRead(path, g, a, key, m, Len(key))
<1> DEFINE l == Len(key)
           S == {h \in Nat : h <= l => HasRead(path, g, a, key, m, h)}
<1>1. l \in Nat /\ a \in Nat /\ Len(path) \in Nat
  BY LenProperties DEF IsBehindDot
<1>2. 0 \in S
  <2>1. a + 1 + 0 = a + 1
    BY <1>1
  <2>2. Len(g[a + 1].segments) = m - 1 /\ g[a + 1].upTo <= a /\ g[a + 1].current = << >>
    BY DEF IsBehindDot
  <2>3. 0 <= Len(g[a + 1].current) /\ \A x \in 1..0 : FALSE
    BY <2>2
  <2>4. HasRead(path, g, a, key, m, 0)
    BY <2>1, <2>2, <2>3 DEF HasRead
  <2> QED BY <2>4
<1>3. ASSUME NEW h \in Nat, h \in S PROVE h + 1 \in S
  <2> SUFFICES ASSUME h + 1 <= l PROVE HasRead(path, g, a, key, m, h + 1)
    OBVIOUS
  <2> DEFINE i == a + 1 + (h + 1)
             scan == g[a + 1 + h]
             read == g[i]
             before == Len(scan.current)
             after == Len(read.current)
  <2>1. h <= l /\ i \in 1..Len(path) /\ i \in Nat /\ i - 1 = a + 1 + h /\ a + 1 + h \in 0..Len(path)
        /\ h + 1 \in 1..l /\ i \in 0..Len(path) /\ i > a
    BY <1>1
  <2>2. /\ Len(scan.segments) = m - 1 /\ scan.upTo <= a
        /\ h <= before
        /\ \A x \in 1..h : key[x] \in DOMAIN Wide => h < before
    BY <1>3, <2>1 DEF HasRead
  <2>3. scan \in Scanners /\ read \in Scanners
    BY <2>1, ScansAreTyped
  <2>4. read = Look(path, scan, i)
    BY <2>1 DEF Scans
  <2>5. path[i] = key[h + 1] /\ path[i] \in Letters
    <3>1. key[h + 1] \in Letters
      BY <2>1
    <3> QED BY <2>1, <3>1
  <2>6. before \in Nat /\ after \in Nat /\ scan.upTo \in Nat
    BY <2>3, LenProperties DEF Scanners
  <2> HIDE DEF S
  <2>7. i > scan.upTo
    <3> HIDE DEF i, scan
    <3> QED BY <1>1, <2>1, <2>2, <2>6
  <2>8. /\ read.segments = scan.segments /\ read.upTo = scan.upTo
        /\ before + 1 <= after
        /\ path[i] \in DOMAIN Wide => before + 1 < after
    <3> HIDE DEF i, scan, read
    <3> QED BY <2>1, <2>3, <2>4, <2>5, <2>7, LetterIsAdded
  <2> HIDE DEF before, after
  <2>9. h + 1 <= after
    BY <2>2, <2>6, <2>8
  <2>10. \A x \in 1..(h + 1) : key[x] \in DOMAIN Wide => h + 1 < after
    <3> TAKE x \in 1..(h + 1)
    <3> HAVE key[x] \in DOMAIN Wide
    <3>1. CASE x = h + 1
      <4>1. path[i] \in DOMAIN Wide
        BY <2>5, <3>1
      <4>2. before + 1 < after
        BY <2>8, <4>1
      <4> HIDE DEF i
      <4> QED BY <2>2, <2>6, <4>2
    <3>2. CASE x # h + 1
      <4>1. x \in 1..h
        BY <3>2
      <4>2. h < before
        BY <2>2, <4>1
      <4> HIDE DEF i
      <4> QED BY <2>6, <2>8, <4>2
    <3> QED BY <3>1, <3>2
  <2>11. Len(read.segments) = m - 1 /\ read.upTo <= a
    BY <2>2, <2>8
  <2> QED BY <2>9, <2>10, <2>11 DEF HasRead, after
<1> HIDE DEF S
<1>4. l \in S
  BY <1>1, <1>2, <1>3, AllNumbers
<1> QED BY <1>1, <1>4 DEF S

LEMMA KeyIsNarrow ==
  ASSUME NEW steps, NEW f, NEW g, NEW read, Returns(steps, f, g, read),
         NEW m, InStep(steps, f, g, m), NEW x \in 1..Len(steps[m].key)
  PROVE  steps[m].key[x] \notin DOMAIN Wide
<1> DEFINE path == f[Len(steps)]
           key == steps[m].key
           a == Len(f[m - 1])
           l == Len(key)
           e == a + 1 + l
           end == g[e]
<1> SUFFICES ASSUME key[x] \in DOMAIN Wide PROVE FALSE
  OBVIOUS
<1>1. path \in Seq(Symbols) /\ Len(path) \in Nat /\ Len(steps) \in Nat
  BY PathIsTyped
<1>2. /\ steps \in Seq(Steps) /\ Writes(f, steps) /\ Scans(g, path)
      /\ read = Cut(g[Len(path)]).segments
  BY DEF Returns
<1>3. m \in 2..Len(steps) /\ m \in 1..Len(steps) /\ m \in Nat /\ m # 1 /\ steps[m].kind = "key"
  BY <1>1 DEF InStep
<1>4. IsBehindDot(path, g, a, m)
  BY BehindDot
<1>5. key \in Seq(Letters)
  BY KeyIsRun DEF IsRun
<1>6. /\ Len(f[m]) = a + 1 + l /\ a \in Nat /\ a + 1 + l <= Len(path)
      /\ \A y \in 1..l : path[Len(f[m]) - l + y] = key[y]
  <2>1. IsStepAt(steps, f, m, a, Len(f[m]))
    BY <1>2, <1>3, StepIsWritten
  <2> QED BY <1>3, <2>1 DEF IsStepAt
<1>7. l \in Nat
  BY <1>5, LenProperties
<1>8. \A y \in 1..l : path[a + 1 + y] = key[y]
  <2> TAKE y \in 1..l
  <2>1. Len(f[m]) - l + y = a + 1 + y
    <3> HIDE DEF a, l
    <3> QED BY <1>6, <1>7
  <2> QED BY <1>6, <2>1
<1>9. HasRead(path, g, a, key, m, l)
  <2> HIDE DEF path, a, key
  <2> QED BY <1>1, <1>2, <1>4, <1>5, <1>6, <1>8, KeyIsTaken
<1>10. Len(end.segments) = m - 1 /\ l < Len(end.current)
  BY <1>9 DEF HasRead
<1>11. e \in 0..Len(path) /\ Len(path) \in e..Len(path) /\ Len(path) \in 0..Len(path)
  <2> HIDE DEF path, a, l
  <2> QED BY <1>1, <1>6, <1>7
<1>12. end \in Scanners /\ Onward(end, g[Len(path)])
  BY <1>1, <1>2, <1>11, ScansAreTyped, ScansGoOn
<1> DEFINE cut == Cut(end).segments
<1> HIDE DEF end, l, path
<1>13. end.current # << >>
  <2>1. Len(end.current) # 0
    BY <1>7, <1>10, <1>12 DEF Scanners
  <2> QED BY <2>1
<1>14. Len(cut) = m /\ cut[m] = end.current
  <2> DEFINE n == Len(end.segments)
  <2>1. n + 1 = m
    BY <1>3, <1>10
  <2>2. n = Len(end.segments)
    OBVIOUS
  <2> HIDE DEF n
  <2>3. Len(cut) = n + 1 /\ cut[n + 1] = end.current
    BY <1>12, <1>13, <2>2, CutParts
  <2> QED BY <2>1, <2>3
<1>15. Len(end.current) <= Len(read[m])
  <2>1. m \in 1..Len(cut)
    BY <1>3, <1>14
  <2>2. Len(cut[m]) <= Len(Cut(g[Len(path)]).segments[m])
    BY <1>12, <2>1 DEF Onward
  <2> QED BY <1>2, <1>14, <2>2
<1>16. read[m] = key
  BY <1>3 DEF Returns
<1>17. Len(end.current) \in Nat /\ Len(end.current) <= l
  BY <1>12, <1>15, <1>16, LenProperties DEF Scanners, l
<1> QED BY <1>7, <1>10, <1>17

(* A key that the loop comes to behind steps it has taken is plain.        *)
LEMMA NextIsPlain ==
  ASSUME NEW steps, NEW f, NEW g, NEW read, Returns(steps, f, g, read),
         NEW m, InStep(steps, f, g, m)
  PROVE  PlainStep(steps[m])
<1> DEFINE key == steps[m].key
<1>1. key \in Seq(Letters) /\ key # << >>
  BY KeyIsRun DEF IsRun
<1>2. \A x \in 1..Len(key) : key[x] \notin DOMAIN Wide
  BY KeyIsNarrow
<1> HIDE DEF key
<1>3. ToSet(key) = {key[x] : x \in 1..Len(key)}
  BY <1>1 DEF ToSet
<1>4. \A x \in 1..Len(key) : key[x] \in Letters
  BY <1>1
<1>5. ({".", "["} \cup DOMAIN Wide) \cap ToSet(key) = {}
  BY <1>2, <1>3, <1>4 DEF Letters
<1>6. key \in Seq(Symbols)
  BY <1>1 DEF Letters
<1>7. PlainKey(key)
  BY <1>1, <1>5, <1>6 DEF PlainKey
<1> QED BY <1>7 DEF PlainStep, key

(* A path that leads back is a path of plain keys.                         *)
LEMMA OnlyPlainReturns ==
  ASSUME NEW steps, NEW f, NEW g, NEW read, Returns(steps, f, g, read),
         steps # << >>, steps[1].kind = "key", PlainStep(steps[1])
  PROVE  \A i \in 1..Len(steps) : PlainStep(steps[i])
<1> DEFINE odd == {i \in 1..Len(steps) : ~PlainStep(steps[i])}
<1> SUFFICES ASSUME odd # {} PROVE FALSE
  OBVIOUS
<1>1. steps \in Seq(Steps) /\ Writes(f, steps) /\ Scans(g, f[Len(steps)])
  BY DEF Returns
<1>2. Len(steps) \in Nat
  BY <1>1
<1>3. odd \in SUBSET Nat
  BY <1>2
<1>4. PICK m \in odd : \A i \in odd : m <= i
  BY <1>3, LeastOf
<1>5. m \in 1..Len(steps) /\ ~PlainStep(steps[m]) /\ m # 1
  BY <1>4
<1>6. m \in 2..Len(steps) /\ m - 1 \in 0..Len(steps) /\ m - 1 \in 1..Len(steps) /\ m \in Nat
  BY <1>2, <1>5
<1>7. \A i \in 1..(m - 1) : PlainStep(steps[i])
  <2> TAKE i \in 1..(m - 1)
  <2>1. i \in 1..Len(steps) /\ ~(m <= i)
    BY <1>2, <1>6
  <2> QED BY <1>4, <2>1
<1> DEFINE k == m - 1
           segments == Segments(steps)
<1>8. Stands(g[Len(f[k])], SubSeq(segments, 1, k), Len(f[k]))
  BY <1>1, <1>6, <1>7, PlainStepsAreRead
<1>9. Len(SubSeq(segments, 1, k)) = k
  <2>1. Len(segments) = Len(steps) /\ \A i \in 1..Len(steps) : segments[i] = Segment(steps[i])
    BY <1>1, SegmentsAre
  <2>2. \A i \in 1..Len(steps) : Segment(steps[i]) \in Seq(Symbols)
    BY <1>1, ShowIs
  <2>3. segments \in Seq(Seq(Symbols))
    BY <1>2, <2>2 DEF Segments
  <2>4. k \in 1..Len(steps)
    BY <1>6
  <2> HIDE DEF segments, k
  <2> QED BY <1>2, <2>1, <2>3, <2>4
<1>10. steps[m].kind = "key"
  BY <1>5 DEF PlainStep
<1>11. InStep(steps, f, g, m)
  BY <1>6, <1>8, <1>9, <1>10 DEF Stands, InStep
<1> QED BY <1>5, <1>11, NextIsPlain

(* Where a step begins, the segment before it is complete.                 *)
LEMMA TakenStays ==
  ASSUME NEW steps \in Seq(Steps), NEW f, Writes(f, steps), NEW g, Scans(g, f[Len(steps)]),
         steps # << >>, steps[1].kind = "key",
         NEW m \in 1..Len(steps), m < Len(steps), \A i \in 1..m : PlainStep(steps[i])
  PROVE  \A i \in 1..m : Cut(g[Len(f[Len(steps)])]).segments[i] = Segment(steps[i])
<1> DEFINE path == f[Len(steps)]
           segments == Segments(steps)
           first == SubSeq(segments, 1, m)
           a == Len(f[m])
           n == Len(path)
           scan == g[a]
           here == a + 1
<1>1. /\ path \in Seq(Symbols) /\ n \in Nat /\ Len(steps) \in Nat /\ m \in 0..Len(steps)
      /\ m + 1 \in 1..Len(steps) /\ (m + 1) - 1 = m
  BY WrittenAreTyped, LenProperties
<1>2. Stands(scan, first, a)
  BY <1>1, PlainStepsAreRead
<1>3. Len(first) = m /\ \A i \in 1..m : first[i] = Segment(steps[i])
  <2>1. Len(segments) = Len(steps) /\ \A i \in 1..Len(steps) : segments[i] = Segment(steps[i])
    BY SegmentsAre
  <2>2. \A i \in 1..Len(steps) : Segment(steps[i]) \in Seq(Symbols)
    BY ShowIs
  <2>3. segments \in Seq(Seq(Symbols))
    BY <1>1, <2>2 DEF Segments
  <2> HIDE DEF segments
  <2> QED BY <1>1, <2>1, <2>3
<1>4. a \in Nat /\ here \in 1..n /\ here - 1 = a /\ path[here] \in {".", "["}
  <2> DEFINE next == m + 1
             e == Len(f[next])
  <2>1. next \in 1..Len(steps) /\ next - 1 = m /\ next # 1
    BY <1>1
  <2> HIDE DEF next
  <2>2. IsStepAt(steps, f, next, a, e)
    BY <2>1, StepIsWritten
  <2>3. steps[next].kind = "key" => Len(steps[next].key) \in Nat
    BY <2>2, LenProperties DEF IsStepAt
  <2> DEFINE l == Len(steps[next].key)
  <2>4. /\ a \in Nat /\ e \in Nat /\ e <= n
        /\ steps[next].kind = "key" => e = a + 1 + l /\ path[a + 1] = "."
        /\ steps[next].kind # "key" => e = a + 3 /\ path[a + 1] = "["
    BY <2>1, <2>2 DEF IsStepAt
  <2> HIDE DEF l, e, a, path, n
  <2>6. e >= a + 1
    <3>1. CASE steps[next].kind = "key"
      <4>1. l \in Nat /\ e = a + 1 + l
        BY <2>3, <2>4, <3>1 DEF l
      <4> QED BY <2>4, <4>1
    <3>2. CASE steps[next].kind # "key"
      BY <2>4, <3>2
    <3> QED BY <3>1, <3>2
  <2>5. here \in 1..n /\ here - 1 = a
    BY <1>1, <2>4, <2>6
  <2> QED BY <2>4, <2>5
<1>5. scan \in Scanners /\ scan.upTo <= a /\ Cut(scan).segments = first /\ scan.upTo \in Nat
  BY <1>2 DEF Stands, Scanners
<1>6. g[here] = Look(path, scan, here) /\ here > scan.upTo /\ here \in Nat
  <2>1. g[here] = Look(path, g[here - 1], here)
    BY <1>4 DEF Scans
  <2> QED BY <1>4, <1>5, <2>1
<1> DEFINE after == g[here]
<1>7. after \in Scanners /\ Onward(after, g[n]) /\ g[n] \in Scanners
  <2>1. here \in 0..n /\ n \in here..n /\ n \in 0..n
    BY <1>1, <1>4
  <2> HIDE DEF here
  <2> QED BY <1>1, <2>1, ScansAreTyped, ScansGoOn
<1> HIDE DEF here, scan, after, path, first, n
<1>8. first \in Seq(Seq(Symbols))
  BY <1>5, CutParts
<1>9. m <= Len(after.segments) /\ \A i \in 1..m : after.segments[i] = first[i]
  <2>1. CASE Opens(path, scan, here)
    <3> DEFINE content == Bracketed(path, here)
    <3>1. after.segments = Append(first, content)
      BY <1>1, <1>4, <1>5, <1>6, <2>1, LookOpens DEF after, n
    <3> HIDE DEF content
    <3>2. Len(Append(first, content)) = Len(first) + 1 /\ \A i \in 1..Len(first) : Append(first, content)[i] = first[i]
      BY <1>8
    <3> QED BY <1>1, <1>3, <3>1, <3>2
  <2>2. CASE ~Opens(path, scan, here)
    <3>1. Ends(path, scan, here)
      BY <1>4, <1>6, <2>2 DEF Opens, Ends
    <3>2. after.segments = first
      BY <1>5, <1>6, <3>1, LookEnds DEF after
    <3> QED BY <1>1, <1>3, <3>2
  <2> QED BY <2>1, <2>2
<1> DEFINE last == g[n]
           cut == Cut(last).segments
           l == Len(last.segments)
<1>10. Len(after.segments) <= l /\ \A i \in 1..Len(after.segments) : last.segments[i] = after.segments[i]
  BY <1>7 DEF Onward
<1>11. l \in Nat /\ Len(after.segments) \in Nat
  BY <1>7 DEF Scanners
<1>12. \A i \in 1..l : cut[i] = last.segments[i]
  BY <1>7, CutParts
<1> HIDE DEF last, cut, l
<1>13. \A i \in 1..m : i \in 1..Len(after.segments) /\ i \in 1..l
  BY <1>1, <1>9, <1>10, <1>11
<1>14. \A i \in 1..m : cut[i] = Segment(steps[i])
  BY <1>3, <1>9, <1>10, <1>12, <1>13
<1> QED BY <1>14 DEF cut, last, n, path

(* What setValueAtPathRecursive finds when the path of a text leads to it. *)
LeadsBack(loc, f, g, read) ==
  /\ Writes(f, Recorded(loc)) /\ Scans(g, f[Len(Recorded(loc))])
  /\ read = Cut(g[Len(f[Len(Recorded(loc))])]).segments
  /\ Len(read) = Len(loc) /\ Last(loc).kind = "key"
  /\ \A i \in 1..Len(loc) : loc[i].kind = "key" => read[i] = loc[i].key

LEMMA AddressIsRead ==
  ASSUME IsTree(message), side \in {"request", "response"}, NEW loc \in Texts, Addressable(loc)
  PROVE  \E f, g, read : LeadsBack(loc, f, g, read)
<1> DEFINE rec == Recorded(loc)
           n == Len(rec)
<1>1. rec \in Seq(Steps) /\ n \in Nat /\ n \in 0..n
  BY TextIsRecorded, LenProperties
<1>2. PICK f : Writes(f, rec) /\ Path(rec) = f[n]
  BY <1>1, PathIs DEF Writes
<1>3. f[n] \in Seq(Symbols) /\ Len(f[n]) \in Nat
  <2>1. f[n] \in Seq(Symbols)
    BY <1>1, <1>2, WrittenAreTyped
  <2> QED BY <2>1, LenProperties
<1>4. PICK g : Scans(g, f[n]) /\ ParsePath(f[n]) = Cut(g[Len(f[n])]).segments
  BY <1>3, ParsePathIs
<1> DEFINE read == Cut(g[Len(f[n])]).segments
<1>5. read \in Seq(Seq(Symbols))
  <2>1. Len(f[n]) \in 0..Len(f[n])
    BY <1>3
  <2>2. g[Len(f[n])] \in Scanners
    BY <1>3, <1>4, <2>1, ScansAreTyped
  <2> QED BY <2>2, CutParts
<1>6. Targets(message, read) = {loc}
  BY <1>2, <1>4 DEF Addressable, PathOf
<1> HIDE DEF read
<1>7. PICK node \in Nodes(message) :
        /\ loc = Append(node, Key(Last(read)))
        /\ Len(node) = Len(read) - 1
        /\ \A i \in 1..Len(node) : Follows(node[i], read[i])
  BY <1>6 DEF Targets
<1>8. node \in Seq(Steps) /\ Len(node) \in Nat /\ Len(read) \in Nat
  BY <1>5, <1>7, NodeIs, LenProperties
<1>9. Len(read) # 0 /\ Len(read) \in 1..Len(read)
  BY <1>7, <1>8
<1>10. Last(read) = read[Len(read)] /\ read[Len(read)] \in Seq(Symbols)
  BY <1>5, <1>9 DEF Last
<1> DEFINE step == Key(read[Len(read)])
<1>11. step \in Steps /\ step.kind = "key" /\ step.key = read[Len(read)]
  BY <1>10, KeyIsStep
<1>12. loc = Append(node, step)
  BY <1>7, <1>10
<1> HIDE DEF step
<1>13. /\ loc \in Seq(Steps) /\ Len(loc) = Len(node) + 1 /\ Last(loc) = step
       /\ \A i \in 1..Len(node) : loc[i] = node[i]
  BY <1>8, <1>11, <1>12, AppendIs
<1>14. Len(loc) = Len(read)
  BY <1>7, <1>8, <1>13
<1>15. loc[Len(read)] = step
  BY <1>13, <1>14 DEF Last
<1>16. ASSUME NEW i \in 1..Len(loc), loc[i].kind = "key" PROVE read[i] = loc[i].key
  <2>1. CASE i = Len(read)
    BY <1>11, <1>15, <2>1
  <2>2. CASE i # Len(read)
    <3>1. i \in 1..Len(node)
      BY <1>7, <1>8, <1>14, <2>2
    <3>2. loc[i] = node[i] /\ Follows(node[i], read[i])
      BY <1>7, <1>13, <3>1
    <3>3. loc[i] = Key(read[i])
      BY <1>16, <3>2 DEF Follows
    <3> QED BY <3>3 DEF Key
  <2> QED BY <2>1, <2>2
<1>17. read = Cut(g[Len(f[n])]).segments
  BY DEF read
<1>18. Last(loc).kind = "key"
  BY <1>11, <1>13
<1>19. LeadsBack(loc, f, g, read)
  BY <1>2, <1>4, <1>14, <1>16, <1>17, <1>18 DEF LeadsBack
<1> QED BY <1>19

(* A field that is recorded is plain.                                      *)
LEMMA FieldIsPlain ==
  ASSUME NEW field \in DOMAIN Capital
  PROVE  PlainStep(Key(<<field>>)) /\ Segment(Key(<<field>>)) = <<field>>
<1>1. field \in Symbols /\ field \notin {".", "["} \cup DOMAIN Wide
  BY FieldsAre, SymbolsAre
<1>2. <<field>> \in Seq(Symbols) /\ <<field>> # << >> /\ ToSet(<<field>>) = {field}
  BY <1>1 DEF ToSet
<1>3. PlainKey(<<field>>)
  BY <1>1, <1>2 DEF PlainKey
<1>4. Key(<<field>>).kind = "key" /\ Key(<<field>>).key = <<field>>
  BY DEF Key
<1> QED BY <1>3, <1>4 DEF PlainStep, Segment

(* The path that leads back to an argument leads back to what is recorded. *)
LEMMA ArgumentReturns ==
  ASSUME IsTree(message), side = "request", NEW loc \in Texts,
         NEW f, NEW g, NEW read, LeadsBack(loc, f, g, read)
  PROVE  \A i \in 1..Len(loc) : PlainStep(Recorded(loc)[i])
<1> DEFINE rec == Recorded(loc)
           params == Key(<<"params">>)
           arguments == Key(<<"arguments">>)
<1>1. /\ loc \in Seq(Steps) /\ rec \in Seq(Steps) /\ Len(rec) = Len(loc) /\ Len(loc) >= 3
      /\ rec[1] = params /\ rec[2] = arguments
      /\ \A i \in 3..Len(loc) : rec[i] = loc[i]
  BY RequestIsRecorded
<1>2. /\ PlainStep(params) /\ PlainStep(arguments)
      /\ Segment(params) = params.key /\ Segment(arguments) = arguments.key /\ params.kind = "key"
  <2>1. "params" \in DOMAIN Capital /\ "arguments" \in DOMAIN Capital
    BY FieldsAre
  <2> QED BY <2>1, FieldIsPlain DEF Key
<1> DEFINE two == 2
<1>3. two \in Nat /\ \A i \in 1..two : i = 1 \/ i = two
  OBVIOUS
<1>4. two = 2 /\ two < 3
  OBVIOUS
<1> HIDE DEF rec, params, arguments, two
<1>5. /\ Writes(f, rec) /\ Scans(g, f[Len(rec)])
      /\ read = Cut(g[Len(f[Len(rec)])]).segments
      /\ Len(read) = Len(loc)
      /\ \A i \in 1..Len(loc) : loc[i].kind = "key" => read[i] = loc[i].key
  BY DEF LeadsBack, rec
<1>6. Len(loc) \in Nat /\ rec # << >> /\ rec[1].kind = "key" /\ two \in 1..Len(rec) /\ two < Len(rec)
  BY <1>1, <1>2, <1>3, <1>4
<1>7. rec[1] = params /\ rec[two] = arguments
  BY <1>1, <1>4
<1>8. \A i \in 1..two : PlainStep(rec[i])
  BY <1>2, <1>3, <1>7
<1>9. \A i \in 1..two : read[i] = Segment(rec[i])
  BY <1>1, <1>5, <1>6, <1>8, TakenStays
<1>10. ASSUME NEW i \in 1..Len(rec), rec[i].kind = "key" PROVE read[i] = rec[i].key
  <2>1. CASE i \in 1..two
    <3>1. Segment(rec[i]) = rec[i].key
      BY <1>2, <1>3, <1>7, <2>1
    <3> QED BY <1>9, <2>1, <3>1
  <2>2. CASE i \notin 1..two
    <3>1. i \in 3..Len(loc) /\ i \in 1..Len(loc)
      BY <1>1, <1>4, <1>6, <2>2
    <3> QED BY <1>1, <1>5, <1>10, <3>1
  <2> QED BY <2>1, <2>2
<1>11. Returns(rec, f, g, read)
  BY <1>1, <1>5, <1>10 DEF Returns
<1>12. \A i \in 1..Len(rec) : PlainStep(rec[i])
  BY <1>2, <1>6, <1>7, <1>11, OnlyPlainReturns
<1> QED BY <1>1, <1>12 DEF rec

(* In a response what is recorded are fields and an index.                 *)
LEMMA ContentIsPlain ==
  ASSUME side = "response", NEW loc \in Texts
  PROVE  \A i \in 1..Len(loc) : PlainStep(Recorded(loc)[i])
<1>1. /\ Len(loc) = 4
      /\ Recorded(loc)[1] = Key(<<"result">>) /\ Recorded(loc)[2] = Key(<<"content">>)
      /\ Recorded(loc)[3] = loc[3] /\ loc[3].kind = "item" /\ Recorded(loc)[4] = Key(<<"text">>)
  BY ResponseIsRecorded
<1>2. PlainStep(Key(<<"result">>)) /\ PlainStep(Key(<<"content">>)) /\ PlainStep(Key(<<"text">>))
  <2>1. "result" \in DOMAIN Capital /\ "content" \in DOMAIN Capital /\ "text" \in DOMAIN Capital
    BY FieldsAre
  <2> QED BY <2>1, FieldIsPlain
<1>3. PlainStep(loc[3])
  BY <1>1 DEF PlainStep
<1>4. \A i \in 1..4 : i = 1 \/ i = 2 \/ i = 3 \/ i = 4
  OBVIOUS
<1> QED BY <1>1, <1>2, <1>3, <1>4

(* What is recorded for a text that its path leads to is where it stands.  *)
LEMMA AddressIsPlain ==
  ASSUME IsTree(message), side \in {"request", "response"}, NEW loc \in Texts, Addressable(loc)
  PROVE  WrittenPlainly(loc)
<1> DEFINE rec == Recorded(loc)
<1>1. PICK f, g, read : LeadsBack(loc, f, g, read)
  BY AddressIsRead
<1>2. /\ loc \in Seq(Steps) /\ rec \in Seq(Steps)
      /\ Len(rec) = Len(loc) /\ Len(loc) >= 3 /\ Len(loc) \in Nat
      /\ rec[1].kind = "key"
      /\ \A i \in 1..Len(loc) : IsRecordOf(rec[i], loc[i])
  BY TextIsRecorded
<1>3. \A i \in 1..Len(loc) : PlainStep(rec[i])
  BY <1>1, ArgumentReturns, ContentIsPlain
<1> HIDE DEF rec
<1>4. /\ Writes(f, rec) /\ Scans(g, f[Len(rec)]) /\ Last(loc).kind = "key"
      /\ read = Cut(g[Len(f[Len(rec)])]).segments
      /\ \A i \in 1..Len(loc) : loc[i].kind = "key" => read[i] = loc[i].key
  BY <1>1 DEF LeadsBack, rec
<1>5. rec # << >>
  BY <1>2
<1>6. \A i \in 1..Len(rec) : read[i] = Segment(rec[i])
  <2> DEFINE segments == Segments(rec)
             n == Len(rec)
  <2>1. n \in 0..n /\ n \in Nat
    BY <1>2
  <2>2. Stands(g[Len(f[n])], SubSeq(segments, 1, n), Len(f[n]))
    BY <1>2, <1>3, <1>4, <1>5, <2>1, PlainStepsAreRead
  <2>3. \A i \in 1..n : segments[i] = Segment(rec[i])
    BY <1>2, <1>5, SegmentsAre
  <2>4. \A i \in 1..n : SubSeq(segments, 1, n)[i] = segments[i]
    BY <2>1
  <2>5. read = SubSeq(segments, 1, n)
    BY <1>4, <2>2 DEF Stands
  <2> HIDE DEF segments
  <2> QED BY <2>3, <2>4, <2>5
<1>7. ASSUME NEW i \in 1..Len(loc) PROVE rec[i] = loc[i]
  <2> SUFFICES ASSUME rec[i] # loc[i] PROVE FALSE
    OBVIOUS
  <2>1. PICK field \in DOMAIN Capital : rec[i] = Key(<<field>>) /\ loc[i] = Key(<<Capital[field]>>)
    BY <1>2 DEF IsRecordOf
  <2>2. loc[i].kind = "key" /\ loc[i].key = <<Capital[field]>>
    BY <2>1 DEF Key
  <2>3. Segment(rec[i]) = <<field>>
    BY <2>1, FieldIsPlain
  <2>4. read[i] = <<Capital[field]>> /\ read[i] = <<field>>
    BY <1>2, <1>4, <1>6, <2>2, <2>3
  <2>5. Capital[field] = field
    BY <2>4
  <2> QED BY <2>1, <2>5
<1>8. rec = loc
  BY <1>2, <1>7, SeqEqual
<1>9. PlainKeys(loc)
  <2>1. DOMAIN loc = 1..Len(loc)
    BY <1>2
  <2> SUFFICES ASSUME NEW i \in 1..Len(loc), loc[i].kind = "key"
               PROVE  loc[i].key # << >> /\ ({".", "["} \cup DOMAIN Wide) \cap ToSet(loc[i].key) = {}
    BY <2>1 DEF PlainKeys
  <2>2. PlainStep(loc[i])
    BY <1>3, <1>8
  <2> QED BY <2>2 DEF PlainStep, PlainKey
<1> QED BY <1>4, <1>8, <1>9 DEF WrittenPlainly, rec

-----------------------------------------------------------------------------
(* What the paths do for the message.                                      *)

(* The path of a text with plain keys leads back to it: what the parser    *)
(* recorded is undone exactly by the way the mask is set                   *)
(* (parser.go:125-150, 186-264).                                           *)
THEOREM PlainKeysLeadBack == Spec => []PlainKeysAreAddressable
<1>1. TextsInv => PlainKeysAreAddressable
  <2> SUFFICES ASSUME TextsInv, NEW loc \in Texts, WrittenPlainly(loc) PROVE Addressable(loc)
    BY DEF PlainKeysAreAddressable
  <2>1. IsTree(message) /\ side \in {"request", "response"}
    BY DEF TextsInv
  <2>2. Last(loc).kind = "key" /\ PlainKeys(loc) /\ Recorded(loc) = loc
    BY DEF WrittenPlainly
  <2>3. Reached(loc) = {loc}
    BY <2>1, <2>2, PlainIsReached
  <2> QED BY <2>3 DEF Reached, Addressable
<1> QED BY <1>1, TextsInvHolds, PTL

(* No text but those of PlainKeysAreAddressable.  This is no requirement:  *)
(* it says how far the defects reach that the runs doc_dotted_keys and     *)
(* doc_array_texts show.                                                   *)
OnlyPlainKeysAre == \A loc \in Texts : Addressable(loc) => WrittenPlainly(loc)

(* The path of a text with any other key, in an array, or below a field in *)
(* another spelling leads elsewhere or nowhere: parsePath cuts at a dot,   *)
(* drops an empty key, takes a bracket for an index and a byte for a       *)
(* character (parser.go:186-224), and setValueAtPathRecursive sets members *)
(* of objects alone (parser.go:236-264).                                   *)
THEOREM OnlyPlainKeysLeadBack == Spec => []OnlyPlainKeysAre
<1>1. TextsInv => OnlyPlainKeysAre
  <2> SUFFICES ASSUME TextsInv, NEW loc \in Texts, Addressable(loc) PROVE WrittenPlainly(loc)
    BY DEF OnlyPlainKeysAre
  <2>1. IsTree(message) /\ side \in {"request", "response"}
    BY DEF TextsInv
  <2> QED BY <2>1, AddressIsPlain
<1> QED BY <1>1, TextsInvHolds, PTL

(* A message with plain keys and text in lower case is never half          *)
(* rewritten, although ReplaceTexts may fail in mid-loop                   *)
(* (parser.go:162-166, server.go:440-444).                                 *)
THEOREM MasksAreAllOrNothing == Spec => []AllOrNothing
<1>1. TextsInv => AllOrNothing
  <2> SUFFICES ASSUME TextsInv, phase = "sent",
                      \A loc \in Texts :
                        PlainKeys(loc) /\ (side = "response" => Last(loc) = Last(Recorded(loc)))
               PROVE  sent \in {message, Masked}
    BY DEF AllOrNothing
  <2>1. IsTree(message) /\ side \in {"request", "response"}
    BY DEF TextsInv
  <2>2. \A loc \in Texts : Reached(loc) \subseteq {loc}
    <3> TAKE loc \in Texts
    <3>1. Reached(loc) = IF Recorded(loc) = loc /\ Last(loc).kind = "key" THEN {loc} ELSE {}
      BY <2>1, PlainIsReached
    <3> QED BY <3>1
  <2>3. Exact
    BY <2>2 DEF Exact
  <2> QED BY <2>3 DEF TextsInv, SentInv
<1> QED BY <1>1, TextsInvHolds, PTL

(* Nothing of a conforming message is spelled otherwise.                   *)
LEMMA OneSpelling ==
  ASSUME IsTree(message), Conforming, NEW node \in Seq(Steps), NEW field \in DOMAIN Capital,
         NEW loc \in Members(message, node, field)
  PROVE  loc = Append(node, Key(<<field>>)) /\ Present(message, loc)
<1>1. Present(message, loc)
  BY DEF Members
<1> SUFFICES ASSUME loc = Append(node, Key(<<Capital[field]>>)) PROVE FALSE
  BY <1>1, MembersAre
<1>2. Key(<<Capital[field]>>) \in Steps
  <2>1. <<Capital[field]>> \in Seq(Symbols)
    BY SymbolsAre
  <2> QED BY <2>1, KeyIsStep
<1>3. /\ loc \in Seq(Steps) /\ Len(loc) = Len(node) + 1
      /\ Last(loc) = Key(<<Capital[field]>>)
  BY <1>2, AppendIs
<1>4. PICK l \in DOMAIN message : IsPrefix(loc, l)
  BY <1>1 DEF Present
<1>5. l \in Seq(Steps) /\ Len(l) \in Nat /\ Len(node) \in Nat
  BY LeafIs
<1>6. Len(loc) <= Len(l) /\ \A i \in 1..Len(loc) : loc[i] = l[i]
  BY <1>3, <1>4, <1>5, PrefixIs
<1>7. Len(loc) \in 1..Len(loc) /\ Len(loc) \in 1..Len(l)
  BY <1>3, <1>5, <1>6
<1>8. l[Len(loc)] = Key(<<Capital[field]>>) /\ Len(loc) \in DOMAIN l
  BY <1>3, <1>5, <1>6, <1>7 DEF Last
<1>9. Key(<<Capital[field]>>) \in ToSet(l)
  BY <1>8 DEF ToSet
<1> QED BY <1>9 DEF Conforming

(* What fits the types of the fields decodes.                              *)
LEMMA FittingDecodes ==
  ASSUME IsTree(message), Conforming, NEW node \in Seq(Steps),
         TypeAt(message, node) \in {"object", "null"},
         NEW types, DOMAIN types \subseteq DOMAIN Capital,
         \A field \in DOMAIN types : Fits(Append(node, Key(<<field>>)), types[field])
  PROVE  Decodes(message, node, types)
<1> SUFFICES ASSUME NEW field \in DOMAIN types, NEW loc \in Members(message, node, field)
             PROVE  TypeAt(message, loc) \in {types[field], "null"}
  BY DEF Decodes
<1>1. loc = Append(node, Key(<<field>>)) /\ Present(message, loc)
  BY OneSpelling
<1> QED BY <1>1 DEF Fits

(* A field above a leaf is a member of an object.                          *)
LEMMA FieldAbove ==
  ASSUME IsTree(message), NEW node \in Seq(Steps), NEW field \in DOMAIN Capital,
         NEW l \in DOMAIN message, IsPrefix(Append(node, Key(<<field>>)), l)
  PROVE  /\ Append(node, Key(<<field>>)) \in Members(message, node, field)
         /\ TypeAt(message, node) = "object"
         /\ Append(node, Key(<<field>>)) \in Seq(Steps)
         /\ Append(node, Key(<<field>>)) \in Nodes(message)
<1> DEFINE loc == Append(node, Key(<<field>>))
<1>1. Key(<<field>>) \in Steps /\ Key(<<field>>).kind = "key"
  <2>1. <<field>> \in Seq(Symbols)
    BY SymbolsAre
  <2> QED BY <2>1, KeyIsStep
<1>2. loc \in Seq(Steps) /\ Front(loc) = node /\ Last(loc) = Key(<<field>>) /\ loc # << >>
  BY <1>1, AppendIs
<1>3. Present(message, loc)
  BY DEF Present
<1>4. loc \in Members(message, node, field)
  BY <1>3, MembersAre
<1> HIDE DEF loc
<1>5. loc \in Nodes(message)
  BY <1>2, PrefixIsNode DEF loc
<1>6. TypeAt(message, node) = "object"
  BY <1>1, <1>2, <1>5, TypeOfParent
<1> QED BY <1>2, <1>4, <1>5, <1>6 DEF loc

LEMMA LeafFits ==
  ASSUME IsTree(message), NEW loc, NEW v \in ValuesOf["string"], Leaf(loc) = v
  PROVE  /\ loc \in DOMAIN message /\ message[loc] = v /\ TypeAt(message, loc) = "string"
         /\ Fits(loc, "string") /\ IsPrefix(loc, loc) /\ loc \in Seq(Steps)
<1>1. "string" \in DOMAIN ValuesOf /\ v # "null"
  BY TypesOfValues DEF JsonTypes
<1>2. loc \in DOMAIN message /\ message[loc] = v
  BY <1>1 DEF Leaf
<1>3. TypeAt(message, loc) = "string"
  BY <1>1, <1>2, TypeOfLeaf
<1>4. loc \in Seq(Steps)
  BY <1>2, LeafIs
<1>5. IsPrefix(loc, loc)
  BY <1>4, PrefixIs
<1> QED BY <1>2, <1>3, <1>4, <1>5 DEF Fits

LEMMA AppendEquals ==
  ASSUME NEW s \in Seq(Steps), NEW step \in Steps, NEW r \in Seq(Steps),
         Len(r) = Len(s) + 1, \A i \in 1..Len(s) : r[i] = s[i], r[Len(s) + 1] = step
  PROVE  Append(s, step) = r
<1> DEFINE l == Append(s, step)
<1>1. /\ l \in Seq(Steps) /\ Len(l) = Len(s) + 1 /\ Last(l) = step
      /\ \A i \in 1..Len(s) : l[i] = s[i]
  BY AppendIs
<1> HIDE DEF l
<1>2. Len(s) \in Nat /\ \A i \in 1..(Len(s) + 1) : i \in 1..Len(s) \/ i = Len(s) + 1
  OBVIOUS
<1>3. \A i \in 1..Len(l) : l[i] = r[i]
  BY <1>1, <1>2 DEF Last
<1>4. l = r
  BY <1>1, <1>3, SeqEqual
<1> QED BY <1>4 DEF l

LEMMA Tuples ==
  \A x, y, z \in Steps :
    /\ Append(<< >>, x) = <<x>>
    /\ Append(<<x>>, y) = <<x, y>>
    /\ Append(<<x, y>>, z) = <<x, y, z>>
<1> TAKE x, y, z \in Steps
<1>1. Append(<< >>, x) = <<x>>
  OBVIOUS
<1> DEFINE s1 == <<x>>
           s2 == <<x, y>>
           s3 == <<x, y, z>>
<1>2. /\ s1 \in Seq(Steps) /\ Len(s1) = 1 /\ s1[1] = x
      /\ s2 \in Seq(Steps) /\ Len(s2) = 2 /\ s2[1] = x /\ s2[2] = y
  OBVIOUS
<1>3. s3 \in Seq(Steps) /\ Len(s3) = 3 /\ s3[1] = x /\ s3[2] = y /\ s3[3] = z
  OBVIOUS
<1> HIDE DEF s1, s2, s3
<1>4. Append(s1, y) = s2
  <2>1. Len(s2) = Len(s1) + 1 /\ (\A i \in 1..Len(s1) : s2[i] = s1[i]) /\ s2[Len(s1) + 1] = y
    BY <1>2
  <2> QED BY <1>2, <2>1, AppendEquals
<1>5. Append(s2, z) = s3
  <2>1. Len(s3) = Len(s2) + 1 /\ (\A i \in 1..Len(s2) : s3[i] = s2[i]) /\ s3[Len(s2) + 1] = z
    BY <1>2, <1>3
  <2> QED BY <1>2, <1>3, <2>1, AppendEquals
<1> QED BY <1>1, <1>4, <1>5 DEF s1, s2, s3

LEMMA FourSteps ==
  \A x, y, z, w \in Steps : Append(<<x, y, z>>, w) = <<x, y, z, w>>
<1> TAKE x, y, z, w \in Steps
<1> DEFINE s3 == <<x, y, z>>
           s4 == <<x, y, z, w>>
<1>1. s3 \in Seq(Steps) /\ Len(s3) = 3 /\ s3[1] = x /\ s3[2] = y /\ s3[3] = z
  OBVIOUS
<1>2. s4 \in Seq(Steps) /\ Len(s4) = 4 /\ s4[1] = x /\ s4[2] = y /\ s4[3] = z /\ s4[4] = w
  OBVIOUS
<1> HIDE DEF s3, s4
<1>3. Len(s4) = Len(s3) + 1 /\ (\A i \in 1..Len(s3) : s4[i] = s3[i]) /\ s4[Len(s3) + 1] = w
  BY <1>1, <1>2
<1>4. Append(s3, w) = s4
  BY <1>1, <1>2, <1>3, AppendEquals
<1> QED BY <1>4 DEF s3, s4

LEMMA FieldSteps ==
  \A field \in DOMAIN Capital : Key(<<field>>) \in Steps /\ <<Key(<<field>>)>> \in Seq(Steps)
<1> TAKE field \in DOMAIN Capital
<1>1. <<field>> \in Seq(Symbols)
  BY SymbolsAre
<1>2. Key(<<field>>) \in Steps
  BY <1>1, KeyIsStep
<1> QED BY <1>2

(* What the decoder needs of a conforming call.                            *)
LEMMA CallIsTaken ==
  ASSUME IsTree(message), Conforming, side = "request",
         NEW loc \in DOMAIN message, IsStrictPrefix(Arguments, loc), message[loc] = "secret"
  PROVE  loc \in Texts
<1> DEFINE root == << >>
           params == <<Key(<<"params">>)>>
           method == <<Key(<<"method">>)>>
           jsonrpc == <<Key(<<"jsonrpc">>)>>
<1>1. /\ {"jsonrpc", "method", "params", "name", "arguments"} \subseteq DOMAIN Capital
      /\ {"2.0", "tools/call", "secret"} \subseteq ValuesOf["string"] /\ "string" \in DOMAIN ValuesOf
  BY FieldsAre, TypesOfValues DEF JsonTypes
<1>2. /\ Leaf(jsonrpc) = "2.0" /\ Leaf(method) = "tools/call"
      /\ Fits(<<Key(<<"params">>), Key(<<"name">>)>>, "string") /\ Fits(Arguments, "object")
  BY DEF Conforming
<1>3. /\ jsonrpc \in DOMAIN message /\ message[jsonrpc] = "2.0" /\ Fits(jsonrpc, "string")
      /\ IsPrefix(jsonrpc, jsonrpc)
  BY <1>1, <1>2, LeafFits
<1>4. /\ method \in DOMAIN message /\ message[method] = "tools/call" /\ Fits(method, "string")
      /\ TypeAt(message, method) = "string" /\ IsPrefix(method, method)
  BY <1>1, <1>2, LeafFits
<1>5. /\ root \in Seq(Steps) /\ params \in Seq(Steps)
      /\ Append(root, Key(<<"params">>)) = params
      /\ Append(root, Key(<<"method">>)) = method
      /\ Append(root, Key(<<"jsonrpc">>)) = jsonrpc
      /\ Append(params, Key(<<"arguments">>)) = Arguments
      /\ Append(params, Key(<<"name">>)) = <<Key(<<"params">>), Key(<<"name">>)>>
  BY <1>1, FieldSteps, EmptySeq, Tuples DEF Arguments
<1> HIDE DEF root, params, method, jsonrpc
<1>6. loc \in Seq(Steps) /\ IsPrefix(Arguments, loc) /\ Arguments # loc
  BY LeafIs DEF IsStrictPrefix
<1>7. /\ Arguments \in Members(message, params, "arguments") /\ TypeAt(message, params) = "object"
      /\ Arguments \in Seq(Steps)
  BY <1>1, <1>5, <1>6, FieldAbove
<1>8. IsPrefix(params, loc)
  <2>1. Arguments # << >> /\ Front(Arguments) = params
    <3>1. Key(<<"arguments">>) \in Steps
      BY <1>1, FieldSteps
    <3>2. Append(params, Key(<<"arguments">>)) # << >> /\ Front(Append(params, Key(<<"arguments">>))) = params
      BY <1>5, <3>1, AppendIs
    <3> QED BY <1>5, <3>2
  <2>2. IsPrefix(params, Arguments)
    BY <1>7, <2>1, FrontIsPrefix
  <2> QED BY <1>5, <1>6, <1>7, <2>2, PrefixOfPrefix
<1>9. params \in Members(message, root, "params") /\ TypeAt(message, root) = "object"
  BY <1>1, <1>5, <1>8, FieldAbove
<1>10. method \in Members(message, root, "method") /\ jsonrpc \in Members(message, root, "jsonrpc")
  BY <1>1, <1>3, <1>4, <1>5, FieldAbove
<1>11. Reads(message, root, "method", "tools/call") /\ Reads(message, root, "jsonrpc", "2.0")
  BY <1>3, <1>4, <1>10 DEF Reads
<1>12. IsRequest(message)
  <2> DEFINE types == [jsonrpc |-> "string", method |-> "string"]
  <2>1. /\ DOMAIN types \subseteq DOMAIN Capital
        /\ \A field \in DOMAIN types : Fits(Append(root, Key(<<field>>)), types[field])
    <3>1. DOMAIN types = {"jsonrpc", "method"} /\ types["jsonrpc"] = "string" /\ types["method"] = "string"
      OBVIOUS
    <3> HIDE DEF types
    <3>2. /\ Fits(Append(root, Key(<<"jsonrpc">>)), types["jsonrpc"])
          /\ Fits(Append(root, Key(<<"method">>)), types["method"])
      BY <1>3, <1>4, <1>5, <3>1
    <3> QED BY <1>1, <3>1, <3>2
  <2>2. Decodes(message, root, types)
    BY <1>5, <1>9, <2>1, FittingDecodes
  <2>3. NonEmptyString(message, method)
    BY <1>4 DEF NonEmptyString
  <2> QED BY <1>10, <2>2, <2>3 DEF IsRequest, root
<1>13. Decodes(message, params, [name |-> "string", arguments |-> "object"])
  <2> DEFINE types == [name |-> "string", arguments |-> "object"]
  <2>1. /\ DOMAIN types \subseteq DOMAIN Capital
        /\ \A field \in DOMAIN types : Fits(Append(params, Key(<<field>>)), types[field])
    <3>1. DOMAIN types = {"name", "arguments"} /\ types["name"] = "string" /\ types["arguments"] = "object"
      OBVIOUS
    <3> HIDE DEF types
    <3>2. /\ Fits(Append(params, Key(<<"name">>)), types["name"])
          /\ Fits(Append(params, Key(<<"arguments">>)), types["arguments"])
      BY <1>2, <1>5, <3>1
    <3> QED BY <1>1, <3>1, <3>2
  <2>2. Decodes(message, params, types)
    BY <1>5, <1>7, <2>1, FittingDecodes
  <2> QED BY <2>2
<1>14. Arguments \in ArgumentObjects(message)
  BY <1>7, <1>9, <1>11, <1>12, <1>13 DEF ArgumentObjects, root
<1>15. NonEmptyString(message, loc)
  BY <1>1, TypeOfLeaf DEF NonEmptyString
<1>16. loc \in RequestTexts(message)
  BY <1>14, <1>15 DEF RequestTexts
<1>17. SelectParser(message) = "mcp"
  BY <1>11, <1>12 DEF SelectParser, CanParse, root
<1> QED BY <1>16, <1>17 DEF Texts

(* What the decoder needs of a conforming answer.                          *)
LEMMA AnswerIsTaken ==
  ASSUME IsTree(message), Conforming, side = "response", NEW i \in 0..(Len(Digits) - 1),
         Content(i, "text") \in DOMAIN message, message[Content(i, "text")] = "secret",
         Leaf(Content(i, "type")) = "text"
  PROVE  Content(i, "text") \in Texts
<1> DEFINE root == << >>
           result == <<Key(<<"result">>)>>
           content == <<Key(<<"result">>), Key(<<"content">>)>>
           ItemAt(j) == <<Key(<<"result">>), Key(<<"content">>), Item(j)>>
           loc == Content(i, "text")
           type == Content(i, "type")
           jsonrpc == <<Key(<<"jsonrpc">>)>>
<1>1. /\ {"jsonrpc", "error", "result", "content", "isError", "type", "text"} \subseteq DOMAIN Capital
      /\ {"2.0", "text", "secret"} \subseteq ValuesOf["string"] /\ "string" \in DOMAIN ValuesOf
      /\ 0..(Len(Digits) - 1) = 0..2
  <2>1. {"jsonrpc", "error", "result", "content", "isError", "type", "text"} \subseteq DOMAIN Capital
    BY FieldsAre
  <2>2. {"2.0", "text", "secret"} \subseteq ValuesOf["string"] /\ "string" \in DOMAIN ValuesOf
    BY TypesOfValues DEF JsonTypes
  <2>3. 0..(Len(Digits) - 1) = 0..2
    BY DEF Digits
  <2> QED BY <2>1, <2>2, <2>3
<1>2. \A j \in 0..2 : Item(j) \in Steps /\ Item(j).kind = "item"
  BY ItemIsStep
<1>3. /\ root \in Seq(Steps) /\ result \in Seq(Steps) /\ content \in Seq(Steps)
      /\ Append(root, Key(<<"result">>)) = result
      /\ Append(root, Key(<<"jsonrpc">>)) = jsonrpc
      /\ Append(root, Key(<<"error">>)) = <<Key(<<"error">>)>>
      /\ Append(result, Key(<<"content">>)) = content
      /\ Append(result, Key(<<"isError">>)) = <<Key(<<"result">>), Key(<<"isError">>)>>
  <2>1. /\ Key(<<"result">>) \in Steps /\ Key(<<"content">>) \in Steps /\ Key(<<"isError">>) \in Steps
        /\ Key(<<"jsonrpc">>) \in Steps /\ Key(<<"error">>) \in Steps
    BY <1>1, FieldSteps
  <2>2. content \in Seq(Steps) /\ result \in Seq(Steps) /\ root \in Seq(Steps)
    BY <2>1, EmptySeq
  <2> QED BY <2>1, <2>2, Tuples
<1>4. ASSUME NEW j \in 0..2
      PROVE  /\ ItemAt(j) \in Seq(Steps) /\ ItemAt(j) # << >>
             /\ Append(content, Item(j)) = ItemAt(j)
             /\ Append(ItemAt(j), Key(<<"type">>)) = Content(j, "type")
             /\ Append(ItemAt(j), Key(<<"text">>)) = Content(j, "text")
             /\ Front(Content(j, "type")) = ItemAt(j) /\ Front(Content(j, "text")) = ItemAt(j)
             /\ Front(ItemAt(j)) = content /\ Last(ItemAt(j)) = Item(j)
  <2>1. /\ Key(<<"result">>) \in Steps /\ Key(<<"content">>) \in Steps
        /\ Key(<<"type">>) \in Steps /\ Key(<<"text">>) \in Steps
        /\ Item(j) \in Steps
    BY <1>1, <1>2, <1>4, FieldSteps
  <2>2. ItemAt(j) \in Seq(Steps)
    BY <2>1
  <2>3. /\ Append(content, Item(j)) = ItemAt(j)
        /\ Append(ItemAt(j), Key(<<"type">>)) = Content(j, "type")
        /\ Append(ItemAt(j), Key(<<"text">>)) = Content(j, "text")
    <3>1. Append(content, Item(j)) = ItemAt(j)
      BY <2>1, Tuples
    <3>2. Append(ItemAt(j), Key(<<"type">>)) = Content(j, "type")
      <4> DEFINE x == Key(<<"result">>)
                 y == Key(<<"content">>)
                 z == Item(j)
                 w == Key(<<"type">>)
      <4>1. x \in Steps /\ y \in Steps /\ z \in Steps /\ w \in Steps
        BY <2>1
      <4> HIDE DEF x, y, z, w
      <4>2. Append(<<x, y, z>>, w) = <<x, y, z, w>>
        BY <4>1, FourSteps, Zenon
      <4> QED BY <4>2 DEF x, y, z, w, Content
    <3>3. Append(ItemAt(j), Key(<<"text">>)) = Content(j, "text")
      <4> DEFINE x == Key(<<"result">>)
                 y == Key(<<"content">>)
                 z == Item(j)
                 w == Key(<<"text">>)
      <4>1. x \in Steps /\ y \in Steps /\ z \in Steps /\ w \in Steps
        BY <2>1
      <4> HIDE DEF x, y, z, w
      <4>2. Append(<<x, y, z>>, w) = <<x, y, z, w>>
        BY <4>1, FourSteps, Zenon
      <4> QED BY <4>2 DEF x, y, z, w, Content
    <3> QED BY <3>1, <3>2, <3>3
  <2> HIDE DEF content, ItemAt
  <2>4. Append(content, Item(j)) # << >> /\ Front(Append(content, Item(j))) = content
        /\ Last(Append(content, Item(j))) = Item(j)
    BY <1>3, <2>1, AppendIs
  <2>5. /\ Front(Append(ItemAt(j), Key(<<"type">>))) = ItemAt(j)
        /\ Front(Append(ItemAt(j), Key(<<"text">>))) = ItemAt(j)
    BY <2>1, <2>2, AppendIs
  <2> QED BY <2>2, <2>3, <2>4, <2>5
<1>5. /\ Leaf(jsonrpc) = "2.0" /\ ~Present(message, <<Key(<<"error">>)>>)
      /\ Fits(<<Key(<<"result">>), Key(<<"isError">>)>>, "boolean")
      /\ \A j \in 0..2 :
           /\ Fits(Front(Content(j, "type")), "object")
           /\ Fits(Content(j, "type"), "string") /\ Fits(Content(j, "text"), "string")
  BY <1>1 DEF Conforming
<1>6. i \in 0..2
  BY <1>1
<1> DEFINE item == ItemAt(i)
<1>7. /\ item \in Seq(Steps) /\ item # << >>
      /\ Append(content, Item(i)) = item
      /\ Append(item, Key(<<"type">>)) = type /\ Append(item, Key(<<"text">>)) = loc
      /\ Front(loc) = item /\ Front(item) = content /\ Last(item) = Item(i)
  BY <1>4, <1>6
<1>8. type \in DOMAIN message /\ message[type] = "text" /\ IsPrefix(type, type)
  BY <1>1, LeafFits
<1>9. jsonrpc \in DOMAIN message /\ Fits(jsonrpc, "string")
  BY <1>1, <1>5, LeafFits
<1> HIDE DEF root, result, content, ItemAt, loc, type, jsonrpc
<1>10. loc \in DOMAIN message /\ message[loc] = "secret" /\ loc \in Seq(Steps) /\ IsPrefix(loc, loc)
  <2>1. loc \in DOMAIN message /\ message[loc] = "secret"
    BY DEF loc
  <2>2. loc \in Seq(Steps)
    BY <2>1, LeafIs
  <2>3. IsPrefix(loc, loc)
    BY <2>2, PrefixIs
  <2> QED BY <2>1, <2>2, <2>3
<1> HIDE DEF item
<1>11. /\ loc \in Members(message, item, "text") /\ TypeAt(message, item) = "object"
       /\ type \in Members(message, item, "type")
  <2>1. loc \in Members(message, item, "text") /\ TypeAt(message, item) = "object"
    BY <1>1, <1>7, <1>10, FieldAbove
  <2>2. type \in Members(message, item, "type")
    BY <1>1, <1>7, <1>8, FieldAbove
  <2> QED BY <2>1, <2>2
<1>12. IsPrefix(item, loc) /\ item \in Nodes(message) /\ Present(message, item)
  <2>1. loc # << >>
    <3>1. Key(<<"text">>) \in Steps
      BY <1>1, FieldSteps
    <3>2. Append(item, Key(<<"text">>)) # << >>
      BY <1>7, <3>1, AppendIs
    <3> QED BY <1>7, <3>2
  <2>2. IsPrefix(item, loc)
    BY <1>7, <1>10, <2>1, FrontIsPrefix
  <2>3. item \in Nodes(message)
    BY <1>7, <1>10, <2>2, PrefixIsNode
  <2> QED BY <1>10, <2>2, <2>3 DEF Present
<1>13. item \in Items(message, content)
  BY <1>7, <1>12 DEF Items
<1>14. TypeAt(message, content) = "array"
  <2>1. TypeAt(message, content) = IF Last(item).kind = "key" THEN "object" ELSE "array"
    BY <1>7, <1>12, TypeOfParent
  <2> QED BY <1>2, <1>6, <1>7, <2>1
<1>15. IsPrefix(content, loc)
  <2>1. IsPrefix(content, item)
    BY <1>7, FrontIsPrefix
  <2> QED BY <1>3, <1>7, <1>10, <1>12, <2>1, PrefixOfPrefix
<1>16. content \in Members(message, result, "content") /\ TypeAt(message, result) = "object"
  BY <1>1, <1>3, <1>10, <1>15, FieldAbove
<1>17. IsPrefix(result, loc)
  <2>1. content # << >> /\ Front(content) = result
    <3>1. Key(<<"content">>) \in Steps
      BY <1>1, FieldSteps
    <3>2. Append(result, Key(<<"content">>)) # << >> /\ Front(Append(result, Key(<<"content">>))) = result
      BY <1>3, <3>1, AppendIs
    <3> QED BY <1>3, <3>2
  <2>2. IsPrefix(result, content)
    BY <1>3, <2>1, FrontIsPrefix
  <2> QED BY <1>3, <1>10, <1>15, <2>2, PrefixOfPrefix
<1>18. result \in Members(message, root, "result") /\ TypeAt(message, root) = "object"
  BY <1>1, <1>3, <1>10, <1>17, FieldAbove
<1>19. Decodes(message, root, [jsonrpc |-> "string", error |-> "null"])
  <2> DEFINE types == [jsonrpc |-> "string", error |-> "null"]
  <2>1. DOMAIN types = {"jsonrpc", "error"} /\ types["jsonrpc"] = "string" /\ types["error"] = "null"
    OBVIOUS
  <2>2. Fits(<<Key(<<"error">>)>>, "null")
    BY <1>5 DEF Fits
  <2> HIDE DEF types
  <2>3. Fits(Append(root, Key(<<"jsonrpc">>)), types["jsonrpc"]) /\ Fits(Append(root, Key(<<"error">>)), types["error"])
    BY <1>3, <1>9, <2>1, <2>2
  <2>4. DOMAIN types \subseteq DOMAIN Capital /\ \A field \in DOMAIN types : Fits(Append(root, Key(<<field>>)), types[field])
    BY <1>1, <2>1, <2>3
  <2>5. Decodes(message, root, types)
    BY <1>3, <1>18, <2>4, FittingDecodes
  <2> QED BY <2>5 DEF types
<1>20. Decodes(message, result, [content |-> "array", isError |-> "boolean"])
  <2> DEFINE types == [content |-> "array", isError |-> "boolean"]
  <2>1. DOMAIN types = {"content", "isError"} /\ types["content"] = "array" /\ types["isError"] = "boolean"
    OBVIOUS
  <2>2. Fits(content, "array")
    BY <1>14 DEF Fits
  <2> HIDE DEF types
  <2>3. Fits(Append(result, Key(<<"content">>)), types["content"]) /\ Fits(Append(result, Key(<<"isError">>)), types["isError"])
    BY <1>3, <1>5, <2>1, <2>2
  <2>4. DOMAIN types \subseteq DOMAIN Capital /\ \A field \in DOMAIN types : Fits(Append(result, Key(<<field>>)), types[field])
    BY <1>1, <2>1, <2>3
  <2>5. Decodes(message, result, types)
    BY <1>3, <1>16, <2>4, FittingDecodes
  <2> QED BY <2>5 DEF types
<1>21. item \in ContentItems(message)
  BY <1>13, <1>16, <1>18, <1>19, <1>20 DEF ContentItems, root
<1>22. ASSUME NEW other \in ContentItems(message)
       PROVE  Decodes(message, other, [type |-> "string", text |-> "string"])
  <2>1. PICK r \in Members(message, root, "result") :
          other \in UNION {Items(message, c) : c \in Members(message, r, "content")}
    BY <1>22 DEF ContentItems, root
  <2>2. PICK c \in Members(message, r, "content") : other \in Items(message, c)
    BY <2>1
  <2>3. r = result
    BY <1>1, <1>3, OneSpelling
  <2>4. c = content
    BY <1>1, <1>3, <2>3, OneSpelling
  <2>5. PICK j \in 0..2 : other = Append(content, Item(j)) /\ Present(message, other)
    BY <1>1, <2>2, <2>4 DEF Items
  <2>6. /\ other = ItemAt(j) /\ other \in Seq(Steps)
        /\ Append(other, Key(<<"type">>)) = Content(j, "type")
        /\ Append(other, Key(<<"text">>)) = Content(j, "text")
        /\ Front(Content(j, "type")) = other
    BY <1>4, <2>5
  <2>7. TypeAt(message, other) \in {"object", "null"}
    BY <1>5, <2>5, <2>6 DEF Fits
  <2> DEFINE types == [type |-> "string", text |-> "string"]
  <2>8. DOMAIN types = {"type", "text"} /\ types["type"] = "string" /\ types["text"] = "string"
    OBVIOUS
  <2> HIDE DEF types
  <2>9. Fits(Append(other, Key(<<"type">>)), types["type"]) /\ Fits(Append(other, Key(<<"text">>)), types["text"])
    BY <1>5, <2>6, <2>8
  <2>10. DOMAIN types \subseteq DOMAIN Capital /\ \A field \in DOMAIN types : Fits(Append(other, Key(<<field>>)), types[field])
    BY <1>1, <2>8, <2>9
  <2>11. Decodes(message, other, types)
    BY <2>6, <2>7, <2>10, FittingDecodes
  <2> QED BY <2>11 DEF types
<1>23. NonEmptyString(message, loc)
  BY <1>1, <1>10, TypeOfLeaf DEF NonEmptyString
<1>24. Reads(message, Front(loc), "type", "text")
  BY <1>7, <1>8, <1>11 DEF Reads
<1>25. loc \in ResponseTexts(message)
  BY <1>11, <1>21, <1>22, <1>23, <1>24 DEF ResponseTexts
<1> QED BY <1>25 DEF Texts, loc

(* No secret of a conforming message passes if its paths lead back: the    *)
(* selection, the decoding, the extraction and the replacement miss none   *)
(* (mcpparser.go:29-96, parser.go:60-264, server.go:397-450).              *)
THEOREM ConformingMasked == Spec => []ConformingIsMasked
<1>1. TextsInv /\ RewrittenExactly => ConformingIsMasked
  <2> SUFFICES ASSUME TextsInv, RewrittenExactly, phase = "sent", Conforming,
                      \A loc \in Texts : Addressable(loc), NEW loc \in Guarded
               PROVE  loc \in DOMAIN sent /\ sent[loc] # "secret"
    BY DEF ConformingIsMasked
  <2>1. sent = Masked /\ IsTree(message) /\ side \in {"request", "response"}
    BY DEF RewrittenExactly, TextsInv
  <2>2. loc \in DOMAIN message
    BY DEF Guarded
  <2>3. message[loc] = "secret" => loc \in Texts
    <3> SUFFICES ASSUME message[loc] = "secret" PROVE loc \in Texts
      OBVIOUS
    <3>1. CASE side = "request"
      <4>1. IsStrictPrefix(Arguments, loc)
        BY <3>1 DEF Guarded
      <4> QED BY <2>1, <2>2, <3>1, <4>1, CallIsTaken
    <3>2. CASE side = "response"
      <4>1. PICK i \in 0..(Len(Digits) - 1) : loc = Content(i, "text") /\ Leaf(Content(i, "type")) = "text"
        BY <3>2 DEF Guarded
      <4> QED BY <2>1, <2>2, <3>2, <4>1, AnswerIsTaken
    <3> QED BY <2>1, <3>1, <3>2
  <2>4. LeavesAreTyped(message)
    BY <2>1, MessageIsTyped
  <2>5. DOMAIN Decoded(message) = DOMAIN message /\ (Decoded(message)[loc] = "secret" <=> message[loc] = "secret")
    BY <2>2, <2>4, DecodedIs
  <2>6. CASE \E l \in Texts : message[l] = "secret"
    <3>1. Masked = [l \in DOMAIN message |->
                      IF l \in Texts /\ message[l] = "secret" THEN "masked" ELSE Decoded(message)[l]]
      BY <2>6 DEF Masked
    <3> QED BY <2>1, <2>2, <2>3, <2>5, <3>1
  <2>7. CASE ~ \E l \in Texts : message[l] = "secret"
    BY <2>1, <2>2, <2>3, <2>7 DEF Masked
  <2> QED BY <2>6, <2>7
<1> QED BY <1>1, TextsInvHolds, MasksAreExact, PTL
=============================================================================
