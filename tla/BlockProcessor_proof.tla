------------------------- MODULE BlockProcessor_proof -------------------------
(***************************************************************************)
(* Proofs about BlockProcessor, for documents of any length and any depth: *)
(* text is neither lost nor repeated, and closed blocks are final.         *)
(***************************************************************************)
EXTENDS BlockProcessor, FiniteSetTheorems, SequenceTheorems, TLAPS

-----------------------------------------------------------------------------
(* The inductive invariant.                                                *)

(* Every token is of its kind: an unfinished title is text of a definition.*)
IsSound(token) ==
    /\ token \in Token
    /\ token.tail \subseteq token.lines
    /\ token.stage # "none" => token.kind = "definition"

(* The children of a token are numbered from 1, and only containing blocks *)
(* have any.                                                               *)
Numbered(t, p) ==
    /\ IsFiniteSet(ChildrenOf(t, p))
    /\ ChildrenOf(t, p) = {Append(p, k) : k \in 1..Cardinality(ChildrenOf(t, p))}
    /\ ChildrenOf(t, p) # {} => IsContaining(t[p].kind)

IsTree(t) ==
    /\ t = [p \in DOMAIN t |-> t[p]]
    /\ DOMAIN t \subseteq Seq(Nat)
    /\ <<>> \in DOMAIN t
    /\ \A p \in DOMAIN t : \A i \in 0..Len(p) : SubSeq(p, 1, i) \in DOMAIN t
    /\ \A p \in DOMAIN t : IsSound(t[p]) /\ Numbered(t, p)
    /\ IsContaining(t[<<>>].kind)

(* The open blocks are the root, its last child, and so on.                *)
IsStack(t, s) ==
    /\ s \in Seq(DOMAIN t)
    /\ s # <<>>
    /\ \A i \in 1..Len(s) : Len(s[i]) = i - 1
    /\ \A i \in 1..(Len(s) - 1) : s[i + 1] = LastChild(t, s[i])

(* S is the text of the tree, each line of it in one token only.           *)
Holds(t, S) ==
    /\ S = UNION {t[p].lines : p \in DOMAIN t}
    /\ \A p, q \in DOMAIN t : p # q => t[p].lines \cap t[q].lines = {}

Steps == {"idle", "walk", "matched", "open", "lazy", "fallback", "done"}

LineOK ==
    /\ phase \in Steps
    /\ rest \in {"text", "blank", "none"}
    /\ line \in 0..MaxLines
    /\ taken \subseteq 1..line
    /\ rest = "text" => line \in Lines \ taken
    /\ phase \in {"idle", "done"} => rest # "text"

(* Text goes into a block that may contain blocks: the cursor is at one    *)
(* when the walk is over.                                                  *)
CursorOK ==
    /\ current \in 1..(Len(stack) + 1)
    /\ phase = "walk" /\ current > Len(stack) /\ rest = "text" =>
          IsContaining(tree[Top(Doc)].kind)
    /\ phase \in {"matched", "open", "lazy", "fallback"} /\ rest = "text" =>
          /\ current <= Len(stack)
          /\ IsContaining(tree[stack[current]].kind)

IInv ==
    /\ IsTree(tree)
    /\ IsStack(tree, stack)
    /\ Holds(tree, taken)
    /\ LineOK
    /\ CursorOK

-----------------------------------------------------------------------------
(* Paths.                                                                  *)

LEMMA NotEmpty ==
    ASSUME NEW q \in Seq(Nat), Len(q) # 0
    PROVE  q # <<>>
BY EmptySeq

LEMMA Paths ==
    ASSUME NEW p \in Seq(Nat), NEW k \in Nat
    PROVE  /\ Append(p, k) \in Seq(Nat)
           /\ Append(p, k) # <<>>
           /\ Len(p) \in Nat
           /\ Len(Append(p, k)) = Len(p) + 1
           /\ Front(Append(p, k)) = p
           /\ Last(Append(p, k)) = k
           /\ SubSeq(Append(p, k), 1, Len(p) + 1) = Append(p, k)
           /\ \A i \in 0..Len(p) : SubSeq(Append(p, k), 1, i) = SubSeq(p, 1, i)
<1> DEFINE c == Append(p, k)
<1>1. c \in Seq(Nat) /\ Len(c) = Len(p) + 1 /\ Len(p) \in Nat /\ c[Len(p) + 1] = k
  BY AppendProperties, LenProperties
<1>2. \A i \in 1..Len(p) : c[i] = p[i]
  BY AppendProperties
<1>3. SubSeq(c, 1, Len(p) + 1) = c
  BY <1>1, SubSeqFull
<1>4. ASSUME NEW i \in 0..Len(p)
      PROVE  SubSeq(c, 1, i) = SubSeq(p, 1, i)
  BY <1>1, <1>2, <1>4
<1>5. SubSeq(c, 1, Len(p)) = p
  BY <1>1, <1>4, SubSeqFull
<1> QED  BY <1>1, <1>3, <1>4, <1>5, LenProperties DEF Front, Last

(* A path other than the empty one is that of a child.                     *)
LEMMA ChildPath ==
    ASSUME NEW q \in Seq(Nat), q # <<>>
    PROVE  /\ Len(q) \in Nat \ {0}
           /\ Front(q) \in Seq(Nat)
           /\ Last(q) \in Nat
           /\ q = Append(Front(q), Last(q))
           /\ Len(Front(q)) = Len(q) - 1
<1>1. Len(q) \in Nat \ {0}
  BY LenProperties, EmptySeq
<1>2. q[Len(q)] \in Nat /\ SubSeq(q, 1, Len(q) - 1) \in Seq(Nat)
  BY <1>1
<1>3. Len(SubSeq(q, 1, Len(q) - 1)) = Len(q) - 1
  <2> DEFINE n == Len(q) - 1
  <2>1. n \in 0..Len(q) /\ Len(q) \in Nat
    BY <1>1
  <2> HIDE DEF n
  <2>2. Len(SubSeq(q, 1, n)) = n
    BY <2>1
  <2> QED  BY <2>2 DEF n
<1>4. q = Append(SubSeq(q, 1, Len(q) - 1), q[Len(q)])
  BY <1>1, <1>2, <1>3
<1> QED  BY <1>1, <1>2, <1>3, <1>4 DEF Front, Last

LEMMA FrontIsParent ==
    ASSUME NEW t, IsTree(t), NEW q \in DOMAIN t, q # <<>>
    PROVE  Front(q) \in DOMAIN t
<1>1. q \in Seq(Nat)
  BY DEF IsTree
<1>2. Len(q) - 1 \in 0..Len(q)
  BY <1>1, ChildPath
<1> QED  BY <1>2 DEF IsTree, Front

LEMMA CountsChildren ==
    ASSUME NEW t, IsTree(t), NEW p \in DOMAIN t
    PROVE  /\ Cardinality(ChildrenOf(t, p)) \in Nat
           /\ NewChild(t, p) \in Seq(Nat)
           /\ LastChild(t, p) \in Seq(Nat)
           /\ NewChild(t, p) \notin DOMAIN t
           /\ ChildrenOf(t, p) # {} => LastChild(t, p) \in DOMAIN t
           /\ p \in Seq(Nat)
<1> DEFINE n == Cardinality(ChildrenOf(t, p))
<1>1. n \in Nat /\ p \in Seq(Nat)
  BY FS_CardinalityType DEF IsTree, Numbered
<1>2. ChildrenOf(t, p) = {Append(p, k) : k \in 1..n}
  BY DEF IsTree, Numbered
<1>3. NewChild(t, p) \notin DOMAIN t
  <2>1. SUFFICES ASSUME NewChild(t, p) \in DOMAIN t
                 PROVE  FALSE
    OBVIOUS
  <2>2. n + 1 \in Nat
    BY <1>1
  <2>3. Append(p, n + 1) \in ChildrenOf(t, p)
    BY <2>1, <2>2, <1>1, Paths DEF ChildrenOf, NewChild
  <2>4. PICK k \in 1..n : Append(p, n + 1) = Append(p, k)
    BY <2>3, <1>2
  <2>5. Last(Append(p, n + 1)) = n + 1 /\ Last(Append(p, k)) = k
    BY <1>1, <2>2, <2>4, Paths
  <2> QED  BY <2>4, <2>5, <1>1
<1>4. ASSUME ChildrenOf(t, p) # {}
      PROVE  LastChild(t, p) \in DOMAIN t
  <2>1. 1..n # {}
    BY <1>2, <1>4
  <2>2. n \in 1..n
    BY <2>1, <1>1
  <2>3. Append(p, n) \in ChildrenOf(t, p)
    BY <2>2, <1>2
  <2> QED  BY <2>3 DEF ChildrenOf, LastChild
<1> QED  BY <1>1, <1>3, <1>4, Paths DEF NewChild, LastChild

(* Below a token without children there is nothing.                        *)
LEMMA NothingBelow ==
    ASSUME NEW t, IsTree(t), NEW c \in DOMAIN t, ChildrenOf(t, c) = {},
           NEW r \in DOMAIN t, IsPrefix(c, r)
    PROVE  r = c
<1>1. c \in Seq(Nat) /\ r \in Seq(Nat) /\ Len(c) \in Nat /\ Len(r) \in Nat
  BY LenProperties DEF IsTree
<1>2. Len(c) <= Len(r) /\ c = SubSeq(r, 1, Len(c))
  BY <1>1, SubSeqFull DEF IsPrefix
<1>3. CASE Len(c) = Len(r)
  BY <1>1, <1>2, <1>3, SubSeqFull
<1>4. CASE Len(c) < Len(r)
  <2> DEFINE d == SubSeq(r, 1, Len(c) + 1)
  <2>1. Len(c) + 1 \in 0..Len(r)
    BY <1>1, <1>4
  <2>2. d \in DOMAIN t
    BY <2>1 DEF IsTree
  <2>3. d \in Seq(Nat) /\ Len(d) = Len(c) + 1
    BY <1>1, <2>1
  <2>4. SubSeq(d, 1, Len(c)) = c
    BY <1>1, <1>2, <2>1, <2>3
  <2>5. d # <<>>
    <3> HIDE DEF d
    <3> QED  BY <1>1, <2>3, NotEmpty
  <2>6. Len(d) - 1 = Len(c)
    BY <1>1, <2>3
  <2>7. Front(d) = c
    BY <2>4, <2>6 DEF Front
  <2> QED  BY <2>2, <2>5, <2>7 DEF ChildrenOf
<1> QED  BY <1>1, <1>2, <1>3, <1>4

-----------------------------------------------------------------------------
(* The three ways in which a tree changes: a token becomes the new last    *)
(* child c of p, the last child c of p goes, the token at p is replaced.   *)

Extends(t, u, p, c, token) ==
    /\ p \in DOMAIN t
    /\ c = NewChild(t, p)
    /\ DOMAIN u = DOMAIN t \cup {c}
    /\ u[c] = token
    /\ \A q \in DOMAIN t : u[q] = t[q]
    /\ u = [q \in DOMAIN u |-> u[q]]

Shrinks(t, u, p, c) ==
    /\ p \in DOMAIN t
    /\ c = LastChild(t, p)
    /\ c \in DOMAIN t
    /\ ChildrenOf(t, c) = {}
    /\ DOMAIN u = DOMAIN t \ {c}
    /\ \A q \in DOMAIN u : u[q] = t[q]
    /\ u = [q \in DOMAIN u |-> u[q]]

Changes(t, u, p, token) ==
    /\ p \in DOMAIN t
    /\ DOMAIN u = DOMAIN t
    /\ u[p] = token
    /\ \A q \in DOMAIN t \ {p} : u[q] = t[q]
    /\ u = [q \in DOMAIN u |-> u[q]]

LEMMA PushNone ==
    ASSUME NEW t, IsTree(t), NEW p
    PROVE  PushChildren(t, p, <<>>) = t
<1> DEFINE n == Cardinality(ChildrenOf(t, p))
<1>1. PushChildren(t, p, <<>>) = Added(t, p, n, <<>>)
  BY DEF PushChildren
<1>2. {Append(p, n + i) : i \in DOMAIN <<>>} = {}
  OBVIOUS
<1>3. Added(t, p, n, <<>>) = [q \in DOMAIN t |-> t[q]]
  BY <1>2 DEF Added
<1> QED  BY <1>1, <1>3 DEF IsTree

LEMMA PushOne ==
    ASSUME NEW t, IsTree(t), NEW p \in DOMAIN t, NEW token
    PROVE  Extends(t, PushChildren(t, p, <<token>>), p, NewChild(t, p), token)
<1> DEFINE n == Cardinality(ChildrenOf(t, p))
           c == NewChild(t, p)
           u == PushChildren(t, p, <<token>>)
<1>1. u = Added(t, p, n, <<token>>)
  BY DEF PushChildren
<1>2. n \in Nat /\ c \notin DOMAIN t /\ p \in Seq(Nat)
  BY CountsChildren
<1>3. {Append(p, n + i) : i \in DOMAIN <<token>>} = {c}
  BY <1>2 DEF NewChild
<1>4. u = [q \in DOMAIN t \cup {c} |-> IF q \in DOMAIN t THEN t[q] ELSE <<token>>[Last(q) - n]]
  BY <1>1, <1>3 DEF Added
<1>5. Last(c) - n = 1
  <2>1. n + 1 \in Nat
    BY <1>2
  <2>2. Last(c) = n + 1
    BY <1>2, <2>1, Paths DEF NewChild
  <2> QED  BY <1>2, <2>2
<1>6. u[c] = <<token>>[Last(c) - n]
  BY <1>2, <1>4
<1>7. u[c] = token
  BY <1>5, <1>6
<1> HIDE DEF c
<1>8. DOMAIN u = DOMAIN t \cup {c} /\ \A q \in DOMAIN t : u[q] = t[q]
  BY <1>4
<1>9. u = [q \in DOMAIN u |-> u[q]]
  BY <1>4
<1> HIDE DEF u
<1> QED  BY <1>7, <1>8, <1>9 DEF Extends, c, u

LEMMA PopOne ==
    ASSUME NEW t, IsTree(t), NEW p \in DOMAIN t, ChildrenOf(t, p) # {},
           ChildrenOf(t, LastChild(t, p)) = {}
    PROVE  Shrinks(t, PopChild(t, p), p, LastChild(t, p))
<1> DEFINE c == LastChild(t, p)
           u == PopChild(t, p)
<1>1. c \in DOMAIN t /\ c \in Seq(Nat)
  BY CountsChildren
<1>2. u = [q \in {r \in DOMAIN t : ~IsPrefix(c, r)} |-> t[q]]
  BY DEF PopChild
<1>3. {r \in DOMAIN t : ~IsPrefix(c, r)} = DOMAIN t \ {c}
  <2>1. IsPrefix(c, c)
    BY <1>1, LenProperties DEF IsPrefix
  <2>2. \A r \in DOMAIN t : IsPrefix(c, r) => r = c
    BY <1>1, NothingBelow
  <2> QED  BY <2>1, <2>2
<1>4. u = [q \in DOMAIN t \ {c} |-> t[q]]
  BY <1>2, <1>3
<1> HIDE DEF c
<1>5. DOMAIN u = DOMAIN t \ {c} /\ \A q \in DOMAIN u : u[q] = t[q]
  BY <1>4
<1>6. u = [q \in DOMAIN u |-> u[q]]
  BY <1>4
<1> QED  BY <1>1, <1>5, <1>6 DEF Shrinks, c

LEMMA ChildrenExtended ==
    ASSUME NEW t, NEW u, NEW p, NEW c, NEW token, IsTree(t), Extends(t, u, p, c, token)
    PROVE  /\ c \in Seq(Nat) /\ c # <<>> /\ Front(c) = p /\ p # c /\ c \notin DOMAIN t
           /\ ChildrenOf(u, p) = ChildrenOf(t, p) \cup {c}
           /\ \A q \in DOMAIN t \ {p} : ChildrenOf(u, q) = ChildrenOf(t, q)
           /\ ChildrenOf(u, c) = {}
           /\ ChildrenOf(t, c) = {}
<1> DEFINE n == Cardinality(ChildrenOf(t, p))
<1>1. p \in DOMAIN t /\ p \in Seq(Nat) /\ n \in Nat /\ c \notin DOMAIN t
  BY CountsChildren DEF Extends
<1>2. n + 1 \in Nat
  BY <1>1
<1>3. c \in Seq(Nat) /\ c # <<>> /\ Front(c) = p
  BY <1>1, <1>2, Paths DEF Extends, NewChild
<1>4. \A q : ChildrenOf(u, q) = {r \in DOMAIN t \cup {c} : r # <<>> /\ Front(r) = q}
  BY DEF Extends, ChildrenOf
<1>5. ChildrenOf(u, p) = ChildrenOf(t, p) \cup {c}
  BY <1>3, <1>4 DEF ChildrenOf
<1>6. \A q \in DOMAIN t \ {p} : ChildrenOf(u, q) = ChildrenOf(t, q)
  BY <1>3, <1>4 DEF ChildrenOf
<1>7. p # c
  BY <1>1
<1>8. ChildrenOf(t, c) = {}
  BY <1>1, FrontIsParent DEF ChildrenOf
<1>9. ChildrenOf(u, c) = {}
  BY <1>3, <1>4, <1>7, <1>8 DEF ChildrenOf
<1> QED  BY <1>1, <1>3, <1>5, <1>6, <1>7, <1>8, <1>9

LEMMA ChildrenShrunk ==
    ASSUME NEW t, NEW u, NEW p, NEW c, IsTree(t), Shrinks(t, u, p, c)
    PROVE  /\ c \in Seq(Nat) /\ c # <<>> /\ Front(c) = p /\ p # c
           /\ c \in ChildrenOf(t, p)
           /\ ChildrenOf(u, p) = ChildrenOf(t, p) \ {c}
           /\ \A q \in DOMAIN t \ {p} : ChildrenOf(u, q) = ChildrenOf(t, q)
<1> DEFINE n == Cardinality(ChildrenOf(t, p))
<1>1. p \in DOMAIN t /\ p \in Seq(Nat) /\ n \in Nat /\ c = Append(p, n) /\ c \in DOMAIN t
  BY CountsChildren DEF Shrinks, LastChild
<1>2. c \in Seq(Nat) /\ c # <<>> /\ Front(c) = p
  BY <1>1, Paths
<1>3. c \in ChildrenOf(t, p)
  BY <1>1, <1>2 DEF ChildrenOf
<1>4. p # c
  BY <1>3 DEF Shrinks
<1>5. \A q : ChildrenOf(u, q) = {r \in DOMAIN t \ {c} : r # <<>> /\ Front(r) = q}
  BY DEF Shrinks, ChildrenOf
<1>6. ChildrenOf(u, p) = ChildrenOf(t, p) \ {c}
  BY <1>5 DEF ChildrenOf
<1>7. \A q \in DOMAIN t \ {p} : ChildrenOf(u, q) = ChildrenOf(t, q)
  BY <1>2, <1>5 DEF ChildrenOf
<1> QED  BY <1>2, <1>3, <1>4, <1>6, <1>7

LEMMA ChildrenChanged ==
    ASSUME NEW t, NEW u, NEW p, NEW token, Changes(t, u, p, token)
    PROVE  \A q : ChildrenOf(u, q) = ChildrenOf(t, q)
BY DEF Changes, ChildrenOf

(* A tree stays a tree.                                                    *)

LEMMA Nodes ==
    ASSUME NEW t, IsTree(t), NEW p \in DOMAIN t
    PROVE  IsSound(t[p]) /\ Numbered(t, p) /\ p \in Seq(Nat)
BY DEF IsTree

LEMMA SameNumbered ==
    ASSUME NEW t, NEW u, NEW q, Numbered(t, q), ChildrenOf(u, q) = ChildrenOf(t, q),
           u[q].kind = t[q].kind
    PROVE  Numbered(u, q)
BY DEF Numbered

LEMMA NumberedExtended ==
    ASSUME NEW t, NEW u, NEW p, NEW c, NEW token, IsTree(t), Extends(t, u, p, c, token),
           IsContaining(t[p].kind)
    PROVE  Numbered(u, p) /\ Numbered(u, c)
<1> DEFINE n == Cardinality(ChildrenOf(t, p))
<1>1. p \in DOMAIN t /\ n \in Nat /\ c = Append(p, n + 1) /\ u[p].kind = t[p].kind
  BY CountsChildren DEF Extends, NewChild
<1>2. /\ IsFiniteSet(ChildrenOf(t, p))
      /\ ChildrenOf(t, p) = {Append(p, k) : k \in 1..n}
      /\ c \notin ChildrenOf(t, p)
      /\ ChildrenOf(u, p) = ChildrenOf(t, p) \cup {c}
      /\ ChildrenOf(u, c) = {}
  <2>1. Numbered(t, p)
    BY <1>1, Nodes
  <2>2. /\ c \notin DOMAIN t
        /\ ChildrenOf(u, p) = ChildrenOf(t, p) \cup {c}
        /\ ChildrenOf(u, c) = {}
    BY ChildrenExtended
  <2>3. c \notin ChildrenOf(t, p)
    BY <2>2 DEF ChildrenOf
  <2> QED  BY <2>1, <2>2, <2>3 DEF Numbered
<1>3. IsFiniteSet(ChildrenOf(u, p)) /\ Cardinality(ChildrenOf(u, p)) = n + 1
  BY <1>2, FS_AddElement
<1>4. ChildrenOf(u, p) = {Append(p, k) : k \in 1..(n + 1)}
  <2>1. 1..(n + 1) = 1..n \cup {n + 1}
    BY <1>1
  <2> HIDE DEF n
  <2> QED  BY <2>1, <1>1, <1>2
<1>5. Numbered(u, p)
  BY <1>1, <1>3, <1>4 DEF Numbered
<1>6. Numbered(u, c)
  <2>1. Cardinality({}) = 0 /\ IsFiniteSet({}) /\ 1..0 = {}
    BY FS_EmptySet
  <2> QED  BY <2>1, <1>2 DEF Numbered
<1> QED  BY <1>5, <1>6

LEMMA NumberedShrunk ==
    ASSUME NEW t, NEW u, NEW p, NEW c, IsTree(t), Shrinks(t, u, p, c)
    PROVE  Numbered(u, p)
<1> DEFINE n == Cardinality(ChildrenOf(t, p))
<1>1. p \in DOMAIN t /\ p \in Seq(Nat) /\ n \in Nat /\ c = Append(p, n)
  BY CountsChildren DEF Shrinks, LastChild
<1>2. /\ IsFiniteSet(ChildrenOf(t, p))
      /\ ChildrenOf(t, p) = {Append(p, k) : k \in 1..n}
      /\ c \in ChildrenOf(t, p)
      /\ ChildrenOf(u, p) = ChildrenOf(t, p) \ {c}
      /\ p # c
  <2>1. Numbered(t, p)
    BY <1>1, Nodes
  <2>2. c \in ChildrenOf(t, p) /\ ChildrenOf(u, p) = ChildrenOf(t, p) \ {c} /\ p # c
    BY ChildrenShrunk
  <2> QED  BY <2>1, <2>2 DEF Numbered
<1>3. IsFiniteSet(ChildrenOf(u, p)) /\ Cardinality(ChildrenOf(u, p)) = n - 1
  BY <1>2, FS_RemoveElement
<1>4. \A k \in 1..n : Append(p, k) = c <=> k = n
  <2>1. \A k \in 1..n : k \in Nat /\ Last(Append(p, k)) = k
    BY <1>1, Paths
  <2>2. Last(c) = n
    BY <1>1, Paths
  <2> HIDE DEF n
  <2> QED  BY <2>1, <2>2, <1>1
<1>5. ChildrenOf(u, p) = {Append(p, k) : k \in 1..(n - 1)}
  <2>1. 1..(n - 1) = {k \in 1..n : k # n}
    BY <1>1
  <2> HIDE DEF n
  <2>2. ChildrenOf(u, p) = {Append(p, k) : k \in {j \in 1..n : j # n}}
    BY <1>2, <1>4
  <2> QED  BY <2>1, <2>2
<1>6. p \in DOMAIN u /\ u[p] = t[p]
  BY <1>1, <1>2 DEF Shrinks
<1>7. IsContaining(u[p].kind)
  BY <1>1, <1>2, <1>6 DEF IsTree, Numbered
<1> QED  BY <1>3, <1>5, <1>7 DEF Numbered

LEMMA TreeExtended ==
    ASSUME NEW t, NEW u, NEW p, NEW c, NEW token, IsTree(t), Extends(t, u, p, c, token),
           IsSound(token), IsContaining(t[p].kind)
    PROVE  IsTree(u)
<1> DEFINE n == Cardinality(ChildrenOf(t, p))
<1>1. /\ p \in DOMAIN t /\ p \in Seq(Nat) /\ n + 1 \in Nat /\ c = Append(p, n + 1)
      /\ c \in Seq(Nat) /\ Len(p) \in Nat
  BY CountsChildren, ChildrenExtended, LenProperties DEF Extends, NewChild
<1>2. DOMAIN u = DOMAIN t \cup {c} /\ u[c] = token /\ \A q \in DOMAIN t : u[q] = t[q]
  BY DEF Extends
<1>3. ASSUME NEW q \in DOMAIN u, NEW i \in 0..Len(q)
      PROVE  SubSeq(q, 1, i) \in DOMAIN u
  <2>1. CASE q \in DOMAIN t
    BY <1>2, <1>3, <2>1 DEF IsTree
  <2>2. CASE q = c
    <3>1. Len(c) = Len(p) + 1
      BY <1>1, Paths
    <3>2. CASE i \in 0..Len(p)
      <4>1. SubSeq(c, 1, i) = SubSeq(p, 1, i)
        BY <1>1, <3>2, Paths
      <4>2. SubSeq(p, 1, i) \in DOMAIN t
        BY <1>1, <3>2 DEF IsTree
      <4> QED  BY <1>2, <2>2, <4>1, <4>2
    <3>3. CASE i = Len(p) + 1
      BY <1>1, <1>2, <2>2, <3>3, Paths
    <3> QED  BY <1>1, <2>2, <3>1, <3>2, <3>3
  <2> QED  BY <1>2, <2>1, <2>2
<1>4. ASSUME NEW q \in DOMAIN u
      PROVE  IsSound(u[q]) /\ Numbered(u, q)
  <2>1. CASE q \in DOMAIN t \ {p}
    <3>1. ChildrenOf(u, q) = ChildrenOf(t, q)
      BY <2>1, ChildrenExtended
    <3> QED  BY <1>2, <2>1, <3>1, Nodes, SameNumbered
  <2>2. CASE q = p \/ q = c
    BY <1>1, <1>2, <2>2, NumberedExtended DEF IsTree
  <2> QED  BY <1>2, <2>1, <2>2
<1>5. u = [q \in DOMAIN u |-> u[q]]
  BY DEF Extends
<1>6. <<>> \in DOMAIN u /\ IsContaining(u[<<>>].kind)
  BY <1>2 DEF IsTree
<1>7. DOMAIN u \subseteq Seq(Nat)
  BY <1>1, <1>2 DEF IsTree
<1> QED  BY <1>3, <1>4, <1>5, <1>6, <1>7 DEF IsTree

LEMMA TreeShrunk ==
    ASSUME NEW t, NEW u, NEW p, NEW c, IsTree(t), Shrinks(t, u, p, c)
    PROVE  IsTree(u)
<1>1. /\ DOMAIN u = DOMAIN t \ {c} /\ c \in DOMAIN t /\ \A q \in DOMAIN u : u[q] = t[q]
      /\ ChildrenOf(t, c) = {}
  BY DEF Shrinks
<1>2. c # <<>> /\ c \in Seq(Nat)
  BY ChildrenShrunk
<1>3. ASSUME NEW q \in DOMAIN u, NEW i \in 0..Len(q)
      PROVE  SubSeq(q, 1, i) \in DOMAIN u
  <2>1. SubSeq(q, 1, i) \in DOMAIN t /\ q \in Seq(Nat) /\ Len(q) \in Nat
    BY <1>1, LenProperties DEF IsTree
  <2>2. ASSUME SubSeq(q, 1, i) = c
        PROVE  FALSE
    <3>1. Len(c) = i
      BY <2>1, <2>2
    <3>2. SubSeq(c, 1, Len(c)) = c
      BY <1>2, SubSeqFull
    <3>3. IsPrefix(c, q)
      BY <2>1, <2>2, <3>1, <3>2 DEF IsPrefix
    <3> QED  BY <1>1, <3>3, NothingBelow
  <2> QED  BY <1>1, <2>1, <2>2
<1>4. ASSUME NEW q \in DOMAIN u
      PROVE  IsSound(u[q]) /\ Numbered(u, q)
  <2>1. CASE q = p
    BY <1>1, <2>1, NumberedShrunk DEF IsTree
  <2>2. CASE q # p
    <3>1. ChildrenOf(u, q) = ChildrenOf(t, q)
      BY <1>1, <2>2, ChildrenShrunk
    <3> QED  BY <1>1, <3>1, Nodes, SameNumbered
  <2> QED  BY <2>1, <2>2
<1>5. u = [q \in DOMAIN u |-> u[q]]
  BY DEF Shrinks
<1>6. <<>> \in DOMAIN u /\ IsContaining(u[<<>>].kind)
  BY <1>1, <1>2 DEF IsTree
<1>7. DOMAIN u \subseteq Seq(Nat)
  BY <1>1 DEF IsTree
<1> QED  BY <1>3, <1>4, <1>5, <1>6, <1>7 DEF IsTree

LEMMA TreeChanged ==
    ASSUME NEW t, NEW u, NEW p, NEW token, IsTree(t), Changes(t, u, p, token),
           IsSound(token), token.kind = t[p].kind
    PROVE  IsTree(u)
<1>1. \A q : ChildrenOf(u, q) = ChildrenOf(t, q)
  BY ChildrenChanged
<1>2. DOMAIN u = DOMAIN t /\ \A q \in DOMAIN t : u[q].kind = t[q].kind
  BY DEF Changes
<1>3. \A q \in DOMAIN u : IsSound(u[q]) /\ Numbered(u, q)
  BY <1>1, <1>2 DEF IsTree, Changes, Numbered
<1>4. u = [q \in DOMAIN u |-> u[q]]
  BY DEF Changes
<1> QED  BY <1>2, <1>3, <1>4 DEF IsTree

(* The stack stays one.                                                    *)

LEMMA StackEntries ==
    ASSUME NEW t, NEW s, IsStack(t, s)
    PROVE  /\ Len(s) \in Nat \ {0}
           /\ \A i \in 1..Len(s) : s[i] \in DOMAIN t /\ Len(s[i]) = i - 1
           /\ \A i \in 1..(Len(s) - 1) : s[i + 1] = LastChild(t, s[i])
           /\ Last(s) = s[Len(s)]
           /\ Range(s) = {s[i] : i \in 1..Len(s)}
<1>1. Len(s) \in Nat \ {0} /\ DOMAIN s = 1..Len(s)
  BY LenProperties, EmptySeq DEF IsStack
<1>2. \A i \in 1..Len(s) : s[i] \in DOMAIN t
  BY ElementOfSeq DEF IsStack
<1> QED  BY <1>1, <1>2 DEF IsStack, Last, Range

LEMMA ShorterStack ==
    ASSUME NEW t, NEW s, IsStack(t, s), NEW n \in 1..Len(s)
    PROVE  /\ IsStack(t, SubSeq(s, 1, n))
           /\ Len(SubSeq(s, 1, n)) = n
           /\ \A i \in 1..n : SubSeq(s, 1, n)[i] = s[i]
           /\ Range(SubSeq(s, 1, n)) \subseteq Range(s)
<1> DEFINE r == SubSeq(s, 1, n)
<1>1. s \in Seq(DOMAIN t) /\ Len(s) \in Nat
  BY LenProperties DEF IsStack
<1>2. r \in Seq(DOMAIN t) /\ Len(r) = n /\ \A i \in 1..n : r[i] = s[i]
  BY <1>1
<1> HIDE DEF r
<1>3. r # <<>>
  BY <1>2, EmptySeq
<1>4. ASSUME NEW i \in 1..Len(r)
      PROVE  Len(r[i]) = i - 1
  <2>1. i \in 1..n /\ i \in 1..Len(s)
    BY <1>1, <1>2
  <2>2. Len(s[i]) = i - 1
    BY <2>1 DEF IsStack
  <2> QED  BY <1>2, <2>1, <2>2
<1>5. ASSUME NEW i \in 1..(Len(r) - 1)
      PROVE  r[i + 1] = LastChild(t, r[i])
  <2>1. i \in 1..(Len(s) - 1) /\ i \in 1..n /\ i + 1 \in 1..n
    BY <1>1, <1>2
  <2>2. s[i + 1] = LastChild(t, s[i])
    BY <2>1 DEF IsStack
  <2> QED  BY <1>2, <2>1, <2>2
<1>6. IsStack(t, r)
  BY <1>2, <1>3, <1>4, <1>5 DEF IsStack
<1>7. Range(r) \subseteq Range(s)
  <2>1. DOMAIN r = 1..n /\ DOMAIN s = 1..Len(s)
    BY <1>1, <1>2
  <2> QED  BY <1>1, <1>2, <2>1 DEF Range
<1> QED  BY <1>2, <1>6, <1>7 DEF r

(* A change below the last entry does not disturb those before it.         *)
LEMMA SameStack ==
    ASSUME NEW t, NEW u, NEW s, IsStack(t, s),
           \A q \in DOMAIN t : Len(q) < Len(s) => q \in DOMAIN u,
           \A q \in DOMAIN t \ {Last(s)} : ChildrenOf(u, q) = ChildrenOf(t, q)
    PROVE  IsStack(u, s)
<1>1. /\ Len(s) \in Nat \ {0}
      /\ \A i \in 1..Len(s) : s[i] \in DOMAIN t /\ Len(s[i]) = i - 1
      /\ \A i \in 1..(Len(s) - 1) : s[i + 1] = LastChild(t, s[i])
      /\ Last(s) = s[Len(s)]
  BY StackEntries
<1>2. \A i \in 1..Len(s) : s[i] \in DOMAIN u
  BY <1>1
<1>3. s \in Seq(DOMAIN u)
  <2>1. s \in Seq(DOMAIN t)
    BY DEF IsStack
  <2> QED  BY <1>1, <1>2, <2>1
<1>4. ASSUME NEW i \in 1..(Len(s) - 1)
      PROVE  s[i + 1] = LastChild(u, s[i])
  <2>1. i \in 1..Len(s) /\ i # Len(s) /\ Len(s) \in 1..Len(s)
    BY <1>1
  <2>2. Len(s[i]) = i - 1 /\ Len(s[Len(s)]) = Len(s) - 1
    BY <1>1, <2>1
  <2>3. s[i] # Last(s)
    BY <1>1, <2>1, <2>2
  <2>4. ChildrenOf(u, s[i]) = ChildrenOf(t, s[i])
    BY <1>1, <2>1, <2>3
  <2> QED  BY <1>1, <2>4 DEF LastChild
<1> QED  BY <1>1, <1>3, <1>4 DEF IsStack

LEMMA StackExtended ==
    ASSUME NEW t, NEW u, NEW s, NEW c, NEW token, IsTree(t), IsStack(t, s),
           Extends(t, u, Last(s), c, token)
    PROVE  IsStack(u, s) /\ IsStack(u, Append(s, c))
<1> DEFINE p == Last(s)
           r == Append(s, c)
<1>1. IsStack(u, s)
  BY SameStack, ChildrenExtended DEF Extends
<1>2. /\ Len(s) \in Nat \ {0} /\ p = s[Len(s)] /\ Len(p) = Len(s) - 1
      /\ \A i \in 1..Len(s) : Len(s[i]) = i - 1
      /\ \A i \in 1..(Len(s) - 1) : s[i + 1] = LastChild(u, s[i])
  BY <1>1, StackEntries
<1>3. s \in Seq(DOMAIN u) /\ c \in DOMAIN u
  BY <1>1 DEF IsStack, Extends
<1>4. /\ r \in Seq(DOMAIN u) /\ Len(r) = Len(s) + 1 /\ r[Len(s) + 1] = c
      /\ \A i \in 1..Len(s) : r[i] = s[i]
  BY <1>3, AppendProperties
<1>5. c = LastChild(u, p) /\ Len(c) = Len(s)
  <2> DEFINE n == Cardinality(ChildrenOf(t, p))
  <2>1. p \in DOMAIN t /\ p \in Seq(Nat) /\ n \in Nat /\ c = Append(p, n + 1)
    BY CountsChildren DEF Extends, NewChild
  <2>2. IsFiniteSet(ChildrenOf(t, p))
    BY <2>1, Nodes DEF Numbered
  <2>3. c \notin ChildrenOf(t, p) /\ ChildrenOf(u, p) = ChildrenOf(t, p) \cup {c}
    BY ChildrenExtended DEF ChildrenOf
  <2>4. Cardinality(ChildrenOf(u, p)) = n + 1
    BY <2>2, <2>3, FS_AddElement
  <2>5. Len(c) = Len(p) + 1
    BY <2>1, Paths
  <2> QED  BY <1>2, <2>1, <2>4, <2>5 DEF LastChild
<1> HIDE DEF r
<1>6. r # <<>>
  BY <1>2, <1>4, EmptySeq
<1>7. ASSUME NEW i \in 1..Len(r)
      PROVE  Len(r[i]) = i - 1
  <2>1. CASE i = Len(s) + 1
    <3>1. Len(r[i]) = Len(s)
      BY <1>4, <1>5, <2>1
    <3> QED  BY <1>2, <2>1, <3>1
  <2>2. CASE i # Len(s) + 1
    <3>1. i \in 1..Len(s)
      BY <1>2, <1>4, <2>2
    <3>2. r[i] = s[i] /\ Len(s[i]) = i - 1
      BY <1>2, <1>4, <3>1
    <3> QED  BY <3>2
  <2> QED  BY <2>1, <2>2
<1>8. ASSUME NEW i \in 1..(Len(r) - 1)
      PROVE  r[i + 1] = LastChild(u, r[i])
  <2>1. CASE i = Len(s)
    BY <1>2, <1>4, <1>5, <2>1
  <2>2. CASE i # Len(s)
    <3>1. i \in 1..(Len(s) - 1) /\ i \in 1..Len(s) /\ i + 1 \in 1..Len(s)
      BY <1>2, <1>4, <2>2
    <3>2. s[i + 1] = LastChild(u, s[i])
      BY <1>2, <3>1
    <3>3. r[i + 1] = s[i + 1] /\ r[i] = s[i]
      BY <1>4, <3>1
    <3> QED  BY <3>2, <3>3
  <2> QED  BY <2>1, <2>2
<1>9. IsStack(u, r)
  BY <1>4, <1>6, <1>7, <1>8 DEF IsStack
<1> QED  BY <1>1, <1>9 DEF r

LEMMA StackShrunk ==
    ASSUME NEW t, NEW u, NEW s, NEW c, IsTree(t), IsStack(t, s), Shrinks(t, u, Last(s), c)
    PROVE  IsStack(u, s)
<1>1. Last(s) \in DOMAIN t /\ Len(Last(s)) = Len(s) - 1 /\ Len(s) \in Nat \ {0}
  BY StackEntries DEF Shrinks
<1>2. Len(c) = Len(s)
  <2>1. Last(s) \in Seq(Nat) /\ Cardinality(ChildrenOf(t, Last(s))) \in Nat
    BY <1>1, CountsChildren
  <2>2. Len(c) = Len(Last(s)) + 1
    BY <2>1, Paths DEF Shrinks, LastChild
  <2> QED  BY <1>1, <2>2
<1>3. \A q \in DOMAIN t : Len(q) < Len(s) => q \in DOMAIN u
  BY <1>1, <1>2 DEF Shrinks
<1>4. \A q \in DOMAIN t \ {Last(s)} : ChildrenOf(u, q) = ChildrenOf(t, q)
  BY ChildrenShrunk
<1> QED  BY <1>3, <1>4, SameStack

LEMMA StackChanged ==
    ASSUME NEW t, NEW u, NEW s, NEW p, NEW token, IsStack(t, s), Changes(t, u, p, token)
    PROVE  IsStack(u, s)
BY ChildrenChanged, SameStack DEF Changes

(* The text.                                                               *)

LEMMA HoldsExtended ==
    ASSUME NEW t, NEW u, NEW p, NEW c, NEW token, NEW S, Holds(t, S),
           c \notin DOMAIN t, Extends(t, u, p, c, token), token.lines \cap S = {}
    PROVE  Holds(u, S \cup token.lines)
<1>1. DOMAIN u = DOMAIN t \cup {c} /\ u[c] = token /\ \A q \in DOMAIN t : u[q] = t[q]
  BY DEF Extends
<1>2. \A q \in DOMAIN t : t[q].lines \subseteq S
  BY DEF Holds
<1>3. S \cup token.lines = UNION {u[q].lines : q \in DOMAIN u}
  BY <1>1 DEF Holds
<1>4. ASSUME NEW q \in DOMAIN u, NEW r \in DOMAIN u, q # r
      PROVE  u[q].lines \cap u[r].lines = {}
  BY <1>1, <1>2, <1>4 DEF Holds
<1> QED  BY <1>3, <1>4 DEF Holds

LEMMA HoldsShrunk ==
    ASSUME NEW t, NEW u, NEW p, NEW c, NEW S, Holds(t, S), Shrinks(t, u, p, c)
    PROVE  Holds(u, S \ t[c].lines)
<1>1. DOMAIN u = DOMAIN t \ {c} /\ c \in DOMAIN t /\ \A q \in DOMAIN u : u[q] = t[q]
  BY DEF Shrinks
<1>2. \A q \in DOMAIN u : t[q].lines \cap t[c].lines = {}
  BY <1>1 DEF Holds
<1>3. S \ t[c].lines = UNION {u[q].lines : q \in DOMAIN u}
  BY <1>1, <1>2 DEF Holds
<1>4. \A q, r \in DOMAIN u : q # r => u[q].lines \cap u[r].lines = {}
  BY <1>1 DEF Holds
<1> QED  BY <1>3, <1>4 DEF Holds

LEMMA HoldsChanged ==
    ASSUME NEW t, NEW u, NEW p, NEW token, NEW S, Holds(t, S), Changes(t, u, p, token),
           token.lines \cap (S \ t[p].lines) = {}
    PROVE  Holds(u, (S \ t[p].lines) \cup token.lines)
<1>1. /\ DOMAIN u = DOMAIN t /\ p \in DOMAIN t /\ u[p] = token
      /\ \A q \in DOMAIN t \ {p} : u[q] = t[q]
  BY DEF Changes
<1>2. \A q \in DOMAIN t \ {p} : t[q].lines \subseteq S \ t[p].lines
  BY <1>1 DEF Holds
<1>3. (S \ t[p].lines) \cup token.lines = UNION {u[q].lines : q \in DOMAIN u}
  BY <1>1, <1>2 DEF Holds
<1>4. ASSUME NEW q \in DOMAIN u, NEW r \in DOMAIN u, q # r
      PROVE  u[q].lines \cap u[r].lines = {}
  BY <1>1, <1>2, <1>4 DEF Holds
<1> QED  BY <1>3, <1>4 DEF Holds

(* The tokens of C are as they were in t0.                                 *)
Keeps(C, t0, t) ==
    \A q \in C : q \in DOMAIN t /\ t[q] = t0[q] /\ ChildrenOf(t, q) = ChildrenOf(t0, q)

LEMMA KeepsExtended ==
    ASSUME NEW t, NEW u, NEW p, NEW c, NEW token, NEW C, NEW t0, IsTree(t),
           Keeps(C, t0, t), Extends(t, u, p, c, token), p \notin C
    PROVE  Keeps(C, t0, u) /\ c \notin C
<1>1. /\ c \notin DOMAIN t
      /\ \A q \in DOMAIN t \ {p} : ChildrenOf(u, q) = ChildrenOf(t, q)
  BY ChildrenExtended
<1>2. c \notin C
  BY <1>1 DEF Keeps
<1> QED  BY <1>1, <1>2 DEF Keeps, Extends

LEMMA KeepsShrunk ==
    ASSUME NEW t, NEW u, NEW p, NEW c, NEW C, NEW t0, IsTree(t),
           Keeps(C, t0, t), Shrinks(t, u, p, c), p \notin C, c \notin C
    PROVE  Keeps(C, t0, u)
<1>1. \A q \in DOMAIN t \ {p} : ChildrenOf(u, q) = ChildrenOf(t, q)
  BY ChildrenShrunk
<1> QED  BY <1>1 DEF Keeps, Shrinks

LEMMA KeepsChanged ==
    ASSUME NEW t, NEW u, NEW p, NEW token, NEW C, NEW t0,
           Keeps(C, t0, t), Changes(t, u, p, token), p \notin C
    PROVE  Keeps(C, t0, u)
<1>1. \A q : ChildrenOf(u, q) = ChildrenOf(t, q)
  BY ChildrenChanged
<1> QED  BY <1>1 DEF Keeps, Changes

-----------------------------------------------------------------------------
(* Documents: a tree and a stack that hold the text S, and the tokens of C *)
(* as they were in t0.                                                     *)

Fine(doc, S, C, t0) ==
    /\ doc = [tree |-> doc.tree, stack |-> doc.stack]
    /\ IsTree(doc.tree)
    /\ IsStack(doc.tree, doc.stack)
    /\ Holds(doc.tree, S)
    /\ Keeps(C, t0, doc.tree)
    /\ C \cap Range(doc.stack) = {}

LEMMA FineIs ==
    ASSUME NEW t, NEW s, NEW S, NEW C, NEW t0,
           IsTree(t), IsStack(t, s), Holds(t, S), Keeps(C, t0, t), C \cap Range(s) = {}
    PROVE  Fine([tree |-> t, stack |-> s], S, C, t0)
BY DEF Fine

LEMMA Tops ==
    ASSUME NEW doc, NEW S, NEW C, NEW t0, Fine(doc, S, C, t0)
    PROVE  /\ Len(doc.stack) \in Nat \ {0}
           /\ Top(doc) = Last(doc.stack)
           /\ \A i \in 1..Len(doc.stack) : doc.stack[i] \in DOMAIN doc.tree \ C
           /\ Top(doc) \in DOMAIN doc.tree \ C
           /\ \A q \in DOMAIN doc.tree : doc.tree[q].lines \subseteq S
<1>1. /\ Len(doc.stack) \in Nat \ {0}
      /\ Last(doc.stack) = doc.stack[Len(doc.stack)]
      /\ Range(doc.stack) = {doc.stack[i] : i \in 1..Len(doc.stack)}
      /\ \A i \in 1..Len(doc.stack) : doc.stack[i] \in DOMAIN doc.tree
  BY StackEntries DEF Fine
<1>2. \A i \in 1..Len(doc.stack) : doc.stack[i] \notin C
  BY <1>1 DEF Fine
<1>3. Len(doc.stack) \in 1..Len(doc.stack)
  BY <1>1
<1>4. \A q \in DOMAIN doc.tree : doc.tree[q].lines \subseteq S
  BY DEF Fine, Holds
<1> QED  BY <1>1, <1>2, <1>3, <1>4 DEF Top

(* The tokens of t are those of u still.                                   *)
Remain(t, u) == \A q \in DOMAIN t : q \in DOMAIN u /\ u[q] = t[q]

(* The last block may take the token, whose text is new.                   *)
Takes(doc, S, token) ==
    IsSound(token) /\ token.lines \cap S = {} /\ IsContaining(doc.tree[Top(doc)].kind)

(* The token is the last block of e, and the others are those of doc.      *)
Opens(doc, e, token) == e.tree[Top(e)] = token /\ Front(e.stack) = doc.stack

LEMMA FinePush ==
    ASSUME NEW doc, NEW S, NEW C, NEW t0, NEW token, Fine(doc, S, C, t0), Takes(doc, S, token)
    PROVE  LET u == PushChildren(doc.tree, Top(doc), <<token>>)
               e == OpenOnTop(doc, token)
           IN  /\ Fine([tree |-> u, stack |-> doc.stack], S \cup token.lines, C, t0)
               /\ Remain(doc.tree, u)
               /\ Fine(e, S \cup token.lines, C, t0)
               /\ Fine([tree |-> e.tree, stack |-> doc.stack], S \cup token.lines, C, t0)
               /\ Opens(doc, e, token)
<1> DEFINE t == doc.tree
           s == doc.stack
           p == Top(doc)
           c == NewChild(t, p)
           u == PushChildren(t, p, <<token>>)
           e == OpenOnTop(doc, token)
           r == Append(s, c)
<1>1. /\ IsTree(t) /\ IsStack(t, s) /\ Holds(t, S) /\ Keeps(C, t0, t)
      /\ C \cap Range(s) = {}
  BY DEF Fine
<1>2. p \in DOMAIN t /\ p \notin C /\ p = Last(s) /\ Len(s) \in Nat \ {0}
  BY Tops
<1>3. e = [tree |-> u, stack |-> r]
  BY DEF OpenOnTop
<1> HIDE DEF t, s, p, e
<1>4. Extends(t, u, p, c, token)
  BY <1>1, <1>2, PushOne
<1>5. c \notin DOMAIN t
  BY <1>1, <1>2, CountsChildren
<1> HIDE DEF c, u
<1>6. IsTree(u)
  BY <1>1, <1>2, <1>4, TreeExtended DEF t, p, Takes
<1>7. IsStack(u, s) /\ IsStack(u, r)
  BY <1>1, <1>2, <1>4, StackExtended
<1>8. Holds(u, S \cup token.lines)
  BY <1>1, <1>4, <1>5, HoldsExtended DEF Takes
<1>9. Keeps(C, t0, u) /\ c \notin C
  BY <1>1, <1>2, <1>4, KeepsExtended
<1>10. /\ Len(r) = Len(s) + 1 /\ r[Len(s) + 1] = c
       /\ \A i \in 1..Len(s) : r[i] = s[i]
  <2>1. s \in Seq(DOMAIN u) /\ c \in DOMAIN u
    BY <1>4, <1>7 DEF IsStack, Extends
  <2> QED  BY <2>1, AppendProperties
<1>11. Front(r) = s
  <2>1. s \in Seq(DOMAIN u) /\ c \in DOMAIN u
    BY <1>4, <1>7 DEF IsStack, Extends
  <2> QED  BY <1>2, <2>1 DEF Front
<1> HIDE DEF r
<1>12. C \cap Range(r) = {}
  <2>1. Range(r) = {r[i] : i \in 1..Len(r)} /\ Range(s) = {s[i] : i \in 1..Len(s)}
    BY <1>7, StackEntries
  <2>2. \A i \in 1..Len(r) : i \in 1..Len(s) \/ i = Len(s) + 1
    BY <1>2, <1>10
  <2>3. \A i \in 1..Len(r) : r[i] \notin C
    BY <1>1, <1>9, <1>10, <2>1, <2>2
  <2> QED  BY <2>1, <2>3
<1>13. Fine([tree |-> u, stack |-> s], S \cup token.lines, C, t0)
  BY <1>1, <1>6, <1>7, <1>8, <1>9, FineIs
<1>14. Fine(e, S \cup token.lines, C, t0)
  BY <1>3, <1>6, <1>7, <1>8, <1>9, <1>12, FineIs
<1>15. Remain(t, u) /\ u[c] = token
  BY <1>4 DEF Remain, Extends
<1>16. e.tree = u /\ e.stack = r /\ Top(e) = c
  BY <1>2, <1>3, <1>10 DEF Top
<1>17. Opens(doc, e, token)
  BY <1>11, <1>15, <1>16 DEF Opens, s
<1> QED  BY <1>13, <1>14, <1>15, <1>16, <1>17 DEF t, s, p, e, u

LEMMA FinePop ==
    ASSUME NEW doc, NEW S, NEW C, NEW t0, Fine(doc, S, C, t0), NEW c,
           c = LastChild(doc.tree, Top(doc)), c \notin C,
           ChildrenOf(doc.tree, Top(doc)) # {}, ChildrenOf(doc.tree, c) = {}
    PROVE  LET u == PopChild(doc.tree, Top(doc))
           IN  /\ Fine([tree |-> u, stack |-> doc.stack], S \ doc.tree[c].lines, C, t0)
               /\ \A q \in DOMAIN doc.tree \ {c} : q \in DOMAIN u /\ u[q] = doc.tree[q]
<1> DEFINE t == doc.tree
           s == doc.stack
           p == Top(doc)
           u == PopChild(t, p)
<1>1. /\ IsTree(t) /\ IsStack(t, s) /\ Holds(t, S) /\ Keeps(C, t0, t)
      /\ C \cap Range(s) = {}
  BY DEF Fine
<1>2. p \in DOMAIN t /\ p \notin C /\ p = Last(s)
  BY Tops
<1> HIDE DEF t, s, p
<1>3. Shrinks(t, u, p, c)
  BY <1>1, <1>2, PopOne DEF t, p
<1> HIDE DEF u
<1>4. IsTree(u)
  BY <1>1, <1>3, TreeShrunk
<1>5. IsStack(u, s)
  BY <1>1, <1>2, <1>3, StackShrunk
<1>6. Holds(u, S \ t[c].lines)
  BY <1>1, <1>3, HoldsShrunk
<1>7. Keeps(C, t0, u)
  BY <1>1, <1>2, <1>3, KeepsShrunk
<1>8. Fine([tree |-> u, stack |-> s], S \ t[c].lines, C, t0)
  BY <1>1, <1>4, <1>5, <1>6, <1>7, FineIs
<1>9. \A q \in DOMAIN t \ {c} : q \in DOMAIN u /\ u[q] = t[q]
  BY <1>3 DEF Shrinks
<1> QED  BY <1>8, <1>9 DEF t, s, p, u

LEMMA FineChange ==
    ASSUME NEW doc, NEW S, NEW C, NEW t0, Fine(doc, S, C, t0), NEW p, NEW token, NEW u,
           Changes(doc.tree, u, p, token), p \notin C,
           IsSound(token), token.kind = doc.tree[p].kind,
           token.lines \cap (S \ doc.tree[p].lines) = {}
    PROVE  Fine([tree |-> u, stack |-> doc.stack],
                (S \ doc.tree[p].lines) \cup token.lines, C, t0)
<1>1. /\ IsTree(doc.tree) /\ IsStack(doc.tree, doc.stack) /\ Holds(doc.tree, S)
      /\ Keeps(C, t0, doc.tree) /\ C \cap Range(doc.stack) = {}
  BY DEF Fine
<1>2. IsTree(u)
  BY <1>1, TreeChanged
<1>3. IsStack(u, doc.stack)
  BY <1>1, StackChanged
<1>4. Holds(u, (S \ doc.tree[p].lines) \cup token.lines)
  BY <1>1, HoldsChanged
<1>5. Keeps(C, t0, u)
  BY <1>1, KeepsChanged
<1> QED  BY <1>1, <1>2, <1>3, <1>4, <1>5, FineIs

LEMMA FineShorter ==
    ASSUME NEW doc, NEW S, NEW C, NEW t0, Fine(doc, S, C, t0), NEW n \in 1..Len(doc.stack)
    PROVE  LET e == [tree |-> doc.tree, stack |-> SubSeq(doc.stack, 1, n)]
           IN  /\ Fine(e, S, C, t0)
               /\ Len(e.stack) = n
               /\ \A i \in 1..n : e.stack[i] = doc.stack[i]
               /\ Top(e) = doc.stack[n]
<1> DEFINE r == SubSeq(doc.stack, 1, n)
           e == [tree |-> doc.tree, stack |-> r]
<1>1. /\ IsTree(doc.tree) /\ IsStack(doc.tree, doc.stack) /\ Holds(doc.tree, S)
      /\ Keeps(C, t0, doc.tree) /\ C \cap Range(doc.stack) = {}
  BY DEF Fine
<1>2. /\ IsStack(doc.tree, r) /\ Len(r) = n /\ \A i \in 1..n : r[i] = doc.stack[i]
      /\ Range(r) \subseteq Range(doc.stack)
  BY <1>1, ShorterStack
<1>3. n \in 1..n
  BY Tops
<1> HIDE DEF r
<1>4. Fine(e, S, C, t0)
  BY <1>1, <1>2, FineIs
<1>5. e.stack = r /\ Top(e) = doc.stack[n]
  BY <1>2, <1>3 DEF Top
<1> QED  BY <1>2, <1>4, <1>5 DEF r

(* An open block other than the last has the next as its last child.       *)
LEMMA Parents ==
    ASSUME NEW t, NEW s, IsTree(t), IsStack(t, s), NEW i \in 1..(Len(s) - 1)
    PROVE  /\ i \in 1..Len(s) /\ i + 1 \in 1..Len(s)
           /\ s[i + 1] = LastChild(t, s[i])
           /\ ChildrenOf(t, s[i]) # {}
           /\ IsContaining(t[s[i]].kind)
<1>1. Len(s) \in Nat \ {0}
  BY StackEntries
<1>2. i \in 1..Len(s) /\ i + 1 \in 1..Len(s)
  BY <1>1
<1>3. s[i] \in DOMAIN t /\ s[i + 1] \in DOMAIN t /\ s[i + 1] = LastChild(t, s[i])
  BY <1>2, StackEntries
<1>4. s[i] \in Seq(Nat) /\ Cardinality(ChildrenOf(t, s[i])) \in Nat
  BY <1>3, CountsChildren
<1>5. s[i + 1] \in ChildrenOf(t, s[i])
  BY <1>3, <1>4, Paths DEF LastChild, ChildrenOf
<1>6. Numbered(t, s[i])
  BY <1>3, Nodes
<1> QED  BY <1>2, <1>3, <1>5, <1>6 DEF Numbered

(* A block that may not contain any is the last of the stack.              *)
LEMMA LeavesAreLast ==
    ASSUME NEW t, NEW s, IsTree(t), IsStack(t, s), NEW i \in 1..Len(s),
           ~ IsContaining(t[s[i]].kind)
    PROVE  i = Len(s) /\ ChildrenOf(t, s[i]) = {} /\ i # 1
<1>1. Len(s) \in Nat \ {0} /\ s[i] \in DOMAIN t /\ Len(s[1]) = 0 /\ s[1] \in DOMAIN t
  <2>1. Len(s) \in Nat \ {0}
    BY StackEntries
  <2>2. 1 \in 1..Len(s)
    BY <2>1
  <2> QED  BY <2>1, <2>2, StackEntries
<1>2. i = Len(s)
  <2>1. i \notin 1..(Len(s) - 1)
    BY Parents
  <2> QED  BY <1>1, <2>1
<1>3. Numbered(t, s[i]) /\ s[1] \in Seq(Nat)
  BY <1>1, Nodes
<1>4. i # 1
  <2>1. s[1] = <<>>
    BY <1>1, <1>3, EmptySeq
  <2> QED  BY <2>1 DEF IsTree
<1> QED  BY <1>2, <1>3, <1>4 DEF Numbered

LEMMA SoundLeaf ==
    ASSUME NEW kind \in Kinds, NEW lines \in SUBSET Lines
    PROVE  /\ IsSound(Leaf(kind, lines))
           /\ Leaf(kind, lines).kind = kind /\ Leaf(kind, lines).lines = lines
BY DEF IsSound, Leaf, Token, Stages

LEMMA SoundUntitled ==
    ASSUME NEW token, IsSound(token), token.stage \in {"complete", "title"}
    PROVE  /\ IsSound(Untitled(token))
           /\ Untitled(token).kind = token.kind
           /\ Untitled(token).lines = token.lines \ token.tail
           /\ token.kind = "definition"
           /\ token.tail \subseteq token.lines
           /\ token.lines \subseteq Lines
<1>1. token \in Token /\ token.kind = "definition" /\ token.tail \subseteq token.lines
  BY DEF IsSound
<1>2. /\ Untitled(token) \in Token
      /\ Untitled(token).kind = token.kind
      /\ Untitled(token).lines = token.lines \ token.tail
      /\ Untitled(token).tail = {}
  BY <1>1 DEF Untitled, Token, Stages
<1> QED  BY <1>1, <1>2 DEF IsSound, Token

LEMMA FineClosed ==
    ASSUME NEW doc, NEW S, NEW C, NEW t0, Fine(doc, S, C, t0), NEW lines \in SUBSET Lines,
           lines \cap S = {}, IsContaining(doc.tree[Top(doc)].kind)
    PROVE  LET u == PushChildren(doc.tree, Top(doc), Closed(lines))
           IN  Fine([tree |-> u, stack |-> doc.stack], S \cup lines, C, t0) /\ Remain(doc.tree, u)
<1>1. CASE lines = {}
  <2>1. PushChildren(doc.tree, Top(doc), Closed(lines)) = doc.tree
    BY <1>1, PushNone DEF Closed, Fine
  <2>2. doc = [tree |-> doc.tree, stack |-> doc.stack]
    BY DEF Fine
  <2>3. Remain(doc.tree, doc.tree) /\ S \cup lines = S
    BY <1>1 DEF Remain
  <2> QED  BY <2>1, <2>2, <2>3
<1>2. CASE lines # {}
  <2> DEFINE token == Leaf("paragraph", lines)
  <2>1. Closed(lines) = <<token>>
    BY <1>2 DEF Closed
  <2>2. IsSound(token) /\ token.lines = lines
    BY SoundLeaf DEF Kinds
  <2> HIDE DEF token
  <2>3. Takes(doc, S, token)
    BY <2>2 DEF Takes
  <2>4. /\ Fine([tree |-> PushChildren(doc.tree, Top(doc), <<token>>), stack |-> doc.stack],
                S \cup token.lines, C, t0)
        /\ Remain(doc.tree, PushChildren(doc.tree, Top(doc), <<token>>))
    BY <2>3, FinePush
  <2> QED  BY <2>1, <2>2, <2>4
<1> QED  BY <1>1, <1>2

(* The last child of the last block is open, and nothing is in it.         *)
MayGo(d, c, C) ==
    /\ c = LastChild(d.tree, Top(d)) /\ c \in DOMAIN d.tree /\ c \notin C
    /\ ChildrenOf(d.tree, Top(d)) # {} /\ ChildrenOf(d.tree, c) = {}

Without(d) == [tree |-> PopChild(d.tree, Top(d)), stack |-> d.stack]

(* The tokens of t but that at c are those of u still.                     *)
RemainBut(t, u, c) == \A q \in DOMAIN t \ {c} : q \in DOMAIN u /\ u[q] = t[q]

LEMMA FineWithout ==
    ASSUME NEW d, NEW S, NEW C, NEW t0, Fine(d, S, C, t0), NEW c, MayGo(d, c, C)
    PROVE  /\ Fine(Without(d), S \ d.tree[c].lines, C, t0)
           /\ Takes(Without(d), {}, Leaf("container", {}))
           /\ RemainBut(d.tree, Without(d).tree, c)
<1>1. PICK e : e = Without(d)
  OBVIOUS
<1>2. e.tree = PopChild(d.tree, Top(d)) /\ e.stack = d.stack
  BY <1>1 DEF Without
<1>3. Top(e) = Top(d)
  BY <1>2 DEF Top
<1>4. /\ Fine(e, S \ d.tree[c].lines, C, t0)
      /\ \A q \in DOMAIN d.tree \ {c} : q \in DOMAIN e.tree /\ e.tree[q] = d.tree[q]
  <2>1. /\ c = LastChild(d.tree, Top(d)) /\ c \in DOMAIN d.tree /\ c \notin C
        /\ ChildrenOf(d.tree, Top(d)) # {} /\ ChildrenOf(d.tree, c) = {}
    BY DEF MayGo
  <2>2. /\ Fine([tree |-> PopChild(d.tree, Top(d)), stack |-> d.stack],
                S \ d.tree[c].lines, C, t0)
        /\ \A q \in DOMAIN d.tree \ {c} :
              /\ q \in DOMAIN PopChild(d.tree, Top(d))
              /\ PopChild(d.tree, Top(d))[q] = d.tree[q]
    BY <2>1, FinePop
  <2> QED  BY <2>2, <1>1, <1>2 DEF Without
<1>5. Top(d) \in DOMAIN d.tree \ {c} /\ IsContaining(d.tree[Top(d)].kind)
  <2>1. Top(d) \in DOMAIN d.tree /\ IsTree(d.tree)
    BY Tops DEF Fine
  <2>2. Numbered(d.tree, Top(d))
    BY <2>1, Nodes
  <2> QED  BY <2>1, <2>2 DEF Numbered, MayGo
<1>6. IsContaining(e.tree[Top(e)].kind)
  BY <1>3, <1>4, <1>5
<1>7. Takes(e, {}, Leaf("container", {}))
  BY <1>6, SoundLeaf DEF Takes, Kinds
<1> QED  BY <1>1, <1>4, <1>7 DEF RemainBut

(* The last child of the last block goes, and what it held is put after it.*)
LEMMA FineGivenBack ==
    ASSUME NEW d, NEW S, NEW C, NEW t0, Fine(d, S, C, t0), S \subseteq Lines, NEW c,
           MayGo(d, c, C)
    PROVE  LET u == PushChildren(PopChild(d.tree, Top(d)), Top(d), Closed(d.tree[c].lines))
           IN  Fine([tree |-> u, stack |-> d.stack], S, C, t0) /\ RemainBut(d.tree, u, c)
<1>1. PICK e : e = Without(d)
  OBVIOUS
<1>2. e.tree = PopChild(d.tree, Top(d)) /\ e.stack = d.stack
  BY <1>1 DEF Without
<1>3. Top(e) = Top(d)
  BY <1>2 DEF Top
<1>4. /\ Fine(e, S \ d.tree[c].lines, C, t0)
      /\ Takes(e, {}, Leaf("container", {}))
      /\ RemainBut(d.tree, e.tree, c)
  BY <1>1, FineWithout
<1>5. IsContaining(e.tree[Top(e)].kind)
  BY <1>4 DEF Takes
<1> DEFINE lines == d.tree[c].lines
           u == PushChildren(e.tree, Top(e), Closed(lines))
<1>7. lines \subseteq S /\ lines \in SUBSET Lines /\ lines \cap (S \ lines) = {}
      /\ (S \ lines) \cup lines = S
  BY Tops DEF MayGo
<1> HIDE DEF lines
<1>8. Fine([tree |-> u, stack |-> e.stack], (S \ lines) \cup lines, C, t0) /\ Remain(e.tree, u)
  <2>1. Fine(e, S \ lines, C, t0)
    BY <1>4 DEF lines
  <2> QED  BY <1>5, <1>7, <2>1, FineClosed
<1> HIDE DEF u
<1>9. RemainBut(d.tree, u, c)
  BY <1>4, <1>8 DEF Remain, RemainBut
<1> QED  BY <1>2, <1>3, <1>7, <1>8, <1>9 DEF u, lines

(* A definition loses its title, and that is put after the last block.     *)
LEMMA FineUntitled ==
    ASSUME NEW d, NEW S, NEW C, NEW t0, Fine(d, S, C, t0),
           NEW c \in DOMAIN d.tree, c \notin C, d.tree[c].stage \in {"complete", "title"}
    PROVE  LET u == [d.tree EXCEPT ![c] = Untitled(d.tree[c])]
           IN  /\ Fine([tree |-> u, stack |-> d.stack], S \ d.tree[c].tail, C, t0)
               /\ DOMAIN u = DOMAIN d.tree
               /\ \A q \in DOMAIN d.tree : u[q].kind = d.tree[q].kind
               /\ \A q \in DOMAIN d.tree \ {c} : u[q] = d.tree[q]
               /\ u[c] = Untitled(d.tree[c])
<1> DEFINE top == d.tree[c]
<1>1. IsTree(d.tree) /\ IsSound(top) /\ top.lines \subseteq S
  BY Tops, Nodes DEF Fine
<1>2. /\ IsSound(Untitled(top)) /\ Untitled(top).kind = top.kind
      /\ Untitled(top).lines = top.lines \ top.tail
      /\ top.tail \subseteq top.lines
  BY <1>1, SoundUntitled
<1>3. PICK u : u = [d.tree EXCEPT ![c] = Untitled(top)]
  OBVIOUS
<1>4. Changes(d.tree, u, c, Untitled(top))
  BY <1>1, <1>3 DEF Changes, IsTree
<1>5. /\ Untitled(top).lines \cap (S \ top.lines) = {}
      /\ (S \ top.lines) \cup Untitled(top).lines = S \ top.tail
  BY <1>1, <1>2
<1>6. Fine([tree |-> u, stack |-> d.stack], (S \ top.lines) \cup Untitled(top).lines, C, t0)
  BY <1>2, <1>4, <1>5, FineChange
<1>7. DOMAIN u = DOMAIN d.tree /\ \A q \in DOMAIN d.tree : u[q].kind = d.tree[q].kind
  BY <1>2, <1>4 DEF Changes
<1>8. u[c] = Untitled(top) /\ \A q \in DOMAIN d.tree \ {c} : u[q] = d.tree[q]
  BY <1>4 DEF Changes
<1> QED  BY <1>3, <1>5, <1>6, <1>7, <1>8

(* The lowest n blocks are open in e as they were in doc.                  *)
Lowest(doc, e, n) ==
    \A i \in 1..n : e.stack[i] = doc.stack[i] /\ e.tree[e.stack[i]].kind = doc.tree[e.stack[i]].kind

(* popup.                                                                  *)
LEMMA FinePopped ==
    ASSUME NEW doc, NEW S, NEW C, NEW t0, Fine(doc, S, C, t0), Len(doc.stack) > 1, S \subseteq Lines
    PROVE  /\ Fine(Popped(doc), S, C, t0)
           /\ Len(Popped(doc).stack) = Len(doc.stack) - 1
           /\ Lowest(doc, Popped(doc), Len(doc.stack) - 1)
<1>1. PICK t, s, n, c : t = doc.tree /\ s = doc.stack /\ n = Len(s) - 1 /\ c = s[Len(s)]
  OBVIOUS
<1>2. /\ IsTree(t) /\ IsStack(t, s) /\ Len(s) \in Nat /\ n \in 1..(Len(s) - 1) /\ n + 1 = Len(s)
      /\ n \in 1..Len(s) /\ Len(s) \in 1..Len(s)
  BY <1>1, Tops DEF Fine
<1>3. PICK d : d = [tree |-> t, stack |-> SubSeq(s, 1, n)]
  OBVIOUS
<1>4. /\ Fine(d, S, C, t0) /\ Top(d) = s[n] /\ Len(d.stack) = n /\ d.tree = t
      /\ \A i \in 1..n : d.stack[i] = s[i]
  <2>1. n \in 1..Len(doc.stack)
    BY <1>1, <1>2
  <2>2. /\ Fine([tree |-> doc.tree, stack |-> SubSeq(doc.stack, 1, n)], S, C, t0)
        /\ Len(SubSeq(doc.stack, 1, n)) = n
        /\ \A i \in 1..n : SubSeq(doc.stack, 1, n)[i] = doc.stack[i]
    BY <2>1, FineShorter
  <2>3. d.stack = SubSeq(doc.stack, 1, n) /\ d.tree = t
    BY <1>1, <1>3
  <2>4. n \in 1..n
    BY <1>2
  <2> QED  BY <1>1, <1>3, <2>2, <2>3, <2>4 DEF Top
<1>5. c = LastChild(t, Top(d)) /\ ChildrenOf(t, Top(d)) # {} /\ IsContaining(t[Top(d)].kind)
  <2>1. s[n + 1] = LastChild(t, s[n]) /\ ChildrenOf(t, s[n]) # {} /\ IsContaining(t[s[n]].kind)
    BY <1>2, Parents
  <2> QED  BY <1>1, <1>2, <1>4, <2>1
<1>6. c \in DOMAIN t /\ c \notin C /\ IsSound(t[c])
  BY <1>1, <1>2, Tops, Nodes
<1>7. Top(doc) = c /\ Front(doc.stack) = d.stack /\ Last(Front(doc.stack)) = Top(d)
  BY <1>1, <1>3, <1>4 DEF Top, Front, Last
<1>8. \A i \in 1..n : s[i] \in DOMAIN t \ {c}
  <2>1. /\ \A i \in 1..Len(s) : s[i] \in DOMAIN t /\ Len(s[i]) = i - 1
        /\ n \in Nat
    BY <1>2, StackEntries
  <2>2. Len(c) = n
    BY <1>1, <1>2, <2>1
  <2>3. ASSUME NEW i \in 1..n
        PROVE  i \in 1..Len(s) /\ i - 1 # n
    BY <1>2, <2>1
  <2> QED  BY <2>1, <2>2, <2>3
<1>9. ASSUME NEW u, \A q \in DOMAIN t \ {c} : q \in DOMAIN u /\ u[q].kind = t[q].kind,
             Fine([tree |-> u, stack |-> d.stack], S, C, t0),
             Popped(doc) = [tree |-> u, stack |-> d.stack]
      PROVE  /\ Fine(Popped(doc), S, C, t0)
             /\ Len(Popped(doc).stack) = Len(doc.stack) - 1
             /\ Lowest(doc, Popped(doc), Len(doc.stack) - 1)
  <2>1. Popped(doc).stack = d.stack /\ Popped(doc).tree = u
    BY <1>9
  <2>2. Lowest(doc, Popped(doc), n)
    BY <1>1, <1>4, <1>8, <1>9, <2>1 DEF Lowest
  <2> QED  BY <1>1, <1>2, <1>4, <1>9, <2>1, <2>2
<1>10. CASE t[c].stage = "label"
  <2>1. ChildrenOf(t, c) = {}
    <3>1. ~ IsContaining(t[c].kind)
      BY <1>6, <1>10 DEF IsSound, IsContaining, Token
    <3> QED  BY <1>1, <1>2, <3>1, LeavesAreLast
  <2>2. PICK u : u = PushChildren(PopChild(t, Top(d)), Top(d), Closed(t[c].lines))
    OBVIOUS
  <2>3. /\ Fine([tree |-> u, stack |-> d.stack], S, C, t0)
        /\ \A q \in DOMAIN t \ {c} : q \in DOMAIN u /\ u[q] = t[q]
    <3>1. MayGo(d, c, C) /\ Fine(d, S, C, t0)
      BY <1>4, <1>5, <1>6, <2>1 DEF MayGo
    <3>2. u = PushChildren(PopChild(d.tree, Top(d)), Top(d), Closed(d.tree[c].lines))
      BY <1>4, <2>2
    <3>3. /\ Fine([tree |-> u, stack |-> d.stack], S, C, t0)
          /\ RemainBut(d.tree, u, c)
      BY <3>1, <3>2, FineGivenBack
    <3> QED  BY <1>4, <3>3 DEF RemainBut
  <2>4. Popped(doc) = [tree |-> u, stack |-> d.stack]
    BY <1>1, <1>7, <1>10, <2>2 DEF Popped
  <2> QED  BY <1>9, <2>3, <2>4
<1>11. CASE t[c].stage = "title"
  <2>1. t[c].tail \subseteq t[c].lines /\ t[c].lines \subseteq Lines /\ t[c].lines \subseteq S
    BY <1>1, <1>6, Tops DEF IsSound, Token
  <2>2. PICK e : e = [tree |-> [t EXCEPT ![c] = Untitled(t[c])], stack |-> d.stack]
    OBVIOUS
  <2>3. /\ Fine(e, S \ t[c].tail, C, t0)
        /\ DOMAIN e.tree = DOMAIN t
        /\ \A q \in DOMAIN t : e.tree[q].kind = t[q].kind
    BY <1>4, <1>6, <1>11, <2>2, FineUntitled
  <2>4. e.stack = d.stack /\ Top(e) = Top(d) /\ e.tree = [t EXCEPT ![c] = Untitled(t[c])]
    BY <2>2 DEF Top
  <2>5. IsContaining(e.tree[Top(e)].kind)
    BY <1>4, <1>5, <2>3, <2>4, Tops
  <2>6. PICK u : u = PushChildren(e.tree, Top(e), Closed(t[c].tail))
    OBVIOUS
  <2>7. /\ t[c].tail \in SUBSET Lines /\ t[c].tail \cap (S \ t[c].tail) = {}
        /\ (S \ t[c].tail) \cup t[c].tail = S
    BY <2>1
  <2>8. Fine([tree |-> u, stack |-> e.stack], S, C, t0) /\ Remain(e.tree, u)
    <3>1. /\ Fine([tree |-> u, stack |-> e.stack], (S \ t[c].tail) \cup t[c].tail, C, t0)
          /\ Remain(e.tree, u)
      BY <2>3, <2>5, <2>6, <2>7, FineClosed
    <3> QED  BY <2>7, <3>1
  <2>9. Popped(doc) = [tree |-> u, stack |-> d.stack]
    BY <1>1, <1>7, <1>11, <2>4, <2>6 DEF Popped
  <2>10. \A q \in DOMAIN t \ {c} : q \in DOMAIN u /\ u[q].kind = t[q].kind
    BY <2>3, <2>8 DEF Remain
  <2> QED  BY <1>9, <2>4, <2>8, <2>9, <2>10
<1>12. CASE t[c].stage \notin {"label", "title"}
  <2>1. Popped(doc) = [tree |-> t, stack |-> d.stack]
    BY <1>1, <1>7, <1>12 DEF Popped
  <2>2. Fine([tree |-> t, stack |-> d.stack], S, C, t0)
    BY <1>3, <1>4
  <2> QED  BY <1>9, <2>1, <2>2
<1> QED  BY <1>10, <1>11, <1>12

LEMMA WithParts ==
    ASSUME NEW doc, doc = [tree |-> doc.tree, stack |-> doc.stack], NEW x
    PROVE  /\ [doc EXCEPT !.stack = x] = [tree |-> doc.tree, stack |-> x]
           /\ [doc EXCEPT !.tree = x] = [tree |-> x, stack |-> doc.stack]
<1>1. PICK t, s : t = doc.tree /\ s = doc.stack
  OBVIOUS
<1>2. doc = [tree |-> t, stack |-> s]
  BY <1>1
<1>3. /\ [[tree |-> t, stack |-> s] EXCEPT !.stack = x] = [tree |-> t, stack |-> x]
      /\ [[tree |-> t, stack |-> s] EXCEPT !.tree = x] = [tree |-> x, stack |-> s]
  OBVIOUS
<1> QED  BY <1>1, <1>2, <1>3

(* cut_stale_branch.                                                       *)
LEMMA FineCut ==
    ASSUME NEW doc, NEW S, NEW C, NEW t0, Fine(doc, S, C, t0), S \subseteq Lines, NEW n \in Nat \ {0}
    PROVE  LET e == Cut(doc, n)
           IN  /\ Fine(e, S, C, t0)
               /\ Len(doc.stack) <= n => e = doc
               /\ Len(doc.stack) > n =>
                    /\ Len(e.stack) = n
                    /\ Lowest(doc, e, n)
                    /\ IsContaining(e.tree[Top(e)].kind)
<1>1. Len(doc.stack) \in Nat \ {0} /\ IsTree(doc.tree) /\ IsStack(doc.tree, doc.stack)
  BY Tops DEF Fine
<1>2. CASE Len(doc.stack) <= n
  BY <1>1, <1>2 DEF Cut
<1>3. CASE Len(doc.stack) > n
  <2>1. PICK d : d = Popped(doc)
    OBVIOUS
  <2>2. Fine(d, S, C, t0) /\ Len(d.stack) = Len(doc.stack) - 1 /\ Lowest(doc, d, Len(doc.stack) - 1)
    <3>1. Len(doc.stack) > 1
      BY <1>1, <1>3
    <3>2. /\ Fine(Popped(doc), S, C, t0)
          /\ Len(Popped(doc).stack) = Len(doc.stack) - 1
          /\ Lowest(doc, Popped(doc), Len(doc.stack) - 1)
      BY <3>1, FinePopped
    <3> QED  BY <2>1, <3>2
  <2>3. n \in 1..Len(d.stack) /\ n \in 1..(Len(doc.stack) - 1) /\ n \in 1..n
    BY <1>1, <1>3, <2>2
  <2>4. PICK e : e = [tree |-> d.tree, stack |-> SubSeq(d.stack, 1, n)]
    OBVIOUS
  <2>5. /\ Fine(e, S, C, t0) /\ Len(e.stack) = n /\ e.tree = d.tree
        /\ \A i \in 1..n : e.stack[i] = d.stack[i]
    BY <2>2, <2>3, <2>4, FineShorter
  <2>6. e = Cut(doc, n)
    <3>1. d = [tree |-> d.tree, stack |-> d.stack]
      BY <2>2 DEF Fine
    <3>2. [d EXCEPT !.stack = SubSeq(d.stack, 1, n)] = e
      BY <2>4, <3>1, WithParts
    <3>3. ~ (Len(doc.stack) <= n)
      BY <1>1, <1>3
    <3> QED  BY <2>1, <3>2, <3>3 DEF Cut
  <2>7. Lowest(doc, e, n)
    <3>1. \A i \in 1..n : i \in 1..(Len(doc.stack) - 1)
      BY <2>3
    <3> QED  BY <2>2, <2>5, <3>1 DEF Lowest
  <2>8. IsContaining(e.tree[Top(e)].kind)
    <3>1. IsContaining(doc.tree[doc.stack[n]].kind)
      BY <1>1, <2>3, Parents
    <3>2. Top(e) = e.stack[n] /\ e.stack[n] = doc.stack[n]
      BY <2>3, <2>5, <2>7 DEF Top, Lowest
    <3> QED  BY <2>3, <2>7, <3>1, <3>2 DEF Lowest
  <2> QED  BY <1>1, <1>3, <2>5, <2>6, <2>7, <2>8
<1> QED  BY <1>1, <1>2, <1>3

(* push.                                                                   *)
LEMMA FinePushed ==
    ASSUME NEW doc, NEW S, NEW C, NEW t0, Fine(doc, S, C, t0), S \subseteq Lines,
           NEW i \in 1..Len(doc.stack), IsContaining(doc.tree[doc.stack[i]].kind),
           NEW token, IsSound(token), token.lines \cap S = {}
    PROVE  LET e == Pushed(doc, i, token)
           IN  /\ Fine(e, S \cup token.lines, C, t0)
               /\ token.kind = "container" => IsContaining(e.tree[Top(e)].kind)
<1>1. Len(doc.stack) \in Nat \ {0} /\ i \in Nat \ {0} /\ i <= Len(doc.stack)
  BY Tops
<1>2. PICK d : d = Cut(doc, i)
  OBVIOUS
<1>3. Fine(d, S, C, t0) /\ IsContaining(d.tree[Top(d)].kind)
  <2>1. CASE Len(doc.stack) <= i
    <3>1. i = Len(doc.stack) /\ d = doc /\ Fine(d, S, C, t0)
      BY <1>1, <1>2, <2>1, FineCut
    <3> QED  BY <3>1 DEF Top
  <2>2. CASE Len(doc.stack) > i
    BY <1>1, <1>2, <2>2, FineCut
  <2> QED  BY <1>1, <2>1, <2>2
<1>4. PICK e : e = OpenOnTop(d, token)
  OBVIOUS
<1>5. /\ Fine(e, S \cup token.lines, C, t0)
      /\ Fine([tree |-> e.tree, stack |-> d.stack], S \cup token.lines, C, t0)
      /\ Opens(d, e, token)
  <2>1. Fine(d, S, C, t0)
    BY <1>3
  <2>2. Takes(d, S, token)
    BY <1>3 DEF Takes
  <2> QED  BY <1>4, <2>1, <2>2, FinePush
<1>6. CASE token.kind \in {"heading", "setext"}
  <2>1. Pushed(doc, i, token) = [e EXCEPT !.stack = Front(@)]
    BY <1>2, <1>4, <1>6 DEF Pushed
  <2>2. e = [tree |-> e.tree, stack |-> e.stack]
    BY <1>5 DEF Fine
  <2>3. [e EXCEPT !.stack = Front(@)] = [tree |-> e.tree, stack |-> d.stack]
    BY <1>5, <2>2, WithParts DEF Opens
  <2> QED  BY <1>5, <1>6, <2>1, <2>3
<1>7. CASE token.kind \notin {"heading", "setext"}
  <2>1. Pushed(doc, i, token) = e
    BY <1>2, <1>4, <1>7 DEF Pushed
  <2> QED  BY <1>5, <2>1 DEF IsContaining, Opens
<1> QED  BY <1>6, <1>7

(* What a roll back makes of the lines.                                    *)
LEMMA RollbacksAre ==
    ASSUME NEW lines \in SUBSET Lines, NEW r \in Rollbacks(lines)
    PROVE  \E closed, open \in SUBSET lines :
              /\ closed \cup open = lines /\ closed \cap open = {}
              /\ r \in RollbacksOf(closed, open)
<1>1. CASE lines = {}
  <2>1. r = Rollback(Closed({}), <<>>, <<>>) /\ <<>> \in OpenLeaves({}) /\ <<>> \in Containers
    BY <1>1 DEF Rollbacks, Closed, OpenLeaves, Containers
  <2>2. r \in RollbacksOf({}, {})
    BY <2>1 DEF RollbacksOf
  <2> QED  BY <1>1, <2>2
<1>2. CASE lines # {}
  <2>1. PICK m \in lines \cup {MaxLines + 1} :
        r \in RollbacksOf({l \in lines : l < m}, {l \in lines : l >= m})
    BY <1>2 DEF Rollbacks
  <2>2. m \in Int /\ \A l \in lines : l \in Int
    BY BoundsAssumption DEF Lines
  <2>3. ASSUME NEW l \in lines
        PROVE  l >= m <=> ~ (l < m)
    BY <2>2
  <2>4. {l \in lines : l >= m} = lines \ {l \in lines : l < m}
    BY <2>3
  <2> QED  BY <2>1, <2>4
<1> QED  BY <1>1, <1>2

LEMMA FineOpened ==
    ASSUME NEW doc, NEW S, NEW C, NEW t0, Fine(doc, S, C, t0),
           NEW token, Takes(doc, S, token)
    PROVE  /\ Fine(Opened(doc, <<token>>), S \cup token.lines, C, t0)
           /\ Opens(doc, Opened(doc, <<token>>), token)
<1>1. Opened(doc, <<token>>) = OpenOnTop(doc, token)
  BY DEF Opened
<1> QED  BY <1>1, FinePush

LEMMA FineGraft ==
    ASSUME NEW doc, NEW S, NEW C, NEW t0, Fine(doc, S, C, t0),
           IsContaining(doc.tree[Top(doc)].kind),
           NEW lines \in SUBSET Lines, lines \cap S = {}, NEW r \in Rollbacks(lines)
    PROVE  Fine(Graft(doc, r), S \cup lines, C, t0)
<1>1. PICK closed, open \in SUBSET lines :
        /\ closed \cup open = lines /\ closed \cap open = {}
        /\ r \in RollbacksOf(closed, open)
  BY RollbacksAre
<1>2. PICK within \in Containers, leaf \in OpenLeaves(open) :
        r = Rollback(Closed(closed), within, leaf)
  BY <1>1 DEF RollbacksOf
<1>3. r.closed = Closed(closed) /\ r.within = within /\ r.leaf = leaf
  BY <1>2 DEF Rollback
<1>4. /\ closed \in SUBSET Lines /\ closed \cap S = {}
      /\ open \in SUBSET Lines /\ open \cap (S \cup closed) = {}
      /\ (S \cup closed) \cup open = S \cup lines
  BY <1>1
<1>5. PICK d : d = [tree |-> PushChildren(doc.tree, Top(doc), Closed(closed)), stack |-> doc.stack]
  OBVIOUS
<1>6. /\ Fine(d, S \cup closed, C, t0)
      /\ d.stack = doc.stack
      /\ Remain(doc.tree, d.tree)
  <2>1. /\ Fine([tree |-> PushChildren(doc.tree, Top(doc), Closed(closed)), stack |-> doc.stack],
                S \cup closed, C, t0)
        /\ Remain(doc.tree, PushChildren(doc.tree, Top(doc), Closed(closed)))
    BY <1>4, FineClosed
  <2> QED  BY <1>5, <2>1
<1>7. IsContaining(d.tree[Top(d)].kind)
  <2>1. Top(d) = Top(doc) /\ Top(doc) \in DOMAIN doc.tree
    BY <1>6, Tops DEF Top
  <2> QED  BY <1>6, <2>1 DEF Remain
<1>8. PICK e : e = Opened(d, within)
  OBVIOUS
<1>9. Fine(e, S \cup closed, C, t0) /\ IsContaining(e.tree[Top(e)].kind)
  <2>1. CASE within = <<>>
    BY <1>6, <1>7, <1>8, <2>1 DEF Opened
  <2>2. CASE within = <<Leaf("container", {})>>
    <3> DEFINE token == Leaf("container", {})
    <3>1. IsSound(token) /\ token.kind = "container" /\ token.lines = {}
      BY SoundLeaf DEF Kinds
    <3> HIDE DEF token
    <3>2. Fine(e, (S \cup closed) \cup token.lines, C, t0) /\ Opens(d, e, token)
      <4>1. within = <<token>>
        BY <2>2 DEF token
      <4>2. Takes(d, S \cup closed, token)
        BY <1>7, <3>1 DEF Takes
      <4> QED  BY <1>6, <1>8, <4>1, <4>2, FineOpened
    <3>3. (S \cup closed) \cup token.lines = S \cup closed
      BY <3>1
    <3> QED  BY <3>1, <3>2, <3>3 DEF IsContaining, Opens
  <2> QED  BY <1>2, <2>1, <2>2 DEF Containers
<1>10. Fine(Opened(e, leaf), (S \cup closed) \cup open, C, t0)
  <2>1. CASE open = {}
    <3>1. leaf = <<>> /\ (S \cup closed) \cup open = S \cup closed
      BY <1>2, <2>1 DEF OpenLeaves
    <3> QED  BY <1>9, <3>1 DEF Opened
  <2>2. CASE open # {}
    <3>1. PICK k \in {"paragraph", "fence"} : leaf = <<Leaf(k, open)>>
      BY <1>2, <2>2 DEF OpenLeaves
    <3> DEFINE token == Leaf(k, open)
    <3>2. IsSound(token) /\ token.lines = open
      BY <1>4, SoundLeaf DEF Kinds
    <3>3. leaf = <<token>>
      BY <3>1
    <3> HIDE DEF token
    <3>4. Fine(Opened(e, leaf), (S \cup closed) \cup token.lines, C, t0)
      <4>1. Takes(e, S \cup closed, token)
        BY <1>4, <1>9, <3>2 DEF Takes
      <4> QED  BY <1>9, <3>3, <4>1, FineOpened
    <3> QED  BY <3>2, <3>4
  <2> QED  BY <2>1, <2>2
<1>11. Graft(doc, r) = Opened(e, leaf)
  <2>1. doc = [tree |-> doc.tree, stack |-> doc.stack]
    BY DEF Fine
  <2>2. [doc EXCEPT !.tree = PushChildren(doc.tree, Top(doc), Closed(closed))] = d
    BY <1>5, <2>1
  <2> QED  BY <1>3, <1>8, <2>2 DEF Graft
<1> QED  BY <1>4, <1>10, <1>11

-----------------------------------------------------------------------------
(* The steps.                                                              *)

(* The blocks that are closed before a step.                               *)
Settled == DOMAIN tree \ Range(stack)

FineNow == Fine(Doc, taken, Settled, tree)

(* A step is good when the blocks settled before it are the same after it. *)
FineNext == Fine([tree |-> tree', stack |-> stack'], taken', Settled, tree)

LEMMA NowFine ==
    ASSUME IInv
    PROVE  FineNow
<1>1. Keeps(Settled, tree, tree) /\ Settled \cap Range(stack) = {}
  BY DEF Keeps, Settled
<1> HIDE DEF Settled
<1> QED  BY <1>1, FineIs DEF IInv, FineNow, Doc

(* What IInv says of the line and of the stack, where it is used.          *)
LEMMA Facts ==
    ASSUME IInv
    PROVE  /\ FineNow
           /\ IsTree(tree) /\ IsStack(tree, stack)
           /\ Len(stack) \in Nat \ {0}
           /\ Doc.tree = tree /\ Doc.stack = stack
           /\ Top(Doc) = stack[Len(stack)]
           /\ \A i \in 1..Len(stack) : stack[i] \in DOMAIN tree \ Settled
           /\ \A q \in DOMAIN tree : IsSound(tree[q]) /\ tree[q].lines \subseteq taken
           /\ taken \subseteq Lines
           /\ rest = "text" => line \in Lines /\ {line} \cap taken = {}
           /\ current \in 1..(Len(stack) + 1)
<1>1. FineNow
  BY NowFine
<1>2. Doc.tree = tree /\ Doc.stack = stack /\ Top(Doc) = stack[Len(stack)]
  BY DEF Doc, Top
<1>3. /\ Len(stack) \in Nat \ {0}
      /\ \A i \in 1..Len(stack) : stack[i] \in DOMAIN tree \ Settled
      /\ \A q \in DOMAIN tree : tree[q].lines \subseteq taken
  BY <1>1, <1>2, Tops DEF FineNow
<1>4. \A q \in DOMAIN tree : IsSound(tree[q])
  BY Nodes DEF IInv
<1>5. taken \subseteq Lines
  BY BoundsAssumption DEF IInv, LineOK, Lines
<1> QED  BY <1>1, <1>2, <1>3, <1>4, <1>5 DEF IInv, LineOK, CursorOK

LEMMA NextFine ==
    ASSUME NEW S, NEW C, NEW t0, NEW doc, Fine(doc, S, C, t0),
           NEW t, NEW s, t = doc.tree, s = doc.stack
    PROVE  Fine([tree |-> t, stack |-> s], S, C, t0)
BY DEF Fine

(* A line is written into an open token.                                   *)
LEMMA Written ==
    ASSUME IInv, NEW i \in 1..Len(stack), NEW token, NEW lines \in SUBSET Lines,
           Changes(tree, tree', stack[i], token), IsSound(token),
           token.kind = tree[stack[i]].kind, token.lines = tree[stack[i]].lines \cup lines,
           lines \cap taken = {}, taken' = taken \cup lines, stack' = stack
    PROVE  FineNext
<1> DEFINE old == tree[stack[i]].lines
<1>1. /\ Fine(Doc, taken, Settled, tree) /\ Doc.tree = tree /\ Doc.stack = stack
      /\ stack[i] \notin Settled /\ old \subseteq taken
  BY Facts DEF FineNow
<1>2. /\ token.lines \cap (taken \ old) = {}
      /\ (taken \ old) \cup token.lines = taken'
  BY <1>1
<1>3. Fine([tree |-> tree', stack |-> Doc.stack], (taken \ old) \cup token.lines, Settled, tree)
  <2> HIDE DEF Settled
  <2>1. Changes(Doc.tree, tree', stack[i], token) /\ token.kind = Doc.tree[stack[i]].kind
    BY <1>1
  <2>2. token.lines \cap (taken \ Doc.tree[stack[i]].lines) = {}
    BY <1>1, <1>2
  <2> QED  BY <1>1, <2>1, <2>2, FineChange
<1> QED  BY <1>1, <1>2, <1>3 DEF FineNext

(* Nothing is written.                                                     *)
LEMMA Idle ==
    ASSUME IInv, UNCHANGED <<tree, stack, taken>>
    PROVE  FineNext
BY NowFine DEF FineNow, FineNext, Doc

(* Cutting a last block that is not unfinished leaves the tree alone.      *)
LEMMA CutPlain ==
    ASSUME NEW t, NEW s, IsStack(t, s), NEW n \in Nat \ {0}, Len(s) = n + 1,
           t[s[n + 1]].stage \notin {"label", "title"}
    PROVE  Cut([tree |-> t, stack |-> s], n) = [tree |-> t, stack |-> SubSeq(s, 1, n)]
<1>1. PICK d, r : d = [tree |-> t, stack |-> s] /\ r = SubSeq(s, 1, n)
  OBVIOUS
<1>2. d.tree = t /\ d.stack = s /\ Top(d) = s[n + 1] /\ Front(d.stack) = r
  BY <1>1 DEF Top, Front
<1>3. Popped(d) = [tree |-> t, stack |-> r]
  BY <1>2 DEF Popped
<1>4. Len(r) = n /\ IsStack(t, r)
  BY <1>1, ShorterStack
<1>5. SubSeq(r, 1, n) = r
  BY <1>4, SubSeqFull DEF IsStack
<1>6. ~ (Len(d.stack) <= n)
  BY <1>2
<1>7. Cut(d, n) = [Popped(d) EXCEPT !.stack = SubSeq(Popped(d).stack, 1, n)]
  BY <1>6 DEF Cut
<1>8. Popped(d).tree = t /\ Popped(d).stack = r
  BY <1>3
<1>9. [Popped(d) EXCEPT !.stack = r] = [tree |-> t, stack |-> r]
  BY <1>3, <1>8, WithParts
<1> QED  BY <1>1, <1>5, <1>7, <1>8, <1>9

(* The block at the cursor, and the one around it.                         *)
LEMMA AtCursor ==
    ASSUME IInv, current \in 2..Len(stack)
    PROVE  /\ current - 1 \in 1..(Len(stack) - 1)
           /\ current - 1 \in Nat \ {0} /\ current - 1 \in 1..Len(stack)
           /\ stack[current] \in DOMAIN tree \ Settled
           /\ IsSound(Here) /\ Here.lines \subseteq taken
           /\ stack[current] = LastChild(tree, stack[current - 1])
           /\ ChildrenOf(tree, stack[current - 1]) # {}
           /\ IsContaining(tree[stack[current - 1]].kind)
           /\ stack[current - 1] \in DOMAIN tree \ {stack[current]}
           /\ ~ IsContaining(Here.kind) =>
                 current = Len(stack) /\ ChildrenOf(tree, stack[current]) = {}
<1>1. Len(stack) \in Nat \ {0} /\ current \in Nat /\ IsTree(tree) /\ IsStack(tree, stack)
  BY Facts
<1>2. /\ current - 1 \in 1..(Len(stack) - 1) /\ (current - 1) + 1 = current
      /\ current - 1 \in Nat \ {0} /\ current - 1 \in 1..Len(stack) /\ current \in 1..Len(stack)
  BY <1>1
<1>3. /\ stack[(current - 1) + 1] = LastChild(tree, stack[current - 1])
      /\ ChildrenOf(tree, stack[current - 1]) # {}
      /\ IsContaining(tree[stack[current - 1]].kind)
  BY <1>1, <1>2, Parents
<1>4. /\ stack[current] \in DOMAIN tree \ Settled /\ stack[current - 1] \in DOMAIN tree
      /\ IsSound(Here) /\ Here.lines \subseteq taken
  BY <1>2, Facts DEF Here
<1>5. stack[current - 1] # stack[current]
  <2>1. Len(stack[current - 1]) = (current - 1) - 1 /\ Len(stack[current]) = current - 1
    BY <1>1, <1>2, StackEntries
  <2> QED  BY <1>1, <2>1
<1>6. ~ IsContaining(Here.kind) => current = Len(stack) /\ ChildrenOf(tree, stack[current]) = {}
  BY <1>1, <1>2, LeavesAreLast DEF Here
<1> QED  BY <1>2, <1>3, <1>4, <1>5, <1>6

(* The block at the cursor goes, a leaf with all that is in it.            *)
LEMMA Removed ==
    ASSUME IInv, current \in 2..Len(stack), ~ IsContaining(Here.kind),
           NEW d, d = [tree |-> tree, stack |-> SubSeq(stack, 1, current - 1)],
           NEW e, e = [tree |-> PopChild(tree, stack[current - 1]), stack |-> d.stack]
    PROVE  /\ Fine(d, taken, Settled, tree)
           /\ Top(d) = stack[current - 1]
           /\ Fine(e, taken \ Here.lines, Settled, tree)
           /\ Top(e) = stack[current - 1]
           /\ IsContaining(e.tree[Top(e)].kind)
           /\ Len(e.stack) = current - 1
<1>1. /\ Fine(Doc, taken, Settled, tree) /\ Doc.tree = tree /\ Doc.stack = stack
      /\ current - 1 \in 1..Len(Doc.stack)
  BY Facts, AtCursor DEF FineNow
<1>2. Fine(d, taken, Settled, tree) /\ Top(d) = stack[current - 1] /\ Len(d.stack) = current - 1
  <2>1. d = [tree |-> Doc.tree, stack |-> SubSeq(Doc.stack, 1, current - 1)]
    BY <1>1
  <2> HIDE DEF Settled
  <2>2. PICK n : n = current - 1 /\ n \in 1..Len(Doc.stack)
    BY <1>1
  <2>3. /\ Fine([tree |-> Doc.tree, stack |-> SubSeq(Doc.stack, 1, n)], taken, Settled, tree)
        /\ Len(SubSeq(Doc.stack, 1, n)) = n
        /\ Top([tree |-> Doc.tree, stack |-> SubSeq(Doc.stack, 1, n)]) = Doc.stack[n]
    BY <1>1, <2>2, FineShorter
  <2>4. d.stack = SubSeq(Doc.stack, 1, n)
    BY <2>1, <2>2
  <2> QED  BY <1>1, <2>1, <2>2, <2>3, <2>4
<1>3. d.tree = tree /\ e.tree = PopChild(tree, stack[current - 1]) /\ e.stack = d.stack
  OBVIOUS
<1> DEFINE c == stack[current]
<1>4. MayGo(d, c, Settled)
  BY <1>2, <1>3, AtCursor DEF MayGo
<1>5. Fine(e, taken \ d.tree[c].lines, Settled, tree) /\ Takes(e, {}, Leaf("container", {}))
  <2>1. e = Without(d)
    BY <1>2 DEF Without
  <2> HIDE DEF c, Settled
  <2>2. Fine(d, taken, Settled, tree)
    BY <1>2
  <2>3. Fine(Without(d), taken \ d.tree[c].lines, Settled, tree)
    BY <1>4, <2>2, FineWithout
  <2>4. Takes(Without(d), {}, Leaf("container", {}))
    BY <1>4, <2>2, FineWithout
  <2> QED  BY <2>1, <2>3, <2>4
<1>6. Top(e) = Top(d) /\ Len(e.stack) = current - 1
  BY <1>2, <1>3 DEF Top
<1> QED  BY <1>2, <1>3, <1>5, <1>6 DEF Here, Takes

(* Only a paragraph or a table can be interrupted.                         *)
LEMMA Interruptible ==
    ASSUME IInv, current \in 2..Len(stack), NEW kind \in Kinds, CanInterrupt(kind)
    PROVE  /\ ~ IsContaining(Here.kind)
           /\ Here.stage = "none"
           /\ kind = "table" => Here.kind = "paragraph"
<1>1. IsSound(Here)
  BY AtCursor
<1>2. Here.kind \in {"table", "paragraph"} /\ (kind = "table" => Here.kind = "paragraph")
  BY <1>1 DEF CanInterrupt, Priority, IsSound, Token, Kinds
<1> QED  BY <1>1, <1>2 DEF IsSound, IsContaining

(* interrupt_sibling: what it leaves of the block, and the new one, hold   *)
(* the text of the block and the lines that are new.                       *)
LEMMA FineInterrupted ==
    ASSUME IInv, current \in 2..Len(stack), NEW kind \in Kinds, CanInterrupt(kind),
           NEW token, IsSound(token), token.kind = kind,
           NEW remaining, NEW kept, NEW lines \in SUBSET Lines, lines \cap taken = {},
           \/ remaining = <<>> /\ kept = {}
           \/ \E r : remaining = <<r>> /\ IsSound(r) /\ r.lines = kept,
           kept \cap token.lines = {}, kept \cup token.lines = Here.lines \cup lines
    PROVE  LET e == Interrupted(remaining, token)
           IN  /\ Fine(e, taken \cup lines, Settled, tree)
               /\ kind = "container" => IsContaining(e.tree[Top(e)].kind)
<1>1. ~ IsContaining(Here.kind) /\ Here.stage = "none"
  BY Interruptible
<1>2. /\ current = Len(stack) /\ current - 1 \in Nat \ {0} /\ current = (current - 1) + 1
      /\ Here.lines \subseteq taken /\ taken \subseteq Lines /\ IsStack(tree, stack)
  BY <1>1, AtCursor, Facts
<1>3. PICK d : d = [tree |-> tree, stack |-> SubSeq(stack, 1, current - 1)]
  OBVIOUS
<1>4. PICK e : e = [tree |-> PopChild(tree, stack[current - 1]), stack |-> d.stack]
  OBVIOUS
<1>5. /\ Top(d) = stack[current - 1]
      /\ Fine(e, taken \ Here.lines, Settled, tree)
      /\ Top(e) = Top(d)
      /\ IsContaining(e.tree[Top(e)].kind)
      /\ Len(e.stack) = current - 1
      /\ d.tree = tree /\ e.stack = d.stack /\ e.tree = PopChild(d.tree, Top(d))
  <2>1. d.tree = tree /\ e.stack = d.stack /\ e.tree = PopChild(tree, stack[current - 1])
    BY <1>3, <1>4
  <2> HIDE DEF Settled
  <2> QED  BY <1>1, <1>3, <1>4, <2>1, Removed
<1>6. Cut(Doc, current - 1) = d
  <2>1. tree[stack[(current - 1) + 1]].stage \notin {"label", "title"}
    BY <1>1, <1>2 DEF Here
  <2>2. Len(stack) = (current - 1) + 1
    BY <1>2
  <2> QED  BY <1>2, <1>3, <2>1, <2>2, CutPlain DEF Doc
<1>7. PICK f : f = [tree |-> PushChildren(e.tree, Top(e), remaining), stack |-> e.stack]
  OBVIOUS
<1>8. kept \cap (taken \ Here.lines) = {}
  BY <1>2
<1>9. /\ Fine(f, (taken \ Here.lines) \cup kept, Settled, tree)
      /\ Remain(e.tree, f.tree)
  <2> HIDE DEF Settled
  <2>1. CASE remaining = <<>> /\ kept = {}
    <3>1. PushChildren(e.tree, Top(e), <<>>) = e.tree
      BY <1>5, PushNone DEF Fine
    <3>2. f = e
      BY <1>5, <1>7, <2>1, <3>1 DEF Fine
    <3>3. (taken \ Here.lines) \cup kept = taken \ Here.lines
      BY <2>1
    <3> QED  BY <1>5, <3>2, <3>3 DEF Remain
  <2>2. ASSUME NEW r, remaining = <<r>>, IsSound(r), r.lines = kept
        PROVE  /\ Fine(f, (taken \ Here.lines) \cup kept, Settled, tree)
               /\ Remain(e.tree, f.tree)
    <3>1. Takes(e, taken \ Here.lines, r)
      BY <1>5, <1>8, <2>2 DEF Takes
    <3>2. /\ Fine([tree |-> PushChildren(e.tree, Top(e), <<r>>), stack |-> e.stack],
                  (taken \ Here.lines) \cup r.lines, Settled, tree)
          /\ Remain(e.tree, PushChildren(e.tree, Top(e), <<r>>))
      BY <1>5, <3>1, FinePush
    <3> QED  BY <1>7, <2>2, <3>2
  <2> QED  BY <2>1, <2>2
<1>10. f.stack = e.stack /\ Top(f) = Top(e) /\ Top(e) \in DOMAIN e.tree
  BY <1>5, <1>7, Tops DEF Top
<1>11. /\ current - 1 \in 1..Len(f.stack)
       /\ IsContaining(f.tree[f.stack[current - 1]].kind)
  <2>1. Top(f) = f.stack[current - 1]
    BY <1>5, <1>10 DEF Top
  <2> QED  BY <1>2, <1>5, <1>9, <1>10, <2>1 DEF Remain
<1> DEFINE S == (taken \ Here.lines) \cup kept
<1>12. /\ S \subseteq Lines /\ token.lines \cap S = {} /\ S \cup token.lines = taken \cup lines
  <2>1. kept \subseteq Lines
    BY <1>2
  <2> QED  BY <1>2, <2>1
<1> HIDE DEF S
<1>13. /\ Fine(Pushed(f, current - 1, token), S \cup token.lines, Settled, tree)
       /\ token.kind = "container" =>
             IsContaining(Pushed(f, current - 1, token).tree[Top(Pushed(f, current - 1, token))].kind)
  <2>1. Fine(f, S, Settled, tree)
    BY <1>9 DEF S
  <2> HIDE DEF Settled
  <2> QED  BY <1>11, <1>12, <2>1, FinePushed
<1>14. Interrupted(remaining, token) = Pushed(f, current - 1, token)
  <2>1. d = [tree |-> d.tree, stack |-> d.stack]
    BY <1>3, <1>5
  <2>2. [d EXCEPT !.tree = PushChildren(PopChild(d.tree, Top(d)), Top(d), remaining)] = f
    BY <1>5, <1>7, <2>1, WithParts
  <2> QED  BY <1>6, <2>2 DEF Interrupted
<1> QED  BY <1>12, <1>13, <1>14

-----------------------------------------------------------------------------
(* Every action.                                                           *)

Good == FineNext /\ LineOK' /\ CursorOK'

LEMMA LineGiven ==
    ASSUME IInv, Give, rest' = "none", line' = line, phase' \in Steps
    PROVE  LineOK'
<1>1. taken' \subseteq 1..line
  <2>1. rest = "text" => line \in 1..line
    BY BoundsAssumption DEF IInv, LineOK, Lines
  <2> QED  BY <2>1 DEF Give, IInv, LineOK
<1> QED  BY <1>1 DEF IInv, LineOK

LEMMA LineKept ==
    ASSUME IInv, taken' = taken, line' = line, phase' \in Steps \ {"idle", "done"},
           rest' = rest \/ rest' \in AfterPrefix \/ rest' = "none"
    PROVE  LineOK'
BY DEF IInv, LineOK, AfterPrefix

LEMMA NextStack ==
    ASSUME FineNext
    PROVE  Len(stack') \in Nat \ {0} /\ Len(stack') \in 1..(Len(stack') + 1)
<1>1. IsStack(tree', stack')
  BY DEF FineNext, Fine
<1>2. Len(stack') \in Nat \ {0}
  BY <1>1, StackEntries
<1> QED  BY <1>2

(* Without text there is nothing to say of the cursor but its range.       *)
LEMMA CursorSpent ==
    ASSUME rest' # "text", current' \in 1..(Len(stack') + 1)
    PROVE  CursorOK'
BY DEF CursorOK

LEMMA CursorOnTop ==
    ASSUME FineNext, current' = Len(stack'), IsContaining(tree'[stack'[Len(stack')]].kind)
    PROVE  CursorOK'
BY NextStack DEF CursorOK

LEMMA Became ==
    ASSUME NEW e, Fine(e, taken', Settled, tree), tree' = e.tree, stack' = e.stack
    PROVE  FineNext
BY DEF FineNext, Fine

LEMMA GoodConsume ==
    ASSUME IInv, Consume
    PROVE  Good
<1>1. FineNext
  BY Idle DEF Consume
<1>2. LineOK'
  <2>1. line \in 0..MaxLines /\ line < MaxLines /\ taken \subseteq 1..line
    BY DEF Consume, IInv, LineOK
  <2>2. line + 1 \in 0..MaxLines /\ line + 1 \in Lines /\ 1..line \subseteq 1..(line + 1)
        /\ line + 1 \notin 1..line
    BY <2>1, BoundsAssumption DEF Lines
  <2> QED  BY <2>1, <2>2 DEF Consume, LineOK, Steps
<1>3. CursorOK'
  <2>1. /\ Len(stack) \in Nat \ {0} /\ IsStack(tree, stack) /\ IsTree(tree)
        /\ tree' = tree /\ stack' = stack /\ current' = 2 /\ phase' = "walk"
    BY Facts DEF Consume
  <2>2. current' \in 1..(Len(stack') + 1)
    BY <2>1
  <2>3. current' > Len(stack') => IsContaining(tree'[Top(Doc)'].kind)
    <3> SUFFICES ASSUME 2 > Len(stack)
                 PROVE  IsContaining(tree'[Top(Doc)'].kind)
      BY <2>1
    <3>1. Len(stack) = 1 /\ tree'[Top(Doc)'] = tree[stack[Len(stack)]]
      BY <2>1 DEF Top, Doc
    <3>2. 1 \in 1..Len(stack)
      BY <3>1
    <3>3. IsContaining(tree[stack[1]].kind)
      BY <2>1, <3>2, LeavesAreLast
    <3> QED  BY <3>1, <3>3
  <2> QED  BY <2>1, <2>2, <2>3 DEF CursorOK
<1> QED  BY <1>1, <1>2, <1>3 DEF Good

LEMMA GoodInterruptByContainer ==
    ASSUME IInv, InterruptByContainer
    PROVE  Good
<1> DEFINE token == Leaf("container", {})
           e == Interrupted(<<Here>>, token)
<1>1. /\ current \in 2..Len(stack) /\ CanInterrupt("container")
      /\ tree' = e.tree /\ stack' = e.stack /\ taken' = taken
  BY DEF InterruptByContainer, Interrupt, Walking, Becomes
<1>2. IsSound(token) /\ token.kind = "container" /\ token.lines = {}
  BY SoundLeaf DEF Kinds
<1>3. IsSound(Here) /\ "container" \in Kinds
  BY <1>1, AtCursor DEF Kinds
<1> HIDE DEF token
<1>4. /\ Fine(e, taken \cup {}, Settled, tree)
      /\ "container" = "container" => IsContaining(e.tree[Top(e)].kind)
  <2>1. /\ {} \in SUBSET Lines /\ {} \cap taken = {} /\ Here.lines \cap token.lines = {}
        /\ Here.lines \cup token.lines = Here.lines \cup {}
    BY <1>2
  <2> HIDE DEF Settled, e
  <2> QED  BY <1>1, <1>2, <1>3, <2>1, FineInterrupted DEF e
<1>5. FineNext
  <2>1. taken \cup {} = taken'
    BY <1>1
  <2> HIDE DEF Settled, e
  <2> QED  BY <1>1, <1>4, <2>1, Became
<1>6. IsContaining(tree'[stack'[Len(stack')]].kind)
  BY <1>1, <1>4 DEF Top
<1>7. LineOK'
  BY LineKept DEF InterruptByContainer, Interrupt, Steps
<1>8. CursorOK'
  BY <1>5, <1>6, CursorOnTop DEF InterruptByContainer, Interrupt
<1> QED  BY <1>5, <1>7, <1>8 DEF Good

(* An interruption by a leaf takes the line.                               *)
LEMMA InterruptGood ==
    ASSUME IInv, NEW kind \in Kinds, NEW remaining, NEW token, NEW kept,
           Interrupt(kind, remaining, token), rest' = "none", Give,
           IsSound(token), token.kind = kind,
           \/ remaining = <<>> /\ kept = {}
           \/ \E r : remaining = <<r>> /\ IsSound(r) /\ r.lines = kept,
           kept \cap token.lines = {}, kept \cup token.lines = Here.lines \cup {line}
    PROVE  Good
<1> DEFINE e == Interrupted(remaining, token)
<1>1. /\ current \in 2..Len(stack) /\ CanInterrupt(kind) /\ rest = "text"
      /\ tree' = e.tree /\ stack' = e.stack /\ taken' = taken \cup {line}
  BY DEF Interrupt, Walking, Becomes, Give
<1>2. {line} \in SUBSET Lines /\ {line} \cap taken = {}
  BY <1>1, Facts
<1>3. Fine(e, taken \cup {line}, Settled, tree)
  <2> HIDE DEF Settled, e
  <2> QED  BY <1>1, <1>2, FineInterrupted DEF e
<1>4. FineNext
  <2> HIDE DEF Settled, e
  <2> QED  BY <1>1, <1>3, Became
<1>5. LineOK'
  BY LineGiven DEF Interrupt, Steps
<1>6. CursorOK'
  BY <1>4, NextStack, CursorSpent DEF Interrupt
<1> QED  BY <1>4, <1>5, <1>6 DEF Good

LEMMA GoodInterruptByLeaf ==
    ASSUME IInv, NEW kind \in {"heading", "fence"}, InterruptByLeaf(kind)
    PROVE  Good
<1> DEFINE token == Leaf(kind, {line})
<1>1. /\ Interrupt(kind, <<Here>>, token) /\ rest' = "none" /\ Give
      /\ current \in 2..Len(stack) /\ rest = "text"
  BY DEF InterruptByLeaf, Interrupt, Walking
<1>2. line \in Lines /\ {line} \cap taken = {} /\ IsSound(Here) /\ Here.lines \subseteq taken
  BY <1>1, Facts, AtCursor
<1>3. IsSound(token) /\ token.kind = kind /\ token.lines = {line}
  BY <1>2, SoundLeaf DEF Kinds
<1>4. kind \in Kinds
  BY DEF Kinds
<1> HIDE DEF token
<1>5. Here.lines \cap token.lines = {} /\ Here.lines \cup token.lines = Here.lines \cup {line}
  BY <1>2, <1>3
<1> QED  BY <1>1, <1>2, <1>3, <1>4, <1>5, InterruptGood

LEMMA GoodInterruptBySetext ==
    ASSUME IInv, InterruptBySetext
    PROVE  Good
<1> DEFINE token == Leaf("setext", Here.lines \cup {line})
<1>1. /\ Interrupt("setext", <<>>, token) /\ rest' = "none" /\ Give
      /\ current \in 2..Len(stack) /\ rest = "text"
  BY DEF InterruptBySetext, Interrupt, Walking
<1>2. line \in Lines /\ Here.lines \subseteq Lines
  BY <1>1, Facts, AtCursor
<1>3. IsSound(token) /\ token.kind = "setext" /\ token.lines = Here.lines \cup {line}
  BY <1>2, SoundLeaf DEF Kinds
<1>4. "setext" \in Kinds
  BY DEF Kinds
<1> HIDE DEF token
<1>5. {} \cap token.lines = {} /\ {} \cup token.lines = Here.lines \cup {line}
  BY <1>3
<1> QED  BY <1>1, <1>3, <1>4, <1>5, InterruptGood

LEMMA GoodInterruptByTable ==
    ASSUME IInv, InterruptByTable
    PROVE  Good
<1> DEFINE last == {l \in Here.lines : \A k \in Here.lines : k <= l}
           others == {l \in Here.lines : \E k \in Here.lines : k > l}
           token == Leaf("table", last \cup {line})
           remaining == IF Cardinality(Here.lines) = 1 THEN <<>> ELSE <<Leaf("paragraph", others)>>
           kept == IF Cardinality(Here.lines) = 1 THEN {} ELSE others
<1>1. /\ Interrupt("table", remaining, token) /\ rest' = "none" /\ Give
      /\ current \in 2..Len(stack) /\ rest = "text"
  BY DEF InterruptByTable, Interrupt, Walking
<1>2. /\ line \in Lines /\ {line} \cap taken = {} /\ Here.lines \subseteq taken
      /\ taken \subseteq Lines
  BY <1>1, Facts, AtCursor
<1>3. Here.lines \subseteq Int
  <2>1. Lines \subseteq Int
    BY BoundsAssumption DEF Lines
  <2> QED  BY <1>2, <2>1
<1>4. others = Here.lines \ last
  <2>1. \A k, l \in Here.lines : k > l <=> ~ (k <= l)
    BY <1>3
  <2> QED  BY <2>1
<1>5. Cardinality(Here.lines) = 1 => last = Here.lines
  <2>1. SUFFICES ASSUME Cardinality(Here.lines) = 1
                 PROVE  last = Here.lines
    OBVIOUS
  <2>2. IsFiniteSet(Here.lines)
    <3>1. IsFiniteSet(Lines)
      BY BoundsAssumption, FS_Interval DEF Lines
    <3> QED  BY <1>2, <3>1, FS_Subset
  <2>3. PICK x : Here.lines = {x}
    BY <2>1, <2>2, FS_Singleton
  <2>4. x \in Int /\ x <= x
    BY <1>3, <2>3
  <2> QED  BY <2>3, <2>4
<1>6. /\ last \subseteq Lines /\ others \subseteq Lines /\ last \subseteq Here.lines
  BY <1>2
<1> HIDE DEF last, others
<1>7. IsSound(token) /\ token.kind = "table" /\ token.lines = last \cup {line}
  BY <1>2, <1>6, SoundLeaf DEF Kinds
<1>8. \/ remaining = <<>> /\ kept = {}
      \/ \E r : remaining = <<r>> /\ IsSound(r) /\ r.lines = kept
  <2>1. IsSound(Leaf("paragraph", others)) /\ Leaf("paragraph", others).lines = others
    BY <1>6, SoundLeaf DEF Kinds
  <2> QED  BY <2>1
<1>9. kept = Here.lines \ last
  BY <1>4, <1>5
<1> HIDE DEF token, remaining, kept
<1>10. kept \cap token.lines = {} /\ kept \cup token.lines = Here.lines \cup {line}
  BY <1>2, <1>6, <1>7, <1>9
<1>11. "table" \in Kinds
  BY DEF Kinds
<1> QED  BY <1>1, <1>7, <1>8, <1>10, <1>11, InterruptGood

LEMMA WalkSteps ==
    ASSUME IInv, Walking
    PROVE  /\ current \in 2..Len(stack) /\ current \in 1..Len(stack)
           /\ current + 1 \in 1..(Len(stack) + 1) /\ current - 1 \in 1..(Len(stack) + 1)
           /\ Here = tree[stack[current]] /\ stack[current] \in DOMAIN tree
           /\ IsSound(Here) /\ Here.lines \subseteq taken
           /\ taken \subseteq Lines
<1>1. current \in 2..Len(stack) /\ Len(stack) \in Nat
  BY Facts DEF Walking
<1> QED  BY <1>1, Facts, AtCursor DEF Here

LEMMA GoodContinueContainer ==
    ASSUME IInv, ContinueContainer
    PROVE  Good
<1>1. /\ Walking /\ current' = current + 1 /\ Here.kind = "container"
      /\ UNCHANGED <<tree, stack, taken, phase, line>>
  BY DEF ContinueContainer, Continue
<1>2. FineNext
  BY <1>1, Idle
<1>3. LineOK'
  BY <1>1, LineKept DEF ContinueContainer, Walking, Steps
<1>4. CursorOK'
  <2>1. current' \in 1..(Len(stack') + 1) /\ phase' = "walk"
    BY <1>1, WalkSteps DEF Walking
  <2>2. current' > Len(stack') => IsContaining(tree'[Top(Doc)'].kind)
    <3>1. Top(Doc)' = stack[Len(stack)]
      BY <1>1 DEF Top, Doc
    <3>2. current' > Len(stack') => current = Len(stack)
      BY <1>1, WalkSteps, Facts
    <3>3. IsContaining(tree[stack[current]].kind)
      BY <1>1, WalkSteps DEF IsContaining
    <3> QED  BY <1>1, <3>1, <3>2, <3>3
  <2> QED  BY <2>1, <2>2 DEF CursorOK
<1> QED  BY <1>2, <1>3, <1>4 DEF Good

(* Tokens that a line changes in their place.                              *)
LEMMA WriteGood ==
    ASSUME IInv, NEW i \in 1..Len(stack), NEW token, IsSound(token),
           tree' = [tree EXCEPT ![stack[i]] = token],
           token.kind = tree[stack[i]].kind, token.lines = tree[stack[i]].lines \cup Text,
           Give, stack' = stack, line' = line, rest' = "none", phase' \in Steps,
           current' \in 1..(Len(stack) + 1)
    PROVE  Good
<1>1. stack[i] \in DOMAIN tree /\ IsTree(tree)
  BY Facts
<1>2. Changes(tree, tree', stack[i], token)
  BY <1>1 DEF Changes, IsTree
<1>3. Text \in SUBSET Lines /\ Text \cap taken = {} /\ taken' = taken \cup Text
  BY Facts DEF Text, Give
<1>4. FineNext
  BY <1>2, <1>3, Written
<1>5. LineOK'
  BY LineGiven
<1>6. CursorOK'
  BY CursorSpent
<1> QED  BY <1>4, <1>5, <1>6 DEF Good

LEMMA GoodContinueLeaf ==
    ASSUME IInv, ContinueLeaf
    PROVE  Good
<1> DEFINE token == [Here EXCEPT !.lines = Here.lines \cup Text]
<1>1. /\ Walking /\ current' = current + 1 /\ UNCHANGED <<stack, phase, line>>
      /\ rest' = "none" /\ Give
      /\ tree' = [tree EXCEPT ![stack[current]].lines = @ \cup Text]
  BY DEF ContinueLeaf, Continue
<1>2. tree' = [tree EXCEPT ![stack[current]] = token]
  BY <1>1, WalkSteps
<1>3. Text \subseteq Lines
  BY Facts DEF Text
<1>4. IsSound(token) /\ token.kind = Here.kind /\ token.lines = Here.lines \cup Text
  BY <1>1, <1>3, WalkSteps DEF IsSound, Token
<1> HIDE DEF token
<1>5. phase' \in Steps
  BY <1>1 DEF Walking, Steps
<1> QED  BY <1>1, <1>2, <1>4, <1>5, WalkSteps, WriteGood

LEMMA GoodContinueDefinition ==
    ASSUME IInv, ContinueDefinition
    PROVE  Good
<1>1. PICK to \in Stages :
        tree' = [tree EXCEPT ![stack[current]] =
             [Here EXCEPT !.lines = @ \cup {line}, !.stage = to,
                          !.tail = IF to = "title" THEN @ \cup {line} ELSE {}]]
  BY DEF ContinueDefinition, Stages
<1> DEFINE token == [Here EXCEPT !.lines = @ \cup {line}, !.stage = to,
                       !.tail = IF to = "title" THEN @ \cup {line} ELSE {}]
<1>2. /\ Walking /\ current' = current + 1 /\ UNCHANGED <<stack, phase, line>>
      /\ rest' = "none" /\ Give /\ Here.kind = "definition" /\ rest = "text"
  BY DEF ContinueDefinition, Continue
<1>3. tree' = [tree EXCEPT ![stack[current]] = token]
  BY <1>1
<1>4. Text = {line} /\ line \in Lines
  BY <1>2, Facts DEF Text
<1>5. IsSound(token) /\ token.kind = Here.kind /\ token.lines = Here.lines \cup Text
  BY <1>2, <1>4, WalkSteps DEF IsSound, Token
<1> HIDE DEF token
<1>6. phase' \in Steps
  BY <1>2 DEF Walking, Steps
<1> QED  BY <1>2, <1>3, <1>5, <1>6, WalkSteps, WriteGood

LEMMA GoodCloseContainer ==
    ASSUME IInv, CloseContainer
    PROVE  Good
<1>1. /\ Walking /\ current' = current - 1 /\ phase' = "matched" /\ rest' = "none"
      /\ UNCHANGED <<tree, stack, taken, line>>
  BY DEF CloseContainer, Close
<1>2. FineNext
  BY <1>1, Idle
<1>3. LineOK'
  BY <1>1, LineKept DEF Steps
<1>4. CursorOK'
  BY <1>1, WalkSteps, CursorSpent
<1> QED  BY <1>2, <1>3, <1>4 DEF Good

LEMMA GoodCloseLeaf ==
    ASSUME IInv, CloseLeaf
    PROVE  Good
<1> DEFINE token == [Here EXCEPT !.lines = @ \cup {line}, !.tail = {},
                                 !.stage = IF Here.kind = "fence" THEN "none" ELSE "titled"]
<1>1. /\ Walking /\ current' = current - 1 /\ phase' = "matched" /\ rest' = "none"
      /\ UNCHANGED <<stack, line>> /\ rest = "text" /\ Give
      /\ Here.kind = "fence" \/ Here.stage \in {"label", "complete", "title"}
  BY DEF CloseLeaf, Close
<1>2. tree' = [tree EXCEPT ![stack[current]] = token]
  BY DEF CloseLeaf
<1>3. Text = {line} /\ line \in Lines
  BY <1>1, Facts DEF Text
<1>4. IsSound(token) /\ token.kind = Here.kind /\ token.lines = Here.lines \cup Text
  BY <1>1, <1>3, WalkSteps DEF IsSound, Token, Stages
<1> HIDE DEF token
<1>5. phase' \in Steps
  BY <1>1 DEF Steps
<1> QED  BY <1>1, <1>2, <1>4, <1>5, WalkSteps, WriteGood

LEMMA GoodNotMatched ==
    ASSUME IInv, NotMatched
    PROVE  Good
<1>1. /\ Walking /\ current' = current - 1 /\ phase' = "matched"
      /\ UNCHANGED <<tree, stack, line, rest, taken>>
  BY DEF NotMatched
<1>2. FineNext
  BY <1>1, Idle
<1>3. LineOK'
  BY <1>1, LineKept DEF Steps
<1>4. CursorOK'
  <2>1. current \in 2..Len(stack)
    BY <1>1, WalkSteps
  <2>2. current' \in 1..Len(stack) /\ Len(stack) \in Nat /\ IsContaining(tree[stack[current - 1]].kind)
    BY <1>1, <2>1, AtCursor, Facts
  <2> QED  BY <1>1, <2>2 DEF CursorOK
<1> QED  BY <1>2, <1>3, <1>4 DEF Good

LEMMA GoodEndWalk ==
    ASSUME IInv, EndWalk
    PROVE  Good
<1>1. /\ phase \in {"walk", "matched"} /\ ~ Walking /\ phase' \in {"open", "lazy"}
      /\ UNCHANGED <<tree, stack, line, rest, taken>>
      /\ current' = IF rest # "none" /\ current > Len(stack) THEN Len(stack) ELSE current
  BY DEF EndWalk
<1>2. FineNext
  BY <1>1, Idle
<1>3. LineOK'
  BY <1>1, LineKept DEF Steps
<1>4. /\ Len(stack) \in Nat \ {0} /\ current \in 1..(Len(stack) + 1) /\ IsTree(tree)
      /\ IsStack(tree, stack) /\ Top(Doc) = stack[Len(stack)]
  BY Facts
<1>5. ASSUME rest = "text"
      PROVE  current' \in 1..Len(stack) /\ IsContaining(tree[stack[current']].kind)
  <2>1. CASE phase = "matched"
    <3>1. current <= Len(stack) /\ IsContaining(tree[stack[current]].kind)
      BY <1>5, <2>1 DEF IInv, CursorOK
    <3> QED  BY <1>1, <1>4, <3>1
  <2>2. CASE phase = "walk" /\ current > Len(stack)
    <3>1. IsContaining(tree[Top(Doc)].kind)
      BY <1>5, <2>2 DEF IInv, CursorOK
    <3> QED  BY <1>1, <1>4, <1>5, <2>2, <3>1
  <2>3. CASE phase = "walk" /\ current <= Len(stack)
    <3>1. current = 1 /\ current' = 1
      BY <1>1, <1>4, <1>5, <2>3 DEF Walking
    <3>2. 1 \in 1..Len(stack)
      BY <1>4
    <3> QED  BY <1>4, <3>1, <3>2, LeavesAreLast
  <2> QED  BY <1>1, <1>4, <2>1, <2>2, <2>3
<1>6. CursorOK'
  <2>1. current' \in 1..(Len(stack') + 1)
    BY <1>1, <1>4
  <2>2. CASE rest = "text"
    BY <1>1, <1>4, <1>5, <2>1, <2>2 DEF CursorOK
  <2>3. CASE rest # "text"
    BY <1>1, <2>1, <2>3, CursorSpent
  <2> QED  BY <2>2, <2>3
<1> QED  BY <1>2, <1>3, <1>6 DEF Good


LEMMA GoodFailAndRollback ==
    ASSUME IInv, FailAndRollback
    PROVE  Good
<1>1. /\ Walking /\ Here.stage = "label" /\ current \in 2..Len(stack) /\ phase = "walk"
      /\ current' = Len(stack') /\ UNCHANGED <<phase, line, rest, taken>>
  BY DEF FailAndRollback, Walking
<1>2. IsSound(Here) /\ Here.lines \subseteq taken /\ taken \subseteq Lines
  BY <1>1, WalkSteps
<1>3. ~ IsContaining(Here.kind)
  BY <1>1, <1>2 DEF IsSound, IsContaining
<1>4. PICK d : d = [tree |-> tree, stack |-> SubSeq(stack, 1, current - 1)]
  OBVIOUS
<1>5. PICK e : e = [tree |-> PopChild(tree, stack[current - 1]), stack |-> d.stack]
  OBVIOUS
<1>6. Fine(e, taken \ Here.lines, Settled, tree) /\ IsContaining(e.tree[Top(e)].kind)
  <2> HIDE DEF Settled
  <2> QED  BY <1>1, <1>3, <1>4, <1>5, Removed
<1>7. e = [tree |-> PopChild(tree, stack[current - 1]), stack |-> SubSeq(stack, 1, current - 1)]
  BY <1>4, <1>5
<1>8. PICK r \in Rollbacks(Here.lines) :
        tree' = Graft(e, r).tree /\ stack' = Graft(e, r).stack
  BY <1>7 DEF FailAndRollback, Becomes
<1>9. FineNext
  <2>1. /\ Here.lines \in SUBSET Lines /\ Here.lines \cap (taken \ Here.lines) = {}
        /\ (taken \ Here.lines) \cup Here.lines = taken'
    BY <1>1, <1>2
  <2> HIDE DEF Settled
  <2>2. Fine(Graft(e, r), (taken \ Here.lines) \cup Here.lines, Settled, tree)
    BY <1>6, <1>8, <2>1, FineGraft
  <2> QED  BY <1>8, <2>1, <2>2, Became
<1>10. LineOK'
  BY <1>1, LineKept DEF Steps
<1>11. CursorOK'
  BY <1>1, <1>9, NextStack DEF CursorOK
<1> QED  BY <1>9, <1>10, <1>11 DEF Good

LEMMA GoodCloseAndRollback ==
    ASSUME IInv, CloseAndRollback
    PROVE  Good
<1>1. /\ Walking /\ Here.stage \in {"complete", "title"} /\ current \in 2..Len(stack)
      /\ current' = Len(stack') /\ UNCHANGED <<line, rest, taken>>
      /\ phase' = IF Here.tail = {} THEN "matched" ELSE "walk"
  BY DEF CloseAndRollback, Walking
<1>2. /\ IsSound(Here) /\ Here.lines \subseteq taken /\ taken \subseteq Lines
      /\ Here.tail \subseteq Here.lines
  BY <1>1, WalkSteps DEF IsSound
<1>3. PICK n, c : n = current - 1 /\ c = stack[current]
  OBVIOUS
<1>4. /\ n \in Nat \ {0} /\ n \in 1..Len(stack) /\ Len(stack) = n + 1 /\ c = stack[n + 1]
      /\ c \in DOMAIN tree \ Settled /\ tree[c] = Here
      /\ IsContaining(tree[stack[n]].kind) /\ stack[n] \in DOMAIN tree \ {c}
  <2>1. ~ IsContaining(Here.kind)
    BY <1>1, <1>2 DEF IsSound, IsContaining
  <2>2. current = Len(stack) /\ n + 1 = current
    BY <1>1, <1>3, <2>1, AtCursor
  <2> QED  BY <1>1, <1>3, <2>2, AtCursor DEF Here
<1>5. PICK e : e = [tree |-> [tree EXCEPT ![c] = Untitled(Here)], stack |-> stack]
  OBVIOUS
<1>6. /\ Fine(e, taken \ Here.tail, Settled, tree)
      /\ e.stack = stack /\ e.tree[c] = Untitled(Here) /\ e.tree[stack[n]] = tree[stack[n]]
  <2>1. Fine(Doc, taken, Settled, tree) /\ Doc.tree = tree /\ Doc.stack = stack
    BY Facts DEF FineNow
  <2>2. e = [tree |-> [Doc.tree EXCEPT ![c] = Untitled(Doc.tree[c])], stack |-> Doc.stack]
    BY <1>4, <1>5, <2>1
  <2>3. /\ c \in DOMAIN Doc.tree /\ c \notin Settled
        /\ Doc.tree[c].stage \in {"complete", "title"}
    BY <1>1, <1>4, <2>1
  <2> HIDE DEF Settled
  <2>4. /\ Fine(e, taken \ Doc.tree[c].tail, Settled, tree)
        /\ \A q \in DOMAIN Doc.tree \ {c} : e.tree[q] = Doc.tree[q]
        /\ e.tree[c] = Untitled(Doc.tree[c])
    BY <2>1, <2>2, <2>3, FineUntitled
  <2>5. e.stack = stack
    BY <1>5
  <2> QED  BY <1>4, <2>1, <2>4, <2>5
<1>7. PICK d : d = [tree |-> e.tree, stack |-> SubSeq(stack, 1, n)]
  OBVIOUS
<1>8. Cut(e, n) = d
  <2>1. e = [tree |-> e.tree, stack |-> stack] /\ IsStack(e.tree, stack)
    BY <1>6 DEF Fine
  <2>2. e.tree[stack[n + 1]].stage \notin {"label", "title"}
    <3>1. Here \in [kind : Kinds \cup {"root"}, lines : SUBSET Lines,
                    stage : Stages, tail : SUBSET Lines]
      BY <1>2 DEF IsSound, Token
    <3> QED  BY <1>4, <1>6, <3>1 DEF Untitled
  <2>3. Cut([tree |-> e.tree, stack |-> stack], n) = d
    BY <1>4, <1>7, <2>1, <2>2, CutPlain
  <2> QED  BY <2>1, <2>3
<1>9. Fine(d, taken \ Here.tail, Settled, tree) /\ IsContaining(d.tree[Top(d)].kind)
  <2>1. d = [tree |-> e.tree, stack |-> SubSeq(e.stack, 1, n)] /\ n \in 1..Len(e.stack)
    BY <1>4, <1>6, <1>7
  <2> HIDE DEF Settled
  <2>2. Fine(d, taken \ Here.tail, Settled, tree) /\ Top(d) = e.stack[n]
    BY <1>6, <2>1, FineShorter
  <2>3. d.tree = e.tree
    BY <1>7
  <2> QED  BY <1>4, <1>6, <2>2, <2>3
<1>10. PICK r \in Rollbacks(Here.tail) :
         tree' = Graft(d, r).tree /\ stack' = Graft(d, r).stack
  BY <1>3, <1>5, <1>8 DEF CloseAndRollback, Becomes
<1>11. FineNext
  <2>1. /\ Here.tail \in SUBSET Lines /\ Here.tail \cap (taken \ Here.tail) = {}
        /\ (taken \ Here.tail) \cup Here.tail = taken'
    BY <1>1, <1>2
  <2> HIDE DEF Settled
  <2>2. Fine(Graft(d, r), (taken \ Here.tail) \cup Here.tail, Settled, tree)
    BY <1>9, <1>10, <2>1, FineGraft
  <2> QED  BY <1>10, <2>1, <2>2, Became
<1>12. LineOK'
  BY <1>1, LineKept DEF Steps
<1>13. CursorOK'
  <2>1. CASE Here.tail = {}
    <3>1. r.closed = <<>> /\ r.within = <<>> /\ r.leaf = <<>>
      BY <1>10, <2>1 DEF Rollbacks, Rollback
    <3>2. Graft(d, r) = [d EXCEPT !.tree = PushChildren(d.tree, Top(d), <<>>)]
      BY <3>1 DEF Graft, Opened
    <3>3. PushChildren(d.tree, Top(d), <<>>) = d.tree /\ d = [tree |-> d.tree, stack |-> d.stack]
      BY <1>9, PushNone DEF Fine
    <3>4. Graft(d, r) = d
      BY <3>2, <3>3, WithParts
    <3>5. IsContaining(tree'[stack'[Len(stack')]].kind)
      BY <1>9, <1>10, <3>4 DEF Top
    <3> QED  BY <1>1, <1>11, <3>5, CursorOnTop
  <2>2. CASE Here.tail # {}
    BY <1>1, <1>11, <2>2, NextStack DEF CursorOK
  <2> QED  BY <2>1, <2>2
<1> QED  BY <1>11, <1>12, <1>13 DEF Good

(* A new block below the one at the cursor.                                *)
LEMMA OpenGood ==
    ASSUME IInv, current \in 1..Len(stack), IsContaining(tree[stack[current]].kind),
           NEW token, Open(token), IsSound(token), token.lines \cap taken = {},
           taken' = taken \cup token.lines
    PROVE  /\ FineNext /\ current' = Len(stack') /\ line' = line
           /\ token.kind = "container" => IsContaining(tree'[stack'[Len(stack')]].kind)
<1>1. PICK e : e = Pushed(Doc, current, token)
  OBVIOUS
<1>2. tree' = e.tree /\ stack' = e.stack /\ current' = Len(stack') /\ line' = line
  BY <1>1 DEF Open, Becomes
<1>3. /\ Fine(e, taken', Settled, tree)
      /\ token.kind = "container" => IsContaining(e.tree[Top(e)].kind)
  <2>1. /\ Fine(Doc, taken, Settled, tree) /\ Doc.tree = tree /\ Doc.stack = stack
        /\ taken \subseteq Lines
    BY Facts DEF FineNow
  <2>2. current \in 1..Len(Doc.stack) /\ IsContaining(Doc.tree[Doc.stack[current]].kind)
    BY <2>1
  <2> HIDE DEF Settled
  <2> QED  BY <1>1, <2>1, <2>2, FinePushed
<1>4. FineNext
  <2> HIDE DEF Settled
  <2> QED  BY <1>2, <1>3, Became
<1>5. Top(e) = stack'[Len(stack')]
  BY <1>2 DEF Top
<1> QED  BY <1>2, <1>3, <1>4, <1>5

LEMMA GoodOpenContainer ==
    ASSUME IInv, OpenContainer
    PROVE  Good
<1> DEFINE token == Leaf("container", {})
<1>1. /\ phase = "open" /\ rest = "text" /\ IsContaining(tree[stack[current]].kind)
      /\ Open(token) /\ rest' \in AfterPrefix /\ UNCHANGED <<phase, taken>>
  BY DEF OpenContainer
<1>2. current \in 1..Len(stack)
  BY <1>1, Facts DEF IInv, CursorOK
<1>3. IsSound(token) /\ token.kind = "container" /\ token.lines = {}
  BY SoundLeaf DEF Kinds
<1> HIDE DEF token
<1>4. token.lines \cap taken = {} /\ taken' = taken \cup token.lines
  BY <1>1, <1>3
<1>5. /\ FineNext /\ current' = Len(stack') /\ line' = line
      /\ IsContaining(tree'[stack'[Len(stack')]].kind)
  BY <1>1, <1>2, <1>3, <1>4, OpenGood
<1>6. LineOK'
  BY <1>1, <1>5, LineKept DEF Steps
<1>7. CursorOK'
  BY <1>5, CursorOnTop
<1> QED  BY <1>5, <1>6, <1>7 DEF Good

(* A new leaf takes the line.                                              *)
LEMMA OpenLeafGood ==
    ASSUME IInv, phase \in {"open", "fallback"}, rest = "text",
           NEW token, Open(token), IsSound(token), token.lines = {line}, Give,
           rest' = "none", phase' \in Steps
    PROVE  Good
<1>1. current \in 1..Len(stack) /\ IsContaining(tree[stack[current]].kind)
  BY Facts DEF IInv, CursorOK
<1>2. token.lines \cap taken = {} /\ taken' = taken \cup token.lines
  BY Facts DEF Give
<1>3. FineNext /\ current' = Len(stack') /\ line' = line
  BY <1>1, <1>2, OpenGood
<1>4. LineOK'
  BY <1>3, LineGiven
<1>5. CursorOK'
  BY <1>3, NextStack, CursorSpent
<1> QED  BY <1>3, <1>4, <1>5 DEF Good

LEMMA GoodOpenLeaf ==
    ASSUME IInv, NEW token \in Openers, token.lines # {}, OpenLeaf(token)
    PROVE  Good
<1>1. /\ phase = "open" /\ rest = "text" /\ Open(token) /\ rest' = "none" /\ Give
      /\ phase' \in Steps
  BY DEF OpenLeaf, Steps
<1>2. line \in Lines
  BY <1>1, Facts
<1>3. IsSound(token) /\ token.lines = {line}
  <2>1. CASE token = Leaf("container", {})
    BY <2>1 DEF Leaf
  <2>2. CASE token \in {Leaf("fence", {line}), Leaf("heading", {line})}
    BY <1>2, <2>2, SoundLeaf DEF Kinds
  <2>3. ASSUME NEW s \in {"label", "complete", "titled"},
               token = [kind |-> "definition", lines |-> {line}, stage |-> s, tail |-> {}]
        PROVE  IsSound(token) /\ token.lines = {line}
    BY <1>2, <2>3 DEF IsSound, Token, Kinds, Stages
  <2> QED  BY <2>1, <2>2, <2>3 DEF Openers
<1> QED  BY <1>1, <1>3, OpenLeafGood

LEMMA GoodEndOpen ==
    ASSUME IInv, EndOpen
    PROVE  Good
<1>1. /\ phase = "open" /\ phase' = "lazy"
      /\ UNCHANGED <<tree, stack, current, line, rest, taken>>
  BY DEF EndOpen
<1>2. FineNext
  BY <1>1, Idle
<1>3. LineOK'
  BY <1>1, LineKept DEF Steps
<1>4. CursorOK'
  BY <1>1 DEF IInv, CursorOK
<1> QED  BY <1>2, <1>3, <1>4 DEF Good

LEMMA GoodLazyContinue ==
    ASSUME IInv, LazyContinue
    PROVE  Good
<1>1. /\ rest = "text" /\ rest' = "none" /\ Give /\ UNCHANGED <<stack, line>>
      /\ phase' \in Steps /\ current' = Len(stack)
      /\ tree' = [tree EXCEPT ![Top(Doc)].lines = @ \cup {line}]
  BY DEF LazyContinue, LazyParagraph, Steps
<1>2. PICK i, p : i = Len(stack) /\ p = stack[i]
  OBVIOUS
<1>3. /\ i \in 1..Len(stack) /\ Top(Doc) = p /\ p \in DOMAIN tree
      /\ IsSound(tree[p]) /\ i \in 1..(Len(stack) + 1)
  BY <1>2, Facts
<1>4. Text = {line} /\ line \in Lines
  BY <1>1, Facts DEF Text
<1> DEFINE token == [tree[p] EXCEPT !.lines = tree[p].lines \cup {line}]
<1>5. tree' = [tree EXCEPT ![p] = token]
  BY <1>1, <1>3
<1>6. IsSound(token) /\ token.kind = tree[p].kind /\ token.lines = tree[p].lines \cup Text
  BY <1>3, <1>4 DEF IsSound, Token
<1> HIDE DEF token
<1> QED  BY <1>1, <1>2, <1>3, <1>5, <1>6, WriteGood

LEMMA GoodCutStaleBranch ==
    ASSUME IInv, CutStaleBranch
    PROVE  Good
<1>1. PICK e : e = Cut(Doc, current)
  OBVIOUS
<1>2. /\ phase = "lazy" /\ phase' = "fallback" /\ UNCHANGED <<line, rest, taken>>
      /\ tree' = e.tree /\ stack' = e.stack
      /\ current' = IF current > Len(stack') THEN Len(stack') ELSE current
  BY <1>1 DEF CutStaleBranch, Becomes
<1>3. /\ Len(stack) \in Nat \ {0} /\ current \in 1..(Len(stack) + 1) /\ current \in Nat \ {0}
      /\ Fine(Doc, taken, Settled, tree) /\ Doc.tree = tree /\ Doc.stack = stack
      /\ taken \subseteq Lines
  BY Facts DEF FineNow
<1>4. /\ Fine(e, taken, Settled, tree)
      /\ Len(stack) <= current => e = Doc
      /\ Len(stack) > current =>
            Len(e.stack) = current /\ IsContaining(e.tree[Top(e)].kind)
  <2> HIDE DEF Settled
  <2> QED  BY <1>1, <1>3, FineCut
<1>5. FineNext
  <2>1. Fine(e, taken', Settled, tree)
    BY <1>2, <1>4
  <2> HIDE DEF Settled
  <2> QED  BY <1>2, <2>1, Became
<1>6. LineOK'
  BY <1>2, LineKept DEF Steps
<1>7. Len(stack') \in Nat \ {0}
  BY <1>5, NextStack
<1>8. CursorOK'
  <2>1. current' \in 1..Len(stack')
    BY <1>2, <1>3, <1>7
  <2>2. ASSUME rest = "text"
        PROVE  IsContaining(tree'[stack'[current']].kind)
    <3>1. current <= Len(stack) /\ IsContaining(tree[stack[current]].kind)
      BY <1>2, <2>2 DEF IInv, CursorOK
    <3>2. CASE Len(stack) <= current
      BY <1>2, <1>3, <1>4, <3>1, <3>2
    <3>3. CASE Len(stack) > current
      BY <1>2, <1>3, <1>4, <3>3 DEF Top
    <3> QED  BY <1>3, <3>2, <3>3
  <2> QED  BY <1>2, <1>7, <2>1, <2>2 DEF CursorOK
<1> QED  BY <1>5, <1>6, <1>8 DEF Good

LEMMA GoodFallBack ==
    ASSUME IInv, FallBack
    PROVE  Good
<1>1. phase = "fallback" /\ phase' = "idle" /\ phase' \in Steps
  BY DEF FallBack, Steps
<1>2. CASE rest = "text"
  <2> DEFINE token == Leaf("paragraph", {line})
  <2>1. Open(token) /\ rest' = "none" /\ Give
    BY <1>2 DEF FallBack
  <2>2. line \in Lines
    BY <1>2, Facts
  <2>3. IsSound(token) /\ token.lines = {line}
    BY <2>2, SoundLeaf DEF Kinds
  <2> HIDE DEF token
  <2> QED  BY <1>1, <1>2, <2>1, <2>3, OpenLeafGood
<1>3. CASE rest # "text"
  <2>1. UNCHANGED <<tree, stack, current, line, rest, taken>>
    BY <1>3 DEF FallBack
  <2>2. FineNext
    BY <2>1, Idle
  <2>3. LineOK'
    BY <1>1, <1>3, <2>1 DEF IInv, LineOK
  <2>4. CursorOK'
    BY <1>3, <2>1, CursorSpent DEF IInv, CursorOK
  <2> QED  BY <2>2, <2>3, <2>4 DEF Good
<1> QED  BY <1>2, <1>3

LEMMA GoodDone ==
    ASSUME IInv, Done
    PROVE  Good
<1>1. PICK e : e = Cut(Doc, 1)
  OBVIOUS
<1>2. /\ phase = "idle" /\ phase' = "done" /\ UNCHANGED <<line, rest, taken>>
      /\ tree' = e.tree /\ stack' = e.stack /\ current' = 1
  BY <1>1 DEF Done, Becomes
<1>3. Fine(Doc, taken, Settled, tree) /\ taken \subseteq Lines /\ 1 \in Nat \ {0}
  BY Facts DEF FineNow
<1>4. FineNext
  <2>1. Fine(e, taken', Settled, tree)
    <3> HIDE DEF Settled
    <3> QED  BY <1>1, <1>2, <1>3, FineCut
  <2> HIDE DEF Settled
  <2> QED  BY <1>2, <2>1, Became
<1>5. LineOK'
  BY <1>2 DEF IInv, LineOK, Steps
<1>6. CursorOK'
  <2>1. rest' # "text"
    BY <1>2 DEF IInv, LineOK
  <2>2. current' \in 1..(Len(stack') + 1)
    BY <1>2, <1>4, NextStack
  <2> QED  BY <2>1, <2>2, CursorSpent
<1> QED  BY <1>4, <1>5, <1>6 DEF Good

LEMMA GoodStutter ==
    ASSUME IInv, UNCHANGED vars
    PROVE  Good
<1>1. UNCHANGED <<tree, stack, current, phase, line, rest, taken>>
  BY DEF vars
<1>2. FineNext
  BY <1>1, Idle
<1>3. LineOK'
  BY <1>1 DEF IInv, LineOK
<1>4. CursorOK'
  BY <1>1 DEF IInv, CursorOK, Top, Doc
<1> QED  BY <1>2, <1>3, <1>4 DEF Good

-----------------------------------------------------------------------------
(* The theorems.                                                           *)

LEMMA InitialIInv ==
    ASSUME Init
    PROVE  IInv
<1> DEFINE root == Leaf("root", {})
<1>1. /\ tree = [p \in {<<>>} |-> root] /\ stack = <<<<>>>> /\ current = 1 /\ phase = "idle"
      /\ line = 0 /\ rest = "none" /\ taken = {}
  BY DEF Init
<1>2. IsSound(root) /\ root.lines = {} /\ root.kind = "root"
  BY DEF IsSound, Leaf, Token, Stages
<1> HIDE DEF root
<1>3. DOMAIN tree = {<<>>} /\ tree[<<>>] = root
  BY <1>1
<1>4. IsTree(tree)
  <2>1. ChildrenOf(tree, <<>>) = {}
    BY <1>3 DEF ChildrenOf
  <2>2. Cardinality({}) = 0 /\ IsFiniteSet({}) /\ 1..0 = {}
    BY FS_EmptySet
  <2>3. Numbered(tree, <<>>)
    BY <2>1, <2>2 DEF Numbered
  <2>4. \A i \in 0..Len(<<>>) : SubSeq(<<>>, 1, i) = <<>>
    OBVIOUS
  <2>5. <<>> \in Seq(Nat)
    OBVIOUS
  <2>6. tree = [p \in DOMAIN tree |-> tree[p]]
    BY <1>1
  <2> QED  BY <1>2, <1>3, <2>3, <2>4, <2>5, <2>6 DEF IsTree, IsContaining
<1>5. IsStack(tree, stack)
  BY <1>1, <1>3 DEF IsStack
<1>6. Holds(tree, taken)
  BY <1>1, <1>2, <1>3 DEF Holds
<1>7. LineOK
  BY <1>1, BoundsAssumption DEF LineOK, Steps
<1>8. CursorOK
  BY <1>1 DEF CursorOK
<1> QED  BY <1>4, <1>5, <1>6, <1>7, <1>8 DEF IInv

LEMMA EveryStepIsGood ==
    ASSUME IInv, [Next]_vars
    PROVE  Good
<1>1. CASE Consume
  BY <1>1, GoodConsume
<1>2. CASE InterruptByContainer \/ InterruptBySetext \/ InterruptByTable
  BY <1>2, GoodInterruptByContainer, GoodInterruptBySetext, GoodInterruptByTable
<1>3. ASSUME NEW k \in {"heading", "fence"}, InterruptByLeaf(k)
      PROVE  Good
  BY <1>3, GoodInterruptByLeaf
<1>4. CASE ContinueContainer \/ ContinueLeaf \/ ContinueDefinition
  BY <1>4, GoodContinueContainer, GoodContinueLeaf, GoodContinueDefinition
<1>5. CASE CloseContainer \/ CloseLeaf \/ NotMatched
  BY <1>5, GoodCloseContainer, GoodCloseLeaf, GoodNotMatched
<1>6. CASE FailAndRollback \/ CloseAndRollback \/ EndWalk
  BY <1>6, GoodFailAndRollback, GoodCloseAndRollback, GoodEndWalk
<1>7. CASE OpenContainer \/ EndOpen
  BY <1>7, GoodOpenContainer, GoodEndOpen
<1>8. ASSUME NEW token \in Openers, token.lines # {}, OpenLeaf(token)
      PROVE  Good
  BY <1>8, GoodOpenLeaf
<1>9. CASE LazyContinue \/ CutStaleBranch \/ FallBack
  BY <1>9, GoodLazyContinue, GoodCutStaleBranch, GoodFallBack
<1>10. CASE Done
  BY <1>10, GoodDone
<1>11. CASE Terminated \/ UNCHANGED vars
  BY <1>11, GoodStutter DEF Terminated
<1> QED  BY <1>1, <1>2, <1>3, <1>4, <1>5, <1>6, <1>7, <1>8, <1>9, <1>10, <1>11
         DEF Next, InLine

LEMMA GoodIsEnough ==
    ASSUME Good
    PROVE  IInv' /\ Keeps(Settled, tree, tree')
<1>1. FineNext /\ LineOK' /\ CursorOK'
  BY DEF Good
<1>2. /\ IsTree(tree') /\ IsStack(tree', stack') /\ Holds(tree', taken')
      /\ Keeps(Settled, tree, tree')
  <2> HIDE DEF Settled
  <2> QED  BY <1>1 DEF FineNext, Fine
<1> QED  BY <1>1, <1>2 DEF IInv

LEMMA Inductive == Spec => []IInv
<1>1. Init => IInv
  BY InitialIInv
<1>2. IInv /\ [Next]_vars => IInv'
  BY EveryStepIsGood, GoodIsEnough
<1> QED  BY <1>1, <1>2, PTL DEF Spec

(* The text of every line that a block was given is in exactly one block   *)
(* of the tree, whatever was interrupted, closed, cut or rolled back.      *)
THEOREM TextStays == Spec => []TextIsKept
<1>1. IInv => TextIsKept
  BY DEF IInv, Holds, TextIsKept
<1> QED  BY <1>1, Inductive, PTL

(* No step changes a closed block, what is in it or its place.             *)
THEOREM ClosedStay == Spec => ClosedBlocksAreFinal
<1>1. IInv /\ [Next]_vars =>
        [\A p \in DOMAIN tree \ Range(stack) :
            /\ p \in DOMAIN tree'
            /\ tree'[p] = tree[p]
            /\ ChildrenOf(tree', p) = ChildrenOf(tree, p)]_vars
  BY EveryStepIsGood, GoodIsEnough DEF Keeps, Settled
<1> QED  BY <1>1, Inductive, PTL DEF Spec, ClosedBlocksAreFinal

(* Every path of state_stack denotes a token, the last child of the one    *)
(* before it, whatever was popped and put back meanwhile: token_ref and    *)
(* token_mut, which index the children along a path, find what they want.  *)
PathsAreValid ==
    \A i \in DOMAIN stack :
        /\ stack[i] \in DOMAIN tree
        /\ i > 1 => stack[i] = LastChild(tree, stack[i - 1])

THEOREM PathsStayValid == Spec => []PathsAreValid
<1>1. IInv => PathsAreValid
  <2> SUFFICES ASSUME IInv, NEW i \in DOMAIN stack
               PROVE  /\ stack[i] \in DOMAIN tree
                      /\ i > 1 => stack[i] = LastChild(tree, stack[i - 1])
    BY DEF PathsAreValid
  <2>1. Len(stack) \in Nat \ {0} /\ i \in 1..Len(stack)
    BY StackEntries, LenProperties DEF IInv, IsStack
  <2>2. stack[i] \in DOMAIN tree
    BY <2>1, StackEntries DEF IInv
  <2>3. ASSUME i > 1
        PROVE  stack[i] = LastChild(tree, stack[i - 1])
    <3>1. i - 1 \in 1..(Len(stack) - 1) /\ (i - 1) + 1 = i
      BY <2>1, <2>3
    <3>2. \A j \in 1..(Len(stack) - 1) : stack[j + 1] = LastChild(tree, stack[j])
      BY StackEntries DEF IInv
    <3> QED  BY <3>1, <3>2
  <2> QED  BY <2>2, <2>3
<1> QED  BY <1>1, Inductive, PTL

(* What is left of a line when the walk is over finds current_stack_index  *)
(* at a block that may contain the new one: no text is put into a leaf and *)
(* the fallback cannot run past the stack (step 2 of consume and what follows step 3).      *)
TextHasItsPlace ==
    phase \in {"open", "fallback"} /\ rest = "text" =>
        /\ current \in 1..Len(stack)
        /\ IsContaining(tree[stack[current]].kind)

THEOREM TextFindsItsPlace == Spec => []TextHasItsPlace
<1>1. IInv => TextHasItsPlace
  BY Facts DEF IInv, CursorOK, TextHasItsPlace
<1> QED  BY <1>1, Inductive, PTL
=============================================================================
