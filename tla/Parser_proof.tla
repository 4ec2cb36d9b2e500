---------------------------- MODULE Parser_proof ----------------------------
(***************************************************************************)
(* Proofs about Parser, for any tokenizers, any hooks, any calls and any   *)
(* trees.  Of its registry: the names of the tokenizers stay unique and    *)
(* where the index says, and those of higher priority are asked first.  Of *)
(* its scheduler: the tokens that are active are those of the frames, each *)
(* in one frame only, and the nodes that a parse ends with are those of    *)
(* the tree.                                                               *)
(***************************************************************************)
EXTENDS Parser, SequenceTheorems, WellFoundedInduction, TLAPS

-----------------------------------------------------------------------------
(* The registry.                                                           *)

(* No two tokenizers of a list have the same name.                         *)
Distinct(list) ==
    \A i, j \in DOMAIN list : list[i].name = list[j].name => i = j

Names(list) == {list[k].name : k \in DOMAIN list}

(* A list of tokenizers: any sequence.                                     *)
IsList(list) == \E S : list \in Seq(S)

(* What NamesOnce says of the tokenizers of one type.                      *)
Named(r) ==
    /\ DOMAIN r.index = Names(r.list)
    /\ \A k \in DOMAIN r.list : r.index[r.list[k].name] = k
    /\ \A t \in r.fallback : t.name \notin DOMAIN r.index

Sound(r) ==
    /\ {"list", "index", "fallback"} \subseteq DOMAIN r
    /\ IsList(r.list)
    /\ Named(r)

Registries ==
    /\ DOMAIN registry = Types
    /\ \A type \in Types : Sound(registry[type])

-----------------------------------------------------------------------------
(* Lists of tokenizers                                                     *)

LEMMA Indexed ==
    ASSUME NEW list, Distinct(list)
    PROVE  /\ DOMAIN IndexOf(list) = Names(list)
           /\ \A k \in DOMAIN list : IndexOf(list)[list[k].name] = k
<1>1. DOMAIN IndexOf(list) = Names(list)
  BY DEF IndexOf, Names
<1>2. ASSUME NEW k \in DOMAIN list
      PROVE  IndexOf(list)[list[k].name] = k
  <2> DEFINE at == CHOOSE j \in DOMAIN list : list[j].name = list[k].name
  <2>1. at \in DOMAIN list /\ list[at].name = list[k].name
    OBVIOUS
  <2>2. at = k
    BY <2>1 DEF Distinct
  <2>3. IndexOf(list)[list[k].name] = at
    BY DEF IndexOf
  <2> QED  BY <2>2, <2>3
<1> QED  BY <1>1, <1>2

(* There is a first place that is not after the last.                      *)
LEMMA PlaceToInsert ==
    ASSUME NEW S, NEW list \in Seq(S), NEW priority, NEW before
    PROVE  LET at == InsertIndex(list, priority, before)
               ahead(i) == list[i].name = before \/ priority > list[i].priority
           IN /\ at \in 1..(Len(list) + 1)
              /\ at <= Len(list) => ahead(at)
              /\ \A j \in 1..(at - 1) : ~ ahead(j)
<1> DEFINE ahead(i) == list[i].name = before \/ priority > list[i].priority
           T == {i \in 1..(Len(list) + 1) : i <= Len(list) => ahead(i)}
<1>1. Len(list) \in Nat
  BY LenProperties
<1>2. Len(list) + 1 \in T /\ T \subseteq Nat
  BY <1>1
<1>3. PICK m \in T : \A i \in T : ~ (<<i, m>> \in OpToRel(<, Nat))
  <2> HIDE DEF T
  <2> QED  BY <1>2, NatLessThanWellFounded, WFMin
<1>4. \A i \in T : ~ (i < m)
  BY <1>2, <1>3 DEF OpToRel
<1>5. \A j \in 1..(m - 1) : ~ ahead(j)
  BY <1>1, <1>4
<1>6. \E i \in 1..(Len(list) + 1) :
         (i <= Len(list) => ahead(i)) /\ \A j \in 1..(i - 1) : ~ ahead(j)
  BY <1>5
<1> QED  BY <1>6 DEF InsertIndex

(* new is list with t put in at the place "at".                            *)
Inserts(new, list, t, at) ==
    /\ Len(list) \in Nat /\ DOMAIN list = 1..Len(list)
    /\ at \in 1..(Len(list) + 1)
    /\ DOMAIN new = 1..(Len(list) + 1)
    /\ \A i \in 1..(Len(list) + 1) :
         new[i] = IF i < at THEN list[i] ELSE IF i = at THEN t ELSE list[i - 1]

(* new is list without the one at the place "at".                          *)
Removes(new, list, at) ==
    /\ Len(list) \in Nat /\ DOMAIN list = 1..Len(list)
    /\ at \in 1..Len(list)
    /\ DOMAIN new = 1..(Len(list) - 1)
    /\ \A i \in 1..(Len(list) - 1) : new[i] = list[IF i < at THEN i ELSE i + 1]

(* A tokenizer is put in; those behind it move up.                         *)
LEMMA InsertedPlaces ==
    ASSUME NEW list, IsList(list), NEW t, NEW before
    PROVE  /\ IsList(Inserted(list, t, before))
           /\ Inserts(Inserted(list, t, before), list, t, InsertIndex(list, t.priority, before))
<1>1. PICK S : list \in Seq(S)
  BY DEF IsList
<1> DEFINE at == InsertIndex(list, t.priority, before)
           n == Len(list)
           R == S \cup {t}
           low == SubSeq(list, 1, at - 1)
           high == SubSeq(list, at, n)
           new == Inserted(list, t, before)
<1>2. at \in 1..(n + 1) /\ n \in Nat /\ DOMAIN list = 1..n
  BY <1>1, LenProperties, PlaceToInsert
<1>3. \A i \in 1..n : list[i] \in R
  BY <1>1, ElementOfSeq
<1>4. new = low \o <<t>> \o high
  BY DEF Inserted
<1> HIDE DEF at, n, R, new
<1>5. /\ low \in Seq(R)
      /\ Len(low) = at - 1
      /\ \A i \in 1..(at - 1) : low[i] = list[i]
  <2>1. \A i \in 1..(at - 1) : list[i] \in R
    BY <1>2, <1>3
  <2>2. 1 \in Int /\ at - 1 \in Int
    BY <1>2
  <2>3. /\ low \in Seq(R)
        /\ Len(low) = IF 1 <= at - 1 THEN (at - 1) - 1 + 1 ELSE 0
        /\ \A i \in 1..((at - 1) - 1 + 1) : low[i] = list[1 + i - 1]
    BY <2>1, <2>2, SubSeqProperties
  <2> HIDE DEF low
  <2> QED  BY <1>2, <2>3
<1>6. /\ high \in Seq(R)
      /\ Len(high) = n - at + 1
      /\ \A i \in 1..(n - at + 1) : high[i] = list[at + i - 1]
  <2>1. \A i \in at..n : list[i] \in R
    BY <1>2, <1>3
  <2>2. at \in Int /\ n \in Int
    BY <1>2
  <2>3. /\ high \in Seq(R)
        /\ Len(high) = IF at <= n THEN n - at + 1 ELSE 0
        /\ \A i \in 1..(n - at + 1) : high[i] = list[at + i - 1]
    BY <2>1, <2>2, SubSeqProperties
  <2> HIDE DEF high
  <2> QED  BY <1>2, <2>3
<1> HIDE DEF low, high
<1>7. /\ <<t>> \in Seq(R) /\ Len(<<t>>) = 1 /\ <<t>>[1] = t
  BY DEF R
<1>8. /\ low \o <<t>> \in Seq(R)
      /\ Len(low \o <<t>>) = at
      /\ \A i \in 1..at : (low \o <<t>>)[i] = IF i < at THEN list[i] ELSE t
  <2>1. /\ low \o <<t>> \in Seq(R)
        /\ Len(low \o <<t>>) = Len(low) + Len(<<t>>)
        /\ \A i \in 1..(Len(low) + Len(<<t>>)) : (low \o <<t>>)[i] =
              IF i <= Len(low) THEN low[i] ELSE <<t>>[i - Len(low)]
    BY <1>5, <1>7, ConcatProperties
  <2> DEFINE s == low \o <<t>>
  <2>2. Len(s) = at
    BY <1>2, <1>5, <1>7, <2>1
  <2>3. ASSUME NEW i \in 1..at
        PROVE  s[i] = IF i < at THEN list[i] ELSE t
    <3>1. CASE i < at
      BY <1>2, <1>5, <1>7, <2>1, <3>1
    <3>2. CASE i = at
      <4>1. i - Len(low) = 1
        BY <1>2, <1>5, <3>2
      <4>2. s[i] = <<t>>[i - Len(low)]
        BY <1>2, <1>5, <1>7, <2>1, <3>2
      <4> QED  BY <1>2, <1>7, <3>2, <4>1, <4>2
    <3>3. i < at \/ i = at
      BY <1>2
    <3> QED  BY <3>1, <3>2, <3>3
  <2> QED  BY <2>1, <2>2, <2>3
<1>9. /\ new \in Seq(R)
      /\ Len(new) = n + 1
      /\ DOMAIN new = 1..(n + 1)
      /\ \A i \in 1..(n + 1) :
            new[i] = IF i < at THEN list[i] ELSE IF i = at THEN t ELSE list[i - 1]
  <2> DEFINE s == low \o <<t>>
  <2>0. s \in Seq(R) /\ Len(s) = at
    BY <1>8
  <2>1. /\ s \o high \in Seq(R)
        /\ Len(s \o high) = Len(s) + Len(high)
        /\ \A i \in 1..(Len(s) + Len(high)) : (s \o high)[i] =
              IF i <= Len(s) THEN s[i] ELSE high[i - Len(s)]
    <3> HIDE DEF s
    <3> QED  BY <1>6, <2>0, ConcatProperties
  <2>2. new = s \o high
    BY <1>4
  <2>3. \A i \in 1..at : s[i] = IF i < at THEN list[i] ELSE t
    BY <1>8
  <2> HIDE DEF s
  <2>4. new \in Seq(R) /\ Len(new) = n + 1
    BY <1>2, <1>6, <2>0, <2>1, <2>2
  <2>5. ASSUME NEW i \in 1..(n + 1)
        PROVE  new[i] = IF i < at THEN list[i] ELSE IF i = at THEN t ELSE list[i - 1]
    <3>1. new[i] = IF i <= at THEN s[i] ELSE high[i - at]
      BY <1>2, <1>6, <2>0, <2>1, <2>2
    <3>2. CASE i <= at
      BY <1>2, <2>3, <3>1, <3>2
    <3>3. CASE i > at
      <4>1. i - at \in 1..(n - at + 1) /\ at + (i - at) - 1 = i - 1
        BY <1>2, <3>3
      <4>2. high[i - at] = list[i - 1]
        BY <1>6, <4>1
      <4> QED  BY <1>2, <3>1, <3>3, <4>2
    <3> QED  BY <1>2, <3>2, <3>3
  <2> QED  BY <2>4, <2>5, LenProperties
<1>10. Inserts(new, list, t, at)
  BY <1>2, <1>9 DEF Inserts, n
<1> QED  BY <1>9, <1>10 DEF IsList, new, at

(* Its name is new, the others stay.                                       *)
LEMMA InsertedList ==
    ASSUME NEW list, IsList(list), Distinct(list), NEW t, t.name \notin Names(list), NEW before
    PROVE  /\ IsList(Inserted(list, t, before))
           /\ Distinct(Inserted(list, t, before))
           /\ Names(Inserted(list, t, before)) = Names(list) \cup {t.name}
<1> DEFINE at == InsertIndex(list, t.priority, before)
           n == Len(list)
           new == Inserted(list, t, before)
<1>1. IsList(new) /\ Inserts(new, list, t, at)
  BY InsertedPlaces
<1> HIDE DEF at, n, new
<1>2. at \in 1..(n + 1) /\ n \in Nat /\ DOMAIN list = 1..n
  BY <1>1 DEF Inserts, n
<1>9. /\ DOMAIN new = 1..(n + 1)
      /\ \A i \in 1..(n + 1) :
            new[i] = IF i < at THEN list[i] ELSE IF i = at THEN t ELSE list[i - 1]
  BY <1>1 DEF Inserts, n
<1>10. IsList(new)
  BY <1>1
<1>11. \A i \in 1..n : list[i].name # t.name
  BY <1>2 DEF Names
<1>12. \A i, j \in 1..n : list[i].name = list[j].name => i = j
  BY <1>2 DEF Distinct
<1> DEFINE from(i) == IF i < at THEN i ELSE i - 1
<1>13. \A i \in 1..(n + 1) : i # at => from(i) \in 1..n /\ new[i] = list[from(i)]
  BY <1>2, <1>9
<1>14. \A i, j \in 1..(n + 1) : i # at /\ j # at /\ from(i) = from(j) => i = j
  BY <1>2
<1>15. new[at] = t /\ at \in 1..(n + 1)
  BY <1>2, <1>9
<1>16. Distinct(new)
  <2> HIDE DEF from
  <2> SUFFICES ASSUME NEW i \in 1..(n + 1), NEW j \in 1..(n + 1), new[i].name = new[j].name
               PROVE  i = j
    BY <1>9 DEF Distinct
  <2>1. CASE i = at \/ j = at
    BY <1>11, <1>13, <1>15, <2>1
  <2>2. CASE i # at /\ j # at
    BY <1>12, <1>13, <1>14, <2>2
  <2> QED  BY <2>1, <2>2
<1>17. Names(new) = Names(list) \cup {t.name}
  <2>1. \A k \in 1..n : \E i \in 1..(n + 1) : i # at /\ from(i) = k
    <3> SUFFICES ASSUME NEW k \in 1..n
                 PROVE  \E i \in 1..(n + 1) : i # at /\ from(i) = k
      OBVIOUS
    <3>1. CASE k < at
      BY <1>2, <3>1
    <3>2. CASE k >= at
      <4> k + 1 \in 1..(n + 1) /\ k + 1 # at /\ from(k + 1) = k
        BY <1>2, <3>2
      <4> QED  OBVIOUS
    <3> QED  BY <1>2, <3>1, <3>2
  <2> HIDE DEF from
  <2>2. Names(new) \subseteq Names(list) \cup {t.name}
    BY <1>2, <1>9, <1>13, <1>15 DEF Names
  <2>3. t.name \in Names(new)
    BY <1>9, <1>15 DEF Names
  <2>4. \A k \in 1..n : list[k].name \in Names(new)
    <3> SUFFICES ASSUME NEW k \in 1..n
                 PROVE  list[k].name \in Names(new)
      OBVIOUS
    <3>1. PICK i \in 1..(n + 1) : i # at /\ from(i) = k
      BY <2>1
    <3>2. new[i] = list[k] /\ i \in DOMAIN new
      BY <1>9, <1>13, <3>1
    <3> QED  BY <3>2 DEF Names
  <2>5. Names(list) \subseteq Names(new)
    BY <1>2, <2>4 DEF Names
  <2> QED  BY <2>2, <2>3, <2>5
<1> QED  BY <1>10, <1>16, <1>17 DEF new

(* One is taken out; those behind it move down.                            *)
LEMMA RemovedPlaces ==
    ASSUME NEW list, IsList(list), NEW at \in DOMAIN list
    PROVE  IsList(RemoveAt(list, at)) /\ Removes(RemoveAt(list, at), list, at)
<1>1. PICK S : list \in Seq(S)
  BY DEF IsList
<1> DEFINE n == Len(list)
           low == SubSeq(list, 1, at - 1)
           high == SubSeq(list, at + 1, n)
           new == RemoveAt(list, at)
<1>2. at \in 1..n /\ n \in Nat /\ DOMAIN list = 1..n
  BY <1>1, LenProperties
<1>3. \A i \in 1..n : list[i] \in S
  BY <1>1, ElementOfSeq
<1>4. new = low \o high
  BY DEF RemoveAt
<1> HIDE DEF n, new
<1>5. /\ low \in Seq(S)
      /\ Len(low) = at - 1
      /\ \A i \in 1..(at - 1) : low[i] = list[i]
  <2>1. \A i \in 1..(at - 1) : list[i] \in S
    BY <1>2, <1>3
  <2>2. 1 \in Int /\ at - 1 \in Int
    BY <1>2
  <2>3. /\ low \in Seq(S)
        /\ Len(low) = IF 1 <= at - 1 THEN (at - 1) - 1 + 1 ELSE 0
        /\ \A i \in 1..((at - 1) - 1 + 1) : low[i] = list[1 + i - 1]
    BY <2>1, <2>2, SubSeqProperties
  <2> HIDE DEF low
  <2> QED  BY <1>2, <2>3
<1>6. /\ high \in Seq(S)
      /\ Len(high) = n - at
      /\ \A i \in 1..(n - at) : high[i] = list[at + i]
  <2>1. \A i \in (at + 1)..n : list[i] \in S
    BY <1>2, <1>3
  <2>2. at + 1 \in Int /\ n \in Int
    BY <1>2
  <2>3. /\ high \in Seq(S)
        /\ Len(high) = IF at + 1 <= n THEN n - (at + 1) + 1 ELSE 0
        /\ \A i \in 1..(n - (at + 1) + 1) : high[i] = list[(at + 1) + i - 1]
    BY <2>1, <2>2, SubSeqProperties
  <2> HIDE DEF high
  <2>4. Len(high) = n - at
    BY <1>2, <2>3
  <2>5. \A i \in 1..(n - at) : (at + 1) + i - 1 = at + i
    BY <1>2
  <2>6. n - (at + 1) + 1 = n - at
    BY <1>2
  <2> QED  BY <2>3, <2>4, <2>5, <2>6
<1> HIDE DEF low, high
<1> DEFINE from(i) == IF i < at THEN i ELSE i + 1
<1>7. /\ new \in Seq(S)
      /\ Len(new) = n - 1
      /\ DOMAIN new = 1..(n - 1)
      /\ \A i \in 1..(n - 1) : new[i] = list[from(i)]
  <2>1. /\ low \o high \in Seq(S)
        /\ Len(low \o high) = Len(low) + Len(high)
        /\ \A i \in 1..(Len(low) + Len(high)) : (low \o high)[i] =
              IF i <= Len(low) THEN low[i] ELSE high[i - Len(low)]
    BY <1>5, <1>6, ConcatProperties
  <2>2. new \in Seq(S) /\ Len(new) = n - 1
    BY <1>2, <1>4, <1>5, <1>6, <2>1
  <2>3. ASSUME NEW i \in 1..(n - 1)
        PROVE  new[i] = list[from(i)]
    <3>1. new[i] = IF i <= at - 1 THEN low[i] ELSE high[i - (at - 1)]
      BY <1>2, <1>4, <1>5, <1>6, <2>1
    <3>2. CASE i <= at - 1
      BY <1>2, <1>5, <3>1, <3>2
    <3>3. CASE i > at - 1
      <4>1. i - (at - 1) \in 1..(n - at) /\ at + (i - (at - 1)) = i + 1
        BY <1>2, <3>3
      <4>2. high[i - (at - 1)] = list[i + 1]
        BY <1>6, <4>1
      <4> QED  BY <1>2, <3>1, <3>3, <4>2
    <3>4. i <= at - 1 \/ i > at - 1
      BY <1>2
    <3> QED  BY <3>2, <3>3, <3>4
  <2> QED  BY <2>2, <2>3, LenProperties
<1>8. Removes(new, list, at)
  BY <1>2, <1>7 DEF Removes, n
<1> QED  BY <1>7, <1>8 DEF IsList, new

(* Its name is free again.                                                 *)
LEMMA RemovedList ==
    ASSUME NEW list, IsList(list), Distinct(list), NEW at \in DOMAIN list
    PROVE  /\ IsList(RemoveAt(list, at))
           /\ Distinct(RemoveAt(list, at))
           /\ Names(RemoveAt(list, at)) = Names(list) \ {list[at].name}
<1> DEFINE n == Len(list)
           new == RemoveAt(list, at)
           from(i) == IF i < at THEN i ELSE i + 1
<1>1. IsList(new) /\ Removes(new, list, at)
  BY RemovedPlaces
<1> HIDE DEF n, new
<1>2. at \in 1..n /\ n \in Nat /\ DOMAIN list = 1..n
  BY <1>1 DEF Removes, n
<1>7. DOMAIN new = 1..(n - 1) /\ \A i \in 1..(n - 1) : new[i] = list[from(i)]
  BY <1>1 DEF Removes, n
<1>8. IsList(new)
  BY <1>1
<1>9. \A i, j \in 1..n : list[i].name = list[j].name => i = j
  BY <1>2 DEF Distinct
<1>10. \A i \in 1..(n - 1) : from(i) \in 1..n /\ from(i) # at
  BY <1>2
<1>11. \A i, j \in 1..(n - 1) : from(i) = from(j) => i = j
  BY <1>2
<1>12. \A k \in 1..n : k # at => \E i \in 1..(n - 1) : from(i) = k
  <2> SUFFICES ASSUME NEW k \in 1..n, k # at
               PROVE  \E i \in 1..(n - 1) : from(i) = k
    OBVIOUS
  <2>1. CASE k < at
    BY <1>2, <2>1
  <2>2. CASE k > at
    <3> k - 1 \in 1..(n - 1) /\ from(k - 1) = k
      BY <1>2, <2>2
    <3> QED  OBVIOUS
  <2> QED  BY <1>2, <2>1, <2>2
<1> HIDE DEF from
<1>13. Distinct(new)
  BY <1>7, <1>9, <1>10, <1>11 DEF Distinct
<1>14. Names(new) = Names(list) \ {list[at].name}
  <2>1. \A i \in 1..(n - 1) : /\ new[i].name \in Names(list)
                              /\ new[i].name # list[at].name
    BY <1>2, <1>7, <1>9, <1>10 DEF Names
  <2>2. ASSUME NEW k \in 1..n, list[k].name # list[at].name
        PROVE  list[k].name \in Names(new)
    <3>1. PICK i \in 1..(n - 1) : from(i) = k
      BY <1>12, <2>2
    <3>2. new[i] = list[k] /\ i \in DOMAIN new
      BY <1>7, <3>1
    <3> QED  BY <3>2 DEF Names
  <2>3. \A i \in 1..(n - 1) : i \in DOMAIN new
    BY <1>7
  <2>4. Names(new) \subseteq Names(list) \ {list[at].name}
    BY <1>7, <2>1 DEF Names
  <2>5. Names(list) \ {list[at].name} \subseteq Names(new)
    BY <1>2, <2>2 DEF Names
  <2> QED  BY <2>4, <2>5
<1> QED  BY <1>8, <1>13, <1>14 DEF new

-----------------------------------------------------------------------------
(* The tokenizers of one type                                              *)

LEMMA SoundIsDistinct ==
    ASSUME NEW r, Sound(r)
    PROVE  Distinct(r.list)
  BY DEF Sound, Named, Distinct

LEMMA Relisted ==
    ASSUME NEW r, Sound(r), NEW list, IsList(list), Distinct(list),
           \A t \in r.fallback : t.name \notin Names(list)
    PROVE  /\ Sound(WithList(r, list))
           /\ WithList(r, list).fallback = r.fallback
           /\ DOMAIN WithList(r, list).index = Names(list)
<1> DEFINE s == WithList(r, list)
<1>1. /\ {"list", "index", "fallback"} \subseteq DOMAIN s
      /\ s.list = list /\ s.index = IndexOf(list) /\ s.fallback = r.fallback
  BY DEF Sound, WithList
<1> HIDE DEF s
<1>2. /\ DOMAIN s.index = Names(list)
      /\ \A k \in DOMAIN list : s.index[list[k].name] = k
  BY <1>1, Indexed
<1>3. Sound(s)
  BY <1>1, <1>2 DEF Sound, Named
<1> QED  BY <1>1, <1>2, <1>3 DEF s

LEMMA RegisteredSound ==
    ASSUME NEW r, Sound(r), NEW t, NEW before, t.name \notin DOMAIN r.index,
           \A f \in r.fallback : f.name # t.name
    PROVE  Sound(Registered(r, t, before))
<1> DEFINE list == Inserted(r.list, t, before)
<1>1. /\ IsList(r.list) /\ Distinct(r.list) /\ DOMAIN r.index = Names(r.list)
      /\ \A f \in r.fallback : f.name \notin Names(r.list)
  BY SoundIsDistinct DEF Sound, Named
<1>2. IsList(list) /\ Distinct(list) /\ Names(list) = Names(r.list) \cup {t.name}
  BY <1>1, InsertedList
<1> HIDE DEF list
<1>3. Sound(WithList(r, list))
  BY <1>1, <1>2, Relisted
<1> QED  BY <1>3 DEF Registered, list

LEMMA UnmountedSound ==
    ASSUME NEW r, Sound(r), NEW name
    PROVE  /\ Sound(Unmounted(r, name))
           /\ name \notin DOMAIN Unmounted(r, name).index
           /\ \A t \in Unmounted(r, name).fallback : t.name # name
<1> DEFINE list == RemoveAt(r.list, r.index[name])
           s == IF name \in DOMAIN r.index THEN WithList(r, list) ELSE r
           u == [s EXCEPT !.fallback = {t \in @ : t.name # name}]
<1>1. /\ IsList(r.list) /\ Distinct(r.list) /\ DOMAIN r.index = Names(r.list)
      /\ \A f \in r.fallback : f.name \notin Names(r.list)
      /\ \A k \in DOMAIN r.list : r.index[r.list[k].name] = k
  BY SoundIsDistinct DEF Sound, Named
<1>2. Sound(s) /\ s.fallback = r.fallback /\ name \notin DOMAIN s.index
  <2>1. CASE name \in DOMAIN r.index
    <3>1. PICK k \in DOMAIN r.list : r.list[k].name = name
      BY <1>1, <2>1 DEF Names
    <3>2. r.index[name] = k
      BY <1>1, <3>1
    <3>3. IsList(list) /\ Distinct(list) /\ Names(list) = Names(r.list) \ {name}
      BY <1>1, <3>1, <3>2, RemovedList
    <3>4. s = WithList(r, list)
      BY <2>1
    <3> HIDE DEF list, s
    <3>5. /\ Sound(WithList(r, list))
          /\ WithList(r, list).fallback = r.fallback
          /\ DOMAIN WithList(r, list).index = Names(list)
      BY <1>1, <3>3, Relisted
    <3> QED  BY <3>3, <3>4, <3>5
  <2>2. CASE name \notin DOMAIN r.index
    BY <2>2
  <2> QED  BY <2>1, <2>2
<1>3. Unmounted(r, name) = u
  BY DEF Unmounted
<1> HIDE DEF s
<1>4. /\ {"list", "index", "fallback"} \subseteq DOMAIN u
      /\ u.list = s.list /\ u.index = s.index
      /\ u.fallback = {t \in s.fallback : t.name # name}
  BY <1>2 DEF Sound
<1> HIDE DEF u
<1>5. Sound(u)
  BY <1>2, <1>4 DEF Sound, Named
<1> QED  BY <1>2, <1>3, <1>4, <1>5

(* A tokenizer takes the place of the one of its name.                     *)
LEMMA InPlaceSound ==
    ASSUME NEW r, Sound(r), NEW t, t.name \in DOMAIN r.index
    PROVE  Sound([r EXCEPT !.list = [@ EXCEPT ![r.index[t.name]] = t]])
<1> DEFINE at == r.index[t.name]
           list == [r.list EXCEPT ![at] = t]
           s == [r EXCEPT !.list = list]
<1>1. PICK S : r.list \in Seq(S)
  BY DEF Sound, IsList
<1>2. PICK k \in DOMAIN r.list : r.list[k].name = t.name
  BY DEF Sound, Named, Names
<1>3. at = k /\ at \in DOMAIN r.list /\ r.list[at].name = t.name
  BY <1>2 DEF Sound, Named
<1> HIDE DEF at
<1>4. r.list \in Seq(S \cup {t}) /\ at \in 1..Len(r.list)
  <2>1. S \subseteq S \cup {t}
    OBVIOUS
  <2> QED  BY <1>1, <1>3, <2>1, SeqMonotonic, LenProperties
<1>5. list \in Seq(S \cup {t})
  BY <1>4, ExceptSeq
<1>6. DOMAIN list = DOMAIN r.list /\ \A i \in DOMAIN list : list[i].name = r.list[i].name
  BY <1>3
<1> HIDE DEF list
<1>7. /\ {"list", "index", "fallback"} \subseteq DOMAIN s
      /\ s.list = list /\ s.index = r.index /\ s.fallback = r.fallback
  BY DEF Sound
<1> HIDE DEF s
<1>8. Names(list) = Names(r.list)
  BY <1>6 DEF Names
<1>9. \A i \in DOMAIN list : r.index[list[i].name] = i
  BY <1>6 DEF Sound, Named
<1>10. Sound(s)
  BY <1>5, <1>7, <1>8, <1>9 DEF Sound, Named, IsList
<1> QED  BY <1>10 DEF s, list, at

LEMMA FallbackSound ==
    ASSUME NEW r, Sound(r), NEW t, t.name \notin DOMAIN r.index
    PROVE  Sound([r EXCEPT !.fallback = {t}])
<1> DEFINE s == [r EXCEPT !.fallback = {t}]
<1>1. /\ {"list", "index", "fallback"} \subseteq DOMAIN s
      /\ s.list = r.list /\ s.index = r.index /\ s.fallback = {t}
  BY DEF Sound
<1> HIDE DEF s
<1>2. Sound(s)
  BY <1>1 DEF Sound, Named
<1> QED  BY <1>2 DEF s

-----------------------------------------------------------------------------
(* The calls                                                               *)

(* One type gets sound tokenizers, the other keeps its own.                *)
LEMMA OneType ==
    ASSUME Registries, NEW type, NEW r, type \in Types => Sound(r),
           registry' = [registry EXCEPT ![type] = r]
    PROVE  Registries'
  BY DEF Registries

LEMMA CallKeeps ==
    ASSUME Registries, NEW call, Call(call)
    PROVE  Registries'
<1>1. ASSUME NEW t, NEW before, UseTokenizer(t, before)
      PROVE  Registries'
  <2> DEFINE r == registry[t.type]
  <2>1. t.type \in Types => Sound(Registered(r, t, before))
    BY <1>1, RegisteredSound DEF UseTokenizer, Taken, Registries
  <2>2. registry' = [registry EXCEPT ![t.type] = Registered(r, t, before)]
    BY <1>1 DEF UseTokenizer
  <2> QED  BY <2>1, <2>2, OneType
<1>2. ASSUME NEW t, NEW before, ReplaceTokenizer(t, before)
      PROVE  Registries'
  <2> DEFINE r == registry[t.type]
             rest == Unmounted(r, t.name)
             changed == [r EXCEPT !.list = [@ EXCEPT ![r.index[t.name]] = t]]
  <2>1. CASE /\ IsInPlace(r, t, before)
             /\ registry' = [registry EXCEPT ![t.type].list[r.index[t.name]] = t]
    <3>1. t.type \in Types => Sound(changed)
      BY <2>1, InPlaceSound DEF IsInPlace, Registries
    <3>2. registry' = [registry EXCEPT ![t.type] = changed]
      BY <2>1
    <3> HIDE DEF changed
    <3> QED  BY <3>1, <3>2, OneType
  <2>2. CASE registry' = [registry EXCEPT ![t.type] = Registered(rest, t, before)]
    <3>1. t.type \in Types => Sound(Registered(rest, t, before))
      BY UnmountedSound, RegisteredSound DEF Registries
    <3> QED  BY <2>2, <3>1, OneType
  <2> QED  BY <1>2, <2>1, <2>2 DEF ReplaceTokenizer
<1>3. ASSUME NEW types, NEW name, Unmount(types, name)
      PROVE  Registries'
  BY <1>3, UnmountedSound DEF Unmount, Registries
<1>4. ASSUME NEW t, UseFallbackTokenizer(t)
      PROVE  Registries'
  <2> DEFINE r == registry[t.type]
             changed == [r EXCEPT !.fallback = {t}]
  <2>1. t.type \in Types => Sound(changed)
    BY <1>4, FallbackSound DEF UseFallbackTokenizer, Registries
  <2>2. registry' = [registry EXCEPT ![t.type] = changed]
    BY <1>4 DEF UseFallbackTokenizer
  <2> HIDE DEF changed
  <2> QED  BY <2>1, <2>2, OneType
<1> QED  BY <1>1, <1>2, <1>3, <1>4 DEF Call

(* The registry is sound when the parser is made, and after every step.    *)
LEMMA NamesInit == Init => Registries
  <1> SUFFICES ASSUME Init PROVE Registries
    OBVIOUS
  <1>1. registry = [type \in Types |-> NoTokenizers]
    BY DEF Init
  <1>2. Distinct(<<>>) /\ IsList(<<>>)
    BY EmptySeq DEF Distinct, IsList
  <1>3. /\ {"list", "index", "fallback"} \subseteq DOMAIN NoTokenizers
        /\ NoTokenizers.list = <<>> /\ NoTokenizers.index = IndexOf(<<>>)
        /\ NoTokenizers.fallback = {}
    BY DEF NoTokenizers
  <1>4. Sound(NoTokenizers)
    BY <1>2, <1>3, Indexed DEF Sound, Named
  <1> QED  BY <1>1, <1>4 DEF Registries

LEMMA NamesStep == Registries /\ [Next]_vars => Registries'
  <1> SUFFICES ASSUME Registries, [Next]_vars PROVE Registries'
    OBVIOUS
  <1>1. ASSUME NEW call, Call(call)
        PROVE  Registries'
    BY <1>1, CallKeeps
  <1>2. CASE UNCHANGED registry
    BY <1>2 DEF Registries
  <1>3. ASSUME NEW t, Parse(t)
        PROVE  UNCHANGED registry
    BY <1>3 DEF Parse, calls
  <1>4. CASE Step /\ UNCHANGED calls
    BY <1>2, <1>4 DEF calls
  <1>5. CASE UNCHANGED vars
    BY <1>2, <1>5 DEF vars
  <1> QED  BY <1>1, <1>2, <1>3, <1>4, <1>5 DEF Next

(* The names of the tokenizers of a type stay unique, the fallback's       *)
(* included, and the index names the place of each, whatever is            *)
(* registered, replaced and unmounted (use_tokenizer, replace_tokenizer,   *)
(* unmount_tokenizer and use_fallback_tokenizer in core-parser/parser.rs). *)
THEOREM NamesStayUnique == Spec => []NamesOnce
<1>1. Registries => NamesOnce
  BY DEF Registries, Sound, Named, Names, NamesOnce
<1> QED  BY NamesInit, NamesStep, <1>1, PTL DEF Spec

-----------------------------------------------------------------------------
(* The order in which the tokenizers are asked.                            *)

(* a is asked before b: its priority is higher or it was registered first. *)
Precedes(a, b, at) ==
    \/ a.priority > b.priority
    \/ a.priority = b.priority /\ at[a.name] < at[b.name]

InTurn(list, at) ==
    \A i, j \in DOMAIN list : i < j => Precedes(list[i], list[j], at)

(* A tokenizer that was registered before the call m.                      *)
IsDated(t, at, m) ==
    t.priority \in Int /\ t.name \in DOMAIN at /\ at[t.name] \in Nat /\ at[t.name] < m

Dated(list, at, m) == \A k \in DOMAIN list : IsDated(list[k], at, m)

(* What Entered makes of the turns.                                        *)
With(at, name, m) == [n \in DOMAIN at \cup {name} |-> IF n = name THEN m ELSE at[n]]

Orders ==
    /\ scenario \in DOMAIN Scenarios /\ made \in Nat
    /\ DOMAIN turn = Types
    /\ \A type \in Types : Dated(registry[type].list, turn[type], made)
    /\ ~ placed => \A type \in Types : InTurn(registry[type].list, turn[type])

(* The one that is registered is dated, the others stay so.                *)
LEMMA InsertedDated ==
    ASSUME NEW list, IsList(list), NEW t, t.priority \in Int, t.name \notin Names(list),
           NEW before, NEW at, NEW m \in Nat, Dated(list, at, m)
    PROVE  Dated(Inserted(list, t, before), With(at, t.name, m), m + 1)
<1> DEFINE new == Inserted(list, t, before)
           place == InsertIndex(list, t.priority, before)
           now == With(at, t.name, m)
<1>1. Inserts(new, list, t, place)
  BY InsertedPlaces
<1> HIDE DEF new, place
<1>2. \A k \in DOMAIN new : new[k] = t \/ \E i \in DOMAIN list : new[k] = list[i]
  <2> DEFINE n == Len(list)
  <2> SUFFICES ASSUME NEW k \in DOMAIN new
               PROVE  new[k] = t \/ \E i \in DOMAIN list : new[k] = list[i]
    OBVIOUS
  <2>1. /\ n \in Nat /\ DOMAIN list = 1..n /\ place \in 1..(n + 1) /\ k \in 1..(n + 1)
        /\ new[k] = IF k < place THEN list[k] ELSE IF k = place THEN t ELSE list[k - 1]
    BY <1>1 DEF Inserts
  <2> HIDE DEF n
  <2>2. CASE k < place
    BY <2>1, <2>2
  <2>3. CASE k > place
    <3>1. k - 1 \in 1..n
      BY <2>1, <2>3
    <3> QED  BY <2>1, <2>3, <3>1
  <2> QED  BY <2>1, <2>2, <2>3
<1>3. IsDated(t, now, m + 1)
  BY DEF With, IsDated
<1>4. ASSUME NEW i \in DOMAIN list
      PROVE  IsDated(list[i], now, m + 1)
  <2>1. list[i].name # t.name
    BY DEF Names
  <2>2. list[i].priority \in Int /\ list[i].name \in DOMAIN at
        /\ at[list[i].name] \in Nat /\ at[list[i].name] < m
    BY DEF Dated, IsDated
  <2>3. list[i].name \in DOMAIN now /\ now[list[i].name] = at[list[i].name]
    BY <2>1, <2>2 DEF With
  <2> QED  BY <2>2, <2>3 DEF IsDated
<1> HIDE DEF now
<1>5. Dated(new, now, m + 1)
  BY <1>2, <1>3, <1>4 DEF Dated
<1> QED  BY <1>5 DEF new, now

(* It is asked after its equals, and before those of lower priority.       *)
LEMMA InsertedInTurn ==
    ASSUME NEW list, IsList(list), NEW t, t.priority \in Int, t.name \notin Names(list),
           NEW before, before \notin Names(list), NEW at, NEW m \in Nat, Dated(list, at, m),
           InTurn(list, at)
    PROVE  InTurn(Inserted(list, t, before), With(at, t.name, m))
<1> DEFINE new == Inserted(list, t, before)
           place == InsertIndex(list, t.priority, before)
           now == With(at, t.name, m)
           n == Len(list)
<1>1. Inserts(new, list, t, place)
  BY InsertedPlaces
<1>2. /\ place <= n => list[place].name = before \/ t.priority > list[place].priority
      /\ \A j \in 1..(place - 1) : ~ (t.priority > list[j].priority)
  <2>1. PICK S : list \in Seq(S)
    BY DEF IsList
  <2> QED  BY <2>1, PlaceToInsert
<1> HIDE DEF new, place
<1>3. /\ n \in Nat /\ DOMAIN list = 1..n /\ place \in 1..(n + 1) /\ DOMAIN new = 1..(n + 1)
      /\ new[place] = t
      /\ \A i \in 1..(n + 1) : i < place => i \in 1..n /\ new[i] = list[i]
      /\ \A i \in 1..(n + 1) : place < i => i - 1 \in 1..n /\ place <= i - 1 /\ new[i] = list[i - 1]
  BY <1>1 DEF Inserts
<1> HIDE DEF n
<1>4. \A i \in 1..n : /\ list[i].priority \in Int /\ at[list[i].name] \in Nat
                      /\ at[list[i].name] < m
                      /\ now[list[i].name] = at[list[i].name]
  <2> SUFFICES ASSUME NEW i \in 1..n
               PROVE  /\ list[i].priority \in Int /\ at[list[i].name] \in Nat
                      /\ at[list[i].name] < m
                      /\ now[list[i].name] = at[list[i].name]
    OBVIOUS
  <2>1. list[i].name # t.name
    BY <1>3 DEF Names
  <2>2. list[i].priority \in Int /\ list[i].name \in DOMAIN at
        /\ at[list[i].name] \in Nat /\ at[list[i].name] < m
    BY <1>3 DEF Dated, IsDated
  <2> QED  BY <2>1, <2>2 DEF With
<1>5. now[t.name] = m
  BY DEF With
<1> HIDE DEF now
<1>6. \A i, j \in 1..n : i < j => Precedes(list[i], list[j], now)
  BY <1>3, <1>4 DEF InTurn, Precedes
(* Those behind its place have a lower priority.                           *)
<1>7. \A i \in 1..n : place <= i => t.priority > list[i].priority
  <2> SUFFICES ASSUME NEW i \in 1..n, place <= i
               PROVE  t.priority > list[i].priority
    OBVIOUS
  <2>1. place \in 1..n
    BY <1>3
  <2>2. list[place].name # before
    BY <1>3, <2>1 DEF Names
  <2>3. t.priority > list[place].priority
    BY <1>2, <1>3, <2>1, <2>2
  <2>4. i = place \/ list[place].priority >= list[i].priority
    BY <1>3, <1>4, <1>6, <2>1 DEF Precedes
  <2> QED  BY <1>4, <2>1, <2>3, <2>4
<1>8. \A i \in 1..n : i < place => Precedes(list[i], t, now)
  BY <1>2, <1>3, <1>4, <1>5 DEF Precedes
<1>9. \A i \in 1..n : place <= i => Precedes(t, list[i], now)
  BY <1>7 DEF Precedes
<1>10. ASSUME NEW i \in 1..(n + 1), NEW j \in 1..(n + 1), i < j
       PROVE  Precedes(new[i], new[j], now)
  <2>1. CASE j < place
    BY <1>3, <1>6, <1>10, <2>1
  <2>2. CASE j = place
    BY <1>3, <1>8, <1>10, <2>2
  <2>3. CASE place < j /\ i = place
    BY <1>3, <1>9, <2>3
  <2>4. CASE place < j /\ i < place
    BY <1>3, <1>6, <1>10, <2>4
  <2>5. CASE place < i
    BY <1>3, <1>6, <1>10, <2>5
  <2> QED  BY <1>3, <2>1, <2>2, <2>3, <2>4, <2>5
<1>11. InTurn(new, now)
  BY <1>3, <1>10 DEF InTurn
<1> QED  BY <1>11 DEF new, now

(* Taking one out leaves the others as they are.                           *)
LEMMA RemovedOrder ==
    ASSUME NEW list, IsList(list), NEW place \in DOMAIN list, NEW at, NEW m
    PROVE  /\ Dated(list, at, m) => Dated(RemoveAt(list, place), at, m)
           /\ InTurn(list, at) => InTurn(RemoveAt(list, place), at)
<1> DEFINE new == RemoveAt(list, place)
           n == Len(list)
           from(i) == IF i < place THEN i ELSE i + 1
<1>1. Removes(new, list, place)
  BY RemovedPlaces
<1> HIDE DEF new
<1>2. /\ n \in Nat /\ DOMAIN list = 1..n /\ place \in 1..n /\ DOMAIN new = 1..(n - 1)
      /\ \A i \in 1..(n - 1) : new[i] = list[from(i)]
  BY <1>1 DEF Removes
<1> HIDE DEF n
<1>3. /\ \A i \in 1..(n - 1) : from(i) \in 1..n
      /\ \A i, j \in 1..(n - 1) : i < j => from(i) < from(j)
  BY <1>2
<1> HIDE DEF from
<1>4. Dated(list, at, m) => Dated(new, at, m)
  BY <1>2, <1>3 DEF Dated
<1>5. InTurn(list, at) => InTurn(new, at)
  BY <1>2, <1>3 DEF InTurn
<1> QED  BY <1>4, <1>5 DEF new

(* What a call does to the turns of the type it is about.                  *)
LEMMA RegisteredOrder ==
    ASSUME NEW r, Sound(r), NEW t, t.name \notin DOMAIN r.index, t.priority \in Int,
           NEW before, NEW at, NEW m \in Nat, Dated(r.list, at, m)
    PROVE  /\ Dated(Registered(r, t, before).list, With(at, t.name, m), m + 1)
           /\ InTurn(r.list, at) /\ ~ IsPlaced(r, before) =>
                InTurn(Registered(r, t, before).list, With(at, t.name, m))
<1>1. IsList(r.list) /\ DOMAIN r.index = Names(r.list)
  BY DEF Sound, Named
<1>2. Registered(r, t, before).list = Inserted(r.list, t, before)
  BY DEF Sound, Registered, WithList
<1>3. t.name \notin Names(r.list)
  BY <1>1
<1> QED  BY <1>1, <1>2, <1>3, InsertedDated, InsertedInTurn DEF IsPlaced

LEMMA UnmountedOrder ==
    ASSUME NEW r, Sound(r), NEW name, NEW at, NEW m
    PROVE  /\ Dated(r.list, at, m) => Dated(Unmounted(r, name).list, at, m)
           /\ InTurn(r.list, at) => InTurn(Unmounted(r, name).list, at)
<1>1. IsList(r.list) /\ DOMAIN r.index = Names(r.list)
      /\ \A k \in DOMAIN r.list : r.index[r.list[k].name] = k
  BY DEF Sound, Named
<1>2. CASE name \in DOMAIN r.index
  <2>1. r.index[name] \in DOMAIN r.list
    BY <1>1, <1>2 DEF Names
  <2>2. Unmounted(r, name).list = RemoveAt(r.list, r.index[name])
    BY <1>2 DEF Sound, Unmounted, WithList
  <2> QED  BY <1>1, <2>1, <2>2, RemovedOrder
<1>3. CASE name \notin DOMAIN r.index
  <2>1. Unmounted(r, name).list = r.list
    BY <1>3 DEF Sound, Unmounted
  <2> QED  BY <2>1
<1> QED  BY <1>2, <1>3

(* Whoever takes the place of one of its name and priority takes its turn. *)
LEMMA InPlaceOrder ==
    ASSUME NEW r, Sound(r), NEW t, NEW before, IsInPlace(r, t, before), NEW at, NEW m
    PROVE  LET list == [r.list EXCEPT ![r.index[t.name]] = t]
           IN /\ Dated(r.list, at, m) => Dated(list, at, m)
              /\ InTurn(r.list, at) => InTurn(list, at)
<1> DEFINE list == [r.list EXCEPT ![r.index[t.name]] = t]
<1>1. /\ r.index[t.name] \in DOMAIN r.list
      /\ r.list[r.index[t.name]].name = t.name
      /\ r.list[r.index[t.name]].priority = t.priority
  BY DEF Sound, Named, Names, IsInPlace
<1>2. DOMAIN list = DOMAIN r.list
      /\ \A k \in DOMAIN list : /\ list[k].name = r.list[k].name
                                /\ list[k].priority = r.list[k].priority
  BY <1>1
<1> HIDE DEF list
<1>3. /\ Dated(r.list, at, m) => Dated(list, at, m)
      /\ InTurn(r.list, at) => InTurn(list, at)
  BY <1>2 DEF Dated, IsDated, InTurn, Precedes
<1> QED  BY <1>3 DEF list

(* Time passes.                                                            *)
LEMMA StaysDated ==
    ASSUME NEW list, NEW at, NEW m \in Nat, Dated(list, at, m)
    PROVE  Dated(list, at, m + 1)
  BY DEF Dated, IsDated

LEMMA OrdersKept ==
    ASSUME Registries, Orders, scenario' = scenario, made' \in {made, made + 1},
           registry' = registry, turn' = turn, placed' = placed
    PROVE  Orders'
  BY StaysDated DEF Orders

(* One type has a new list and new turns; the other keeps its own.         *)
Moves(type, list, now) ==
    /\ DOMAIN turn' = Types
    /\ \A other \in Types :
         /\ turn'[other] = IF other = type THEN now ELSE turn[other]
         /\ registry'[other].list = IF other = type THEN list ELSE registry[other].list
    /\ type \in Types => Dated(list, now, made + 1)
    /\ ~ placed' => /\ ~ placed
                    /\ type \in Types /\ InTurn(registry[type].list, turn[type]) => InTurn(list, now)

LEMMA OrdersStep == Registries /\ Orders /\ [Next]_vars => Orders'
<1> SUFFICES ASSUME Registries, Orders, [Next]_vars PROVE Orders'
  OBVIOUS
<1>1. ASSUME NEW call \in Scenarios[scenario].calls[made + 1],
             made < Len(Scenarios[scenario].calls), Call(call)
      PROVE  Orders'
  <2>1. call.op \in {"use", "replace"} => call.tokenizer.priority \in Int
    <3>1. made + 1 \in 1..Len(Scenarios[scenario].calls)
      BY <1>1, CallsAssumption DEF Orders
    <3> QED  BY <1>1, <3>1, CallsAssumption DEF Orders
  <2>2. /\ scenario' = scenario /\ made' = made + 1 /\ made \in Nat /\ made + 1 \in Nat
        /\ DOMAIN turn = Types
        /\ \A type \in Types : /\ Sound(registry[type])
                               /\ Dated(registry[type].list, turn[type], made)
                               /\ Dated(registry[type].list, turn[type], made + 1)
    BY <1>1, StaysDated DEF Call, UseTokenizer, ReplaceTokenizer, Unmount, UseFallbackTokenizer,
       Calling, Orders, Registries
  <2>3. scenario \in DOMAIN Scenarios /\ DOMAIN registry = Types
    BY DEF Orders, Registries
  <2>4. ASSUME NEW type, NEW list, NEW now, Moves(type, list, now)
        PROVE  Orders'
    BY <2>2, <2>3, <2>4 DEF Orders, Moves
  <2>5. ASSUME NEW t, NEW before, t.priority \in Int, UseTokenizer(t, before)
        PROVE  Orders'
    <3> DEFINE r == registry[t.type]
               now == With(turn[t.type], t.name, made)
               list == Registered(r, t, before).list
    <3>1. /\ t.name \notin DOMAIN r.index
          /\ registry' = [registry EXCEPT ![t.type] = Registered(r, t, before)]
          /\ turn' = [turn EXCEPT ![t.type] = now]
          /\ placed' = (placed \/ IsPlaced(r, before))
      BY <2>5 DEF UseTokenizer, Taken, Entered, With
    <3>2. t.type \in Types =>
            /\ Dated(list, now, made + 1)
            /\ InTurn(r.list, turn[t.type]) /\ ~ IsPlaced(r, before) => InTurn(list, now)
      BY <2>2, <2>5, <3>1, RegisteredOrder
    <3>3. \A other \in Types :
            registry'[other].list = IF other = t.type THEN list ELSE registry[other].list
      BY <2>3, <3>1
    <3> HIDE DEF now, list
    <3>4. Moves(t.type, list, now)
      BY <2>2, <3>1, <3>2, <3>3 DEF Moves
    <3> QED  BY <2>4, <3>4
  <2>6. ASSUME NEW t, NEW before, t.priority \in Int, ReplaceTokenizer(t, before)
        PROVE  Orders'
    <3> DEFINE r == registry[t.type]
               rest == Unmounted(r, t.name)
    <3>1. CASE /\ IsInPlace(r, t, before)
               /\ registry' = [registry EXCEPT ![t.type].list[r.index[t.name]] = t]
               /\ UNCHANGED <<turn, placed>>
      <4> DEFINE list == [r.list EXCEPT ![r.index[t.name]] = t]
                 now == turn[t.type]
      <4>1. t.type \in Types => /\ Dated(list, now, made + 1)
                                /\ InTurn(r.list, now) => InTurn(list, now)
        BY <2>2, <3>1, InPlaceOrder
      <4>2. registry' = [registry EXCEPT ![t.type] = [r EXCEPT !.list = list]]
        BY <3>1
      <4>3. \A other \in Types :
              registry'[other].list = IF other = t.type THEN list ELSE registry[other].list
        <5> HIDE DEF list
        <5> QED  BY <2>2, <2>3, <4>2 DEF Sound
      <4>4. \A other \in Types : turn'[other] = IF other = t.type THEN now ELSE turn[other]
        BY <3>1
      <4> HIDE DEF list, now
      <4>5. Moves(t.type, list, now)
        BY <2>2, <3>1, <4>1, <4>3, <4>4 DEF Moves
      <4> QED  BY <2>4, <4>5
    <3>2. CASE /\ registry' = [registry EXCEPT ![t.type] = Registered(rest, t, before)]
               /\ Entered(t.type, t.name)
               /\ placed' = (placed \/ IsPlaced(rest, before))
      <4> DEFINE now == With(turn[t.type], t.name, made)
                 list == Registered(rest, t, before).list
      <4>1. t.type \in Types =>
              /\ Sound(rest) /\ t.name \notin DOMAIN rest.index
              /\ Dated(rest.list, turn[t.type], made)
              /\ InTurn(r.list, turn[t.type]) => InTurn(rest.list, turn[t.type])
        BY <2>2, UnmountedSound, UnmountedOrder
      <4> HIDE DEF rest
      <4>2. t.type \in Types =>
              /\ Dated(list, now, made + 1)
              /\ InTurn(rest.list, turn[t.type]) /\ ~ IsPlaced(rest, before) => InTurn(list, now)
        BY <2>2, <2>6, <4>1, RegisteredOrder
      <4>3. \A other \in Types :
              registry'[other].list = IF other = t.type THEN list ELSE registry[other].list
        BY <2>3, <3>2
      <4>4. turn' = [turn EXCEPT ![t.type] = now]
        BY <3>2 DEF Entered, With
      <4> HIDE DEF now, list
      <4>5. Moves(t.type, list, now)
        BY <2>2, <3>2, <4>1, <4>2, <4>3, <4>4 DEF Moves
      <4> QED  BY <2>4, <4>5
    <3> QED  BY <2>6, <3>1, <3>2 DEF ReplaceTokenizer
  <2>7. ASSUME NEW types, NEW name, Unmount(types, name)
        PROVE  Orders'
    <3>1. /\ turn' = turn /\ placed' = placed
          /\ \A type \in Types :
               registry'[type] = IF type \in types THEN Unmounted(registry[type], name)
                                 ELSE registry[type]
      BY <2>7 DEF Unmount
    <3>2. \A type \in Types :
            /\ Dated(registry'[type].list, turn[type], made + 1)
            /\ InTurn(registry[type].list, turn[type]) => InTurn(registry'[type].list, turn[type])
      BY <2>2, <3>1, UnmountedOrder
    <3> QED  BY <2>2, <2>3, <3>1, <3>2 DEF Orders
  <2>8. ASSUME NEW t, UseFallbackTokenizer(t)
        PROVE  Orders'
    <3>1. /\ turn' = turn /\ placed' = placed
          /\ registry' = [registry EXCEPT ![t.type] = [@ EXCEPT !.fallback = {t}]]
      BY <2>8 DEF UseFallbackTokenizer
    <3>2. \A type \in Types : registry'[type].list = registry[type].list
      BY <2>2, <2>3, <3>1 DEF Sound
    <3> QED  BY <2>2, <2>3, <3>1, <3>2 DEF Orders
  <2> QED  BY <1>1, <2>1, <2>5, <2>6, <2>7, <2>8 DEF Call
<1>2. ASSUME UNCHANGED calls
      PROVE  Orders'
  BY <1>2, OrdersKept DEF calls, Orders
<1>3. ASSUME NEW t, Parse(t)
      PROVE  UNCHANGED calls
  BY <1>3 DEF Parse
<1>4. UNCHANGED vars => UNCHANGED calls
  BY DEF vars, calls
<1> QED  BY <1>1, <1>2, <1>3, <1>4 DEF Next

(* Those of higher priority are asked first, and those of equal priority   *)
(* in the order in which they were registered, whatever is replaced and    *)
(* unmounted in between, unless one was put before another by its name     *)
(* (calc_insert_index and its callers in core-parser/parser.rs).           *)
THEOREM PriorityIsKept == Spec => []PriorityOrder
<1>1. Init => Registries /\ Orders
  <2> SUFFICES ASSUME Init PROVE Orders
    BY NamesInit
  <2>1. scenario \in DOMAIN Scenarios /\ made = 0 /\ DOMAIN turn = Types
    BY DEF Init
  <2>2. \A type \in Types : registry[type].list = <<>>
    BY DEF Init, NoTokenizers
  <2>3. \A at, m : Dated(<<>>, at, m) /\ InTurn(<<>>, at)
    BY DEF Dated, InTurn
  <2> QED  BY <2>1, <2>2, <2>3 DEF Orders
<1>2. Registries /\ Orders /\ [Next]_vars => Registries' /\ Orders'
  BY NamesStep, OrdersStep
<1>3. Orders => PriorityOrder
  BY DEF Orders, InTurn, Precedes, PriorityOrder
<1> QED  BY <1>1, <1>2, <1>3, PTL DEF Spec

-----------------------------------------------------------------------------
(* The scheduler.                                                          *)

(* A frame, as far as its tokens and the state of its generator go.        *)
Shape(f) == {"tokens", "state"} \subseteq DOMAIN f

(* Any stack of frames: those below the last wait.                         *)
FramesOf(S) == {f \in S : Shape(f)}
Stack == \E S : frames \in Seq(FramesOf(S))

IInv == Stack /\ ActiveTokens

-----------------------------------------------------------------------------
(* What the steps do to the frames                                         *)

LEMMA FrameShape ==
    ASSUME NEW tokens
    PROVE  /\ Shape(Frame(tokens))
           /\ Frame(tokens).tokens = tokens
           /\ Frame(tokens).state = "none"
  BY DEF Shape, Frame

LEMMA EmptyStack ==
    ASSUME frames' = <<>>, active' = {}
    PROVE  IInv'
<1>1. Stack'
  BY EmptySeq DEF Stack
<1>2. DOMAIN frames' = {}
  OBVIOUS
<1>3. ActiveTokens'
  BY <1>2 DEF ActiveTokens
<1> QED  BY <1>1, <1>3 DEF IInv

(* The state and the nodes that a frame which waits is given.              *)
Given(f, state, nodes) == [[f EXCEPT !.state = state] EXCEPT !.given = nodes]

LEMMA StackPlaces ==
    ASSUME Stack, frames # <<>>
    PROVE  /\ Len(frames) \in Nat \ {0} /\ DOMAIN frames = 1..Len(frames)
           /\ Top = frames[Len(frames)]
<1>1. PICK S : frames \in Seq(FramesOf(S))
  BY DEF Stack
<1> QED  BY <1>1, EmptySeq, LenProperties DEF Top

(* The last frame is f.                                                    *)
LEMMA KeptPlaces ==
    ASSUME Stack, frames # <<>>, NEW f, Shape(f), frames' = WithTop(f)
    PROVE  /\ Stack'
           /\ Len(frames') = Len(frames) /\ DOMAIN frames' = 1..Len(frames)
           /\ \A j \in 1..Len(frames) : frames'[j] = IF j = Len(frames) THEN f ELSE frames[j]
<1>1. PICK S : frames \in Seq(FramesOf(S))
  BY DEF Stack
<1> DEFINE R == FramesOf(S \cup {f})
<1>2. frames \in Seq(R) /\ f \in R
  <2>1. FramesOf(S) \subseteq R
    BY DEF FramesOf
  <2> QED  BY <1>1, <2>1, SeqMonotonic DEF FramesOf
<1>3. Len(frames) \in 1..Len(frames)
  BY StackPlaces
<1> HIDE DEF R
<1>4. /\ frames' \in Seq(R)
      /\ Len(frames') = Len(frames)
      /\ \A j \in 1..Len(frames) : frames'[j] = IF j = Len(frames) THEN f ELSE frames[j]
  BY <1>2, <1>3, ExceptSeq DEF WithTop
<1> QED  BY <1>4, LenProperties DEF Stack, R

(* The last frame is f, with a new one above it.                           *)
LEMMA PushedPlaces ==
    ASSUME Stack, frames # <<>>, NEW f, Shape(f), NEW g, Shape(g),
           frames' = Append(WithTop(f), g)
    PROVE  /\ Stack'
           /\ Len(frames') = Len(frames) + 1 /\ DOMAIN frames' = 1..(Len(frames) + 1)
           /\ \A j \in 1..Len(frames) : frames'[j] = IF j = Len(frames) THEN f ELSE frames[j]
           /\ frames'[Len(frames) + 1] = g
<1>1. PICK S : frames \in Seq(FramesOf(S))
  BY DEF Stack
<1> DEFINE R == FramesOf(S \cup {f, g})
<1>2. frames \in Seq(R) /\ f \in R /\ g \in R
  <2>1. FramesOf(S) \subseteq R
    BY DEF FramesOf
  <2> QED  BY <1>1, <2>1, SeqMonotonic DEF FramesOf
<1>3. Len(frames) \in 1..Len(frames)
  BY StackPlaces
<1> HIDE DEF R
<1>4. /\ WithTop(f) \in Seq(R)
      /\ Len(WithTop(f)) = Len(frames)
      /\ \A j \in 1..Len(frames) : WithTop(f)[j] = IF j = Len(frames) THEN f ELSE frames[j]
  BY <1>2, <1>3, ExceptSeq DEF WithTop
<1>5. /\ frames' \in Seq(R)
      /\ Len(frames') = Len(frames) + 1
      /\ \A i \in 1..Len(frames) : frames'[i] = WithTop(f)[i]
      /\ frames'[Len(frames) + 1] = g
  BY <1>2, <1>4, AppendProperties
<1>6. DOMAIN frames' = 1..(Len(frames) + 1) /\ Stack'
  BY <1>5, LenProperties DEF Stack, R
<1> QED  BY <1>4, <1>5, <1>6

(* The last frame is gone, and the one below it has the state and nodes.   *)
LEMMA PoppedPlaces ==
    ASSUME Stack, frames # <<>>, NEW state, NEW nodes, Settle(state, nodes)
    PROVE  /\ Stack'
           /\ Len(frames) = 1 => frames' = <<>> /\ result' = <<state, nodes>>
           /\ Len(frames) # 1 =>
                /\ Len(frames) - 1 \in Nat \ {0} /\ frames' # <<>> /\ result' = result
                /\ Len(frames') = Len(frames) - 1 /\ DOMAIN frames' = 1..(Len(frames) - 1)
                /\ \A j \in 1..(Len(frames) - 1) :
                     frames'[j] = IF j = Len(frames) - 1 THEN Given(frames[j], state, nodes)
                                  ELSE frames[j]
<1> DEFINE below == SubSeq(frames, 1, Len(frames) - 1)
           n == Len(frames) - 1
<1>1. PICK S : frames \in Seq(FramesOf(S))
  BY DEF Stack
<1>2. Len(frames) \in Nat \ {0} /\ n \in Nat /\ n + 1 = Len(frames)
  BY StackPlaces
<1>3. /\ below \in Seq(FramesOf(S))
      /\ Len(below) = n
      /\ DOMAIN below = 1..n
      /\ \A i \in 1..n : below[i] = frames[i]
  <2>1. \A i \in 1..n : frames[i] \in FramesOf(S)
    BY <1>1, <1>2, ElementOfSeq
  <2>2. 1 \in Int /\ n \in Int
    BY <1>2
  <2>3. /\ below \in Seq(FramesOf(S))
        /\ Len(below) = IF 1 <= n THEN n - 1 + 1 ELSE 0
        /\ \A i \in 1..(n - 1 + 1) : below[i] = frames[1 + i - 1]
    BY <2>1, <2>2, SubSeqProperties
  <2>4. Len(below) = n
    BY <1>2, <2>3
  <2>5. DOMAIN below = 1..n
    BY <2>3, <2>4, LenProperties
  <2>6. \A i \in 1..n : below[i] = frames[i]
    BY <1>2, <2>3
  <2> QED  BY <2>3, <2>4, <2>5, <2>6
<1>4. CASE Len(frames) = 1
  <2>1. below = <<>>
    BY <1>2, <1>3, <1>4
  <2>2. frames' = <<>> /\ result' = <<state, nodes>>
    BY <2>1 DEF Settle
  <2> QED  BY <1>4, <2>2, EmptySeq DEF Stack
<1>5. CASE Len(frames) # 1
  <2> DEFINE f == [below[n] EXCEPT !.state = state]
             g == [f EXCEPT !.given = nodes]
  <2>1. n \in Nat \ {0} /\ n \in 1..n /\ below # <<>>
    <3>1. n \in Nat \ {0} /\ n \in 1..n
      BY <1>2, <1>5
    <3> QED  BY <1>3, <3>1
  <2>2. frames' = [[below EXCEPT ![n] = f] EXCEPT ![n] = g] /\ result' = result
    BY <1>3, <2>1 DEF Settle
  <2>3. below[n] \in S /\ Shape(below[n])
    BY <1>3, <2>1, ElementOfSeq DEF FramesOf
  <2>4. Shape(g) /\ Shape(f)
    BY <2>3 DEF Shape
  <2> DEFINE R == FramesOf(S \cup {f, g})
             mid == [below EXCEPT ![n] = f]
  <2>5. FramesOf(S) \subseteq R /\ f \in R /\ g \in R
    BY <2>4 DEF FramesOf
  <2>6. g = Given(frames[n], state, nodes)
    BY <1>3, <2>1 DEF Given
  <2> HIDE DEF below, n, f, g, R
  <2>7. below \in Seq(R)
    BY <1>3, <2>5, SeqMonotonic
  <2>8. /\ mid \in Seq(R)
        /\ Len(mid) = n
        /\ \A i \in 1..n : mid[i] = IF i = n THEN f ELSE below[i]
    BY <1>3, <2>1, <2>5, <2>7, ExceptSeq
  <2>9. frames' = [mid EXCEPT ![n] = g]
    BY <2>2
  <2> HIDE DEF mid
  <2>10. /\ frames' \in Seq(R)
         /\ Len(frames') = n
         /\ \A i \in 1..n : frames'[i] = IF i = n THEN g ELSE mid[i]
    BY <2>1, <2>5, <2>8, <2>9, ExceptSeq
  <2>11. DOMAIN frames' = 1..n /\ frames' # <<>>
    BY <2>1, <2>10, LenProperties
  <2>12. \A i \in 1..n : frames'[i] = IF i = n THEN Given(frames[i], state, nodes) ELSE frames[i]
    BY <1>3, <2>6, <2>8, <2>10
  <2>13. Stack'
    BY <2>10 DEF Stack, R
  <2> QED  BY <1>5, <2>1, <2>2, <2>10, <2>11, <2>12, <2>13 DEF n
<1> QED  BY <1>4, <1>5

(* The last frame goes on with the same tokens.                            *)
LEMMA Keep ==
    ASSUME IInv, frames # <<>>, NEW f, Shape(f), f.tokens = Top.tokens, f.state # "waiting",
           frames' = WithTop(f), active' = active
    PROVE  IInv'
<1>1. /\ Stack /\ Len(frames) \in Nat \ {0} /\ DOMAIN frames = 1..Len(frames)
      /\ Top = frames[Len(frames)]
  BY StackPlaces DEF IInv
<1>2. /\ Stack'
      /\ Len(frames') = Len(frames) /\ DOMAIN frames' = 1..Len(frames)
      /\ \A j \in 1..Len(frames) : frames'[j] = IF j = Len(frames) THEN f ELSE frames[j]
  BY <1>1, KeptPlaces
<1>3. \A j \in 1..Len(frames) : frames'[j].tokens = frames[j].tokens
  BY <1>1, <1>2
<1>4. active' = UNION {Range(frames'[i].tokens) : i \in DOMAIN frames'}
  <2>1. \A i \in 1..Len(frames) : Range(frames'[i].tokens) = Range(frames[i].tokens)
    BY <1>3
  <2>2. {Range(frames'[i].tokens) : i \in DOMAIN frames'}
        = {Range(frames[i].tokens) : i \in DOMAIN frames}
    BY <1>1, <1>2, <2>1
  <2> QED  BY <2>2 DEF IInv, ActiveTokens
<1>5. \A i, j \in DOMAIN frames' :
         i # j => Range(frames'[i].tokens) \cap Range(frames'[j].tokens) = {}
  <2> SUFFICES ASSUME NEW i \in 1..Len(frames), NEW j \in 1..Len(frames), i # j
               PROVE  Range(frames'[i].tokens) \cap Range(frames'[j].tokens) = {}
    BY <1>2
  <2>1. Range(frames[i].tokens) \cap Range(frames[j].tokens) = {}
    BY <1>1 DEF IInv, ActiveTokens
  <2>2. frames'[i].tokens = frames[i].tokens /\ frames'[j].tokens = frames[j].tokens
    BY <1>3
  <2> QED  BY <2>1, <2>2
<1>6. \A i \in DOMAIN frames' : frames'[i].state = "waiting" <=> i < Len(frames')
  <2> SUFFICES ASSUME NEW i \in 1..Len(frames)
               PROVE  frames'[i].state = "waiting" <=> i < Len(frames)
    BY <1>2
  <2>1. CASE i = Len(frames)
    <3>1. frames'[i] = f
      BY <1>2, <2>1
    <3>2. ~ (i < Len(frames))
      BY <1>1, <2>1
    <3> QED  BY <3>1, <3>2
  <2>2. CASE i # Len(frames)
    BY <1>1, <1>2, <2>2 DEF IInv, ActiveTokens
  <2> QED  BY <2>1, <2>2
<1> QED  BY <1>2, <1>4, <1>5, <1>6 DEF IInv, ActiveTokens

(* The last frame is settled, and so is the state of the one below.        *)
LEMMA Pop ==
    ASSUME IInv, frames # <<>>, NEW state, NEW nodes, state # "waiting", Settle(state, nodes)
    PROVE  IInv'
<1> DEFINE n == Len(frames) - 1
<1>1. /\ Stack /\ Len(frames) \in Nat \ {0} /\ DOMAIN frames = 1..Len(frames)
      /\ Top = frames[Len(frames)]
  BY StackPlaces DEF IInv
<1>2. active' = UNION {Range(frames[i].tokens) : i \in 1..n}
  <2>1. active = UNION {Range(frames[i].tokens) : i \in 1..Len(frames)}
    BY <1>1 DEF IInv, ActiveTokens
  <2>2. active' = active \ Range(frames[Len(frames)].tokens)
    BY <1>1 DEF Settle
  <2>3. \A i \in 1..n : Range(frames[i].tokens) \cap Range(frames[Len(frames)].tokens) = {}
    <3>1. \A i \in 1..n : i \in 1..Len(frames) /\ i # Len(frames)
      <4>1. n \in Nat /\ Len(frames) = n + 1
        BY <1>1
      <4> HIDE DEF n
      <4> QED  BY <4>1
    <3>2. Len(frames) \in 1..Len(frames)
      BY <1>1
    <3> QED  BY <1>1, <3>1, <3>2 DEF IInv, ActiveTokens
  <2>4. 1..Len(frames) = 1..n \cup {Len(frames)}
    BY <1>1
  <2> QED  BY <2>1, <2>2, <2>3, <2>4
<1>3. CASE Len(frames) = 1
  <2>1. frames' = <<>>
    BY <1>1, <1>3, PoppedPlaces
  <2>2. active' = {}
    <3>1. 1..n = {}
      BY <1>3
    <3> QED  BY <1>2, <3>1
  <2> QED  BY <2>1, <2>2, EmptyStack
<1>4. CASE Len(frames) # 1
  <2>1. /\ Stack' /\ n \in Nat \ {0} /\ Len(frames') = n /\ DOMAIN frames' = 1..n
        /\ \A j \in 1..n : frames'[j] = IF j = n THEN Given(frames[j], state, nodes) ELSE frames[j]
    BY <1>1, <1>4, PoppedPlaces
  <2>2. \A i \in 1..n : i \in DOMAIN frames /\ i < Len(frames) /\ (i # n => i < n) /\ ~ (n < n)
    <3>1. n \in Nat /\ Len(frames) = n + 1
      BY <1>1
    <3> HIDE DEF n
    <3> QED  BY <1>1, <3>1
  <2> HIDE DEF n
  <2>3. /\ Given(frames[n], state, nodes).tokens = frames[n].tokens
        /\ Given(frames[n], state, nodes).state = state
    <3>1. PICK S : frames \in Seq(FramesOf(S))
      BY <1>1 DEF Stack
    <3>2. n \in 1..Len(frames)
      BY <1>1, <2>1, <2>2
    <3>3. Shape(frames[n])
      BY <3>1, <3>2, ElementOfSeq DEF FramesOf
    <3> QED  BY <3>3 DEF Shape, Given
  <2>4. \A i \in 1..n : frames'[i].tokens = frames[i].tokens
    BY <2>1, <2>3
  <2>5. active' = UNION {Range(frames'[i].tokens) : i \in DOMAIN frames'}
    <3>1. \A i \in 1..n : Range(frames'[i].tokens) = Range(frames[i].tokens)
      BY <2>4
    <3>2. {Range(frames'[i].tokens) : i \in DOMAIN frames'}
          = {Range(frames[i].tokens) : i \in 1..n}
      BY <2>1, <3>1
    <3> QED  BY <1>2, <3>2
  <2>6. \A i, j \in DOMAIN frames' :
           i # j => Range(frames'[i].tokens) \cap Range(frames'[j].tokens) = {}
    BY <2>1, <2>2, <2>4 DEF IInv, ActiveTokens
  <2>7. \A i \in DOMAIN frames' : frames'[i].state = "waiting" <=> i < Len(frames')
    <3> SUFFICES ASSUME NEW i \in 1..n
                 PROVE  frames'[i].state = "waiting" <=> i < n
      BY <2>1
    <3>1. CASE i = n
      BY <2>1, <2>2, <2>3, <3>1
    <3>2. CASE i # n
      <4>1. frames'[i] = frames[i] /\ i < n
        BY <2>1, <2>2, <3>2
      <4> QED  BY <2>2, <4>1 DEF IInv, ActiveTokens
    <3> QED  BY <3>1, <3>2
  <2> QED  BY <2>1, <2>5, <2>6, <2>7 DEF IInv, ActiveTokens
<1> QED  BY <1>3, <1>4

(* A frame is put on the stack for tokens that are in no frame yet.        *)
LEMMA Push ==
    ASSUME IInv, frames # <<>>, NEW f, Shape(f), f.tokens = Top.tokens, f.state = "waiting",
           NEW wanted, Range(wanted) \cap active = {},
           frames' = Append(WithTop(f), Frame(wanted)), active' = active \cup Range(wanted)
    PROVE  IInv'
<1> DEFINE n == Len(frames)
           g == Frame(wanted)
<1>1. Stack /\ n \in Nat \ {0} /\ DOMAIN frames = 1..n /\ Top = frames[n]
  BY StackPlaces DEF IInv
<1>2. n \in 1..n
  BY <1>1
<1>3. Shape(g) /\ g.tokens = wanted /\ g.state = "none"
  BY FrameShape
<1> HIDE DEF g
<1>4. /\ Stack'
      /\ Len(frames') = n + 1 /\ DOMAIN frames' = 1..(n + 1)
      /\ \A j \in 1..n : frames'[j] = IF j = n THEN f ELSE frames[j]
      /\ frames'[n + 1] = g
  <2>1. frames' = Append(WithTop(f), g)
    BY DEF g
  <2> QED  BY <1>1, <1>3, <2>1, PushedPlaces
<1>5. \A i \in 1..n : frames'[i].tokens = frames[i].tokens
  BY <1>1, <1>4
<1>6. frames'[n + 1].tokens = wanted
  BY <1>3, <1>4
<1>7. ActiveTokens'
  <2>1. active = UNION {Range(frames[i].tokens) : i \in 1..n}
    BY <1>1, <1>2 DEF IInv, ActiveTokens
  <2>2. 1..(n + 1) = 1..n \cup {n + 1} /\ n + 1 \notin 1..n
    BY <1>1, <1>2
  <2>3. active' = UNION {Range(frames'[i].tokens) : i \in DOMAIN frames'}
    <3>1. {Range(frames'[i].tokens) : i \in 1..n} = {Range(frames[i].tokens) : i \in 1..n}
      BY <1>5
    <3>2. {Range(frames'[i].tokens) : i \in DOMAIN frames'}
          = {Range(frames'[i].tokens) : i \in 1..n} \cup {Range(wanted)}
      BY <1>4, <1>6, <2>2
    <3> QED  BY <2>1, <3>1, <3>2
  <2>4. \A i, j \in DOMAIN frames' :
           i # j => Range(frames'[i].tokens) \cap Range(frames'[j].tokens) = {}
    <3>1. \A i \in 1..n : Range(frames'[i].tokens) \subseteq active
      BY <1>5, <2>1
    <3>2. \A i, j \in 1..n :
             i # j => Range(frames'[i].tokens) \cap Range(frames'[j].tokens) = {}
      BY <1>1, <1>2, <1>5 DEF IInv, ActiveTokens
    <3>3. \A i \in 1..n : /\ Range(frames'[i].tokens) \cap Range(frames'[n + 1].tokens) = {}
                          /\ Range(frames'[n + 1].tokens) \cap Range(frames'[i].tokens) = {}
      BY <1>6, <3>1
    <3>4. DOMAIN frames' = 1..n \cup {n + 1}
      BY <1>4, <2>2
    <3> HIDE DEF n
    <3> QED  BY <3>2, <3>3, <3>4
  <2>5. \A i \in DOMAIN frames' : frames'[i].state = "waiting" <=> i < Len(frames')
    <3> SUFFICES ASSUME NEW i \in 1..(n + 1)
                 PROVE  frames'[i].state = "waiting" <=> i < n + 1
      BY <1>4
    <3>1. CASE i = n + 1
      <4>1. frames'[i] = g
        BY <1>4, <3>1
      <4>2. ~ (i < n + 1)
        BY <1>1, <1>2, <3>1
      <4> QED  BY <1>3, <4>1, <4>2
    <3>2. CASE i = n
      <4>1. frames'[i] = f
        BY <1>1, <1>2, <1>4, <3>2
      <4>2. i < n + 1
        BY <1>1, <1>2, <3>2
      <4> QED  BY <4>1, <4>2
    <3>3. CASE i \in 1..n /\ i # n
      <4>1. frames'[i] = frames[i]
        BY <1>4, <3>3
      <4>2. i < n + 1 /\ i < n /\ i \in DOMAIN frames
        <5>1. DOMAIN frames = 1..n
          BY <1>1, <1>2
        <5> HIDE DEF n
        <5> QED  BY <1>1, <1>2, <3>3, <5>1
      <4>3. frames[i].state = "waiting"
        BY <4>2 DEF IInv, ActiveTokens
      <4> QED  BY <4>1, <4>2, <4>3
    <3> QED  BY <2>2, <3>1, <3>2, <3>3
  <2> QED  BY <2>3, <2>4, <2>5 DEF ActiveTokens
<1> QED  BY <1>4, <1>7 DEF IInv

-----------------------------------------------------------------------------
(* The steps                                                               *)

(* The last frame is one, whatever its tokens.                             *)
LEMMA TopShape ==
    ASSUME IInv, frames # <<>>
    PROVE  Shape(Top)
<1>1. PICK S : frames \in Seq(FramesOf(S))
  BY DEF IInv, Stack
<1>2. Len(frames) \in 1..Len(frames)
  BY <1>1, EmptySeq, LenProperties
<1> QED  BY <1>1, <1>2, ElementOfSeq DEF FramesOf, Top

LEMMA FailKeeps ==
    ASSUME IInv, frames # <<>>, Fail
    PROVE  IInv'
<1>1. CASE tree.phase = "block"
  BY <1>1, Pop DEF Fail
<1>2. CASE tree.phase # "block"
  BY <1>2, EmptyStack DEF Fail
<1> QED  BY <1>1, <1>2

LEMMA BeginKeeps ==
    ASSUME NEW t, NEW names, Begin(t, names)
    PROVE  IInv'
<1> DEFINE g == Frame(t.roots)
<1>1. frames' = <<g>> /\ active' = Range(t.roots)
  BY DEF Begin
<1>2. Shape(g) /\ g.tokens = t.roots /\ g.state = "none"
  BY FrameShape
<1> HIDE DEF g
<1>3. frames' \in Seq(FramesOf({g}))
  BY <1>1, <1>2 DEF FramesOf
<1>4. DOMAIN frames' = {1} /\ Len(frames') = 1 /\ frames'[1] = g
  BY <1>1
<1>5. {Range(frames'[i].tokens) : i \in DOMAIN frames'} = {Range(t.roots)}
  BY <1>2, <1>4
<1>6. ActiveTokens'
  BY <1>1, <1>2, <1>4, <1>5 DEF ActiveTokens
<1>7. Stack'
  BY <1>3 DEF Stack
<1> QED  BY <1>6, <1>7 DEF IInv

LEMMA AskingShape ==
    ASSUME NEW f, Shape(f), NEW batch, NEW wants, NEW lenient
    PROVE  /\ Shape(Asking(f, batch, wants, lenient))
           /\ Asking(f, batch, wants, lenient).tokens = f.tokens
           /\ Asking(f, batch, wants, lenient).state = "initial"
  BY DEF Shape, Asking

LEMMA StepTokenListKeeps ==
    ASSUME IInv, StepTokenList
    PROVE  IInv'
<1> DEFINE batch == Batch(Top)
           name == tree.names[Top.tokens[Top.next]]
           asking(wants, lenient) ==
             /\ frames' = WithTop(Asking(Top, batch, wants, lenient))
             /\ UNCHANGED <<active, result>>
<1>1. frames # <<>> /\ Top.state = "none" /\ Shape(Top)
  BY TopShape DEF StepTokenList
<1>2. ASSUME NEW wants, NEW lenient, asking(wants, lenient)
      PROVE  IInv'
  <2> DEFINE f == Asking(Top, batch, wants, lenient)
  <2>1. Shape(f) /\ f.tokens = Top.tokens /\ f.state = "initial"
    BY <1>1, AskingShape
  <2>2. frames' = WithTop(f) /\ active' = active
    BY <1>2
  <2> HIDE DEF f
  <2> QED  BY <1>1, <2>1, <2>2, Keep
<1>3. CASE Settle("nodes", Top.nodes)
  BY <1>1, <1>3, Pop
<1>4. CASE Fail
  BY <1>1, <1>4, FailKeeps
<1>5. CASE /\ frames' = WithTop([Top EXCEPT !.next = @ + Len(batch),
                              !.nodes = @ \o [k \in DOMAIN batch |-> Node(batch[k], <<>>)]])
           /\ UNCHANGED <<active, result>>
  <2> DEFINE f == [Top EXCEPT !.next = @ + Len(batch),
                              !.nodes = @ \o [k \in DOMAIN batch |-> Node(batch[k], <<>>)]]
  <2>1. Shape(f) /\ f.tokens = Top.tokens /\ f.state = "none"
    BY <1>1 DEF Shape
  <2>2. frames' = WithTop(f) /\ active' = active
    BY <1>5
  <2> HIDE DEF f
  <2> QED  BY <1>1, <2>1, <2>2, Keep
<1> QED  BY <1>2, <1>3, <1>4, <1>5 DEF StepTokenList

LEMMA StepGeneratorKeeps ==
    ASSUME IInv, StepGenerator
    PROVE  IInv'
<1> DEFINE f == Resumed
           wanted == f.wants[f.asked + 1]
           asked == [f EXCEPT !.asked = @ + 1]
<1>1. frames # <<>> /\ Shape(Top) /\ Top.state \in {"initial", "nodes", "error"}
  BY TopShape DEF StepGenerator
<1>2. Shape(f) /\ f.tokens = Top.tokens
  BY <1>1 DEF Resumed, Shape
<1>3. Shape(asked) /\ asked.tokens = Top.tokens
  BY <1>2 DEF Shape
<1>4. CASE Fail
  BY <1>1, <1>4, FailKeeps
<1>5. ASSUME NEW g, Shape(g), g.tokens = Top.tokens, g.state # "waiting",
             frames' = WithTop(g), UNCHANGED <<active, result>>
      PROVE  IInv'
  BY <1>1, <1>5, Keep
<1>6. CASE /\ frames' = WithTop([f EXCEPT !.state = "none", !.nodes = @ \o f.made])
           /\ UNCHANGED <<active, result>>
  <2> DEFINE g == [f EXCEPT !.state = "none", !.nodes = @ \o f.made]
  <2>1. Shape(g) /\ g.tokens = Top.tokens /\ g.state = "none"
    BY <1>2 DEF Shape
  <2> QED  BY <1>5, <1>6, <2>1
<1>7. ASSUME NEW state
      PROVE  LET g == [asked EXCEPT !.state = state]
             IN Shape(g) /\ g.tokens = Top.tokens /\ g.state = state
  BY <1>3 DEF Shape
<1>8. CASE /\ frames' = WithTop([asked EXCEPT !.state = "nodes"])
           /\ UNCHANGED <<active, result>>
  <2> HIDE DEF asked
  <2> QED  BY <1>5, <1>7, <1>8
<1>9. CASE /\ frames' = WithTop([asked EXCEPT !.state = "error"])
           /\ UNCHANGED <<active, result>>
  <2> HIDE DEF asked
  <2> QED  BY <1>5, <1>7, <1>9
<1>10. CASE /\ Range(wanted) \cap active = {}
            /\ frames' = Append(WithTop([asked EXCEPT !.state = "waiting"]), Frame(wanted))
            /\ active' = active \cup Range(wanted)
  <2> HIDE DEF asked, wanted
  <2> QED  BY <1>1, <1>7, <1>10, Push
<1> QED  BY <1>4, <1>6, <1>8, <1>9, <1>10 DEF StepGenerator

LEMMA IdleKeeps ==
    ASSUME IInv, UNCHANGED <<frames, active>>
    PROVE  IInv'
  BY DEF IInv, Stack, ActiveTokens

LEMMA Steps ==
    ASSUME IInv, [Next]_vars
    PROVE  IInv'
<1>1. ASSUME NEW call, Call(call)
      PROVE  IInv'
  <2>1. UNCHANGED <<frames, active>>
    BY <1>1 DEF Call, UseTokenizer, ReplaceTokenizer, Unmount, UseFallbackTokenizer, Calling,
                scheduler
  <2> QED  BY <2>1, IdleKeeps
<1>2. ASSUME NEW t, Parse(t)
      PROVE  IInv'
  BY <1>2, BeginKeeps DEF Parse
<1>3. CASE Step
  BY <1>3, StepTokenListKeeps, StepGeneratorKeeps DEF Step
<1>4. CASE UNCHANGED vars
  BY <1>4, IdleKeeps DEF vars
<1> QED  BY <1>1, <1>2, <1>3, <1>4 DEF Next

LEMMA StartsEmpty == Init => IInv
<1> SUFFICES ASSUME Init PROVE IInv
  OBVIOUS
<1>1. frames = <<>> /\ active = {}
  BY DEF Init
<1>2. Stack
  BY <1>1, EmptySeq DEF Stack
<1>3. DOMAIN frames = {}
  BY <1>1
<1> QED  BY <1>1, <1>2, <1>3 DEF IInv, ActiveTokens

(* A token is in one frame at most, and active exactly as long as it is in *)
(* one, so that no list of tokens is parsed inside itself; and only the    *)
(* last frame is at work (ParseBlockFrame and active_token_set in          *)
(* block/parse.rs, their like in inline/parse.rs).                         *)
THEOREM TokensInOneFrame == Spec => []ActiveTokens
<1>1. Init => IInv
  BY StartsEmpty
<1>2. IInv /\ [Next]_vars => IInv'
  BY Steps
<1>3. IInv => ActiveTokens
  BY DEF IInv
<1> QED  BY <1>1, <1>2, <1>3, PTL DEF Spec

-----------------------------------------------------------------------------
(* The nodes of the tree.  NodeOf is a recursion over the tokens: it has a *)
(* solution since those of greater number have one (SolutionExists, by the *)
(* least number of tokens that would have none), so that it follows what   *)
(* the hooks do (Follows).  Then each frame has the nodes of the tokens it *)
(* is done with (Progress), which is what the one below it waits for.      *)

(* What the hook of each token does.                                       *)
Hooks == [x \in DOMAIN tree.children |-> Does(x)]

(* The nodes of a list, where those of the tokens are N.                   *)
ListOf(N, tokens) == InOrder([k \in DOMAIN tokens |-> N[tokens[k]]])

Values(N) == UNION {N[x] : x \in DOMAIN N}

(* N is a solution for the tokens from m on.                               *)
SolvesFrom(N, m) == N = [x \in m..Len(tree.children) |-> NodeFrom(N, x)]

LEMMA LowestOf ==
    ASSUME NEW T, T \subseteq Nat, T # {}
    PROVE  \E m \in T : \A i \in T : m <= i
<1>1. PICK m \in T : \A i \in T : ~ (<<i, m>> \in OpToRel(<, Nat))
  BY NatLessThanWellFounded, WFMin
<1>2. \A i \in T : ~ (i < m)
  BY <1>1 DEF OpToRel
<1> QED  BY <1>2

LEMMA TreeTokens ==
    ASSUME NEW t, IsTree(t)
    PROVE  /\ Len(t.children) \in Nat
           /\ DOMAIN t.children = 1..Len(t.children)
           /\ t.roots \in Seq(DOMAIN t.children)
           /\ \A x \in DOMAIN t.children : t.children[x] \in Seq(DOMAIN t.children)
<1>1. t.children \in Seq(Seq(DOMAIN t.children)) /\ t.roots \in Seq(DOMAIN t.children)
  BY DEF IsTree
<1>2. Len(t.children) \in Nat /\ DOMAIN t.children = 1..Len(t.children)
  BY <1>1, LenProperties
<1>3. \A x \in DOMAIN t.children : t.children[x] \in Seq(DOMAIN t.children)
  BY <1>1, <1>2, ElementOfSeq
<1> QED  BY <1>1, <1>2, <1>3

LEMMA ChildrenBelow ==
    ASSUME NEW t, IsTree(t), NEW x \in DOMAIN t.children, NEW k \in DOMAIN t.children[x]
    PROVE  /\ t.children[x][k] \in DOMAIN t.children
           /\ t.children[x][k] > x
<1>1. t.children[x] \in Seq(DOMAIN t.children)
  BY TreeTokens
<1>2. k \in 1..Len(t.children[x])
  BY <1>1, LenProperties
<1>3. t.children[x][k] \in DOMAIN t.children
  BY <1>1, <1>2, ElementOfSeq
<1>4. t.children[x][k] \in Range(t.children[x])
  BY DEF Range
<1>5. t.children[x][k] > x
  BY <1>4 DEF IsTree
<1> QED  BY <1>3, <1>5

(* The node of a token depends on those of its children only.              *)
LEMMA NodeFromChildren ==
    ASSUME NEW M, NEW N, NEW x,
           \A k \in DOMAIN tree.children[x] : M[tree.children[x][k]] = N[tree.children[x][k]]
    PROVE  NodeFrom(M, x) = NodeFrom(N, x)
<1>1. [k \in DOMAIN tree.children[x] |-> M[tree.children[x][k]]]
      = [k \in DOMAIN tree.children[x] |-> N[tree.children[x][k]]]
  OBVIOUS
<1> DEFINE inner(L) == InOrder([k \in DOMAIN tree.children[x] |-> L[tree.children[x][k]]])
           node(i) ==
             CASE Does(x) = "nodes"                                     -> {Node(x, <<>>)}
               [] Does(x) \in {"children", "lenient"} /\ i # {}          -> {Node(x, n) : n \in i}
               [] Does(x) = "lenient" /\ i = {} /\ tree.phase = "block"  -> {Node(x, <<>>)}
               [] OTHER                                                 -> {}
<1>2. NodeFrom(M, x) = node(inner(M)) /\ NodeFrom(N, x) = node(inner(N))
  BY DEF NodeFrom
<1>3. inner(M) = inner(N)
  BY <1>1
<1> QED  BY <1>2, <1>3

LEMMA SolutionExists ==
    ASSUME IsTree(tree)
    PROVE  \E N : N = [x \in DOMAIN tree.children |-> NodeFrom(N, x)]
<1> DEFINE n == Len(tree.children)
           Missing == {j \in 0..n : ~ \E N : SolvesFrom(N, n + 1 - j)}
<1>1. n \in Nat /\ DOMAIN tree.children = 1..n
  BY TreeTokens
<1>2. Missing = {}
  <2> SUFFICES ASSUME Missing # {} PROVE FALSE
    OBVIOUS
  <2>1. PICK j \in Missing : \A i \in Missing : j <= i
    <3>1. Missing \subseteq Nat
      BY <1>1
    <3> HIDE DEF Missing
    <3> QED  BY <3>1, LowestOf
  <2>2. j \in 0..n /\ ~ \E N : SolvesFrom(N, n + 1 - j)
    BY <2>1
  <2>3. CASE j = 0
    <3> DEFINE N == [x \in (n + 1)..n |-> {}]
    <3>1. (n + 1)..n = {}
      BY <1>1
    <3>2. N = [x \in (n + 1)..n |-> NodeFrom(N, x)]
      BY <3>1
    <3>3. SolvesFrom(N, n + 1)
      BY <3>2 DEF SolvesFrom
    <3>4. n + 1 - j = n + 1
      BY <1>1, <2>3
    <3> QED  BY <2>2, <3>3, <3>4
  <2>4. CASE j # 0
    <3> DEFINE m == n + 1 - j
    <3>1. m \in 1..n /\ m + 1 = n + 1 - (j - 1) /\ j - 1 \in 0..n
      BY <1>1, <2>2, <2>4
    <3>2. j - 1 \notin Missing
      BY <2>1, <2>2, <2>4, <1>1
    <3>3. PICK N : SolvesFrom(N, m + 1)
      BY <3>1, <3>2
    <3> HIDE DEF m, n
    <3> DEFINE M == [x \in m..n |-> IF x = m THEN NodeFrom(N, m) ELSE N[x]]
    <3>4. \A x \in m..n : NodeFrom(M, x) = NodeFrom(N, x)
      <4> SUFFICES ASSUME NEW x \in m..n
                   PROVE  NodeFrom(M, x) = NodeFrom(N, x)
        OBVIOUS
      <4>1. x \in DOMAIN tree.children
        BY <1>1, <3>1
      <4>2. \A k \in DOMAIN tree.children[x] : M[tree.children[x][k]] = N[tree.children[x][k]]
        <5> SUFFICES ASSUME NEW k \in DOMAIN tree.children[x]
                     PROVE  M[tree.children[x][k]] = N[tree.children[x][k]]
          OBVIOUS
        <5>1. tree.children[x][k] \in 1..n /\ tree.children[x][k] > x
          BY <1>1, <4>1, ChildrenBelow
        <5>2. tree.children[x][k] \in m..n /\ tree.children[x][k] # m
          BY <1>1, <3>1, <5>1
        <5> QED  BY <5>2
      <4> HIDE DEF M
      <4> QED  BY <4>2, NodeFromChildren
    <3>5. \A x \in m..n : M[x] = NodeFrom(N, x)
      <4> SUFFICES ASSUME NEW x \in m..n
                   PROVE  M[x] = NodeFrom(N, x)
        OBVIOUS
      <4>1. CASE x = m
        BY <4>1
      <4>2. CASE x # m
        <5>1. x \in (m + 1)..n
          BY <1>1, <3>1, <4>2
        <5>2. N = [y \in (m + 1)..n |-> NodeFrom(N, y)]
          BY <3>3 DEF SolvesFrom, n
        <5>3. N[x] = NodeFrom(N, x)
          BY <5>1, <5>2
        <5> QED  BY <4>2, <5>3
      <4> QED  BY <4>1, <4>2
    <3>6. M = [x \in m..n |-> NodeFrom(M, x)]
      <4>1. \A x \in m..n : M[x] = NodeFrom(M, x)
        BY <3>4, <3>5
      <4>2. M = [x \in m..n |-> M[x]]
        OBVIOUS
      <4> HIDE DEF M
      <4> QED  BY <4>1, <4>2
    <3>7. SolvesFrom(M, m)
      BY <3>6 DEF SolvesFrom, n
    <3> HIDE DEF M
    <3> QED  BY <2>2, <3>7 DEF m
  <2> QED  BY <2>3, <2>4
<1>3. n \in 0..n /\ n + 1 - n = 1
  BY <1>1
<1>4. PICK N : SolvesFrom(N, 1)
  BY <1>2, <1>3
<1>5. N = [x \in DOMAIN tree.children |-> NodeFrom(N, x)]
  BY <1>1, <1>4 DEF SolvesFrom
<1> QED  BY <1>5

(* So that the recursion defines the nodes of all tokens.                  *)
LEMMA NodeOfEquation ==
    ASSUME IsTree(tree)
    PROVE  NodeOf = [x \in DOMAIN tree.children |-> NodeFrom(NodeOf, x)]
<1>1. PICK N : N = [x \in DOMAIN tree.children |-> NodeFrom(N, x)]
  BY SolutionExists
<1> QED  BY <1>1 DEF NodeOf

(* A token has no node, or this one.                                       *)
Fails(N, x) == N[x] = {}
Gives(N, x, node) == N[x] = {node}

(* A list has no nodes, or these.                                          *)
ListFails(N, tokens) == ListOf(N, tokens) = {}
ListGives(N, tokens, nodes) == ListOf(N, tokens) = {nodes}

(* What the hooks D say of the nodes N.                                    *)
Follows(t, D, N, x) ==
    /\ D[x] = "nodes" => Gives(N, x, Node(x, <<>>))
    /\ D[x] \in {"children", "lenient"} =>
         \A nodes : ListGives(N, t.children[x], nodes) => Gives(N, x, Node(x, nodes))
    /\ D[x] = "children" /\ ListFails(N, t.children[x]) => Fails(N, x)
    /\ D[x] = "lenient" /\ ListFails(N, t.children[x]) =>
         IF t.phase = "block" THEN Gives(N, x, Node(x, <<>>)) ELSE Fails(N, x)
    /\ D[x] \in {"again", "panics"} => Fails(N, x)

LEMMA NodeFollows ==
    ASSUME IsTree(tree), NEW x \in DOMAIN tree.children
    PROVE  Follows(tree, Hooks, NodeOf, x)
<1> DEFINE inner == ListOf(NodeOf, tree.children[x])
           d == Does(x)
           answer(i) ==
             CASE d = "nodes"                                     -> {Node(x, <<>>)}
               [] d \in {"children", "lenient"} /\ i # {}          -> {Node(x, n) : n \in i}
               [] d = "lenient" /\ i = {} /\ tree.phase = "block"  -> {Node(x, <<>>)}
               [] OTHER                                           -> {}
<1>1. NodeOf[x] = NodeFrom(NodeOf, x)
  BY NodeOfEquation
<1>2. NodeFrom(NodeOf, x) = answer(inner)
  BY DEF NodeFrom, ListOf
<1>3. Hooks[x] = d
  BY DEF Hooks
<1> HIDE DEF inner, d
<1>4. NodeOf[x] = answer(inner)
  BY <1>1, <1>2
<1>5. d = "nodes" => NodeOf[x] = {Node(x, <<>>)}
  BY <1>4
<1>6. ASSUME d \in {"children", "lenient"}, NEW nodes, inner = {nodes}
      PROVE  NodeOf[x] = {Node(x, nodes)}
  <2>1. NodeOf[x] = {Node(x, n) : n \in inner}
    BY <1>4, <1>6
  <2> QED  BY <1>6, <2>1
<1>7. d = "children" /\ inner = {} => NodeOf[x] = {}
  BY <1>4
<1>8. d = "lenient" /\ inner = {} =>
        NodeOf[x] = IF tree.phase = "block" THEN {Node(x, <<>>)} ELSE {}
  BY <1>4
<1>9. d \in {"again", "panics"} => NodeOf[x] = {}
  BY <1>4
<1> QED  BY <1>3, <1>5, <1>6, <1>7, <1>8, <1>9
            DEF Follows, Gives, Fails, ListGives, ListFails, inner

(* A list fails with one of its tokens.                                    *)
LEMMA OneFails ==
    ASSUME NEW N, NEW tokens, NEW k \in DOMAIN tokens, Fails(N, tokens[k])
    PROVE  ListFails(N, tokens)
<1> DEFINE each == [j \in DOMAIN tokens |-> N[tokens[j]]]
<1>1. k \in DOMAIN each /\ each[k] = {}
  BY DEF Fails
<1> HIDE DEF each
<1>2. InOrder(each) = {}
  BY <1>1 DEF InOrder
<1> QED  BY <1>2 DEF ListFails, ListOf, each

(* A list gives the nodes of its tokens in their order.                    *)
LEMMA AllGive ==
    ASSUME NEW N, NEW S, NEW R, NEW tokens \in Seq(S), NEW nodes \in Seq(R),
           Len(nodes) = Len(tokens),
           \A k \in 1..Len(tokens) : Gives(N, tokens[k], nodes[k])
    PROVE  ListGives(N, tokens, nodes)
<1> DEFINE each == [j \in DOMAIN tokens |-> N[tokens[j]]]
<1>1. DOMAIN tokens = 1..Len(tokens) /\ DOMAIN nodes = 1..Len(tokens)
  BY LenProperties
<1>2. DOMAIN each = 1..Len(tokens) /\ \A k \in 1..Len(tokens) : each[k] = {nodes[k]}
  BY <1>1 DEF Gives
<1> HIDE DEF each
<1>3. ~ \E k \in DOMAIN each : each[k] = {}
  BY <1>2
<1>4. \A k \in DOMAIN each : (CHOOSE n \in each[k] : TRUE) = nodes[k]
  BY <1>2
<1>5. nodes = [k \in 1..Len(tokens) |-> nodes[k]]
  BY <1>1
<1>6. [k \in DOMAIN each |-> CHOOSE n \in each[k] : TRUE] = nodes
  BY <1>2, <1>4, <1>5
<1>7. InOrder(each) = {nodes}
  BY <1>3, <1>6 DEF InOrder
<1> QED  BY <1>7 DEF ListGives, ListOf, each

LEMMA NoneGive ==
    ASSUME NEW N
    PROVE  ListGives(N, <<>>, <<>>)
<1> DEFINE none == <<>>
<1>1. none \in Seq({}) /\ Len(none) = 0
  OBVIOUS
<1>2. \A k \in 1..Len(none) : Gives(N, none[k], none[k])
  BY <1>1
<1> HIDE DEF none
<1>3. ListGives(N, none, none)
  BY <1>1, <1>2, AllGive
<1> QED  BY <1>3 DEF none

(* While a tree is parsed the nodes of its tokens are the same.            *)
LEMMA SameNodes ==
    ASSUME UNCHANGED <<tree, hooks>>
    PROVE  Hooks' = Hooks /\ NodeOf' = NodeOf
<1> DEFINE does(t, h, x) == IF t.names[x] \in h THEN HookOf[t.names[x]] ELSE "panics"
           from(t, h, N, x) ==
             LET inner == InOrder([k \in DOMAIN t.children[x] |-> N[t.children[x][k]]])
             IN CASE does(t, h, x) = "nodes"                            -> {Node(x, <<>>)}
                  [] does(t, h, x) \in {"children", "lenient"} /\ inner # {} ->
                       {Node(x, n) : n \in inner}
                  [] does(t, h, x) = "lenient" /\ inner = {} /\ t.phase = "block" ->
                       {Node(x, <<>>)}
                  [] OTHER                                              -> {}
           solution(t, h) == CHOOSE N : N = [x \in DOMAIN t.children |-> from(t, h, N, x)]
           whole(t, h) == [x \in DOMAIN t.children |-> does(t, h, x)]
<1>1. Hooks = whole(tree, hooks) /\ Hooks' = whole(tree', hooks')
  BY DEF Hooks, Does
<1>2. NodeOf = solution(tree, hooks)
  BY DEF NodeOf, NodeFrom, Does
<1>3. NodeOf' = solution(tree', hooks')
  BY DEF NodeOf, NodeFrom, Does
<1> HIDE DEF solution, whole
<1> QED  BY <1>1, <1>2, <1>3

(* A sequence of the nodes of the first of the tokens.                     *)
Listed(N, tokens, nodes) ==
    /\ nodes \in Seq(Values(N))
    /\ \A k \in 1..Len(nodes) : Gives(N, tokens[k], nodes[k])

LEMMA GivesValue ==
    ASSUME NEW N, NEW x \in DOMAIN N, NEW node, Gives(N, x, node)
    PROVE  node \in Values(N)
  BY DEF Gives, Values

LEMMA ListedNone ==
    ASSUME NEW N, NEW tokens
    PROVE  Listed(N, tokens, <<>>) /\ Len(<<>>) = 0
  BY EmptySeq DEF Listed

LEMMA ListedNext ==
    ASSUME NEW N, NEW tokens, NEW nodes, NEW node, Listed(N, tokens, nodes),
           tokens[Len(nodes) + 1] \in DOMAIN N, Gives(N, tokens[Len(nodes) + 1], node)
    PROVE  Listed(N, tokens, Append(nodes, node)) /\ Len(Append(nodes, node)) = Len(nodes) + 1
<1> DEFINE V == Values(N)
           more == Append(nodes, node)
<1>1. nodes \in Seq(V) /\ node \in V
  BY GivesValue DEF Listed
<1> HIDE DEF V, more
<1>2. /\ more \in Seq(V)
      /\ Len(more) = Len(nodes) + 1
      /\ \A i \in 1..Len(nodes) : more[i] = nodes[i]
      /\ more[Len(nodes) + 1] = node
  BY <1>1, AppendProperties DEF more
<1>3. Len(nodes) \in Nat
  BY <1>1, LenProperties
<1>4. ASSUME NEW k \in 1..Len(more)
      PROVE  Gives(N, tokens[k], more[k])
  <2>1. CASE k = Len(nodes) + 1
    BY <1>2, <2>1
  <2>2. CASE k # Len(nodes) + 1
    <3>1. k \in 1..Len(nodes)
      BY <1>2, <1>3, <2>2
    <3> QED  BY <1>2, <3>1 DEF Listed
  <2> QED  BY <2>1, <2>2
<1>5. Listed(N, tokens, more)
  BY <1>2, <1>4 DEF Listed, V
<1> QED  BY <1>2, <1>5 DEF more

LEMMA ListedMore ==
    ASSUME NEW N, NEW tokens, NEW nodes, NEW batch, NEW others,
           Listed(N, tokens, nodes), Listed(N, batch, others),
           \A k \in 1..Len(others) : batch[k] = tokens[Len(nodes) + k]
    PROVE  /\ Listed(N, tokens, nodes \o others)
           /\ Len(nodes \o others) = Len(nodes) + Len(others)
<1> DEFINE V == Values(N)
           all == nodes \o others
<1>1. nodes \in Seq(V) /\ others \in Seq(V)
  BY DEF Listed
<1>2. Len(nodes) \in Nat /\ Len(others) \in Nat
  BY <1>1, LenProperties
<1> HIDE DEF V, all
<1>3. /\ all \in Seq(V)
      /\ Len(all) = Len(nodes) + Len(others)
      /\ \A i \in 1..Len(nodes) + Len(others) :
           all[i] = IF i <= Len(nodes) THEN nodes[i] ELSE others[i - Len(nodes)]
  BY <1>1, ConcatProperties DEF all
<1>4. ASSUME NEW k \in 1..Len(all)
      PROVE  Gives(N, tokens[k], all[k])
  <2>1. CASE k <= Len(nodes)
    <3>1. k \in 1..Len(nodes) /\ all[k] = nodes[k]
      BY <1>2, <1>3, <2>1
    <3> QED  BY <3>1 DEF Listed
  <2>2. CASE ~ (k <= Len(nodes))
    <3> DEFINE j == k - Len(nodes)
    <3>1. j \in 1..Len(others) /\ Len(nodes) + j = k /\ all[k] = others[j]
      BY <1>2, <1>3, <2>2
    <3> HIDE DEF j
    <3>2. Gives(N, batch[j], others[j]) /\ batch[j] = tokens[Len(nodes) + j]
      BY <3>1 DEF Listed
    <3> QED  BY <3>1, <3>2
  <2> QED  BY <2>1, <2>2
<1>5. Listed(N, tokens, all)
  BY <1>3, <1>4 DEF Listed, V
<1> QED  BY <1>3, <1>5 DEF all

(* A leaf for each token.                                                  *)
Leaves(batch) == [k \in DOMAIN batch |-> Node(batch[k], <<>>)]

LEMMA ListedLeaves ==
    ASSUME NEW N, NEW batch \in Seq(DOMAIN N),
           \A k \in 1..Len(batch) : Gives(N, batch[k], Node(batch[k], <<>>))
    PROVE  Listed(N, batch, Leaves(batch)) /\ Len(Leaves(batch)) = Len(batch)
<1> DEFINE V == Values(N)
           leaves == Leaves(batch)
<1>1. Len(batch) \in Nat /\ DOMAIN batch = 1..Len(batch)
  BY LenProperties
<1>2. \A k \in 1..Len(batch) : leaves[k] = Node(batch[k], <<>>)
  BY <1>1 DEF Leaves
<1>3. DOMAIN leaves = 1..Len(batch)
  BY <1>1 DEF Leaves
<1>4. \A k \in 1..Len(batch) : leaves[k] \in V
  <2> SUFFICES ASSUME NEW k \in 1..Len(batch)
               PROVE  Node(batch[k], <<>>) \in V
    BY <1>2
  <2>1. batch[k] \in DOMAIN N
    BY ElementOfSeq
  <2> QED  BY <2>1, GivesValue
<1>5. leaves = [k \in 1..Len(batch) |-> leaves[k]]
  BY <1>1 DEF Leaves
<1> HIDE DEF V, leaves
<1>6. leaves \in Seq(V) /\ Len(leaves) = Len(batch)
  <2>1. [k \in 1..Len(batch) |-> leaves[k]] \in Seq(V)
    BY <1>1, <1>4, IsASeq
  <2>2. leaves \in Seq(V)
    BY <1>5, <2>1
  <2> QED  BY <1>1, <1>3, <2>2, LenProperties
<1>7. Listed(N, batch, leaves)
  BY <1>2, <1>6 DEF Listed, V
<1> QED  BY <1>6, <1>7 DEF leaves

(* A parse frame, with its tokens, of which the next is not yet taken.     *)
FrameFields == {"tokens", "next", "nodes", "state", "given",
                "batch", "lenient", "wants", "asked", "made"}
IsFrame(t, f) ==
    /\ FrameFields \subseteq DOMAIN f
    /\ f.tokens \in Seq(DOMAIN t.children)
    /\ f.next \in 1..(Len(f.tokens) + 1)

(* It has the nodes of its first m tokens.                                 *)
Settled(N, f, m) == Listed(N, f.tokens, f.nodes) /\ Len(f.nodes) = m

(* Its batch are the tokens that were taken last.                          *)
Batched(t, f) ==
    /\ f.batch \in Seq(DOMAIN t.children)
    /\ Len(f.batch) \in 1..(f.next - 1)
    /\ \A k \in 1..Len(f.batch) : f.batch[k] = f.tokens[f.next - 1 - Len(f.batch) + k]

(* Its generator has the nodes of the first m tokens of the batch.         *)
MadeOf(N, f, m) == Listed(N, f.batch, f.made) /\ Len(f.made) = m

(* The generator asks for the children of each token of the batch.         *)
AsksChildren(t, D, f) ==
    /\ f.lenient \in BOOLEAN
    /\ \A k \in 1..Len(f.batch) : D[f.batch[k]] = IF f.lenient THEN "lenient" ELSE "children"
    /\ f.wants = [k \in 1..Len(f.batch) |-> t.children[f.batch[k]]]

(* It asks for the tokens of the batch themselves.                         *)
AsksAgain(t, D, f) ==
    /\ D[f.batch[1]] = "again" /\ f.lenient = FALSE /\ f.wants = <<f.batch>>
    /\ (f.state = "initial" /\ f.asked = 0 /\ f.given = <<>>) \/ f.state = "error"

(* What a frame has when its generator is asked for the next list.         *)
Ready(t, D, N, f) ==
    /\ IsFrame(t, f) /\ Batched(t, f) /\ Settled(N, f, f.next - 1 - Len(f.batch))
    /\ AsksChildren(t, D, f)
    /\ f.asked \in 0..Len(f.batch) /\ MadeOf(N, f, f.asked) /\ f.given = <<>>

(* What it has once it asked, and what it was given.                       *)
Asked(t, D, N, f) ==
    /\ IsFrame(t, f) /\ Batched(t, f) /\ Settled(N, f, f.next - 1 - Len(f.batch))
    /\ AsksChildren(t, D, f)
    /\ f.asked \in 1..Len(f.batch) /\ MadeOf(N, f, f.asked - 1)
    /\ f.state = "waiting" => f.given = <<>>
    /\ f.state = "nodes" => ListGives(N, t.children[f.batch[f.asked]], f.given)
    /\ f.state = "error" =>
         /\ ListFails(N, t.children[f.batch[f.asked]])
         /\ f.given = <<>> /\ t.phase = "block"

AskedAgain(t, D, N, f) ==
    /\ IsFrame(t, f) /\ Batched(t, f) /\ AsksAgain(t, D, f)

Listing(t, N, f) == IsFrame(t, f) /\ Settled(N, f, f.next - 1) /\ f.given = <<>>

Progress(t, D, N, f) ==
    \/ f.state = "none" /\ Listing(t, N, f)
    \/ f.state = "initial" /\ Ready(t, D, N, f) /\ f.asked = 0
    \/ f.state \in {"waiting", "nodes", "error"} /\ Asked(t, D, N, f)
    \/ f.state \in {"initial", "error"} /\ AskedAgain(t, D, N, f)

(* The nodes N are those of the tree t and its hooks D.                    *)
Answers(t, D, N) ==
    /\ IsTree(t) /\ DOMAIN N = DOMAIN t.children
    /\ \A x \in DOMAIN t.children : Follows(t, D, N, x)

LEMMA TreeAnswers ==
    ASSUME IsTree(tree)
    PROVE  Answers(tree, Hooks, NodeOf)
<1>1. DOMAIN NodeOf = DOMAIN tree.children
  BY NodeOfEquation
<1>2. \A x \in DOMAIN tree.children : Follows(tree, Hooks, NodeOf, x)
  BY NodeFollows
<1> QED  BY <1>1, <1>2 DEF Answers

-----------------------------------------------------------------------------
(* A frame and its tokens                                                  *)

LEMMA FrameTokens ==
    ASSUME NEW t, NEW f, IsFrame(t, f)
    PROVE  /\ Len(f.tokens) \in Nat /\ DOMAIN f.tokens = 1..Len(f.tokens)
           /\ f.next \in Nat \ {0} /\ f.next <= Len(f.tokens) + 1
           /\ \A k \in 1..Len(f.tokens) : f.tokens[k] \in DOMAIN t.children
<1>1. f.tokens \in Seq(DOMAIN t.children) /\ f.next \in 1..(Len(f.tokens) + 1)
  BY DEF IsFrame
<1>2. Len(f.tokens) \in Nat /\ DOMAIN f.tokens = 1..Len(f.tokens)
  BY <1>1, LenProperties
<1>3. \A k \in 1..Len(f.tokens) : f.tokens[k] \in DOMAIN t.children
  BY <1>1, ElementOfSeq
<1>4. f.next \in Nat \ {0} /\ f.next <= Len(f.tokens) + 1
  BY <1>1, <1>2
<1> QED  BY <1>2, <1>3, <1>4

LEMMA FreshFrame ==
    ASSUME NEW t, NEW D, NEW N, NEW tokens \in Seq(DOMAIN t.children)
    PROVE  Progress(t, D, N, Frame(tokens)) /\ Frame(tokens).tokens = tokens
<1> DEFINE f == Frame(tokens)
<1>1. /\ FrameFields \subseteq DOMAIN f
      /\ f.tokens = tokens /\ f.next = 1 /\ f.nodes = <<>> /\ f.state = "none" /\ f.given = <<>>
  BY DEF Frame, FrameFields
<1>2. Len(tokens) \in Nat
  BY LenProperties
<1> HIDE DEF f
<1>3. IsFrame(t, f)
  BY <1>1, <1>2 DEF IsFrame
<1>4. Settled(N, f, 0)
  BY <1>1, ListedNone DEF Settled
<1>5. f.next - 1 = 0
  BY <1>1
<1>6. Progress(t, D, N, f)
  BY <1>1, <1>3, <1>4, <1>5 DEF Progress, Listing
<1> QED  BY <1>1, <1>6 DEF f

-----------------------------------------------------------------------------
(* Batches                                                                 *)

(* A batch is of the next tokens, all of one name.                         *)
IsBatch(t, f, batch) ==
    /\ batch \in Seq(DOMAIN t.children)
    /\ Len(batch) \in 1..(Len(f.tokens) - f.next + 1)
    /\ \A k \in 1..Len(batch) :
         /\ batch[k] = f.tokens[f.next - 1 + k]
         /\ t.names[batch[k]] = t.names[f.tokens[f.next]]

LEMMA BatchTaken ==
    ASSUME NEW f, IsFrame(tree, f), f.next <= Len(f.tokens)
    PROVE  IsBatch(tree, f, Batch(f))
<1> DEFINE n == Len(f.tokens)
           name(k) == tree.names[f.tokens[k]]
           Ends == {e \in f.next..n : e = n \/ name(e + 1) # name(e)}
<1>1. n \in Nat /\ f.next \in 1..n
  BY FrameTokens
<1>2. n \in Ends
  BY <1>1
<1>3. PICK e \in Ends : \A i \in Ends : e <= i
  <2>1. Ends \subseteq Nat
    BY <1>1
  <2> HIDE DEF Ends
  <2> QED  BY <1>2, <2>1, LowestOf
<1>4. e \in f.next..n /\ (e = n \/ name(e + 1) # name(e))
  BY <1>3
<1>5. \A k \in f.next..e : name(k) = name(f.next)
  <2> DEFINE Others == {k \in f.next..e : name(k) # name(f.next)}
  <2> SUFFICES ASSUME Others # {} PROVE FALSE
    OBVIOUS
  <2>1. PICK k \in Others : \A i \in Others : k <= i
    <3>1. Others \subseteq Nat
      BY <1>1, <1>4
    <3> HIDE DEF Others
    <3> QED  BY <3>1, LowestOf
  <2>2. k \in f.next..e /\ name(k) # name(f.next)
    BY <2>1
  <2>3. /\ k - 1 \in f.next..e /\ k - 1 \notin Others /\ k - 1 < e /\ k - 1 + 1 = k
        /\ k - 1 \in f.next..n
    BY <1>1, <1>4, <2>1, <2>2
  <2>4. name(k - 1) = name(f.next)
    BY <2>3
  <2>5. name((k - 1) + 1) # name(k - 1)
    BY <2>2, <2>3, <2>4
  <2>6. k - 1 \in Ends
    BY <2>3, <2>5
  <2>7. e <= k - 1
    BY <1>3, <2>6
  <2> QED  BY <1>1, <1>4, <2>3, <2>7
<1> DEFINE last == CHOOSE l \in f.next..n :
                     /\ \A k \in f.next..l : name(k) = name(f.next)
                     /\ l = n \/ name(l + 1) # name(l)
<1>6. last \in f.next..n /\ \A k \in f.next..last : name(k) = name(f.next)
  BY <1>4, <1>5
<1>7. Batch(f) = SubSeq(f.tokens, f.next, last)
  BY DEF Batch
<1> HIDE DEF last
<1> DEFINE S == DOMAIN tree.children
           batch == Batch(f)
<1>8. /\ batch \in Seq(S)
      /\ Len(batch) = last - f.next + 1
      /\ \A i \in 1..(last - f.next + 1) : batch[i] = f.tokens[f.next + i - 1]
  <2>1. f.next \in Int /\ last \in Int /\ f.next <= last
    BY <1>1, <1>6
  <2>2. \A i \in f.next..last : f.tokens[i] \in S
    BY <1>1, <1>6, FrameTokens
  <2> HIDE DEF S, n, batch
  <2>3. /\ SubSeq(f.tokens, f.next, last) \in Seq(S)
        /\ Len(SubSeq(f.tokens, f.next, last)) = IF f.next <= last THEN last - f.next + 1 ELSE 0
        /\ \A i \in 1..(last - f.next + 1) :
             SubSeq(f.tokens, f.next, last)[i] = f.tokens[f.next + i - 1]
    BY <2>1, <2>2, SubSeqProperties
  <2> QED  BY <1>7, <2>1, <2>3 DEF batch
<1> HIDE DEF batch
<1>9. Len(batch) \in 1..(Len(f.tokens) - f.next + 1)
  BY <1>1, <1>6, <1>8
<1>10. ASSUME NEW k \in 1..Len(batch)
       PROVE  /\ batch[k] = f.tokens[f.next - 1 + k]
              /\ tree.names[batch[k]] = tree.names[f.tokens[f.next]]
  <2>1. k \in 1..(last - f.next + 1) /\ f.next + k - 1 = f.next - 1 + k
        /\ f.next + k - 1 \in f.next..last
    BY <1>1, <1>6, <1>8
  <2>2. batch[k] = f.tokens[f.next + k - 1]
    BY <1>8, <2>1
  <2>3. name(f.next + k - 1) = name(f.next)
    BY <1>6, <2>1
  <2> QED  BY <2>1, <2>2, <2>3
<1> QED  BY <1>8, <1>9, <1>10 DEF IsBatch, batch

(* Its tokens have one hook.                                               *)
LEMMA BatchHook ==
    ASSUME NEW f, IsFrame(tree, f), f.next <= Len(f.tokens), NEW batch, IsBatch(tree, f, batch)
    PROVE  /\ f.tokens[f.next] \in DOMAIN tree.children
           /\ Hooks[f.tokens[f.next]] = Does(f.tokens[f.next])
           /\ \A k \in 1..Len(batch) : /\ batch[k] \in DOMAIN tree.children
                                       /\ Hooks[batch[k]] = Does(f.tokens[f.next])
<1>1. f.tokens[f.next] \in DOMAIN tree.children
  <2>1. f.next \in 1..Len(f.tokens)
    BY FrameTokens
  <2> QED  BY <2>1, FrameTokens
<1>2. ASSUME NEW k \in 1..Len(batch)
      PROVE  batch[k] \in DOMAIN tree.children /\ Hooks[batch[k]] = Does(f.tokens[f.next])
  <2>1. batch[k] \in DOMAIN tree.children
    BY ElementOfSeq DEF IsBatch
  <2>2. Hooks[batch[k]] = Does(batch[k])
    BY <2>1 DEF Hooks
  <2>3. tree.names[batch[k]] = tree.names[f.tokens[f.next]]
    BY DEF IsBatch
  <2> QED  BY <2>1, <2>2, <2>3 DEF Does
<1>3. Hooks[f.tokens[f.next]] = Does(f.tokens[f.next])
  BY <1>1 DEF Hooks
<1> QED  BY <1>1, <1>2, <1>3

(* The fields that a step of a frame does not change.                      *)
LEMMA BatchKept ==
    ASSUME NEW t, NEW f, NEW g, NEW batch, IsFrame(t, f), IsBatch(t, f, batch),
           FrameFields \subseteq DOMAIN g, g.tokens = f.tokens,
           g.next = f.next + Len(batch), g.batch = batch
    PROVE  IsFrame(t, g) /\ Batched(t, g) /\ g.next - 1 - Len(g.batch) = f.next - 1
<1>1. /\ f.next \in Nat \ {0} /\ Len(f.tokens) \in Nat
      /\ Len(batch) \in 1..(Len(f.tokens) - f.next + 1)
      /\ batch \in Seq(DOMAIN t.children)
      /\ \A k \in 1..Len(batch) : batch[k] = f.tokens[f.next - 1 + k]
  BY FrameTokens DEF IsBatch
<1>2. Len(batch) \in Nat /\ g.next \in 1..(Len(g.tokens) + 1)
  BY <1>1
<1>3. IsFrame(t, g)
  BY <1>2 DEF IsFrame
<1>4. Len(g.batch) \in 1..(g.next - 1) /\ g.next - 1 - Len(g.batch) = f.next - 1
  BY <1>1, <1>2
<1>5. Batched(t, g)
  BY <1>1, <1>4 DEF Batched
<1> QED  BY <1>3, <1>4, <1>5

(* All tokens of the batch have this hook.                                 *)
AllOf(D, batch, hook) == \A k \in 1..Len(batch) : D[batch[k]] = hook

WithLeaves(f, batch) == [f EXCEPT !.next = @ + Len(batch), !.nodes = @ \o Leaves(batch)]

LEMMA TakesLeaves ==
    ASSUME NEW t, NEW D, NEW N, Answers(t, D, N), NEW f, f.state = "none", Listing(t, N, f),
           NEW batch, IsBatch(t, f, batch), AllOf(D, batch, "nodes")
    PROVE  /\ Progress(t, D, N, WithLeaves(f, batch))
           /\ WithLeaves(f, batch).tokens = f.tokens
<1> DEFINE g == WithLeaves(f, batch)
<1>1. /\ FrameFields \subseteq DOMAIN f /\ f.given = <<>>
      /\ f.next \in Nat \ {0} /\ Len(f.tokens) \in Nat
  BY FrameTokens DEF Listing, IsFrame
<1>2. /\ FrameFields \subseteq DOMAIN g /\ g.tokens = f.tokens /\ g.state = "none"
      /\ g.given = <<>>
      /\ g.next = f.next + Len(batch) /\ g.nodes = f.nodes \o Leaves(batch)
  BY <1>1 DEF FrameFields, WithLeaves
<1> HIDE DEF g
<1>3. /\ batch \in Seq(DOMAIN N) /\ Len(batch) \in 1..(Len(f.tokens) - f.next + 1)
      /\ \A k \in 1..Len(batch) : batch[k] = f.tokens[f.next - 1 + k]
  BY DEF IsBatch, Answers
<1>4. \A k \in 1..Len(batch) : Gives(N, batch[k], Node(batch[k], <<>>))
  <2> SUFFICES ASSUME NEW k \in 1..Len(batch)
               PROVE  Gives(N, batch[k], Node(batch[k], <<>>))
    OBVIOUS
  <2>1. batch[k] \in DOMAIN t.children
    BY <1>3, ElementOfSeq DEF Answers
  <2>2. Follows(t, D, N, batch[k]) /\ D[batch[k]] = "nodes"
    BY <2>1 DEF Answers, AllOf
  <2> QED  BY <2>2 DEF Follows
<1>5. Listed(N, batch, Leaves(batch)) /\ Len(Leaves(batch)) = Len(batch)
  BY <1>3, <1>4, ListedLeaves
<1>6. Listed(N, f.tokens, f.nodes) /\ Len(f.nodes) = f.next - 1
  BY DEF Listing, Settled
<1>7. \A k \in 1..Len(Leaves(batch)) : batch[k] = f.tokens[Len(f.nodes) + k]
  BY <1>3, <1>5, <1>6
<1>8. /\ Listed(N, f.tokens, g.nodes)
      /\ Len(g.nodes) = Len(f.nodes) + Len(Leaves(batch))
  <2>1. /\ Listed(N, f.tokens, f.nodes \o Leaves(batch))
        /\ Len(f.nodes \o Leaves(batch)) = Len(f.nodes) + Len(Leaves(batch))
    BY <1>5, <1>6, <1>7, ListedMore
  <2> QED  BY <1>2, <2>1
<1>9. Len(g.nodes) = g.next - 1 /\ g.next \in 1..(Len(g.tokens) + 1)
  <2> DEFINE taken == Len(batch)
             all == Len(f.tokens)
  <2>1. taken \in 1..(all - f.next + 1) /\ all \in Nat /\ f.next \in Nat \ {0}
    BY <1>1, <1>3
  <2>2. Len(g.nodes) = (f.next - 1) + taken /\ g.next = f.next + taken /\ Len(g.tokens) = all
    BY <1>2, <1>5, <1>6, <1>8
  <2> HIDE DEF taken, all
  <2> QED  BY <2>1, <2>2
<1>10. IsFrame(t, g)
  BY <1>2, <1>9 DEF IsFrame, Listing
<1>11. Settled(N, g, g.next - 1)
  BY <1>2, <1>8, <1>9 DEF Settled
<1> QED  BY <1>2, <1>10, <1>11 DEF Progress, Listing, g

ChildrenOf(t, batch) == [k \in DOMAIN batch |-> t.children[batch[k]]]

LEMMA TakesChildren ==
    ASSUME NEW t, NEW D, NEW N, NEW f, f.state = "none", Listing(t, N, f),
           NEW batch, IsBatch(t, f, batch), NEW lenient \in BOOLEAN,
           AllOf(D, batch, IF lenient THEN "lenient" ELSE "children")
    PROVE  /\ Progress(t, D, N, Asking(f, batch, ChildrenOf(t, batch), lenient))
           /\ Asking(f, batch, ChildrenOf(t, batch), lenient).tokens = f.tokens
<1> DEFINE wants == ChildrenOf(t, batch)
           g == Asking(f, batch, wants, lenient)
<1>1. FrameFields \subseteq DOMAIN f /\ f.given = <<>> /\ IsFrame(t, f)
  BY DEF Listing, IsFrame
<1>2. /\ FrameFields \subseteq DOMAIN g /\ g.tokens = f.tokens /\ g.state = "initial"
      /\ g.given = <<>> /\ g.nodes = f.nodes
      /\ g.next = f.next + Len(batch) /\ g.batch = batch
      /\ g.lenient = lenient /\ g.wants = wants /\ g.asked = 0 /\ g.made = <<>>
  BY <1>1 DEF FrameFields, Asking
<1> HIDE DEF g
<1>3. IsFrame(t, g) /\ Batched(t, g) /\ g.next - 1 - Len(g.batch) = f.next - 1
  BY <1>1, <1>2, BatchKept
<1>4. DOMAIN batch = 1..Len(batch) /\ Len(batch) \in Nat
  BY LenProperties DEF IsBatch
<1>5. AsksChildren(t, D, g)
  <2>1. g.wants = [k \in 1..Len(g.batch) |-> t.children[g.batch[k]]]
    BY <1>2, <1>4 DEF ChildrenOf
  <2>2. \A k \in 1..Len(g.batch) : D[g.batch[k]] = IF g.lenient THEN "lenient" ELSE "children"
    BY <1>2 DEF AllOf
  <2>3. g.lenient \in BOOLEAN
    BY <1>2
  <2> QED  BY <2>1, <2>2, <2>3 DEF AsksChildren
<1>6. Settled(N, g, g.next - 1 - Len(g.batch))
  BY <1>2, <1>3 DEF Listing, Settled
<1>7. MadeOf(N, g, g.asked)
  BY <1>2, ListedNone DEF MadeOf
<1>8. g.asked \in 0..Len(g.batch)
  BY <1>2, <1>4
<1>9. Ready(t, D, N, g)
  BY <1>2, <1>3, <1>5, <1>6, <1>7, <1>8 DEF Ready
<1> QED  BY <1>2, <1>9 DEF Progress, g

AskingAgain(f, batch) == Asking(f, batch, <<batch>>, FALSE)

LEMMA TakesAgain ==
    ASSUME NEW t, NEW D, NEW N, NEW f, f.state = "none", Listing(t, N, f),
           NEW batch, IsBatch(t, f, batch), AllOf(D, batch, "again")
    PROVE  /\ Progress(t, D, N, AskingAgain(f, batch))
           /\ AskingAgain(f, batch).tokens = f.tokens
<1> DEFINE g == AskingAgain(f, batch)
<1>1. FrameFields \subseteq DOMAIN f /\ f.given = <<>> /\ IsFrame(t, f)
  BY DEF Listing, IsFrame
<1>2. /\ FrameFields \subseteq DOMAIN g /\ g.tokens = f.tokens /\ g.state = "initial"
      /\ g.given = <<>>
      /\ g.next = f.next + Len(batch) /\ g.batch = batch
      /\ g.lenient = FALSE /\ g.wants = <<batch>> /\ g.asked = 0
  BY <1>1 DEF FrameFields, AskingAgain, Asking
<1> HIDE DEF g
<1>3. IsFrame(t, g) /\ Batched(t, g)
  BY <1>1, <1>2, BatchKept
<1>4. 1 \in 1..Len(batch)
  <2>1. Len(f.tokens) \in Nat /\ f.next \in Nat
    BY <1>1, FrameTokens
  <2>2. Len(batch) \in 1..(Len(f.tokens) - f.next + 1)
    BY DEF IsBatch
  <2> QED  BY <2>1, <2>2
<1>5. D[g.batch[1]] = "again"
  BY <1>2, <1>4 DEF AllOf
<1>6. AskedAgain(t, D, N, g)
  BY <1>2, <1>3, <1>5 DEF AskedAgain, AsksAgain
<1> QED  BY <1>2, <1>6 DEF Progress, g

(* A token that has no node leaves its list without.                       *)
LEMMA TokenFails ==
    ASSUME NEW t, NEW N, NEW f, IsFrame(t, f), f.next <= Len(f.tokens),
           Fails(N, f.tokens[f.next])
    PROVE  ListFails(N, f.tokens)
<1>1. f.next \in DOMAIN f.tokens
  BY FrameTokens
<1> QED  BY <1>1, OneFails

LEMMA BatchFails ==
    ASSUME NEW t, NEW N, NEW f, IsFrame(t, f), Batched(t, f), NEW k \in 1..Len(f.batch),
           Fails(N, f.batch[k])
    PROVE  ListFails(N, f.tokens)
<1>1. /\ f.next \in Nat \ {0} /\ f.next <= Len(f.tokens) + 1 /\ Len(f.tokens) \in Nat
      /\ DOMAIN f.tokens = 1..Len(f.tokens)
  BY FrameTokens
<1>2. Len(f.batch) \in 1..(f.next - 1) /\ f.batch[k] = f.tokens[f.next - 1 - Len(f.batch) + k]
  BY DEF Batched
<1>3. f.next - 1 - Len(f.batch) + k \in DOMAIN f.tokens
  BY <1>1, <1>2
<1> QED  BY <1>2, <1>3, OneFails

LEMMA BatchToken ==
    ASSUME NEW t, NEW f, IsFrame(t, f), Batched(t, f), NEW k \in 1..Len(f.batch)
    PROVE  f.batch[k] \in Range(f.tokens) /\ f.batch[k] \in DOMAIN t.children
<1> DEFINE x == f.batch[k]
           at == f.next - 1 - Len(f.batch) + k
<1>1. /\ f.next \in Nat \ {0} /\ f.next <= Len(f.tokens) + 1 /\ Len(f.tokens) \in Nat
      /\ DOMAIN f.tokens = 1..Len(f.tokens)
  BY FrameTokens
<1>2. Len(f.batch) \in 1..(f.next - 1) /\ x = f.tokens[at]
  BY DEF Batched
<1>3. at \in DOMAIN f.tokens
  <2> DEFINE size == Len(f.batch)
             all == Len(f.tokens)
  <2>1. /\ f.next \in Nat \ {0} /\ f.next <= all + 1 /\ all \in Nat /\ size \in 1..(f.next - 1)
        /\ DOMAIN f.tokens = 1..all /\ k \in 1..size /\ at = f.next - 1 - size + k
    BY <1>1, <1>2
  <2> HIDE DEF size, all, at
  <2>2. size \in Nat /\ k \in Nat
    BY <2>1
  <2>3. f.next - 1 - size + k \in 1..all
    BY <2>1, <2>2
  <2> QED  BY <2>1, <2>3
<1>4. x \in DOMAIN t.children
  BY ElementOfSeq DEF Batched
<1> HIDE DEF x, at
<1>5. x \in Range(f.tokens)
  BY <1>2, <1>3 DEF Range
<1> QED  BY <1>4, <1>5 DEF x

(* The lists that it asks for are those of the tokens of the batch.        *)
LEMMA WantedOf ==
    ASSUME NEW t, NEW D, NEW f, IsFrame(t, f), Batched(t, f), AsksChildren(t, D, f)
    PROVE  /\ Len(f.batch) \in Nat \ {0} /\ Len(f.wants) = Len(f.batch)
           /\ \A k \in 1..Len(f.batch) :
                /\ f.batch[k] \in DOMAIN t.children
                /\ f.wants[k] = t.children[f.batch[k]]
                /\ D[f.batch[k]] = IF f.lenient THEN "lenient" ELSE "children"
<1>1. f.batch \in Seq(DOMAIN t.children) /\ Len(f.batch) \in 1..(f.next - 1)
  BY DEF Batched
<1>2. Len(f.batch) \in Nat \ {0}
  <2>1. Len(f.batch) \in Nat /\ f.next \in Nat
    BY <1>1, LenProperties, FrameTokens
  <2> QED  BY <1>1, <2>1
<1>3. f.wants = [k \in 1..Len(f.batch) |-> t.children[f.batch[k]]]
  BY DEF AsksChildren
<1>4. Len(f.wants) = Len(f.batch)
  BY <1>2, <1>3
<1>5. \A k \in 1..Len(f.batch) : f.batch[k] \in DOMAIN t.children
  BY <1>1, ElementOfSeq
<1> QED  BY <1>2, <1>3, <1>4, <1>5 DEF AsksChildren

(* The token whose children were asked for has its node.                   *)
LEMMA AskedGives ==
    ASSUME NEW t, NEW D, NEW N, Answers(t, D, N), NEW f, Asked(t, D, N, f),
           \/ f.state = "nodes"
           \/ f.state = "error" /\ f.lenient
    PROVE  /\ f.batch[f.asked] \in DOMAIN t.children
           /\ Gives(N, f.batch[f.asked], Node(f.batch[f.asked], f.given))
<1> DEFINE x == f.batch[f.asked]
<1>1. f.asked \in 1..Len(f.batch) /\ IsFrame(t, f) /\ Batched(t, f) /\ AsksChildren(t, D, f)
  BY DEF Asked
<1>2. x \in DOMAIN t.children /\ D[x] = IF f.lenient THEN "lenient" ELSE "children"
  BY <1>1, WantedOf
<1>3. Follows(t, D, N, x)
  BY <1>2 DEF Answers
<1>4. CASE f.state = "nodes"
  <2>1. ListGives(N, t.children[x], f.given)
    BY <1>4 DEF Asked
  <2>2. D[x] \in {"children", "lenient"}
    BY <1>2
  <2> QED  BY <1>2, <1>3, <2>1, <2>2 DEF Follows
<1>5. CASE f.state = "error" /\ f.lenient
  <2>1. ListFails(N, t.children[x]) /\ f.given = <<>> /\ t.phase = "block"
    BY <1>5 DEF Asked
  <2>2. D[x] = "lenient"
    BY <1>2, <1>5
  <2> QED  BY <1>2, <1>3, <2>1, <2>2 DEF Follows
<1> QED  BY <1>4, <1>5

(* A generator has the node of one more token.                             *)
WithMade(f) ==
    [f EXCEPT !.made = Append(@, Node(f.batch[f.asked], f.given)), !.given = <<>>]

LEMMA Resumes ==
    ASSUME NEW t, NEW D, NEW N, Answers(t, D, N), NEW f, Asked(t, D, N, f),
           \/ f.state = "nodes"
           \/ f.state = "error" /\ f.lenient
    PROVE  Ready(t, D, N, WithMade(f)) /\ WithMade(f).tokens = f.tokens
<1> DEFINE x == f.batch[f.asked]
           g == WithMade(f)
           node == Node(x, f.given)
<1>1. /\ IsFrame(t, f) /\ Batched(t, f) /\ AsksChildren(t, D, f)
      /\ Settled(N, f, f.next - 1 - Len(f.batch))
      /\ f.asked \in 1..Len(f.batch) /\ MadeOf(N, f, f.asked - 1)
  BY DEF Asked
<1>2. Len(f.batch) \in Nat \ {0}
  BY <1>1, WantedOf
<1>3. FrameFields \subseteq DOMAIN f
  BY <1>1 DEF IsFrame
<1>4. x \in DOMAIN N /\ Gives(N, x, node)
  BY AskedGives DEF Answers
<1> HIDE DEF node
<1>5. /\ FrameFields \subseteq DOMAIN g /\ g.tokens = f.tokens /\ g.next = f.next
      /\ g.nodes = f.nodes /\ g.batch = f.batch /\ g.lenient = f.lenient
      /\ g.wants = f.wants /\ g.asked = f.asked /\ g.given = <<>>
      /\ g.made = Append(f.made, node)
  BY <1>3 DEF FrameFields, WithMade, node
<1> HIDE DEF g
<1>6. Listed(N, f.batch, f.made) /\ Len(f.made) = f.asked - 1 /\ Len(f.made) + 1 = f.asked
  BY <1>1, <1>2 DEF MadeOf
<1>7. f.batch[Len(f.made) + 1] = x
  BY <1>6
<1>8. Listed(N, f.batch, Append(f.made, node)) /\ Len(Append(f.made, node)) = f.asked
  <2>1. f.batch[Len(f.made) + 1] \in DOMAIN N /\ Gives(N, f.batch[Len(f.made) + 1], node)
    BY <1>4, <1>7
  <2>2. /\ Listed(N, f.batch, Append(f.made, node))
        /\ Len(Append(f.made, node)) = Len(f.made) + 1
    BY <1>6, <2>1, ListedNext
  <2> QED  BY <1>6, <2>2
<1>9. MadeOf(N, g, g.asked)
  BY <1>5, <1>8 DEF MadeOf
<1>10. g.asked \in 0..Len(g.batch)
  BY <1>1, <1>2, <1>5
<1>11. IsFrame(t, g) /\ Batched(t, g)
  BY <1>1, <1>5 DEF IsFrame, Batched
<1>12. AsksChildren(t, D, g) /\ Settled(N, g, g.next - 1 - Len(g.batch))
  BY <1>1, <1>5 DEF AsksChildren, Settled
<1> QED  BY <1>5, <1>9, <1>10, <1>11, <1>12 DEF Ready, g

Completed(f) == [f EXCEPT !.state = "none", !.nodes = @ \o f.made]

LEMMA Completes ==
    ASSUME NEW t, NEW D, NEW N, NEW f, Ready(t, D, N, f), f.asked = Len(f.wants)
    PROVE  Progress(t, D, N, Completed(f)) /\ Completed(f).tokens = f.tokens
<1> DEFINE g == Completed(f)
<1>1. /\ IsFrame(t, f) /\ Batched(t, f) /\ AsksChildren(t, D, f)
      /\ Settled(N, f, f.next - 1 - Len(f.batch)) /\ MadeOf(N, f, f.asked) /\ f.given = <<>>
  BY DEF Ready
<1>2. f.asked = Len(f.batch) /\ Len(f.batch) \in Nat /\ f.next \in Nat
  BY <1>1, WantedOf, FrameTokens
<1>3. FrameFields \subseteq DOMAIN f
  BY <1>1 DEF IsFrame
<1>4. /\ FrameFields \subseteq DOMAIN g /\ g.tokens = f.tokens /\ g.next = f.next
      /\ g.state = "none" /\ g.given = <<>> /\ g.nodes = f.nodes \o f.made
  BY <1>1, <1>3 DEF FrameFields, Completed
<1> HIDE DEF g
<1>5. /\ Listed(N, f.tokens, f.nodes) /\ Len(f.nodes) = f.next - 1 - Len(f.batch)
      /\ Listed(N, f.batch, f.made) /\ Len(f.made) = Len(f.batch)
  BY <1>1, <1>2 DEF Settled, MadeOf
<1>6. \A k \in 1..Len(f.made) : f.batch[k] = f.tokens[Len(f.nodes) + k]
  BY <1>1, <1>5 DEF Batched
<1>7. /\ Listed(N, f.tokens, f.nodes \o f.made)
      /\ Len(f.nodes \o f.made) = Len(f.nodes) + Len(f.made)
  <2> DEFINE tokens == f.tokens
             nodes == f.nodes
             batch == f.batch
             others == f.made
  <2>1. Listed(N, tokens, nodes) /\ Listed(N, batch, others)
    BY <1>5
  <2>2. \A k \in 1..Len(others) : batch[k] = tokens[Len(nodes) + k]
    BY <1>6
  <2> HIDE DEF tokens, nodes, batch, others
  <2>3. /\ Listed(N, tokens, nodes \o others)
        /\ Len(nodes \o others) = Len(nodes) + Len(others)
    BY <2>1, <2>2, ListedMore
  <2> QED  BY <2>3 DEF tokens, nodes, others
<1>8. Len(f.nodes \o f.made) = f.next - 1
  BY <1>2, <1>5, <1>7
<1>9. Settled(N, g, g.next - 1)
  BY <1>4, <1>7, <1>8 DEF Settled
<1>10. IsFrame(t, g)
  BY <1>1, <1>4 DEF IsFrame
<1> QED  BY <1>4, <1>9, <1>10 DEF Progress, Listing, g

(* It asks for the next list, and is given the nodes of an empty one.      *)
AskedNext(f, state) == [[f EXCEPT !.asked = @ + 1] EXCEPT !.state = state]

MayAsk(f, state) ==
    /\ f.asked < Len(f.wants)
    /\ \/ state = "waiting"
       \/ state = "nodes" /\ f.wants[f.asked + 1] = <<>>

LEMMA AsksNext ==
    ASSUME NEW t, NEW D, NEW N, NEW f, Ready(t, D, N, f), NEW state, MayAsk(f, state)
    PROVE  LET g == AskedNext(f, state)
           IN /\ Progress(t, D, N, g) /\ g.tokens = f.tokens
              /\ g.batch[g.asked] \in Range(f.tokens)
              /\ g.batch[g.asked] \in DOMAIN t.children
              /\ f.wants[f.asked + 1] = t.children[g.batch[g.asked]]
<1> DEFINE g == AskedNext(f, state)
           x == f.batch[f.asked + 1]
<1>1. /\ IsFrame(t, f) /\ Batched(t, f) /\ AsksChildren(t, D, f)
      /\ Settled(N, f, f.next - 1 - Len(f.batch)) /\ MadeOf(N, f, f.asked)
      /\ f.asked \in 0..Len(f.batch) /\ f.given = <<>>
  BY DEF Ready
<1>2. Len(f.batch) \in Nat /\ f.asked + 1 \in 1..Len(f.batch) /\ f.asked + 1 - 1 = f.asked
  BY <1>1, WantedOf DEF MayAsk
<1>3. FrameFields \subseteq DOMAIN f
  BY <1>1 DEF IsFrame
<1>4. /\ FrameFields \subseteq DOMAIN g /\ g.tokens = f.tokens /\ g.next = f.next
      /\ g.nodes = f.nodes /\ g.batch = f.batch /\ g.lenient = f.lenient
      /\ g.wants = f.wants /\ g.asked = f.asked + 1 /\ g.given = <<>> /\ g.made = f.made
      /\ g.state = state
  BY <1>1, <1>3 DEF FrameFields, AskedNext
<1> HIDE DEF g
<1>5. x \in DOMAIN t.children /\ f.wants[f.asked + 1] = t.children[x]
  BY <1>1, <1>2, WantedOf
<1>6. x \in Range(f.tokens)
  BY <1>1, <1>2, BatchToken
<1>7. IsFrame(t, g) /\ Batched(t, g)
  BY <1>1, <1>4 DEF IsFrame, Batched
<1>8. AsksChildren(t, D, g) /\ Settled(N, g, g.next - 1 - Len(g.batch))
  BY <1>1, <1>4 DEF AsksChildren, Settled
<1>9. MadeOf(N, g, g.asked - 1) /\ g.asked \in 1..Len(g.batch)
  BY <1>1, <1>2, <1>4 DEF MadeOf
<1>10. g.batch[g.asked] = x
  BY <1>4
<1>11. state = "nodes" => ListGives(N, t.children[x], g.given)
  BY <1>4, <1>5, NoneGive DEF MayAsk
<1>12. Asked(t, D, N, g)
  BY <1>4, <1>7, <1>8, <1>9, <1>10, <1>11 DEF Asked, MayAsk
<1>13. Progress(t, D, N, g)
  BY <1>4, <1>12 DEF Progress, MayAsk
<1> QED  BY <1>4, <1>5, <1>6, <1>10, <1>13 DEF g

(* What a frame for these tokens may end with.                             *)
SettlesAs(t, N, tokens, state, nodes) ==
    \/ state = "nodes" /\ ListGives(N, tokens, nodes)
    \/ /\ state = "error" /\ ListFails(N, tokens)
       /\ nodes = <<>> /\ t.phase = "block"

(* A frame that waits is given what the one above it ends with.            *)
LEMMA IsGiven ==
    ASSUME NEW t, NEW D, NEW N, NEW f, f.state = "waiting", Asked(t, D, N, f),
           NEW state, NEW nodes,
           SettlesAs(t, N, t.children[f.batch[f.asked]], state, nodes)
    PROVE  /\ Progress(t, D, N, Given(f, state, nodes))
           /\ Given(f, state, nodes).tokens = f.tokens
<1> DEFINE g == Given(f, state, nodes)
<1>1. /\ IsFrame(t, f) /\ Batched(t, f) /\ AsksChildren(t, D, f)
      /\ Settled(N, f, f.next - 1 - Len(f.batch)) /\ MadeOf(N, f, f.asked - 1)
      /\ f.asked \in 1..Len(f.batch)
  BY DEF Asked
<1>2. FrameFields \subseteq DOMAIN f
  BY <1>1 DEF IsFrame
<1>3. /\ FrameFields \subseteq DOMAIN g /\ g.tokens = f.tokens /\ g.next = f.next
      /\ g.nodes = f.nodes /\ g.batch = f.batch /\ g.lenient = f.lenient
      /\ g.wants = f.wants /\ g.asked = f.asked /\ g.given = nodes /\ g.made = f.made
      /\ g.state = state
  BY <1>2 DEF FrameFields, Given
<1> HIDE DEF g
<1>4. IsFrame(t, g) /\ Batched(t, g)
  BY <1>1, <1>3 DEF IsFrame, Batched
<1>5. AsksChildren(t, D, g) /\ Settled(N, g, g.next - 1 - Len(g.batch))
  BY <1>1, <1>3 DEF AsksChildren, Settled
<1>6. MadeOf(N, g, g.asked - 1) /\ g.asked \in 1..Len(g.batch)
  BY <1>1, <1>3 DEF MadeOf
<1>7. g.batch[g.asked] = f.batch[f.asked]
  BY <1>3
<1>8. Asked(t, D, N, g)
  BY <1>3, <1>4, <1>5, <1>6, <1>7 DEF Asked, SettlesAs
<1>9. Progress(t, D, N, g)
  BY <1>3, <1>8 DEF Progress, SettlesAs
<1> QED  BY <1>3, <1>9 DEF g

(* The list of a frame fails with the list that it asked for, unless it    *)
(* does not mind.                                                          *)
LEMMA AskedFails ==
    ASSUME NEW t, NEW D, NEW N, Answers(t, D, N), NEW f, Asked(t, D, N, f),
           ListFails(N, t.children[f.batch[f.asked]]),
           t.phase # "block" \/ ~ f.lenient
    PROVE  ListFails(N, f.tokens)
<1> DEFINE x == f.batch[f.asked]
<1>1. f.asked \in 1..Len(f.batch) /\ IsFrame(t, f) /\ Batched(t, f) /\ AsksChildren(t, D, f)
  BY DEF Asked
<1>2. x \in DOMAIN t.children /\ D[x] = IF f.lenient THEN "lenient" ELSE "children"
  BY <1>1, WantedOf
<1>3. Follows(t, D, N, x)
  BY <1>2 DEF Answers
<1>4. Fails(N, x)
  BY <1>2, <1>3 DEF Follows
<1> QED  BY <1>1, <1>4, BatchFails

LEMMA AgainFails ==
    ASSUME NEW t, NEW D, NEW N, Answers(t, D, N), NEW f, AskedAgain(t, D, N, f)
    PROVE  ListFails(N, f.tokens)
<1>1. IsFrame(t, f) /\ Batched(t, f) /\ D[f.batch[1]] = "again"
  BY DEF AskedAgain, AsksAgain
<1>2. 1 \in 1..Len(f.batch)
  <2>1. Len(f.batch) \in Nat /\ f.next \in Nat
    BY <1>1, LenProperties, FrameTokens DEF Batched
  <2> QED  BY <1>1, <2>1 DEF Batched
<1>3. f.batch[1] \in DOMAIN t.children
  BY <1>1, <1>2, ElementOfSeq DEF Batched
<1>4. Fails(N, f.batch[1])
  BY <1>1, <1>3 DEF Answers, Follows
<1> QED  BY <1>1, <1>2, <1>4, BatchFails

(* The frame g is for the children of the token that f asked for last.     *)
Joined(t, f, g) == g.tokens = t.children[f.batch[f.asked]]

(* What the parse ended with is what the tokens give.                      *)
Ends(t, N, r) == IF r[1] = "error" THEN ListFails(N, t.roots) ELSE ListGives(N, t.roots, r[2])

(* The frames are on the way to the nodes of the tree.                     *)
OnTheWay(t, D, N, fs, r) ==
    /\ fs # <<>> \/ r # "running" => IsTree(t)
    /\ fs # <<>> => r = "running" /\ fs[1].tokens = t.roots
    /\ \A i \in DOMAIN fs : Progress(t, D, N, fs[i])
    /\ \A i \in DOMAIN fs : i < Len(fs) => Joined(t, fs[i], fs[i + 1])
    /\ r # "running" => Ends(t, N, r)

Working == OnTheWay(tree, Hooks, NodeOf, frames, result)

LEMMA WorkingStays ==
    ASSUME UNCHANGED <<tree, hooks>>, OnTheWay(tree, Hooks, NodeOf, frames', result')
    PROVE  Working'
<1>1. tree' = tree /\ Hooks' = Hooks /\ NodeOf' = NodeOf
  BY SameNodes
<1>2. Working' = OnTheWay(tree', Hooks', NodeOf', frames', result')
  BY DEF Working
<1> QED  BY <1>1, <1>2

LEMMA WorkingEnds == Working => NodesOfTree
<1>1. \A tokens : NodesOf(tokens) = ListOf(NodeOf, tokens)
  BY DEF NodesOf, ListOf
<1> QED  BY <1>1 DEF Working, OnTheWay, Ends, ListFails, ListGives, NodesOfTree

(* What is known of a tree that is being parsed.                           *)
LEMMA AtWork ==
    ASSUME IInv, Working, frames # <<>>
    PROVE  /\ Answers(tree, Hooks, NodeOf) /\ IsTree(tree) /\ Stack
           /\ Len(frames) \in Nat \ {0} /\ DOMAIN frames = 1..Len(frames)
           /\ Top = frames[Len(frames)] /\ Progress(tree, Hooks, NodeOf, Top)
           /\ result = "running" /\ frames[1].tokens = tree.roots
<1>1. IsTree(tree) /\ Stack
  BY DEF Working, OnTheWay, IInv
<1>2. Answers(tree, Hooks, NodeOf)
  BY <1>1, TreeAnswers
<1>3. Len(frames) \in Nat \ {0} /\ DOMAIN frames = 1..Len(frames) /\ Top = frames[Len(frames)]
  BY <1>1, StackPlaces
<1>4. Len(frames) \in DOMAIN frames
  BY <1>3
<1> QED  BY <1>1, <1>2, <1>3, <1>4 DEF Working, OnTheWay

LEMMA ProgressFrame ==
    ASSUME NEW t, NEW D, NEW N, NEW f, Progress(t, D, N, f)
    PROVE  IsFrame(t, f) /\ Shape(f)
<1>1. IsFrame(t, f)
  BY DEF Progress, Listing, Ready, Asked, AskedAgain
<1> QED  BY <1>1 DEF IsFrame, FrameFields, Shape

(* A frame below the last waits for the one above it.                      *)
LEMMA Waits ==
    ASSUME IInv, Working, frames # <<>>, NEW i \in 1..Len(frames), i < Len(frames)
    PROVE  /\ frames[i].state = "waiting" /\ Asked(tree, Hooks, NodeOf, frames[i])
           /\ frames[i + 1].tokens = tree.children[frames[i].batch[frames[i].asked]]
           /\ frames[i].batch[frames[i].asked] \in Range(frames[i].tokens)
           /\ frames[i].batch[frames[i].asked] \in DOMAIN tree.children
<1>1. i \in DOMAIN frames
  BY AtWork
<1>2. frames[i].state = "waiting"
  BY <1>1 DEF IInv, ActiveTokens
<1>3. Progress(tree, Hooks, NodeOf, frames[i]) /\ Joined(tree, frames[i], frames[i + 1])
  BY <1>1 DEF Working, OnTheWay
<1>4. Asked(tree, Hooks, NodeOf, frames[i])
  BY <1>2, <1>3 DEF Progress
<1>5. /\ IsFrame(tree, frames[i]) /\ Batched(tree, frames[i])
      /\ frames[i].asked \in 1..Len(frames[i].batch)
  BY <1>4 DEF Asked
<1> QED  BY <1>2, <1>3, <1>4, <1>5, BatchToken DEF Joined

(* The failure of an inline token is that of all lists it is in.           *)
LEMMA StackFails ==
    ASSUME IInv, Working, frames # <<>>, tree.phase # "block", ListFails(NodeOf, Top.tokens)
    PROVE  ListFails(NodeOf, tree.roots)
<1> DEFINE n == Len(frames)
           Failing == {i \in 1..n : ListFails(NodeOf, frames[i].tokens)}
<1>1. n \in Nat \ {0} /\ Top = frames[n] /\ frames[1].tokens = tree.roots
  BY AtWork
<1>2. n \in Failing
  BY <1>1
<1>3. PICK i \in Failing : \A j \in Failing : i <= j
  <2>1. Failing \subseteq Nat
    BY <1>1
  <2> HIDE DEF Failing
  <2> QED  BY <1>2, <2>1, LowestOf
<1>4. CASE i = 1
  BY <1>1, <1>3, <1>4
<1>5. CASE i # 1
  <2> DEFINE j == i - 1
  <2>1. j \in 1..n /\ j < n /\ j + 1 = i /\ ~ (i <= j)
    BY <1>1, <1>3, <1>5
  <2>2. ListFails(NodeOf, frames[j + 1].tokens)
    BY <1>3, <2>1
  <2> HIDE DEF j
  <2>3. /\ Asked(tree, Hooks, NodeOf, frames[j])
        /\ frames[j + 1].tokens = tree.children[frames[j].batch[frames[j].asked]]
    BY <2>1, Waits
  <2>4. Answers(tree, Hooks, NodeOf)
    BY AtWork
  <2>5. ListFails(NodeOf, tree.children[frames[j].batch[frames[j].asked]])
    BY <2>2, <2>3
  <2>6. ListFails(NodeOf, frames[j].tokens)
    BY <2>3, <2>4, <2>5, AskedFails
  <2>7. j \in Failing
    BY <2>1, <2>6
  <2> QED  BY <1>3, <2>1, <2>7
<1> QED  BY <1>4, <1>5

(* No token is among the tokens of the frames whose children were not yet  *)
(* asked for.                                                              *)
LEMMA ChildrenRest ==
    ASSUME IInv, Working, frames # <<>>, NEW x \in Range(Top.tokens), x \in DOMAIN tree.children
    PROVE  Range(tree.children[x]) \cap active = {}
<1> SUFFICES ASSUME NEW y \in Range(tree.children[x]), y \in active
             PROVE  FALSE
  OBVIOUS
<1> DEFINE n == Len(frames)
<1>1. /\ n \in Nat \ {0} /\ DOMAIN frames = 1..n /\ Top = frames[n] /\ IsTree(tree)
      /\ frames[1].tokens = tree.roots
  BY AtWork
<1>2. PICK i \in 1..n : y \in Range(frames[i].tokens)
  BY <1>1 DEF IInv, ActiveTokens
<1>3. frames[i].tokens \in {tree.roots} \cup Range(tree.children)
  <2>1. CASE i = 1
    BY <1>1, <2>1
  <2>2. CASE i # 1
    <3> DEFINE j == i - 1
    <3>1. j \in 1..n /\ j < n /\ j + 1 = i
      BY <1>1, <2>2
    <3> HIDE DEF j
    <3>2. /\ frames[j + 1].tokens = tree.children[frames[j].batch[frames[j].asked]]
          /\ frames[j].batch[frames[j].asked] \in DOMAIN tree.children
      BY <3>1, Waits
    <3> QED  BY <3>1, <3>2 DEF Range
  <2> QED  BY <2>1, <2>2
<1>4. tree.children[x] \in {tree.roots} \cup Range(tree.children)
  BY DEF Range
<1>5. frames[i].tokens = tree.children[x]
  <2> DEFINE a == frames[i].tokens
             b == tree.children[x]
  <2>1. y \in Range(a) /\ y \in Range(b)
    BY <1>2
  <2>2. a \in {tree.roots} \cup Range(tree.children) /\ b \in {tree.roots} \cup Range(tree.children)
    BY <1>3, <1>4
  <2> HIDE DEF a, b
  <2>3. a = b \/ Range(a) \cap Range(b) = {}
    BY <1>1, <2>2 DEF IsTree
  <2>4. a = b
    BY <2>1, <2>3
  <2> QED  BY <2>4 DEF a, b
<1>a. \A j \in 1..n : (j # n => j < n) /\ (j < n => j # n /\ j + 1 \in 1..n)
  <2>1. n \in Nat
    BY <1>1
  <2> HIDE DEF n
  <2> QED  BY <2>1
<1> DEFINE q(j) == IF j = n THEN x ELSE frames[j].batch[frames[j].asked]
<1>6. \A j \in 1..n : q(j) \in Range(frames[j].tokens) /\ q(j) \in DOMAIN tree.children
  <2> SUFFICES ASSUME NEW j \in 1..n
               PROVE  q(j) \in Range(frames[j].tokens) /\ q(j) \in DOMAIN tree.children
    OBVIOUS
  <2>1. CASE j = n
    BY <1>1, <2>1
  <2>2. CASE j # n
    <3>1. j < n
      BY <1>a, <2>2
    <3> QED  BY <2>2, <3>1, Waits
  <2> QED  BY <2>1, <2>2
<1>7. DOMAIN tree.children \subseteq Nat
  BY <1>1, TreeTokens
<1>8. \A z \in DOMAIN tree.children : \A w \in Range(tree.children[z]) : w > z
  BY <1>1 DEF IsTree
<1>9. \A j \in 1..n : j < n => q(j + 1) > q(j)
  <2> SUFFICES ASSUME NEW j \in 1..n, j < n
               PROVE  q(j + 1) > q(j)
    OBVIOUS
  <2>1. j # n /\ j + 1 \in 1..n
    BY <1>a
  <2>2. q(j) = frames[j].batch[frames[j].asked]
    BY <2>1
  <2>3. frames[j + 1].tokens = tree.children[q(j)]
    BY <2>2, Waits
  <2>4. q(j + 1) \in Range(tree.children[q(j)]) /\ q(j) \in DOMAIN tree.children
    BY <1>6, <2>1, <2>3
  <2> HIDE DEF q
  <2> QED  BY <1>8, <2>4
<1> HIDE DEF q
<1>10. \A j \in i..n : q(i) <= q(j)
  <2> DEFINE Smaller == {j \in i..n : ~ (q(i) <= q(j))}
  <2> SUFFICES ASSUME Smaller # {} PROVE FALSE
    OBVIOUS
  <2>1. PICK j \in Smaller : \A k \in Smaller : j <= k
    <3>1. Smaller \subseteq Nat
      BY <1>1, <1>2
    <3> HIDE DEF Smaller
    <3> QED  BY <3>1, LowestOf
  <2>2. \A k \in 1..n : q(k) \in Nat
    BY <1>6, <1>7
  <2>3. j \in i..n /\ ~ (q(i) <= q(j))
    BY <2>1
  <2>4. j # i
    BY <1>2, <2>2, <2>3
  <2>5. /\ j - 1 \in i..n /\ j - 1 \in 1..n /\ j - 1 < n /\ (j - 1) + 1 = j /\ ~ (j <= j - 1)
        /\ j \in 1..n
    BY <1>1, <1>2, <2>3, <2>4
  <2>6. q(i) <= q(j - 1)
    BY <2>1, <2>5
  <2>7. q(j) > q(j - 1)
    BY <1>9, <2>5
  <2> QED  BY <1>2, <2>2, <2>3, <2>5, <2>6, <2>7
<1>11. q(n) = x /\ n \in i..n
  BY <1>1, <1>2 DEF q
<1>12. q(i) \in Range(tree.children[x]) /\ q(i) > x
  BY <1>2, <1>5, <1>6, <1>8
<1>13. q(i) \in Nat /\ x \in Nat
  BY <1>2, <1>6, <1>7
<1> QED  BY <1>10, <1>11, <1>12, <1>13

(* The last frame goes on.                                                 *)
LEMMA KeepWorks ==
    ASSUME IInv, Working, frames # <<>>, UNCHANGED <<tree, hooks, result>>,
           NEW f, Progress(tree, Hooks, NodeOf, f), f.tokens = Top.tokens, frames' = WithTop(f)
    PROVE  Working'
<1> DEFINE n == Len(frames)
           P(g) == Progress(tree, Hooks, NodeOf, g)
<1>1. /\ n \in Nat \ {0} /\ DOMAIN frames = 1..n /\ Top = frames[n] /\ IsTree(tree) /\ Stack
      /\ result = "running" /\ frames[1].tokens = tree.roots
  BY AtWork
<1>2. /\ Len(frames') = n /\ DOMAIN frames' = 1..n
      /\ \A j \in 1..n : frames'[j] = IF j = n THEN f ELSE frames[j]
  BY <1>1, ProgressFrame, KeptPlaces
<1>3. \A i \in 1..n : P(frames[i])
  BY <1>1 DEF Working, OnTheWay
<1>4. \A i \in 1..n : P(frames'[i])
  BY <1>2, <1>3
<1>5. \A i \in 1..n : frames'[i].tokens = frames[i].tokens
  BY <1>1, <1>2
<1>6. \A i \in 1..n : i < n => Joined(tree, frames'[i], frames'[i + 1])
  <2> SUFFICES ASSUME NEW i \in 1..n, i < n
               PROVE  Joined(tree, frames'[i], frames'[i + 1])
    OBVIOUS
  <2>1. i # n /\ i + 1 \in 1..n
    <3>1. n \in Nat
      BY <1>1
    <3> HIDE DEF n
    <3> QED  BY <3>1
  <2>2. Joined(tree, frames[i], frames[i + 1])
    BY <1>1 DEF Working, OnTheWay
  <2>3. frames'[i] = frames[i] /\ frames'[i + 1].tokens = frames[i + 1].tokens
    BY <1>2, <1>5, <2>1
  <2> QED  BY <2>2, <2>3 DEF Joined
<1>7. frames'[1].tokens = tree.roots
  <2>1. 1 \in 1..n
    BY <1>1
  <2> QED  BY <1>1, <1>5, <2>1
<1>8. OnTheWay(tree, Hooks, NodeOf, frames', result')
  BY <1>1, <1>2, <1>4, <1>6, <1>7 DEF OnTheWay
<1> QED  BY <1>8, WorkingStays

(* It asks for the children of a token.                                    *)
LEMMA PushWorks ==
    ASSUME IInv, Working, frames # <<>>, UNCHANGED <<tree, hooks, result>>,
           NEW f, Progress(tree, Hooks, NodeOf, f), f.tokens = Top.tokens,
           f.batch[f.asked] \in DOMAIN tree.children,
           NEW wanted, wanted = tree.children[f.batch[f.asked]],
           frames' = Append(WithTop(f), Frame(wanted))
    PROVE  Working'
<1> DEFINE n == Len(frames)
           P(g) == Progress(tree, Hooks, NodeOf, g)
           h == Frame(wanted)
<1>1. /\ n \in Nat \ {0} /\ DOMAIN frames = 1..n /\ Top = frames[n] /\ IsTree(tree) /\ Stack
      /\ result = "running" /\ frames[1].tokens = tree.roots
  BY AtWork
<1>2. wanted \in Seq(DOMAIN tree.children)
  BY <1>1, TreeTokens
<1>3. P(h) /\ h.tokens = wanted
  BY <1>2, FreshFrame
<1>4. Shape(f) /\ Shape(h)
  BY <1>3, ProgressFrame
<1> HIDE DEF h
<1>5. /\ Len(frames') = n + 1 /\ DOMAIN frames' = 1..(n + 1)
      /\ \A j \in 1..n : frames'[j] = IF j = n THEN f ELSE frames[j]
      /\ frames'[n + 1] = h
  <2>1. frames' = Append(WithTop(f), h)
    BY DEF h
  <2> QED  BY <1>1, <1>4, <2>1, PushedPlaces
<1>6. \A i \in 1..n : P(frames[i])
  BY <1>1 DEF Working, OnTheWay
<1>7. 1..(n + 1) = 1..n \cup {n + 1} /\ 1 \in 1..n /\ n \in 1..n
  BY <1>1
<1>8. \A i \in 1..(n + 1) : P(frames'[i])
  <2>1. \A i \in 1..n : P(frames'[i])
    BY <1>5, <1>6
  <2>2. P(frames'[n + 1])
    BY <1>3, <1>5
  <2> QED  BY <1>7, <2>1, <2>2
<1>9. \A i \in 1..n : frames'[i].tokens = frames[i].tokens
  BY <1>1, <1>5
<1>10. \A i \in 1..(n + 1) : i < n + 1 => Joined(tree, frames'[i], frames'[i + 1])
  <2> SUFFICES ASSUME NEW i \in 1..(n + 1), i < n + 1
               PROVE  Joined(tree, frames'[i], frames'[i + 1])
    OBVIOUS
  <2>1. CASE i = n
    <3>1. frames'[i] = f /\ frames'[i + 1] = h
      BY <1>5, <1>7, <2>1
    <3> QED  BY <1>3, <3>1 DEF Joined
  <2>2. CASE i # n
    <3>1. i \in 1..n /\ i < n /\ i + 1 \in 1..n
      <4>1. n \in Nat
        BY <1>1
      <4> HIDE DEF n
      <4> QED  BY <2>2, <4>1
    <3>2. Joined(tree, frames[i], frames[i + 1])
      BY <1>1, <3>1 DEF Working, OnTheWay
    <3>3. frames'[i] = frames[i] /\ frames'[i + 1].tokens = frames[i + 1].tokens
      BY <1>5, <1>9, <2>2, <3>1
    <3> QED  BY <3>2, <3>3 DEF Joined
  <2> QED  BY <2>1, <2>2
<1>11. frames'[1].tokens = tree.roots
  BY <1>1, <1>7, <1>9
<1>12. OnTheWay(tree, Hooks, NodeOf, frames', result')
  BY <1>1, <1>5, <1>8, <1>10, <1>11 DEF OnTheWay
<1> QED  BY <1>12, WorkingStays

(* It is done, and what it ends with is what its tokens give.              *)
LEMMA SettleWorks ==
    ASSUME IInv, Working, frames # <<>>, UNCHANGED <<tree, hooks>>,
           NEW state, NEW nodes, Settle(state, nodes),
           SettlesAs(tree, NodeOf, Top.tokens, state, nodes)
    PROVE  Working'
<1> DEFINE n == Len(frames)
           P(g) == Progress(tree, Hooks, NodeOf, g)
<1>1. /\ n \in Nat \ {0} /\ DOMAIN frames = 1..n /\ Top = frames[n] /\ IsTree(tree) /\ Stack
      /\ result = "running" /\ frames[1].tokens = tree.roots
  BY AtWork
<1>2. CASE n = 1
  <2>1. frames' = <<>> /\ result' = <<state, nodes>>
    BY <1>1, <1>2, PoppedPlaces
  <2>2. result'[1] = state /\ result'[2] = nodes
    BY <2>1
  <2>3. Top.tokens = tree.roots
    BY <1>1, <1>2
  <2>4. Ends(tree, NodeOf, result')
    <3>1. CASE state = "nodes"
      <4>1. result'[1] # "error"
        BY <2>2, <3>1
      <4> QED  BY <2>2, <2>3, <3>1, <4>1 DEF Ends, SettlesAs
    <3>2. CASE state = "error"
      BY <2>2, <2>3, <3>2 DEF Ends, SettlesAs
    <3> QED  BY <3>1, <3>2 DEF SettlesAs
  <2>5. DOMAIN frames' = {}
    BY <2>1
  <2>6. OnTheWay(tree, Hooks, NodeOf, frames', result')
    BY <1>1, <2>1, <2>4, <2>5 DEF OnTheWay
  <2> QED  BY <2>6, WorkingStays
<1>3. CASE n # 1
  <2> DEFINE m == n - 1
             g == Given(frames[m], state, nodes)
  <2>1. /\ m \in Nat \ {0} /\ frames' # <<>> /\ result' = result
        /\ Len(frames') = m /\ DOMAIN frames' = 1..m
        /\ \A j \in 1..m : frames'[j] = IF j = m THEN Given(frames[j], state, nodes) ELSE frames[j]
    BY <1>1, <1>3, PoppedPlaces
  <2>2. m \in 1..n /\ m < n /\ m + 1 = n /\ m \in 1..m /\ 1 \in 1..m
    BY <1>1, <1>3
  <2>3. \A i \in 1..m : i \in 1..n /\ (i # m => i < m /\ i + 1 \in 1..m) /\ (i < m => i # m)
    <3>1. m \in Nat /\ n = m + 1
      BY <2>1, <2>2
    <3> HIDE DEF m, n
    <3> QED  BY <3>1
  <2> HIDE DEF m
  <2>4. /\ frames[m].state = "waiting" /\ Asked(tree, Hooks, NodeOf, frames[m])
        /\ frames[m + 1].tokens = tree.children[frames[m].batch[frames[m].asked]]
    BY <2>2, Waits
  <2>5. Top.tokens = tree.children[frames[m].batch[frames[m].asked]]
    BY <1>1, <2>2, <2>4
  <2>6. P(g) /\ g.tokens = frames[m].tokens
    BY <2>4, <2>5, IsGiven
  <2> HIDE DEF g
  <2>7. \A i \in 1..m : frames'[i] = IF i = m THEN g ELSE frames[i]
    BY <2>1 DEF g
  <2>8. \A i \in 1..n : P(frames[i])
    BY <1>1 DEF Working, OnTheWay
  <2>9. \A i \in 1..m : P(frames'[i])
    BY <2>3, <2>6, <2>7, <2>8
  <2>10. \A i \in 1..m : frames'[i].tokens = frames[i].tokens
    BY <2>6, <2>7
  <2>11. \A i \in 1..m : i < m => Joined(tree, frames'[i], frames'[i + 1])
    <3> SUFFICES ASSUME NEW i \in 1..m, i < m
                 PROVE  Joined(tree, frames'[i], frames'[i + 1])
      OBVIOUS
    <3>1. i \in 1..n /\ i < n /\ i # m /\ i + 1 \in 1..m
      BY <2>1, <2>2, <2>3
    <3>2. Joined(tree, frames[i], frames[i + 1])
      BY <1>1, <3>1 DEF Working, OnTheWay
    <3>3. frames'[i] = frames[i] /\ frames'[i + 1].tokens = frames[i + 1].tokens
      BY <2>7, <2>10, <3>1
    <3> QED  BY <3>2, <3>3 DEF Joined
  <2>12. frames'[1].tokens = tree.roots
    BY <1>1, <2>2, <2>10
  <2>13. OnTheWay(tree, Hooks, NodeOf, frames', result')
    BY <1>1, <2>1, <2>9, <2>11, <2>12 DEF OnTheWay
  <2> QED  BY <2>13, WorkingStays
<1> QED  BY <1>2, <1>3

LEMMA FailWorks ==
    ASSUME IInv, Working, frames # <<>>, UNCHANGED <<tree, hooks>>,
           Fail, ListFails(NodeOf, Top.tokens)
    PROVE  Working'
<1>1. CASE tree.phase = "block"
  <2>1. Settle("error", <<>>)
    BY <1>1 DEF Fail
  <2>2. SettlesAs(tree, NodeOf, Top.tokens, "error", <<>>)
    BY <1>1 DEF SettlesAs
  <2> QED  BY <2>1, <2>2, SettleWorks
<1>2. CASE tree.phase # "block"
  <2>1. frames' = <<>> /\ result' = <<"error", <<>>>>
    BY <1>2 DEF Fail
  <2>2. result'[1] = "error" /\ DOMAIN frames' = {}
    BY <2>1
  <2>3. ListFails(NodeOf, tree.roots)
    BY <1>2, StackFails
  <2>4. IsTree(tree)
    BY AtWork
  <2>5. OnTheWay(tree, Hooks, NodeOf, frames', result')
    BY <2>1, <2>2, <2>3, <2>4 DEF OnTheWay, Ends
  <2> QED  BY <2>5, WorkingStays
<1> QED  BY <1>1, <1>2

LEMMA BeginWorks ==
    ASSUME NEW t, NEW names, Begin(t, names), IsTree(t)
    PROVE  Working'
<1>1. frames' = <<Frame(t.roots)>> /\ tree' = t /\ result' = "running"
  BY DEF Begin
<1> DEFINE g == Frame(t.roots)
<1>2. Progress(t, Hooks', NodeOf', g) /\ g.tokens = t.roots
  BY TreeTokens, FreshFrame
<1> HIDE DEF g
<1>3. frames' = <<g>>
  BY <1>1 DEF g
<1>4. DOMAIN frames' = {1} /\ Len(frames') = 1 /\ frames'[1] = g
  BY <1>3
<1>5. OnTheWay(t, Hooks', NodeOf', frames', result')
  BY <1>1, <1>2, <1>4 DEF OnTheWay
<1>6. Working' = OnTheWay(tree', Hooks', NodeOf', frames', result')
  BY DEF Working
<1> QED  BY <1>1, <1>5, <1>6

LEMMA StepTokenListWorks ==
    ASSUME IInv, Working, StepTokenList
    PROVE  Working'
<1> DEFINE batch == Batch(Top)
           x == Top.tokens[Top.next]
           name == tree.names[x]
           hook == HookOf[name]
           children == ChildrenOf(tree, batch)
           taken == WithLeaves(Top, batch)
           asking(wants, lenient) ==
             /\ frames' = WithTop(Asking(Top, batch, wants, lenient))
             /\ UNCHANGED <<active, result>>
<1>1. frames # <<>> /\ Top.state = "none" /\ UNCHANGED <<tree, hooks>>
  BY DEF StepTokenList
<1>2. Answers(tree, Hooks, NodeOf) /\ Progress(tree, Hooks, NodeOf, Top)
  BY <1>1, AtWork
<1>3. Listing(tree, NodeOf, Top) /\ IsFrame(tree, Top)
  BY <1>1, <1>2 DEF Progress, Listing
<1>4. CASE Top.next > Len(Top.tokens) /\ Settle("nodes", Top.nodes)
  <2>1. Listed(NodeOf, Top.tokens, Top.nodes) /\ Len(Top.nodes) = Top.next - 1
    BY <1>3 DEF Listing, Settled
  <2>2. Len(Top.nodes) = Len(Top.tokens)
    BY <1>3, <1>4, <2>1, FrameTokens
  <2>3. Top.tokens \in Seq(DOMAIN tree.children) /\ Top.nodes \in Seq(Values(NodeOf))
    BY <1>3, <2>1 DEF IsFrame, Listed
  <2>4. \A k \in 1..Len(Top.tokens) : Gives(NodeOf, Top.tokens[k], Top.nodes[k])
    BY <2>1, <2>2 DEF Listed
  <2>5. ListGives(NodeOf, Top.tokens, Top.nodes)
    BY <2>2, <2>3, <2>4, AllGive
  <2>6. SettlesAs(tree, NodeOf, Top.tokens, "nodes", Top.nodes)
    BY <2>5 DEF SettlesAs
  <2> QED  BY <1>1, <1>4, <2>6, SettleWorks
<1>5. ASSUME Top.next <= Len(Top.tokens)
      PROVE  /\ IsBatch(tree, Top, batch) /\ x \in DOMAIN tree.children
             /\ Hooks[x] = Does(x) /\ \A k \in 1..Len(batch) : Hooks[batch[k]] = Does(x)
  <2>1. IsBatch(tree, Top, batch)
    BY <1>3, <1>5, BatchTaken
  <2> HIDE DEF batch
  <2> QED  BY <1>3, <1>5, <2>1, BatchHook
<1>6. CASE Top.next <= Len(Top.tokens) /\ (name \notin hooks \/ hook = "panics") /\ Fail
  <2>1. Does(x) = "panics"
    BY <1>6 DEF Does
  <2>2. Follows(tree, Hooks, NodeOf, x) /\ Hooks[x] = "panics"
    BY <1>2, <1>5, <1>6, <2>1 DEF Answers
  <2>3. Fails(NodeOf, x)
    BY <2>2 DEF Follows
  <2>4. ListFails(NodeOf, Top.tokens)
    BY <1>3, <1>6, <2>3, TokenFails
  <2> QED  BY <1>1, <1>6, <2>4, FailWorks
<1>7. CASE /\ Top.next <= Len(Top.tokens) /\ name \in hooks /\ hook = "nodes"
           /\ frames' = WithTop(taken) /\ UNCHANGED <<active, result>>
  <2>1. Does(x) = "nodes"
    BY <1>7 DEF Does
  <2>2. AllOf(Hooks, batch, "nodes") /\ IsBatch(tree, Top, batch)
    BY <1>5, <1>7, <2>1 DEF AllOf
  <2>3. Progress(tree, Hooks, NodeOf, taken) /\ taken.tokens = Top.tokens
    <3> HIDE DEF batch
    <3> QED  BY <1>1, <1>2, <1>3, <2>2, TakesLeaves
  <2> HIDE DEF taken
  <2> QED  BY <1>1, <1>7, <2>3, KeepWorks
<1>8. CASE /\ Top.next <= Len(Top.tokens) /\ name \in hooks /\ hook \in {"children", "lenient"}
           /\ asking(children, hook = "lenient")
  <2> DEFINE lenient == hook = "lenient"
             g == Asking(Top, batch, children, lenient)
  <2>1. Does(x) = IF lenient THEN "lenient" ELSE "children"
    BY <1>8 DEF Does
  <2>2. AllOf(Hooks, batch, IF lenient THEN "lenient" ELSE "children")
    BY <1>5, <1>8, <2>1 DEF AllOf
  <2>3. IsBatch(tree, Top, batch) /\ lenient \in BOOLEAN
    BY <1>5, <1>8
  <2>4. frames' = WithTop(g) /\ UNCHANGED result
    BY <1>8
  <2>5. Progress(tree, Hooks, NodeOf, g) /\ g.tokens = Top.tokens
    <3> HIDE DEF batch, lenient
    <3> QED  BY <1>1, <1>3, <2>2, <2>3, TakesChildren
  <2> HIDE DEF g
  <2> QED  BY <1>1, <2>4, <2>5, KeepWorks
<1>9. CASE /\ Top.next <= Len(Top.tokens) /\ name \in hooks /\ hook = "again"
           /\ asking(<<batch>>, FALSE)
  <2> DEFINE g == AskingAgain(Top, batch)
  <2>1. Does(x) = "again"
    BY <1>9 DEF Does
  <2>2. AllOf(Hooks, batch, "again") /\ IsBatch(tree, Top, batch)
    BY <1>5, <1>9, <2>1 DEF AllOf
  <2>3. frames' = WithTop(g) /\ UNCHANGED result
    BY <1>9 DEF AskingAgain
  <2>4. Progress(tree, Hooks, NodeOf, g) /\ g.tokens = Top.tokens
    <3> HIDE DEF batch
    <3> QED  BY <1>1, <1>3, <2>2, TakesAgain
  <2> HIDE DEF g
  <2> QED  BY <1>1, <2>3, <2>4, KeepWorks
<1>10. taken = [Top EXCEPT !.next = @ + Len(batch),
                           !.nodes = @ \o [k \in DOMAIN batch |-> Node(batch[k], <<>>)]]
  BY DEF WithLeaves, Leaves
<1>11. children = [k \in DOMAIN batch |-> tree.children[batch[k]]]
  BY DEF ChildrenOf
<1> HIDE DEF taken, children
<1> QED  BY <1>4, <1>6, <1>7, <1>8, <1>9, <1>10, <1>11 DEF StepTokenList

(* The generator asks for what is being parsed.                            *)
LEMMA AgainWorks ==
    ASSUME IInv, Working, StepGenerator, AskedAgain(tree, Hooks, NodeOf, Top)
    PROVE  Working'
<1> DEFINE batch == Top.batch
           asked == [Top EXCEPT !.asked = @ + 1]
           f == [asked EXCEPT !.state = "error"]
<1>1. frames # <<>> /\ UNCHANGED <<tree, hooks>>
  BY DEF StepGenerator
<1>2. Answers(tree, Hooks, NodeOf)
  BY <1>1, AtWork
<1>3. ListFails(NodeOf, Top.tokens)
  BY <1>2, AgainFails
<1>4. CASE Fail
  BY <1>1, <1>3, <1>4, FailWorks
<1>5. /\ IsFrame(tree, Top) /\ Batched(tree, Top) /\ AsksAgain(tree, Hooks, Top)
      /\ Top.wants = <<batch>> /\ Top.lenient = FALSE
  BY DEF AskedAgain, AsksAgain
<1>6. FrameFields \subseteq DOMAIN Top
  BY <1>5 DEF IsFrame
<1>7. CASE Top.state = "error"
  BY <1>4, <1>5, <1>7 DEF StepGenerator
<1>8. CASE Top.state = "initial"
  <2>1. Top.asked = 0 /\ Top.given = <<>>
    BY <1>5, <1>8 DEF AsksAgain
  <2>2. Resumed = Top
    BY <1>8 DEF Resumed
  <2>3. Len(Top.wants) = 1 /\ Top.wants[Top.asked + 1] = batch /\ Top.asked # Len(Top.wants)
    BY <1>5, <2>1
  <2>4. batch # <<>> /\ Range(batch) \cap active # {}
    <3>1. /\ Len(frames) \in Nat \ {0} /\ DOMAIN frames = 1..Len(frames)
          /\ Top = frames[Len(frames)]
      BY <1>1, AtWork
    <3>2. Range(Top.tokens) \subseteq active
      BY <3>1 DEF IInv, ActiveTokens
    <3>3. 1 \in 1..Len(batch) /\ DOMAIN batch = 1..Len(batch)
      <4>1. Len(batch) \in Nat /\ Top.next \in Nat /\ DOMAIN batch = 1..Len(batch)
        BY <1>5, LenProperties, FrameTokens DEF Batched
      <4> QED  BY <1>5, <4>1 DEF Batched
    <3>4. batch[1] \in Range(Top.tokens)
      BY <1>5, <3>3, BatchToken
    <3>5. batch[1] \in Range(batch)
      BY <3>3 DEF Range
    <3>6. batch # <<>>
      BY <3>3
    <3> QED  BY <3>2, <3>4, <3>5, <3>6
  <2>5. Fail \/ (frames' = WithTop(f) /\ UNCHANGED <<active, result>>)
    BY <1>5, <1>8, <2>2, <2>3, <2>4 DEF StepGenerator
  <2>6. CASE frames' = WithTop(f) /\ UNCHANGED <<active, result>>
    <3>1. /\ FrameFields \subseteq DOMAIN f /\ f.tokens = Top.tokens /\ f.next = Top.next
          /\ f.batch = batch /\ f.lenient = FALSE /\ f.wants = <<batch>> /\ f.state = "error"
      BY <1>5, <1>6 DEF FrameFields
    <3> HIDE DEF f
    <3>2. IsFrame(tree, f) /\ Batched(tree, f)
      BY <1>5, <3>1 DEF IsFrame, Batched
    <3>3. AsksAgain(tree, Hooks, f)
      BY <1>5, <3>1 DEF AsksAgain
    <3>4. Progress(tree, Hooks, NodeOf, f)
      BY <3>1, <3>2, <3>3 DEF Progress, AskedAgain
    <3> QED  BY <1>1, <2>6, <3>1, <3>4, KeepWorks
  <2> QED  BY <1>4, <2>5, <2>6
<1> QED  BY <1>7, <1>8 DEF AskedAgain, AsksAgain

(* The generator asks for the children of the tokens of its batch.         *)
LEMMA ChildrenWork ==
    ASSUME IInv, Working, StepGenerator,
           \/ Top.state = "initial" /\ Ready(tree, Hooks, NodeOf, Top)
           \/ Top.state \in {"nodes", "error"} /\ Asked(tree, Hooks, NodeOf, Top)
    PROVE  Working'
<1> DEFINE f == Resumed
           wanted == f.wants[f.asked + 1]
           asked == [f EXCEPT !.asked = @ + 1]
<1>1. frames # <<>> /\ UNCHANGED <<tree, hooks>>
  BY DEF StepGenerator
<1>2. Answers(tree, Hooks, NodeOf) /\ result = "running"
  BY <1>1, AtWork
<1>3. CASE Top.state = "error" /\ ~ Top.lenient /\ Fail
  <2>1. Asked(tree, Hooks, NodeOf, Top)
    BY <1>3
  <2>2. ListFails(NodeOf, tree.children[Top.batch[Top.asked]])
    BY <1>3, <2>1 DEF Asked
  <2>3. ListFails(NodeOf, Top.tokens)
    BY <1>2, <1>3, <2>1, <2>2, AskedFails
  <2> QED  BY <1>1, <1>3, <2>3, FailWorks
<1>4. CASE Top.state # "error" \/ Top.lenient
  <2>1. Ready(tree, Hooks, NodeOf, f) /\ f.tokens = Top.tokens
    <3>1. CASE Top.state = "initial"
      BY <3>1 DEF Resumed
    <3>2. CASE Top.state # "initial"
      <4>1. Asked(tree, Hooks, NodeOf, Top)
        BY <3>2
      <4>2. \/ Top.state = "nodes"
            \/ Top.state = "error" /\ Top.lenient
        BY <1>4, <3>2
      <4>3. f = WithMade(Top)
        BY <3>2 DEF Resumed, WithMade
      <4> HIDE DEF f
      <4> QED  BY <1>2, <4>1, <4>2, <4>3, Resumes
    <3> QED  BY <3>1, <3>2
  <2> HIDE DEF f
  <2>2. CASE /\ f.asked = Len(f.wants)
             /\ frames' = WithTop([f EXCEPT !.state = "none", !.nodes = @ \o f.made])
             /\ UNCHANGED <<active, result>>
    <3>1. frames' = WithTop(Completed(f))
      BY <2>2 DEF Completed
    <3>2. Progress(tree, Hooks, NodeOf, Completed(f)) /\ Completed(f).tokens = f.tokens
      BY <2>1, <2>2, Completes
    <3> QED  BY <1>1, <2>1, <2>2, <3>1, <3>2, KeepWorks
  <2>3. ASSUME NEW state, MayAsk(f, state)
        PROVE  LET g == AskedNext(f, state)
               IN /\ Progress(tree, Hooks, NodeOf, g) /\ g.tokens = Top.tokens
                  /\ g.batch[g.asked] \in Range(Top.tokens)
                  /\ g.batch[g.asked] \in DOMAIN tree.children
                  /\ wanted = tree.children[g.batch[g.asked]]
    BY <2>1, <2>3, AsksNext
  <2>4. CASE /\ f.asked < Len(f.wants) /\ wanted = <<>>
             /\ frames' = WithTop([asked EXCEPT !.state = "nodes"])
             /\ UNCHANGED <<active, result>>
    <3> DEFINE g == AskedNext(f, "nodes")
    <3>1. frames' = WithTop(g)
      BY <2>4 DEF AskedNext
    <3>2. MayAsk(f, "nodes")
      BY <2>4 DEF MayAsk
    <3>3. Progress(tree, Hooks, NodeOf, g) /\ g.tokens = Top.tokens
      BY <2>3, <3>2
    <3> HIDE DEF g
    <3> QED  BY <1>1, <2>4, <3>1, <3>3, KeepWorks
  <2>5. CASE /\ f.asked < Len(f.wants)
             /\ frames' = Append(WithTop([asked EXCEPT !.state = "waiting"]), Frame(wanted))
             /\ UNCHANGED result
    <3> DEFINE g == AskedNext(f, "waiting")
    <3>1. frames' = Append(WithTop(g), Frame(wanted))
      BY <2>5 DEF AskedNext
    <3>2. MayAsk(f, "waiting")
      BY <2>5 DEF MayAsk
    <3>3. /\ Progress(tree, Hooks, NodeOf, g) /\ g.tokens = Top.tokens
          /\ g.batch[g.asked] \in DOMAIN tree.children
          /\ wanted = tree.children[g.batch[g.asked]]
      BY <2>3, <3>2
    <3> HIDE DEF g, wanted
    <3> QED  BY <1>1, <2>5, <3>1, <3>3, PushWorks
  <2>6. CASE f.asked < Len(f.wants) /\ Range(wanted) \cap active # {}
    <3> DEFINE g == AskedNext(f, "waiting")
    <3>1. MayAsk(f, "waiting")
      BY <2>6 DEF MayAsk
    <3>2. /\ g.batch[g.asked] \in Range(Top.tokens)
          /\ g.batch[g.asked] \in DOMAIN tree.children
          /\ wanted = tree.children[g.batch[g.asked]]
      BY <2>3, <3>1
    <3> HIDE DEF g
    <3>3. Range(tree.children[g.batch[g.asked]]) \cap active = {}
      BY <1>1, <3>2, ChildrenRest
    <3> QED  BY <2>6, <3>2, <3>3
  <2>7. CASE Top.state = "error" /\ ~ Top.lenient /\ Fail
    BY <1>3, <2>7
  <2> QED  BY <2>2, <2>4, <2>5, <2>6, <2>7 DEF StepGenerator, f
<1> QED  BY <1>3, <1>4 DEF StepGenerator

LEMMA StepGeneratorWorks ==
    ASSUME IInv, Working, StepGenerator
    PROVE  Working'
<1>1. frames # <<>> /\ Top.state \in {"initial", "nodes", "error"}
  BY DEF StepGenerator
<1>2. Progress(tree, Hooks, NodeOf, Top)
  BY <1>1, AtWork
<1>3. CASE AskedAgain(tree, Hooks, NodeOf, Top)
  BY <1>3, AgainWorks
<1>4. CASE ~ AskedAgain(tree, Hooks, NodeOf, Top)
  <2>1. \/ Top.state = "initial" /\ Ready(tree, Hooks, NodeOf, Top)
        \/ Top.state \in {"nodes", "error"} /\ Asked(tree, Hooks, NodeOf, Top)
    BY <1>1, <1>2, <1>4 DEF Progress
  <2> QED  BY <2>1, ChildrenWork
<1> QED  BY <1>3, <1>4

(* The calls that are made are those of a scenario.                        *)
Acts == scenario \in DOMAIN Scenarios

LEMMA WorkingStep ==
    ASSUME IInv, Working, Acts, [Next]_vars
    PROVE  Working' /\ Acts'
<1>1. ASSUME UNCHANGED <<tree, hooks, frames, result>>
      PROVE  Working'
  <2>1. OnTheWay(tree, Hooks, NodeOf, frames', result')
    BY <1>1 DEF Working
  <2> QED  BY <1>1, <2>1, WorkingStays
<1>2. ASSUME NEW call, Call(call)
      PROVE  Working' /\ Acts'
  <2>1. UNCHANGED <<tree, hooks, frames, result>> /\ UNCHANGED scenario
    BY <1>2 DEF Call, UseTokenizer, ReplaceTokenizer, Unmount, UseFallbackTokenizer, Calling,
                scheduler
  <2> QED  BY <1>1, <2>1 DEF Acts
<1>3. ASSUME NEW t \in Scenarios[scenario].trees, Parse(t)
      PROVE  Working' /\ Acts'
  <2>1. IsTree(t)
    BY TreesAssumption DEF Acts
  <2>2. Begin(t, HookNames(t.phase)) /\ UNCHANGED scenario
    BY <1>3 DEF Parse, calls
  <2> QED  BY <2>1, <2>2, BeginWorks DEF Acts
<1>4. CASE Step /\ UNCHANGED calls
  <2>1. Working'
    BY <1>4, StepTokenListWorks, StepGeneratorWorks DEF Step
  <2> QED  BY <1>4, <2>1 DEF calls, Acts
<1>5. CASE UNCHANGED vars
  <2>1. UNCHANGED <<tree, hooks, frames, result>> /\ UNCHANGED scenario
    BY <1>5 DEF vars
  <2> QED  BY <1>1, <2>1 DEF Acts
<1> QED  BY <1>2, <1>3, <1>4, <1>5 DEF Next

(* However the hooks take turns, a parse ends with the nodes of all its    *)
(* tokens in their order, each with those of its children, or with an      *)
(* error, and with one exactly if a hook failed and none above it minded:  *)
(* no batch is skipped or taken twice, no nodes are given to another frame *)
(* and no token is refused as "cyclic or shared" unless its own hook asked *)
(* for it again (ParseBlockScheduler in block/parse.rs).                   *)
THEOREM NodesAreOfTheTree == Spec => []NodesOfTree
<1>1. Init => IInv /\ Working /\ Acts
  <2> SUFFICES ASSUME Init PROVE IInv /\ Working /\ Acts
    OBVIOUS
  <2>1. frames = <<>> /\ result = "running" /\ scenario \in DOMAIN Scenarios /\ DOMAIN frames = {}
    BY DEF Init
  <2>2. IInv
    BY StartsEmpty
  <2> QED  BY <2>1, <2>2 DEF Working, OnTheWay, Acts
<1>2. IInv /\ Working /\ Acts /\ [Next]_vars => IInv' /\ Working' /\ Acts'
  BY Steps, WorkingStep
<1>3. Working => NodesOfTree
  BY WorkingEnds
<1> QED  BY <1>1, <1>2, <1>3, PTL DEF Spec
=============================================================================
