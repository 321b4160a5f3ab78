------------------------- MODULE ConfigManagerProofs -------------------------
(***************************************************************************)
(* Proofs about ConfigManager: the parser puts every scalar of the file    *)
(* under its path, the table has nothing else, and a collection is its     *)
(* section, for files of any size.                                         *)
(*                                                                         *)
(* The invariant speaks of the path of each node of the tree, a sequence   *)
(* of names that the code never builds: it exists because a node comes     *)
(* after its parent.  Induction over numbers is by their least elements.   *)
(***************************************************************************)
EXTENDS ConfigManager, FiniteSetTheorems, SequenceTheorems, WellFoundedInduction, TLAPS

(* q begins with p. *)
Begins(p, q) == Len(p) <= Len(q) /\ \A i \in 1..Len(p) : q[i] = p[i]

(* Open collection h is outside every sequence. *)
Outside(h) == ~open[h].inSeq

(* The path of what is written under its present key. *)
Here(h) == Append(open[h].path, open[h].key)

(* A sequence is written under that key. *)
Entered(h) == h + 1 \in DOMAIN open /\ ~Outside(h + 1)

-----------------------------------------------------------------------------
(* The inductive invariant, in parts.  at[i] is the path of node i. *)

(* The paths are those of the tree. *)
PathsInv(at) ==
    /\ at \in Seq(Seq(Names)) /\ Len(at) = Len(nodes)
    /\ Len(nodes) >= 1 /\ nodes[1].parent = 0 /\ nodes[1].data = Root /\ at[1] = <<>>
    /\ \A i \in DOMAIN nodes \ {1} :
          /\ nodes[i].parent \in DOMAIN nodes /\ nodes[i].data \in Names
          /\ at[i] = Append(at[nodes[i].parent], nodes[i].data)

(* The collections that are open: mappings up to a first sequence, each with
   the key under which the next one stands. *)
OpenAt(h) ==
    /\ Outside(h) =>
          /\ open[h].kind = "mapping"
          /\ Len(open[h].path) = h - 1
          /\ \A g \in 1..(h - 1) : Outside(g) /\ open[h].path[g] = open[g].key
    /\ open[h].kind = "mapping" /\ h # Len(open) => open[h].key # None
    /\ open[h].key \in open[h].used \cup {None}
    /\ h = 1 => Outside(h)
    /\ ~Outside(h) /\ Outside(h - 1) => open[h].kind = "sequence"
    /\ ~shape.nested /\ open[h].kind = "sequence" => open[h - 1].kind = "mapping"

OpenInv == \A h \in DOMAIN open : OpenAt(h)

(* The call for an open mapping outside sequences stands at the mapping's path,
   and knows whether a key or a value comes next; in a sequence everything
   goes under the key of the sequence. *)
CallAt(at, h) ==
    /\ h + 1 \in DOMAIN frames
    /\ at[frames[h + 1].data] = open[h].path
    /\ open[h].key = None => frames[h + 1].storage = VAR
    /\ open[h].key # None /\ ~Entered(h) =>
          /\ frames[h + 1].storage = VAL
          /\ at[frames[h + 1].last_leaf] = Here(h)
    /\ open[h].key # None /\ Entered(h) =>
          /\ frames[h + 1].storage \in {SEQ, SEQ + VAL}
          /\ Begins(Here(h), at[frames[h + 1].last_leaf])
          /\ \A i \in DOMAIN frames : i > h + 1 =>
                /\ Begins(Here(h), at[frames[i].data])
                /\ Begins(Here(h), at[frames[i].last_leaf])

FramesInv(at) == \A h \in DOMAIN open : Outside(h) => CallAt(at, h)

(* Below an open mapping there are only its keys, and nothing yet below a key
   that has just been read. *)
KeysAt(at, h) ==
    /\ \A j \in DOMAIN nodes :
          Begins(open[h].path, at[j]) /\ Len(at[j]) >= h => at[j][h] \in open[h].used
    /\ h = Len(open) /\ open[h].key # None =>
          \A j \in DOMAIN nodes : Begins(Here(h), at[j]) => at[j] = Here(h)

KeysInv(at) ==
    /\ ~shape.begun => Len(nodes) = 1
    /\ \A h \in DOMAIN open : Outside(h) => KeysAt(at, h)

(* No scalar stands above or in what is still written. *)
ApartInv ==
    \A h \in DOMAIN open, p \in DOMAIN scalars : Outside(h) =>
       /\ ~Begins(p, open[h].path)
       /\ open[h].key # None /\ Entered(h) => ~Begins(Here(h), p)

(* Node v holds the scalar at p: it is a leaf, and the only child of its path. *)
Holds(at, v, p) ==
    /\ nodes[v].parent # 0 /\ at[nodes[v].parent] = p /\ nodes[v].data = scalars[p]
    /\ \A j \in DOMAIN nodes :
          /\ nodes[j].parent # v
          /\ nodes[j].parent # 0 /\ at[nodes[j].parent] = p => j = v

(* Each scalar is held by a node. *)
ScalarsInv(at) == \A p \in DOMAIN scalars : \E v \in DOMAIN nodes : Holds(at, v, p)

(* The leaves of a file without sequences and empty mappings are its scalars,
   but for what is still written. *)
LeavesInv(at) ==
    shape.plain =>
       \A i \in DOMAIN nodes : (\A j \in DOMAIN nodes : nodes[j].parent # i) =>
          \/ i = 1 /\ ~shape.begun
          \/ nodes[i].parent # 0 /\ at[nodes[i].parent] \in DOMAIN scalars
          \/ open # <<>> /\ Inner.key # None /\ i = Top.last_leaf
          \/ open # <<>> /\ Inner.used = {} /\ i = Top.data

(* Keys are keys. *)
KeyedInv ==
    /\ \A h \in DOMAIN open : open[h].used \subseteq Keys /\ open[h].path \in Seq(Keys)
    /\ DOMAIN scalars \subseteq Seq(Keys) /\ shape.top \subseteq Keys

(* What is known of the file. *)
FileInv ==
    /\ KeyedInv
    /\ ~shape.begun => open = <<>> /\ DOMAIN scalars = {} /\ shape.top = {}
    /\ shape.plain => ~shape.nested /\ \A h \in DOMAIN open : Outside(h)
    /\ open # <<>> => shape.top = open[1].used
    /\ \A p \in DOMAIN scalars : Len(p) >= 1 /\ p[1] \in shape.top

(* A path of keys at or below which no scalar stands, nor is written. *)
Sequenced(e) ==
    /\ e \in Seq(Keys) /\ \A p \in DOMAIN scalars : ~Begins(e, p)
    /\ \A h \in DOMAIN open : Outside(h) =>
          /\ ~Begins(e, open[h].path)
          /\ open[h].key # None /\ ~Entered(h) => ~Begins(e, Here(h))

(* Path q is one of keys, or that of an item of a sequence.  An item may be any
   scalar, and is put under the item before it. *)
ItemsAt(q) == q \in Seq(Keys) \/ \E e : Sequenced(e) /\ Begins(e, q)

ItemsInv(at) ==
    \A i \in DOMAIN nodes : nodes[i].parent # 0 => ItemsAt(at[nodes[i].parent])

(* Where everything of the file is. *)
PlacesInv(at) == FramesInv(at) /\ KeysInv(at) /\ ApartInv /\ ScalarsInv(at) /\ LeavesInv(at)

(* While the file is read.  A sequence directly in a sequence ends the outer
   one for the parser, so nothing is known of such a file's places. *)
Parsed(at) ==
    /\ PathsInv(at) /\ OpenInv /\ FileInv
    /\ ~shape.nested => PlacesInv(at) /\ ItemsInv(at)

(* What is left when the file has been read: the tree and the file. *)
Walked(at) ==
    /\ PathsInv(at) /\ FileInv /\ open = <<>>
    /\ ~shape.nested => ScalarsInv(at) /\ LeavesInv(at) /\ ItemsInv(at)

(* The tree belongs to the file, until the parser is stuck. *)
TreeInv ==
    /\ phase = "parse" => \E at : Parsed(at)
    /\ phase \in {"flatten", "merge", "ready"} => \E at : Walked(at)

(* Every scalar is in the table under its path. *)
ScalarsInTable ==
    ~shape.nested =>
       \A p \in DOMAIN scalars :
          Joined(p) \in DOMAIN conf_hash /\ conf_hash[Joined(p)] = scalars[p]

(* Nothing else is, but the token, and the root of an empty file. *)
OnlyScalarsInTable ==
    shape.plain =>
       \A k \in DOMAIN conf_hash :
          \/ k = <<>> /\ ~shape.begun
          \/ \E p \in DOMAIN scalars \cup {<<TokenName>>} : k = Joined(p)

(* What is known of the table. *)
TableInv ==
    /\ section # None => phase = "ready"
    /\ phase = "parse" => conf_hash = NoEntries
    /\ phase \in {"merge", "ready"} => ScalarsInTable /\ OnlyScalarsInTable

(* The inductive invariant. *)
IInv == TypeOK /\ TreeInv /\ TableInv /\ CollectionIsSection

-----------------------------------------------------------------------------
(* Numbers and sequences. *)

(* A set of numbers has a least element. *)
LEMMA Least ==
    ASSUME NEW T \in SUBSET Nat, T # {}
    PROVE  \E x \in T : \A y \in T : x <= y
<1>1. \A x, y \in Nat : <<y, x>> \in OpToRel(<, Nat) <=> y < x
  BY DEF OpToRel
<1>2. \E R : IsWellFoundedOn(R, Nat) /\ \A x, y \in Nat : <<y, x>> \in R <=> y < x
  BY <1>1, NatLessThanWellFounded, Zenon
<1>3. PICK R : IsWellFoundedOn(R, Nat) /\ \A x, y \in Nat : <<y, x>> \in R <=> y < x
  BY <1>2
<1>4. PICK x \in T : \A y \in T : ~(<<y, x>> \in R)
  BY <1>3, WFMin, Zenon
<1>5. ASSUME NEW y \in T PROVE x <= y
  <2>1. x \in Nat /\ y \in Nat
    OBVIOUS
  <2>2. ~(y < x)
    BY <1>3, <1>4, <2>1
  <2> QED
    BY <2>1, <2>2
<1> QED
  BY <1>5

(* A set with 0, and with each number the next one, has all numbers. *)
LEMMA Induct ==
    ASSUME NEW S, 0 \in S, \A n \in Nat : n \in S => n + 1 \in S
    PROVE  Nat \subseteq S
<1> SUFFICES ASSUME Nat \ S # {} PROVE FALSE
  OBVIOUS
<1>1. PICK x \in Nat \ S : \A y \in Nat \ S : x <= y
  BY Least
<1>2. x # 0
  OBVIOUS
<1>3. x - 1 \in Nat /\ x - 1 + 1 = x /\ x - 1 \in S
  BY <1>1, <1>2
<1> QED
  BY <1>3

(* A set of numbers up to n has a greatest element. *)
LEMMA Greatest ==
    ASSUME NEW n \in Nat, NEW T \in SUBSET (0..n), T # {}
    PROVE  \E x \in T : \A y \in T : y <= x
<1> DEFINE U == {n - x : x \in T}
<1>1. U \in SUBSET Nat /\ U # {}
  <2>1. PICK x \in T : TRUE
    OBVIOUS
  <2>2. n - x \in U
    BY <2>1
  <2>3. \A t \in T : n - t \in Nat
    OBVIOUS
  <2> QED
    BY <2>2, <2>3
<1>2. PICK u \in U : \A y \in U : u <= y
  <2> HIDE DEF U
  <2> QED
    BY <1>1, Least
<1>3. PICK x \in T : u = n - x
  BY <1>2
<1>4. ASSUME NEW y \in T PROVE y <= x
  <2>1. x \in 0..n /\ y \in 0..n /\ n - y \in U
    OBVIOUS
  <2>2. n - x <= n - y
    BY <1>2, <1>3, <2>1
  <2> QED
    BY <2>1, <2>2
<1> QED
  BY <1>4

(* Appending, element by element. *)
LEMMA Appended ==
    ASSUME NEW X, NEW s \in Seq(X), NEW x \in X
    PROVE  /\ Append(s, x) \in Seq(X) /\ Append(s, x) # <<>>
           /\ Len(s) \in Nat /\ Len(Append(s, x)) = Len(s) + 1
           /\ DOMAIN s = 1..Len(s) /\ DOMAIN Append(s, x) = 1..(Len(s) + 1)
           /\ \A i \in 1..Len(s) : Append(s, x)[i] = s[i]
           /\ Append(s, x)[Len(s) + 1] = x
  OBVIOUS

(* Taking the last element away. *)
LEMMA Fronted ==
    ASSUME NEW X, NEW s \in Seq(X), s # <<>>
    PROVE  /\ Front(s) \in Seq(X) /\ Len(s) \in Nat \ {0} /\ Len(Front(s)) = Len(s) - 1
           /\ \A i \in 1..(Len(s) - 1) : Front(s)[i] = s[i]
           /\ Last(s) \in X /\ Last(s) = s[Len(s)]
           /\ Front(s) = <<>> <=> Len(s) = 1
<1>1. PICK n \in Nat : n = Len(s)
  OBVIOUS
<1>2. n # 0 /\ \A i \in 1..n : s[i] \in X
  BY <1>1
<1>3. /\ SubSeq(s, 1, n - 1) \in Seq(X)
      /\ Len(SubSeq(s, 1, n - 1)) = n - 1
      /\ \A i \in 1..(n - 1) : SubSeq(s, 1, n - 1)[i] = s[i]
  BY <1>2, SubSeqProperties
<1>4. \A t \in Seq(X) : t = <<>> <=> Len(t) = 0
  OBVIOUS
<1> DEFINE f == Front(s)
<1>5. f = SubSeq(s, 1, n - 1) /\ Last(s) = s[n]
  BY <1>1 DEF Front, Last
<1> HIDE DEF f
<1>6. f \in Seq(X) /\ Len(f) = n - 1 /\ \A i \in 1..(n - 1) : f[i] = s[i]
  BY <1>3, <1>5
<1>7. f = <<>> <=> n = 1
  BY <1>2, <1>4, <1>6
<1>8. Last(s) \in X
  BY <1>2, <1>5
<1> QED
  BY <1>1, <1>2, <1>5, <1>6, <1>7, <1>8 DEF f

(* Changing the last element. *)
LEMMA Replaced ==
    ASSUME NEW X, NEW s \in Seq(X), s # <<>>, NEW x \in X
    PROVE  /\ Append(Front(s), x) \in Seq(X) /\ Len(Append(Front(s), x)) = Len(s)
           /\ Len(s) \in Nat \ {0}
           /\ \A i \in 1..Len(s) :
                 Append(Front(s), x)[i] = IF i = Len(s) THEN x ELSE s[i]
<1> DEFINE f == Front(s)
<1>1. /\ f \in Seq(X) /\ Len(s) \in Nat \ {0} /\ Len(f) = Len(s) - 1
      /\ \A i \in 1..(Len(s) - 1) : f[i] = s[i]
  BY Fronted
<1> HIDE DEF f
<1>2. PICK n \in Nat \ {0} : n = Len(s)
  BY <1>1
<1>3. /\ Append(f, x) \in Seq(X) /\ Len(Append(f, x)) = n - 1 + 1
      /\ \A i \in 1..(n - 1) : Append(f, x)[i] = f[i]
      /\ Append(f, x)[n - 1 + 1] = x
  BY <1>1, <1>2, Appended
<1>4. \A i \in 1..n : Append(f, x)[i] = IF i = n THEN x ELSE s[i]
  BY <1>1, <1>2, <1>3
<1> QED
  BY <1>2, <1>3, <1>4 DEF f

-----------------------------------------------------------------------------
(* What an event does to the file's collections, element by element. *)

Opens == [kind : {"mapping", "sequence"}, key : Names \cup {None},
          used : SUBSET Names, path : Seq(Names), inSeq : BOOLEAN]

Shapes == [top : SUBSET Names, begun : BOOLEAN, plain : BOOLEAN, nested : BOOLEAN]

(* The innermost collection gets a key and used keys. *)
Rekeyed(key, used) ==
    /\ open' \in Seq(Opens) /\ Len(open') = Len(open)
    /\ \A i \in 1..Len(open) : i # Len(open) => open'[i] = open[i]
    /\ LET o == open[Len(open)] IN
         open'[Len(open)] = [kind |-> o.kind, key |-> key, used |-> used,
                             path |-> o.path, inSeq |-> o.inSeq]

(* The types that the other lemmas use. *)
LEMMA Typed ==
    ASSUME TypeOK
    PROVE  /\ open \in Seq(Opens) /\ Len(open) \in Nat /\ DOMAIN open = 1..Len(open)
           /\ open = <<>> <=> Len(open) = 0
           /\ shape \in Shapes
           /\ scalars \in [DOMAIN scalars -> Names] /\ DOMAIN scalars \subseteq Seq(Names)
           /\ Len(nodes) \in Nat /\ DOMAIN nodes = 1..Len(nodes)
           /\ nodes \in Seq([parent : Nat, data : Names \cup {Root}])
           /\ Len(frames) \in Nat /\ DOMAIN frames = 1..Len(frames)
           /\ \A i \in DOMAIN frames :
                 /\ frames[i] \in [data : Nat, last_leaf : Nat, storage : 0..3]
                 /\ frames[i].data \in DOMAIN nodes /\ frames[i].last_leaf \in DOMAIN nodes
<1>1. /\ open \in Seq(Opens) /\ shape \in Shapes
      /\ scalars \in [DOMAIN scalars -> Names] /\ DOMAIN scalars \subseteq Seq(Names)
      /\ nodes \in Seq([parent : Nat, data : Names \cup {Root}])
      /\ frames \in Seq([data : DOMAIN nodes, last_leaf : DOMAIN nodes, storage : 0..3])
  BY DEF TypeOK, Opens, Shapes
<1>2. /\ Len(open) \in Nat /\ DOMAIN open = 1..Len(open) /\ (open = <<>> <=> Len(open) = 0)
      /\ Len(nodes) \in Nat /\ DOMAIN nodes = 1..Len(nodes)
      /\ Len(frames) \in Nat /\ DOMAIN frames = 1..Len(frames)
  BY <1>1
<1>3. \A i \in DOMAIN frames :
        frames[i] \in [data : DOMAIN nodes, last_leaf : DOMAIN nodes, storage : 0..3]
  <2> DEFINE C == [data : DOMAIN nodes, last_leaf : DOMAIN nodes, storage : 0..3]
  <2>1. frames \in Seq(C)
    BY <1>1
  <2> HIDE DEF C
  <2>2. \A i \in DOMAIN frames : frames[i] \in C
    BY <1>2, <2>1
  <2> QED
    BY <2>2 DEF C
<1>4. DOMAIN nodes \subseteq Nat
  BY <1>2
<1> HIDE DEF Opens, Shapes
<1> QED
  BY <1>1, <1>2, <1>3, <1>4

(* A scalar: a key, a value or an item of a sequence. *)
LEMMA ScalarWritten ==
    ASSUME TypeOK, NEW s \in Names, WriteScalar(s)
    PROVE  /\ left' \in 0..MaxItems
           /\ open # <<>>
           /\ \/ /\ AtKey /\ s \notin Inner.used /\ Rekeyed(s, Inner.used \cup {s})
                 /\ scalars' = scalars
                 /\ shape' = IF Len(open) = 1 THEN [shape EXCEPT !.top = @ \cup {s}] ELSE shape
              \/ /\ AtValue /\ Rekeyed(None, Inner.used) /\ shape' = shape
                 /\ scalars' = IF Inner.inSeq THEN scalars
                               ELSE With(scalars, Append(Inner.path, Inner.key), s)
              \/ AtItem /\ open' = open /\ scalars' = scalars /\ shape' = shape
<1>1. open \in Seq(Opens) /\ left \in 0..MaxItems /\ MaxItems \in Nat
  BY Typed, ItemsAssumption DEF TypeOK
<1>2. open # <<>>
  BY DEF WriteScalar, AtKey, AtValue, AtItem
<1>3. Inner \in Opens /\ Inner = open[Len(open)]
  BY <1>1, <1>2, Fronted DEF Inner
<1>4. ASSUME NEW k \in Names \cup {None}, NEW u \in SUBSET Names,
             NEW o, o = [kind |-> Inner.kind, key |-> k, used |-> u,
                         path |-> Inner.path, inSeq |-> Inner.inSeq],
             open' = Append(Front(open), o)
      PROVE  Rekeyed(k, u)
  <2>1. o \in Opens
    BY <1>3, <1>4 DEF Opens
  <2>2. /\ open' \in Seq(Opens) /\ Len(open') = Len(open) /\ Len(open) \in Nat \ {0}
        /\ \A i \in 1..Len(open) : open'[i] = IF i = Len(open) THEN o ELSE open[i]
    BY <1>1, <1>2, <1>4, <2>1, Replaced
  <2> QED
    BY <1>3, <1>4, <2>2 DEF Rekeyed
<1>5. ASSUME AtKey, s \notin Inner.used, Write(1),
             open' = Append(Front(open), [Inner EXCEPT !.key = s, !.used = @ \cup {s}])
      PROVE  Rekeyed(s, Inner.used \cup {s}) /\ left' \in 0..MaxItems
  <2>1. [Inner EXCEPT !.key = s, !.used = @ \cup {s}] =
          [kind |-> Inner.kind, key |-> s, used |-> Inner.used \cup {s},
           path |-> Inner.path, inSeq |-> Inner.inSeq]
    <3> DEFINE o == [Inner EXCEPT !.key = s]
    <3>1. /\ o = [kind |-> Inner.kind, key |-> s, used |-> Inner.used,
                  path |-> Inner.path, inSeq |-> Inner.inSeq]
          /\ [Inner EXCEPT !.key = s, !.used = @ \cup {s}] =
               [o EXCEPT !.used = Inner.used \cup {s}]
      BY <1>3 DEF Opens
    <3> HIDE DEF o
    <3> QED
      BY <3>1
  <2>2. Inner.used \cup {s} \in SUBSET Names
    BY <1>3 DEF Opens
  <2>3. left' \in 0..MaxItems
    BY <1>1, <1>5 DEF Write
  <2> QED
    BY <1>4, <1>5, <2>1, <2>2, <2>3
<1>6. ASSUME AtValue, open' = Append(Front(open), [Inner EXCEPT !.key = None])
      PROVE  Rekeyed(None, Inner.used)
  <2>1. [Inner EXCEPT !.key = None] =
          [kind |-> Inner.kind, key |-> None, used |-> Inner.used,
           path |-> Inner.path, inSeq |-> Inner.inSeq]
    BY <1>3 DEF Opens
  <2>2. Inner.used \in SUBSET Names
    BY <1>3 DEF Opens
  <2> QED
    BY <1>4, <1>6, <2>1, <2>2
<1>7. Write(1) => left' \in 0..MaxItems
  BY <1>1 DEF Write
<1> QED
  BY <1>1, <1>2, <1>5, <1>6, <1>7 DEF WriteScalar

(* A new innermost collection. *)
Started(kind) ==
    /\ open' \in Seq(Opens) /\ Len(open') = Len(open) + 1
    /\ \A i \in 1..Len(open) : open'[i] = open[i]
    /\ LET o == open'[Len(open) + 1] IN
         /\ o.kind = kind /\ o.key = None /\ o.used = {}
         /\ o.path = IF open = <<>> THEN <<>>
                     ELSE IF AtValue THEN Append(Inner.path, Inner.key) ELSE Inner.path
         /\ o.inSeq <=> AtItem \/ kind = "sequence" \/ (open # <<>> /\ Inner.inSeq)

(* The start of a mapping or a sequence. *)
LEMMA StartWritten ==
    ASSUME TypeOK, NEW kind \in {"mapping", "sequence"}, WriteStart(kind)
    PROVE  /\ left' \in 0..MaxItems
           /\ AtValue \/ AtItem \/ (kind = "mapping" /\ open = <<>> /\ ~shape.begun)
           /\ Started(kind) /\ scalars' = scalars
           /\ shape' \in Shapes /\ shape'.top = shape.top /\ shape'.begun
           /\ shape'.plain <=> shape.plain /\ kind = "mapping"
           /\ shape'.nested <=> shape.nested \/ (AtItem /\ kind = "sequence")
<1>1. /\ open \in Seq(Opens) /\ left \in 0..MaxItems /\ MaxItems \in Nat /\ shape \in Shapes
      /\ open = <<>> <=> Len(open) = 0
  BY Typed, ItemsAssumption DEF TypeOK
<1>2. open # <<>> => Inner \in Opens /\ Inner = open[Len(open)]
  BY <1>1, Fronted DEF Inner
<1> DEFINE o == Collection(kind)
           b == AtItem \/ kind = "sequence" \/ (open # <<>> /\ Inner.inSeq)
           p == IF open = <<>> THEN <<>>
                ELSE IF AtValue THEN Append(Inner.path, Inner.key) ELSE Inner.path
<1>3. b \in BOOLEAN
  OBVIOUS
<1>4. p \in Seq(Names)
  <2>1. open # <<>> => Inner.path \in Seq(Names) /\ Inner.key \in Names \cup {None}
    BY <1>2 DEF Opens
  <2>2. AtValue => Inner.key \in Names
    BY <2>1 DEF AtValue
  <2> QED
    BY <2>1, <2>2
<1>5. o = [kind |-> kind, key |-> None, used |-> {}, path |-> p, inSeq |-> b]
  BY Zenon DEF Collection
<1>6. open' = Append(open, o)
  BY DEF WriteStart
<1> HIDE DEF o, p
<1>7. o \in Opens
  <2> HIDE DEF b
  <2> QED
    BY <1>3, <1>4, <1>5 DEF Opens
<1>8. o.kind = kind /\ o.key = None /\ o.used = {} /\ o.path = p /\ o.inSeq = b
  <2> HIDE DEF b
  <2> QED
    BY <1>5
<1>9. /\ open' \in Seq(Opens) /\ Len(open') = Len(open) + 1
      /\ \A i \in 1..Len(open) : open'[i] = open[i]
      /\ open'[Len(open) + 1] = o
  BY <1>1, <1>6, <1>7, Appended
<1>10. Started(kind)
  BY <1>8, <1>9, Zenon DEF Started, p, b
<1>11. left' \in 0..MaxItems
  BY <1>1 DEF WriteStart, Write
<1>12. /\ AtValue \/ AtItem \/ (kind = "mapping" /\ open = <<>> /\ ~shape.begun)
       /\ scalars' = scalars
  BY DEF WriteStart
<1>13. /\ shape' \in Shapes /\ shape'.top = shape.top /\ shape'.begun
       /\ shape'.plain <=> shape.plain /\ kind = "mapping"
       /\ shape'.nested <=> shape.nested \/ (AtItem /\ kind = "sequence")
  <2> DEFINE x == shape.plain /\ kind = "mapping"
             y == shape.nested \/ (AtItem /\ kind = "sequence")
  <2>1. /\ x \in BOOLEAN /\ y \in BOOLEAN
        /\ shape' = [shape EXCEPT !.begun = TRUE, !.plain = x, !.nested = y]
    BY DEF WriteStart
  <2> HIDE DEF x, y
  <2>2. shape = [top |-> shape.top, begun |-> shape.begun, plain |-> shape.plain,
                 nested |-> shape.nested] /\ shape.top \in SUBSET Names
    BY <1>1 DEF Shapes
  <2>3. shape' = [top |-> shape.top, begun |-> TRUE, plain |-> x, nested |-> y]
    BY <2>1, <2>2
  <2>4. /\ shape' \in Shapes /\ shape'.top = shape.top /\ shape'.begun = TRUE
        /\ shape'.plain = x /\ shape'.nested = y
    BY <2>1, <2>2, <2>3 DEF Shapes
  <2> QED
    BY <2>4 DEF x, y
<1> QED
  BY <1>10, <1>11, <1>12, <1>13

(* The innermost collection is gone, and the one around it is at a key. *)
Ended ==
    /\ open' \in Seq(Opens) /\ Len(open') = Len(open) - 1
    /\ \A i \in 1..(Len(open) - 1) : i # Len(open) - 1 => open'[i] = open[i]
    /\ Len(open) > 1 =>
         LET o == open[Len(open) - 1] IN
           open'[Len(open) - 1] = [kind |-> o.kind, key |-> None, used |-> o.used,
                                   path |-> o.path, inSeq |-> o.inSeq]

(* The end of a mapping or a sequence. *)
LEMMA EndWritten ==
    ASSUME TypeOK, NEW kind \in {"mapping", "sequence"}, WriteEnd(kind)
    PROVE  /\ left' = left /\ scalars' = scalars
           /\ open # <<>> /\ Inner.kind = kind /\ ~AtValue
           /\ Ended
           /\ shape' \in Shapes /\ shape'.top = shape.top
           /\ (shape'.begun <=> shape.begun) /\ (shape'.nested <=> shape.nested)
           /\ shape'.plain <=> shape.plain /\ (kind = "mapping" => Inner.used # {})
<1>1. /\ open \in Seq(Opens) /\ shape \in Shapes /\ open # <<>>
      /\ Inner.kind = kind /\ ~AtValue /\ left' = left /\ scalars' = scalars
  BY Typed DEF WriteEnd
<1> DEFINE outer == Front(open)
<1>2. /\ outer \in Seq(Opens) /\ Len(open) \in Nat \ {0} /\ Len(outer) = Len(open) - 1
      /\ \A i \in 1..(Len(open) - 1) : outer[i] = open[i]
      /\ outer = <<>> <=> Len(open) = 1
  BY <1>1, Fronted
<1>3. open' = IF outer = <<>> THEN <<>>
              ELSE Append(Front(outer), [Last(outer) EXCEPT !.key = None])
  BY DEF WriteEnd
<1> HIDE DEF outer
<1>4. ASSUME outer = <<>> PROVE Ended
  <2>1. open' \in Seq(Opens) /\ Len(open') = 0 /\ Len(open) = 1
    BY <1>2, <1>3, <1>4
  <2>2. Len(open') = Len(open) - 1 /\ ~(Len(open) > 1) /\ 1..(Len(open) - 1) = {}
    BY <2>1
  <2> QED
    BY <2>1, <2>2, Zenon DEF Ended
<1>5. ASSUME outer # <<>> PROVE Ended
  <2> DEFINE l == Last(outer)
             o == [kind |-> l.kind, key |-> None, used |-> l.used,
                   path |-> l.path, inSeq |-> l.inSeq]
  <2>1. l \in Opens /\ l = outer[Len(outer)]
    BY <1>2, <1>5, Fronted
  <2>2. [l EXCEPT !.key = None] = o /\ o \in Opens
    <3> HIDE DEF l
    <3> QED
      BY <2>1 DEF Opens
  <2> HIDE DEF l, o
  <2>3. open' = Append(Front(outer), o)
    BY <1>3, <1>5, <2>2 DEF l
  <2>4. /\ open' \in Seq(Opens) /\ Len(open') = Len(outer)
        /\ \A i \in 1..Len(outer) : open'[i] = IF i = Len(outer) THEN o ELSE outer[i]
    BY <1>2, <1>5, <2>2, <2>3, Replaced
  <2>5. l = open[Len(open) - 1] /\ Len(open) > 1
    BY <1>2, <1>5, <2>1
  <2>6. open'[Len(open) - 1] = o
    BY <1>2, <2>4, <2>5
  <2> QED
    BY <1>2, <2>4, <2>5, <2>6 DEF Ended, o
<1>6. Ended
  BY <1>4, <1>5
<1>7. /\ shape' \in Shapes /\ shape'.top = shape.top
      /\ (shape'.begun <=> shape.begun) /\ (shape'.nested <=> shape.nested)
      /\ shape'.plain <=> shape.plain /\ (kind = "mapping" => Inner.used # {})
  <2> DEFINE x == shape.plain /\ (kind = "mapping" => Inner.used # {})
  <2>1. x \in BOOLEAN /\ shape' = [shape EXCEPT !.plain = x]
    BY DEF WriteEnd
  <2> HIDE DEF x
  <2>2. /\ shape' \in Shapes /\ shape'.top = shape.top /\ shape'.begun = shape.begun
        /\ shape'.nested = shape.nested /\ shape'.plain = x
    BY <1>1, <2>1 DEF Shapes
  <2> QED
    BY <2>2 DEF x
<1> QED
  BY <1>1, <1>6, <1>7

(* How many mappings are open. *)
LEMMA MappingsCounted ==
    ASSUME TypeOK
    PROVE  /\ IsFiniteSet(Mappings) /\ Cardinality(Mappings) \in Nat
           /\ (\E k, u : Rekeyed(k, u)) \/ open' = open => Mappings' = Mappings
           /\ Started("sequence") => Mappings' = Mappings
           /\ Started("mapping") => Cardinality(Mappings)' = Cardinality(Mappings) + 1
           /\ Ended /\ open # <<>> =>
                 Cardinality(Mappings)' =
                    IF Inner.kind = "mapping" THEN Cardinality(Mappings) - 1
                                              ELSE Cardinality(Mappings)
<1>1. /\ open \in Seq(Opens) /\ DOMAIN open = 1..Len(open) /\ Len(open) \in Nat
      /\ open = <<>> <=> Len(open) = 0
  BY Typed
<1>2. PICK n \in Nat : n = Len(open)
  BY <1>1
<1>3. Mappings = {i \in 1..n : open[i].kind = "mapping"}
  BY <1>1, <1>2 DEF Mappings
<1>4. IsFiniteSet(Mappings) /\ Cardinality(Mappings) \in Nat
  <2>1. IsFiniteSet(1..n) /\ Mappings \in SUBSET (1..n)
    BY <1>3, FS_Interval
  <2> QED
    BY <2>1, FS_Subset, FS_CardinalityType
<1>5. ASSUME NEW m \in Nat, open' \in Seq(Opens), Len(open') = m
      PROVE  Mappings' = {i \in 1..m : open'[i].kind = "mapping"}
  BY <1>5 DEF Mappings
<1>6. (\E k, u : Rekeyed(k, u)) \/ open' = open => Mappings' = Mappings
  <2>1. ASSUME NEW k, NEW u, Rekeyed(k, u) PROVE Mappings' = Mappings
    <3>1. /\ Mappings' = {i \in 1..n : open'[i].kind = "mapping"}
          /\ \A i \in 1..n : open'[i].kind = open[i].kind
      BY <1>2, <1>5, <2>1 DEF Rekeyed
    <3> QED
      BY <1>3, <3>1
  <2>2. open' = open => Mappings' = Mappings
    BY DEF Mappings
  <2> QED
    BY <2>1, <2>2
<1>7. ASSUME NEW kind, Started(kind)
      PROVE  Mappings' = IF kind = "mapping" THEN Mappings \cup {n + 1} ELSE Mappings
  <2>1. /\ Mappings' = {i \in 1..(n + 1) : open'[i].kind = "mapping"}
        /\ \A i \in 1..n : open'[i] = open[i]
        /\ open'[n + 1].kind = kind
    BY <1>2, <1>5, <1>7 DEF Started
  <2>2. \A i \in 1..(n + 1) : i \in 1..n \/ i = n + 1
    OBVIOUS
  <2>3. 1..n \subseteq 1..(n + 1) /\ n + 1 \in 1..(n + 1)
    OBVIOUS
  <2> QED
    BY <1>3, <2>1, <2>2, <2>3
<1>8. Started("sequence") => Mappings' = Mappings
  BY <1>7
<1>9. Started("mapping") => Cardinality(Mappings)' = Cardinality(Mappings) + 1
  <2>1. n + 1 \notin Mappings
    BY <1>3
  <2>2. Cardinality(Mappings \cup {n + 1}) = Cardinality(Mappings) + 1
    BY <1>4, <2>1, FS_AddElement
  <2> QED
    BY <1>7, <2>2
<1>10. ASSUME Ended, open # <<>>
       PROVE  Cardinality(Mappings)' =
                 IF Inner.kind = "mapping" THEN Cardinality(Mappings) - 1
                                           ELSE Cardinality(Mappings)
  <2>1. n # 0 /\ n - 1 \in Nat /\ Inner = open[n]
    BY <1>1, <1>2, <1>10 DEF Inner, Last
  <2>2. /\ Mappings' = {i \in 1..(n - 1) : open'[i].kind = "mapping"}
        /\ \A i \in 1..(n - 1) : open'[i].kind = open[i].kind
    BY <1>2, <1>5, <1>10, <2>1 DEF Ended
  <2>3. \A i \in 1..n : i \in 1..(n - 1) \/ i = n
    OBVIOUS
  <2>4. 1..(n - 1) \subseteq 1..n /\ n \notin 1..(n - 1) /\ n \in 1..n
    BY <2>1
  <2>5. Mappings' = Mappings \ {n}
    BY <1>3, <2>2, <2>3, <2>4
  <2>6. Cardinality(Mappings \ {n}) =
           IF n \in Mappings THEN Cardinality(Mappings) - 1 ELSE Cardinality(Mappings)
    BY <1>4, FS_RemoveElement
  <2>7. n \in Mappings <=> Inner.kind = "mapping"
    BY <1>3, <2>1, <2>4
  <2> QED
    BY <2>5, <2>6, <2>7
<1> QED
  BY <1>4, <1>6, <1>8, <1>9, <1>10

-----------------------------------------------------------------------------
(* What an event does to the calls of process_layer and to the tree. *)

Calls == [data : DOMAIN nodes, last_leaf : DOMAIN nodes, storage : 0..3]
Tree == [parent : Nat, data : Names \cup {Root}]

(* The innermost call goes on with another last_leaf and storage. *)
GoesOn(last_leaf, storage) ==
    /\ frames' \in Seq(Calls)' /\ Len(frames') = Len(frames)
    /\ \A i \in 1..Len(frames) : i # Len(frames) => frames'[i] = frames[i]
    /\ frames'[Len(frames)] =
         [data |-> Top.data, last_leaf |-> last_leaf, storage |-> storage]

(* A call of its own for the node. *)
Called(node) ==
    /\ frames' \in Seq(Calls)' /\ Len(frames') = Len(frames) + 1
    /\ \A i \in 1..Len(frames) : frames'[i] = frames[i]
    /\ frames'[Len(frames) + 1] = [data |-> node, last_leaf |-> node, storage |-> VAR]

(* The innermost call returns, and its caller goes on. *)
Returned ==
    /\ frames' \in Seq(Calls)' /\ Len(frames') = Len(frames) - 1
    /\ \A i \in 1..(Len(frames) - 1) : i # Len(frames) - 1 => frames'[i] = frames[i]
    /\ LET f == frames[Len(frames) - 1] IN
         frames'[Len(frames) - 1] =
           [data |-> f.data, last_leaf |-> f.last_leaf, storage |-> Flip(f.storage)]

(* A node is added under another one. *)
Added(x, s) ==
    /\ nodes' \in Seq(Tree) /\ Len(nodes') = Len(nodes) + 1
    /\ \A i \in 1..Len(nodes) : nodes'[i] = nodes[i]
    /\ nodes'[Len(nodes) + 1] = [parent |-> x, data |-> s]

(* Under which one. *)
Where == IF Top.storage # VAR THEN Top.last_leaf ELSE Top.data

(* storage ^= VAL keeps SEQ. *)
LEMMA FlipIs ==
    /\ \A x \in 0..3 : Flip(x) \in 0..3
    /\ Flip(VAR) = VAL /\ Flip(VAL) = VAR
    /\ Flip(SEQ) = SEQ + VAL /\ Flip(SEQ + VAL) = SEQ
    /\ VAR = 0 /\ VAL = 1 /\ SEQ = 2
<1>1. 0 % 2 = 0 /\ 1 % 2 = 1 /\ 2 % 2 = 0 /\ 3 % 2 = 1
  OBVIOUS
<1>2. Flip(0) = 1 /\ Flip(1) = 0 /\ Flip(2) = 3 /\ Flip(3) = 2
  BY <1>1 DEF Flip, VAR, VAL
<1>3. \A x \in 0..3 : x = 0 \/ x = 1 \/ x = 2 \/ x = 3
  OBVIOUS
<1> QED
  BY <1>2, <1>3 DEF VAR, VAL, SEQ

(* There is a call while the file is parsed. *)
LEMMA CallsTyped ==
    ASSUME TypeOK
    PROVE  /\ frames \in Seq(Calls) /\ Len(frames) \in Nat
           /\ nodes \in Seq(Tree) /\ Len(nodes) \in Nat /\ DOMAIN nodes = 1..Len(nodes)
           /\ \A i \in DOMAIN nodes : nodes[i].parent \in Nat /\ nodes[i].data \in Names \cup {Root}
           /\ frames # <<>> =>
                 /\ Len(frames) \in Nat \ {0} /\ Top = frames[Len(frames)] /\ Top \in Calls
                 /\ Top.data \in DOMAIN nodes /\ Top.last_leaf \in DOMAIN nodes
                 /\ Top.storage \in 0..3
           /\ phase = "parse" => frames # <<>>
           /\ phase = "parse" /\ Mappings # {} => Len(frames) >= 2
<1>1. /\ frames \in Seq(Calls) /\ Len(frames) \in Nat
      /\ nodes \in Seq(Tree) /\ Len(nodes) \in Nat /\ DOMAIN nodes = 1..Len(nodes)
  BY Typed DEF TypeOK, Calls, Tree
<1>2. phase = "parse" => Len(frames) = 1 + Cardinality(Mappings)
  BY DEF TypeOK
<1>3. /\ Cardinality(Mappings) \in Nat
      /\ Mappings # {} => Cardinality(Mappings) # 0
  BY MappingsCounted, FS_EmptySet
<1>4. frames = <<>> <=> Len(frames) = 0
  BY <1>1
<1>5. frames # <<>> => Top = frames[Len(frames)] /\ Top \in Calls
  BY <1>1, Fronted DEF Top
<1>6. ASSUME NEW i \in DOMAIN nodes
      PROVE  nodes[i].parent \in Nat /\ nodes[i].data \in Names \cup {Root}
  <2>1. nodes[i] \in Tree
    BY <1>1, ElementOfSeq
  <2> QED
    BY <2>1 DEF Tree
<1> QED
  BY <1>1, <1>2, <1>3, <1>4, <1>5, <1>6 DEF Calls

(* A step of the innermost call. *)
LEMMA CallGoesOn ==
    ASSUME TypeOK, frames # <<>>, DOMAIN nodes \subseteq (DOMAIN nodes)',
           NEW l \in (DOMAIN nodes)', NEW g \in 0..3,
           frames' = SetTop([data |-> Top.data, last_leaf |-> l, storage |-> g])
    PROVE  GoesOn(l, g)
<1> DEFINE f == [data |-> Top.data, last_leaf |-> l, storage |-> g]
<1>1. f \in Calls'
  BY CallsTyped DEF Calls
<1>2. frames \in Seq(Calls')
  <2>1. frames \in Seq(Calls) /\ Calls \subseteq Calls'
    BY CallsTyped DEF Calls
  <2> QED
    BY <2>1, SeqMonotonic
<1>3. frames' = Append(Front(frames), f)
  BY DEF SetTop
<1> HIDE DEF f
<1>4. /\ frames' \in Seq(Calls') /\ Len(frames') = Len(frames) /\ Len(frames) \in Nat \ {0}
      /\ \A i \in 1..Len(frames) : frames'[i] = IF i = Len(frames) THEN f ELSE frames[i]
  <2> DEFINE C == Calls'
  <2>1. f \in C /\ frames \in Seq(C)
    BY <1>1, <1>2
  <2> HIDE DEF C
  <2>2. /\ Append(Front(frames), f) \in Seq(C)
        /\ Len(Append(Front(frames), f)) = Len(frames) /\ Len(frames) \in Nat \ {0}
        /\ \A i \in 1..Len(frames) :
              Append(Front(frames), f)[i] = IF i = Len(frames) THEN f ELSE frames[i]
    BY <2>1, Replaced
  <2> QED
    BY <1>3, <2>2 DEF C
<1>5. frames'[Len(frames)] = f
  BY <1>4
<1> QED
  BY <1>4, <1>5 DEF GoesOn, f

(* YAML_SCALAR_EVENT. *)
LEMMA ScalarCalls ==
    ASSUME TypeOK, NEW s \in Names, Scalar(s)
    PROVE  /\ Where \in DOMAIN nodes /\ Added(Where, s)
           /\ GoesOn(Len(nodes) + 1, Flip(Top.storage))
<1>1. /\ phase = "parse" /\ frames # <<>>
      /\ frames' = SetTop([Top EXCEPT !.last_leaf = Len(nodes) + 1, !.storage = Flip(@)])
      /\ nodes' = Append(nodes, [parent |-> Where, data |-> s])
  BY CallsTyped DEF Scalar, Where
<1>2. /\ nodes \in Seq(Tree) /\ Len(nodes) \in Nat /\ DOMAIN nodes = 1..Len(nodes)
      /\ Top \in Calls /\ Top.storage \in 0..3 /\ Where \in DOMAIN nodes
  BY <1>1, CallsTyped DEF Where
<1>3. [parent |-> Where, data |-> s] \in Tree
  BY <1>2 DEF Tree
<1>4. /\ Added(Where, s) /\ Len(nodes) + 1 \in (DOMAIN nodes)'
      /\ DOMAIN nodes \subseteq (DOMAIN nodes)'
  <2> DEFINE n == [parent |-> Where, data |-> s]
  <2> HIDE DEF n
  <2>1. /\ nodes' \in Seq(Tree) /\ Len(nodes') = Len(nodes) + 1
        /\ (DOMAIN nodes)' = 1..(Len(nodes) + 1)
        /\ \A i \in 1..Len(nodes) : nodes'[i] = nodes[i]
        /\ nodes'[Len(nodes) + 1] = n
    BY <1>1, <1>2, <1>3, Appended DEF n
  <2> QED
    BY <1>2, <2>1 DEF Added, n
<1>5. [Top EXCEPT !.last_leaf = Len(nodes) + 1, !.storage = Flip(@)] =
        [data |-> Top.data, last_leaf |-> Len(nodes) + 1, storage |-> Flip(Top.storage)]
  <2> DEFINE l == Len(nodes) + 1
             g == Flip(Top.storage)
  <2> HIDE DEF l, g
  <2> SUFFICES [Top EXCEPT !.last_leaf = l, !.storage = g] =
                 [data |-> Top.data, last_leaf |-> l, storage |-> g]
    BY DEF l, g
  <2> DEFINE o == [Top EXCEPT !.last_leaf = l]
  <2>1. /\ o = [data |-> Top.data, last_leaf |-> l, storage |-> Top.storage]
        /\ [Top EXCEPT !.last_leaf = l, !.storage = g] = [o EXCEPT !.storage = g]
    BY <1>2 DEF Calls
  <2> HIDE DEF o
  <2> QED
    BY <2>1
<1>6. Flip(Top.storage) \in 0..3
  BY <1>2, FlipIs
<1> QED
  BY <1>1, <1>2, <1>4, <1>5, <1>6, CallGoesOn

(* The start and the end of a sequence. *)
LEMMA SequenceCalls ==
    ASSUME TypeOK, SequenceStart \/ SequenceEnd
    PROVE  /\ nodes' = nodes
           /\ GoesOn(Top.last_leaf, IF SequenceStart THEN SEQ ELSE VAR)
<1>1. /\ phase = "parse" /\ frames # <<>> /\ nodes' = nodes
      /\ frames' = SetTop([Top EXCEPT !.storage = IF SequenceStart THEN SEQ ELSE VAR])
  BY CallsTyped DEF SequenceStart, SequenceEnd
<1> DEFINE g == IF SequenceStart THEN SEQ ELSE VAR
<1>2. g \in 0..3
  BY FlipIs
<1> HIDE DEF g
<1>3. /\ Top \in Calls /\ Top.last_leaf \in (DOMAIN nodes)'
      /\ DOMAIN nodes \subseteq (DOMAIN nodes)'
  BY <1>1, CallsTyped
<1>4. [Top EXCEPT !.storage = g] =
        [data |-> Top.data, last_leaf |-> Top.last_leaf, storage |-> g]
  BY <1>3 DEF Calls
<1>5. frames' = SetTop([data |-> Top.data, last_leaf |-> Top.last_leaf, storage |-> g])
  BY <1>1, <1>4, Zenon DEF g
<1>6. GoesOn(Top.last_leaf, g)
  BY <1>1, <1>2, <1>3, <1>5, CallGoesOn
<1> QED
  BY <1>1, <1>6 DEF g

(* The start of a mapping. *)
LEMMA MappingCalled ==
    ASSUME TypeOK, MappingStart
    PROVE  nodes' = nodes /\ Called(Top.last_leaf)
<1>1. /\ phase = "parse" /\ frames # <<>> /\ nodes' = nodes
      /\ frames' = Append(frames, Frame(Top.last_leaf))
  BY CallsTyped DEF MappingStart
<1>2. Top.last_leaf \in DOMAIN nodes /\ frames \in Seq(Calls) /\ Calls' = Calls
  BY <1>1, CallsTyped DEF Calls
<1> DEFINE f == Frame(Top.last_leaf)
<1>3. f = [data |-> Top.last_leaf, last_leaf |-> Top.last_leaf, storage |-> VAR]
  BY DEF Frame
<1>4. f \in Calls
  BY <1>2, <1>3, FlipIs DEF Calls
<1> HIDE DEF f
<1>5. /\ frames' \in Seq(Calls) /\ Len(frames') = Len(frames) + 1
      /\ \A i \in 1..Len(frames) : frames'[i] = frames[i]
      /\ frames'[Len(frames) + 1] = f
  BY <1>1, <1>2, <1>4, Appended DEF f
<1> QED
  BY <1>1, <1>2, <1>3, <1>5 DEF Called

(* The end of a mapping. *)
LEMMA MappingReturned ==
    ASSUME TypeOK, MappingEnd
    PROVE  nodes' = nodes /\ Len(frames) >= 2 /\ Returned
<1> DEFINE outer == Front(frames)
<1>1. /\ phase = "parse" /\ nodes' = nodes
      /\ frames' = Append(Front(outer), [Last(outer) EXCEPT !.storage = Flip(@)])
  BY DEF MappingEnd
<1>2. Len(frames) >= 2
  <2>1. open # <<>> /\ Inner.kind = "mapping"
    BY EndWritten DEF MappingEnd
  <2>2. Len(open) \in DOMAIN open /\ Inner = open[Len(open)]
    BY <2>1, Typed DEF Inner, Last
  <2>3. Mappings # {}
    BY <2>1, <2>2 DEF Mappings
  <2> QED
    BY <1>1, <2>3, CallsTyped
<1>3. frames \in Seq(Calls) /\ Calls' = Calls /\ Len(frames) \in Nat /\ frames # <<>>
  BY <1>1, CallsTyped DEF Calls
<1>4. /\ outer \in Seq(Calls) /\ Len(outer) = Len(frames) - 1 /\ Len(outer) \in Nat
      /\ \A i \in 1..(Len(frames) - 1) : outer[i] = frames[i]
      /\ outer = <<>> <=> Len(frames) = 1
  BY <1>3, Fronted
<1> HIDE DEF outer
<1> DEFINE l == Last(outer)
           f == [data |-> l.data, last_leaf |-> l.last_leaf, storage |-> Flip(l.storage)]
<1>5. outer # <<>> /\ l \in Calls /\ l = frames[Len(frames) - 1]
  <2>1. outer # <<>>
    BY <1>2, <1>4
  <2>2. l \in Calls /\ l = outer[Len(outer)]
    BY <1>4, <2>1, Fronted
  <2> QED
    BY <1>2, <1>3, <1>4, <2>1, <2>2
<1>6. [l EXCEPT !.storage = Flip(@)] = f /\ f \in Calls
  <2> HIDE DEF l
  <2>1. l.storage \in 0..3 /\ Flip(l.storage) \in 0..3
    BY <1>5, FlipIs DEF Calls
  <2> QED
    BY <1>5, <2>1 DEF Calls
<1> HIDE DEF l, f
<1>7. frames' = Append(Front(outer), f)
  BY <1>1, <1>6, Zenon DEF l
<1>8. /\ frames' \in Seq(Calls) /\ Len(frames') = Len(outer)
      /\ \A i \in 1..Len(outer) : frames'[i] = IF i = Len(outer) THEN f ELSE outer[i]
  BY <1>4, <1>5, <1>6, <1>7, Replaced
<1>9. /\ frames'[Len(frames) - 1] = f
      /\ \A i \in 1..(Len(frames) - 1) : i # Len(frames) - 1 => frames'[i] = frames[i]
  BY <1>2, <1>3, <1>4, <1>8
<1> QED
  BY <1>1, <1>2, <1>3, <1>4, <1>5, <1>8, <1>9 DEF Returned, f

-----------------------------------------------------------------------------
(* Types. *)

(* A node is added after its parent. *)
LEMMA AddedTyped ==
    ASSUME TypeOK, NEW x \in DOMAIN nodes, NEW s, Added(x, s)
    PROVE  /\ nodes' \in Seq([parent : Nat, data : Names \cup {Root}])
           /\ \A i \in (DOMAIN nodes)' : nodes'[i].parent < i
<1>1. PICK n \in Nat : n = Len(nodes)
  BY CallsTyped
<1>2. /\ nodes' \in Seq(Tree) /\ (DOMAIN nodes)' = 1..(n + 1)
      /\ \A i \in 1..n : nodes'[i] = nodes[i] /\ nodes[i].parent < i
      /\ nodes'[n + 1].parent = x /\ x \in 1..n
  BY <1>1, CallsTyped DEF Added, TypeOK
<1>3. \A i \in 1..(n + 1) : i \in 1..n \/ i = n + 1
  OBVIOUS
<1>4. \A i \in 1..(n + 1) : nodes'[i].parent < i
  BY <1>2, <1>3
<1> QED
  BY <1>2, <1>4 DEF Tree

(* Any set of leaves has a last one. *)
LEMMA LastOne ==
    ASSUME TypeOK, NEW T \in SUBSET DOMAIN nodes, T # {}
    PROVE  \E i \in T : \A j \in T : j <= i
<1>1. PICK n \in Nat : n = Len(nodes) /\ DOMAIN nodes = 1..n
  BY CallsTyped
<1>2. T \in SUBSET (0..n)
  BY <1>1
<1> QED
  BY <1>1, <1>2, Greatest

(* What is in the table when the tree has been walked. *)
LEMMA Flattened ==
    ASSUME TypeOK, Flatten
    PROVE  /\ DOMAIN conf_hash' = {KeyOf[i] : i \in Leaves}
           /\ conf_hash' \in [DOMAIN conf_hash' -> Names \cup {Root}]
           /\ \A k \in DOMAIN conf_hash' : \E i \in Leaves :
                 KeyOf[i] = k /\ conf_hash'[k] = nodes[i].data
<1> DEFINE key == KeyOf
           last(k) == CHOOSE i \in Leaves :
                        key[i] = k /\ \A j \in Leaves : key[j] = k => j <= i
<1>1. conf_hash' = [k \in {key[i] : i \in Leaves} |-> nodes[last(k)].data]
  BY DEF Flatten
<1>2. Leaves \subseteq DOMAIN nodes /\ \A i \in DOMAIN nodes : nodes[i].data \in Names \cup {Root}
  BY CallsTyped DEF Leaves
<1> HIDE DEF key
<1>3. ASSUME NEW k \in {key[i] : i \in Leaves}
      PROVE  last(k) \in Leaves /\ key[last(k)] = k
  <2> DEFINE T == {i \in Leaves : key[i] = k}
  <2>1. T \in SUBSET DOMAIN nodes /\ T # {}
    BY <1>2
  <2>2. PICK i \in T : \A j \in T : j <= i
    <3> HIDE DEF T
    <3> QED
      BY <2>1, LastOne
  <2>3. \E m \in Leaves : key[m] = k /\ \A j \in Leaves : key[j] = k => j <= m
    BY <2>2
  <2> QED
    BY <2>3
<1> HIDE DEF last
<1>4. /\ DOMAIN conf_hash' = {key[i] : i \in Leaves}
      /\ \A k \in DOMAIN conf_hash' : conf_hash'[k] = nodes[last(k)].data
      /\ conf_hash' = [k \in DOMAIN conf_hash' |-> nodes[last(k)].data]
  BY <1>1
<1>5. conf_hash' \in [DOMAIN conf_hash' -> Names \cup {Root}]
  BY <1>2, <1>3, <1>4
<1> QED
  BY <1>3, <1>4, <1>5 DEF key

(* Adding an entry. *)
LEMMA WithIs ==
    ASSUME NEW A, NEW B, NEW f \in [A -> B], NEW k, NEW v \in B
    PROVE  /\ With(f, k, v) \in [A \cup {k} -> B] /\ DOMAIN With(f, k, v) = A \cup {k}
           /\ With(f, k, v)[k] = v /\ \A x \in A : x # k => With(f, k, v)[x] = f[x]
  BY DEF With

(* The entries whose keys begin with the name of a collection; b is what lies
   behind a key that is the name itself. *)
Hits(s) == {k \in DOMAIN conf_hash : IsPrefix(Joined(<<s>>), k)}
Entries(s, b) ==
    {<<IF k = Joined(<<s>>) THEN b ELSE Rest(k, Joined(<<s>>)), conf_hash[k]>> : k \in Hits(s)}

(* A collection has one of the values of each of its entries. *)
LEMMA Collected ==
    ASSUME NEW s, GetCollection(s)
    PROVE  \E b : /\ collection' \in [{e[1] : e \in Entries(s, b)} -> {e[2] : e \in Entries(s, b)}]
                  /\ \A n \in DOMAIN collection' : <<n, collection'[n]>> \in Entries(s, b)
<1>1. \E b \in IF Joined(<<s>>) \in Hits(s) THEN Names \cup {<<>>} ELSE {<<>>} :
        \E c \in [{e[1] : e \in Entries(s, b)} -> {e[2] : e \in Entries(s, b)}] :
          /\ \A n \in DOMAIN c : <<n, c[n]>> \in Entries(s, b)
          /\ collection' = c
  BY Zenon DEF GetCollection, Hits, Entries
<1> QED
  BY <1>1, Zenon

(* Every event keeps the types. *)
LEMMA TypesParsed ==
    ASSUME TypeOK,
           (\E s \in Names : Scalar(s)) \/ SequenceStart \/ SequenceEnd \/ MappingStart \/ MappingEnd
    PROVE  TypeOK'
<1>1. /\ phase = "parse" /\ phase' = phase /\ UNCHANGED tableVars
      /\ Len(frames) = 1 + Cardinality(Mappings) /\ Cardinality(Mappings) \in Nat
      /\ conf_hash \in [DOMAIN conf_hash -> Values] /\ section \in Sections \cup {None}
      /\ collection \in [DOMAIN collection -> Values] /\ left \in 0..MaxItems
      /\ scalars \in [DOMAIN scalars -> Names] /\ DOMAIN scalars \subseteq Seq(Names)
      /\ shape \in Shapes
      /\ nodes \in Seq([parent : Nat, data : Names \cup {Root}])
      /\ \A i \in DOMAIN nodes : nodes[i].parent < i
  BY Typed, MappingsCounted
     DEF TypeOK, Scalar, SequenceStart, SequenceEnd, MappingStart, MappingEnd
<1>2. SUFFICES /\ nodes' \in Seq([parent : Nat, data : Names \cup {Root}])
               /\ \A i \in (DOMAIN nodes)' : nodes'[i].parent < i
               /\ frames' \in Seq(Calls)' /\ Len(frames') = 1 + Cardinality(Mappings)'
               /\ open' \in Seq(Opens) /\ left' \in 0..MaxItems /\ shape' \in Shapes
               /\ scalars' \in [DOMAIN scalars' -> Names]
               /\ DOMAIN scalars' \subseteq Seq(Names)
  BY <1>1, Zenon DEF TypeOK, Calls, Opens, Shapes, tableVars, Values
<1>3. CASE \E s \in Names : Scalar(s)
  <2>. PICK s \in Names : Scalar(s)
    BY <1>3
  <2>1. WriteScalar(s) /\ Added(Where, s) /\ Where \in DOMAIN nodes
        /\ frames' \in Seq(Calls)' /\ Len(frames') = Len(frames)
    BY ScalarCalls DEF Scalar, GoesOn
  <2>2. /\ nodes' \in Seq([parent : Nat, data : Names \cup {Root}])
        /\ \A i \in (DOMAIN nodes)' : nodes'[i].parent < i
    BY <2>1, AddedTyped
  <2>3. (\E k, u : Rekeyed(k, u)) \/ open' = open
    BY <2>1, ScalarWritten
  <2>4. Mappings' = Mappings
    BY <2>3, MappingsCounted
  <2>5. open' \in Seq(Opens) /\ left' \in 0..MaxItems
    BY <2>1, ScalarWritten, Typed DEF Rekeyed
  <2>6. open # <<>> => /\ Inner.path \in Seq(Names) /\ Inner.key \in Names \cup {None}
    <3>1. open # <<>> => Inner \in Opens
      BY Typed, Fronted DEF Inner
    <3> QED
      BY <3>1 DEF Opens
  <2>7. AtValue => Append(Inner.path, Inner.key) \in Seq(Names)
    BY <2>6 DEF AtValue
  <2>8. scalars' \in [DOMAIN scalars' -> Names] /\ DOMAIN scalars' \subseteq Seq(Names)
    <3> DEFINE p == Append(Inner.path, Inner.key)
    <3>1. \/ scalars' = scalars
          \/ AtValue /\ scalars' = With(scalars, p, s)
      BY <2>1, ScalarWritten
    <3>2. CASE AtValue /\ scalars' = With(scalars, p, s)
      <4>1. p \in Seq(Names)
        BY <2>7, <3>2
      <4> HIDE DEF p
      <4>2. /\ With(scalars, p, s) \in [DOMAIN scalars \cup {p} -> Names]
            /\ DOMAIN With(scalars, p, s) = DOMAIN scalars \cup {p}
        BY <1>1 DEF With
      <4> QED
        BY <1>1, <3>2, <4>1, <4>2
    <3> QED
      BY <1>1, <3>1, <3>2
  <2>9. shape' \in Shapes
    <3>1. shape' = shape \/ shape' = [shape EXCEPT !.top = @ \cup {s}]
      BY <2>1, ScalarWritten
    <3> QED
      BY <1>1, <3>1 DEF Shapes
  <2> QED
    BY <1>1, <2>1, <2>2, <2>4, <2>5, <2>8, <2>9
<1>4. ASSUME nodes' = nodes
      PROVE  /\ nodes' \in Seq([parent : Nat, data : Names \cup {Root}])
             /\ \A i \in (DOMAIN nodes)' : nodes'[i].parent < i
  BY <1>1, <1>4
<1>5. CASE SequenceStart
  <2>1. WriteStart("sequence") /\ nodes' = nodes
        /\ frames' \in Seq(Calls)' /\ Len(frames') = Len(frames)
    BY <1>5, SequenceCalls DEF SequenceStart, GoesOn
  <2>2. /\ Started("sequence") /\ scalars' = scalars /\ shape' \in Shapes
        /\ left' \in 0..MaxItems /\ open' \in Seq(Opens)
    BY <2>1, StartWritten DEF Started
  <2>3. Mappings' = Mappings
    BY <2>2, MappingsCounted
  <2> QED
    BY <1>1, <1>4, <2>1, <2>2, <2>3
<1>6. CASE SequenceEnd
  <2>1. WriteEnd("sequence") /\ nodes' = nodes
        /\ frames' \in Seq(Calls)' /\ Len(frames') = Len(frames)
    BY <1>6, SequenceCalls DEF SequenceEnd, GoesOn
  <2>2. /\ Ended /\ open # <<>> /\ Inner.kind = "sequence" /\ scalars' = scalars
        /\ shape' \in Shapes /\ left' = left /\ open' \in Seq(Opens)
    BY <2>1, EndWritten DEF Ended
  <2>3. Cardinality(Mappings)' = Cardinality(Mappings)
    BY <2>2, MappingsCounted
  <2> QED
    BY <1>1, <1>4, <2>1, <2>2, <2>3
<1>7. CASE MappingStart
  <2>1. WriteStart("mapping") /\ nodes' = nodes
        /\ frames' \in Seq(Calls)' /\ Len(frames') = Len(frames) + 1
    BY <1>7, MappingCalled DEF MappingStart, Called
  <2>2. /\ Started("mapping") /\ scalars' = scalars /\ shape' \in Shapes
        /\ left' \in 0..MaxItems /\ open' \in Seq(Opens)
    BY <2>1, StartWritten DEF Started
  <2>3. Cardinality(Mappings)' = Cardinality(Mappings) + 1
    BY <2>2, MappingsCounted
  <2> QED
    BY <1>1, <1>4, <2>1, <2>2, <2>3
<1>8. CASE MappingEnd
  <2>1. WriteEnd("mapping") /\ nodes' = nodes
        /\ frames' \in Seq(Calls)' /\ Len(frames') = Len(frames) - 1
    BY <1>8, MappingReturned DEF MappingEnd, Returned
  <2>2. /\ Ended /\ open # <<>> /\ Inner.kind = "mapping" /\ scalars' = scalars
        /\ shape' \in Shapes /\ left' = left /\ open' \in Seq(Opens)
    BY <2>1, EndWritten DEF Ended
  <2>3. Cardinality(Mappings)' = Cardinality(Mappings) - 1
    BY <2>2, MappingsCounted
  <2> QED
    BY <1>1, <1>4, <2>1, <2>2, <2>3
<1> QED
  BY <1>3, <1>5, <1>6, <1>7, <1>8

(* The initial state has its types. *)
LEMMA TypesInit == Init => TypeOK
<1> SUFFICES ASSUME Init PROVE TypeOK
  OBVIOUS
<1>1. /\ nodes = <<[parent |-> 0, data |-> Root]>> /\ open = <<>> /\ frames = <<Frame(1)>>
      /\ conf_hash = NoEntries /\ collection = NoEntries /\ scalars = NoEntries
      /\ phase = "parse" /\ section = None /\ left = MaxItems
      /\ shape = [top |-> {}, begun |-> FALSE, plain |-> TRUE, nested |-> FALSE]
  BY DEF Init
<1>2. /\ nodes \in Seq(Tree) /\ DOMAIN nodes = 1..1
      /\ \A i \in DOMAIN nodes : nodes[i].parent < i
  BY <1>1 DEF Tree
<1>3. frames \in Seq(Calls) /\ Len(frames) = 1
  <2>1. Frame(1) \in Calls
    BY <1>2 DEF Frame, Calls, VAR
  <2> QED
    BY <1>1, <2>1
<1>4. Mappings = {} /\ Cardinality(Mappings) = 0
  <2>1. Mappings = {}
    BY <1>1 DEF Mappings
  <2> QED
    BY <2>1, FS_EmptySet
<1>5. /\ conf_hash \in [DOMAIN conf_hash -> Values]
      /\ collection \in [DOMAIN collection -> Values]
      /\ scalars \in [DOMAIN scalars -> Names] /\ DOMAIN scalars \subseteq Seq(Names)
  BY <1>1 DEF NoEntries
<1>6. open \in Seq(Opens) /\ shape \in Shapes /\ left \in 0..MaxItems
  <2>1. open \in Seq(Opens)
    BY <1>1
  <2>2. shape \in Shapes
    BY <1>1 DEF Shapes
  <2>3. left \in 0..MaxItems
    BY <1>1, ItemsAssumption
  <2> QED
    BY <2>1, <2>2, <2>3
<1>7. Len(frames) = 1 + Cardinality(Mappings)
  BY <1>3, <1>4
<1> QED
  BY <1>1, <1>2, <1>3, <1>5, <1>6, <1>7, Zenon DEF TypeOK, Tree, Calls, Opens, Shapes

(* So does every state after a step. *)
LEMMA TypesNext == TypeOK /\ [Next]_vars => TypeOK'
<1> SUFFICES ASSUME TypeOK, [Next]_vars PROVE TypeOK'
  OBVIOUS
<1>1. CASE (\E s \in Names : Scalar(s)) \/ SequenceStart \/ SequenceEnd
              \/ MappingStart \/ MappingEnd
  BY <1>1, TypesParsed
<1>2. ASSUME UNCHANGED <<nodes, open, left, scalars, shape>>, frames' = frames \/ frames' = <<>>,
             phase' \in {"stuck", "flatten", "merge", "ready"} \/ phase' = phase,
             phase' = phase => frames' = frames,
             conf_hash' \in [DOMAIN conf_hash' -> Values],
             section' \in Sections \cup {None},
             collection' \in [DOMAIN collection' -> Values]
      PROVE  TypeOK'
  <2>1. frames' \in Seq(Calls)'
    <3>1. frames \in Seq(Calls) /\ Seq(Calls)' = Seq(Calls) /\ <<>> \in Seq(Calls)
      BY <1>2, CallsTyped DEF Calls
    <3> QED
      BY <1>2, <3>1
  <2>2. Mappings' = Mappings
    BY <1>2 DEF Mappings
  <2>3. phase' = "parse" => Len(frames') = 1 + Cardinality(Mappings)'
    BY <1>2, <2>2 DEF TypeOK
  <2>4. /\ phase' \in {"parse", "stuck", "flatten", "merge", "ready"}
        /\ nodes' \in Seq([parent : Nat, data : Names \cup {Root}])
        /\ \A i \in (DOMAIN nodes)' : nodes'[i].parent < i
    BY <1>2 DEF TypeOK
  <2>5. /\ open' \in Seq([kind : {"mapping", "sequence"}, key : Names \cup {None},
                          used : SUBSET Names, path : Seq(Names), inSeq : BOOLEAN])
        /\ left' \in 0..MaxItems
        /\ scalars' \in [DOMAIN scalars' -> Names] /\ DOMAIN scalars' \subseteq Seq(Names)
        /\ shape' \in [top : SUBSET Names, begun : BOOLEAN, plain : BOOLEAN, nested : BOOLEAN]
    BY <1>2 DEF TypeOK
  <2> QED
    BY <1>2, <2>1, <2>3, <2>4, <2>5, Zenon DEF TypeOK, Calls, Values
<1>3. /\ conf_hash \in [DOMAIN conf_hash -> Values] /\ section \in Sections \cup {None}
      /\ collection \in [DOMAIN collection -> Values]
  BY DEF TypeOK
<1>4. CASE StreamEnd \/ SyntaxError \/ NoFile \/ UNCHANGED vars
  BY <1>2, <1>3, <1>4
     DEF StreamEnd, SyntaxError, NoFile, vars, parserVars, fileVars, tableVars
<1>5. CASE Flatten
  <2>1. conf_hash' \in [DOMAIN conf_hash' -> Values]
    <3>1. /\ conf_hash' \in [DOMAIN conf_hash' -> Names \cup {Root}]
          /\ Names \cup {Root} \subseteq Values
      BY <1>5, Flattened DEF Values
    <3> QED
      BY <3>1
  <2> QED
    BY <1>2, <1>3, <1>5, <2>1 DEF Flatten, parserVars, fileVars
<1>6. CASE Merge
  <2> DEFINE k == Joined(<<TokenName>>)
  <2>1. conf_hash' = IF k \in DOMAIN conf_hash THEN conf_hash ELSE With(conf_hash, k, Default)
    BY <1>6 DEF Merge
  <2> HIDE DEF k
  <2>2. conf_hash' \in [DOMAIN conf_hash' -> Values]
    BY <1>3, <2>1 DEF With, Values
  <2> QED
    BY <1>2, <1>3, <1>6, <2>2 DEF Merge, parserVars, fileVars
<1>7. ASSUME NEW s \in Sections, GetCollection(s) PROVE TypeOK'
  <2>1. collection' \in [DOMAIN collection' -> Values]
    <3>1. PICK b : collection' \in [{e[1] : e \in Entries(s, b)} -> {e[2] : e \in Entries(s, b)}]
      BY <1>7, Collected, Zenon
    <3>2. \A e \in Entries(s, b) : e[2] \in Values
      BY <1>3 DEF Entries, Hits
    <3> QED
      BY <3>1, <3>2
  <2> QED
    BY <1>2, <1>3, <1>7, <2>1 DEF GetCollection, parserVars, fileVars
<1> QED
  BY <1>1, <1>4, <1>5, <1>6, <1>7 DEF Next

(* Every variable of the configuration manager keeps its type: the tree stays a
   tree, there is one call of process_layer per open mapping, and the tables
   have values of the file. *)
THEOREM ConfigTypes == Spec => []TypeOK
<1> QED
  BY TypesInit, TypesNext, PTL DEF Spec

-----------------------------------------------------------------------------
(* The file's collections and its scalars. *)

(* The fields of an open collection. *)
LEMMA OpenTyped ==
    ASSUME TypeOK
    PROVE  /\ \A h \in DOMAIN open :
                 /\ open[h].kind \in {"mapping", "sequence"} /\ open[h].key \in Names \cup {None}
                 /\ open[h].used \in SUBSET Names /\ open[h].path \in Seq(Names)
                 /\ open[h].inSeq \in BOOLEAN
           /\ open # <<>> => Len(open) \in DOMAIN open /\ Inner = open[Len(open)]
<1>1. ASSUME NEW h \in DOMAIN open PROVE open[h] \in Opens
  BY Typed, ElementOfSeq
<1>2. open # <<>> => Len(open) \in DOMAIN open /\ Inner = open[Len(open)]
  BY Typed DEF Inner, Last
<1> QED
  BY <1>1, <1>2 DEF Opens

(* A scalar leaves the collections as OpenInv has them. *)
LEMMA OpenScalar ==
    ASSUME TypeOK, OpenInv, NEW s \in Names, WriteScalar(s)
    PROVE  OpenInv'
<1>1. PICK n \in Nat : n = Len(open) /\ DOMAIN open = 1..n
  BY Typed
<1>2. n # 0 /\ n \in 1..n /\ Inner = open[n]
  BY <1>1, ScalarWritten, OpenTyped, Typed
<1>3. open' = open /\ shape' = shape => OpenInv'
  BY DEF OpenInv, OpenAt, Outside
<1>4. /\ (AtKey /\ Rekeyed(s, Inner.used \cup {s})) \/ (AtValue /\ Rekeyed(None, Inner.used))
         \/ (open' = open /\ shape' = shape)
      /\ shape'.nested = shape.nested
  BY ScalarWritten, Typed DEF Shapes
<1>5. ASSUME NEW k, NEW u, Rekeyed(k, u), k \in u \cup {None} PROVE OpenInv'
  <2>1. /\ Len(open') = n /\ (DOMAIN open)' = 1..n
        /\ \A h \in 1..n : /\ open'[h].kind = open[h].kind /\ open'[h].path = open[h].path
                           /\ open'[h].inSeq = open[h].inSeq
                           /\ h # n => open'[h].key = open[h].key /\ open'[h].used = open[h].used
        /\ open'[n].key = k /\ open'[n].used = u
    BY <1>1, <1>2, <1>5 DEF Rekeyed
  <2>2. \A h \in 1..n : Outside(h)' <=> Outside(h)
    BY <2>1 DEF Outside
  <2> SUFFICES ASSUME NEW h \in 1..n PROVE OpenAt(h)'
    BY <2>1 DEF OpenInv
  <2>3. OpenAt(h)
    BY <1>1 DEF OpenInv
  <2>4. \A g \in 1..(h - 1) : g \in 1..n /\ g # n
    OBVIOUS
  <2>5. h # 1 => h - 1 \in 1..n
    OBVIOUS
  <2>6. open'[h].key \in open'[h].used \cup {None}
    BY <1>5, <2>1, <2>3 DEF OpenAt
  <2> QED
    BY <1>1, <1>4, <2>1, <2>2, <2>3, <2>4, <2>5, <2>6 DEF OpenAt
<1>6. Inner.key \in Inner.used \cup {None}
  BY <1>1, <1>2 DEF OpenInv, OpenAt
<1> QED
  BY <1>3, <1>4, <1>5

(* So does a new collection. *)
LEMMA OpenStart ==
    ASSUME TypeOK, OpenInv, NEW kind \in {"mapping", "sequence"}, WriteStart(kind)
    PROVE  OpenInv'
<1>1. PICK n \in Nat : n = Len(open) /\ DOMAIN open = 1..n /\ (open = <<>> <=> n = 0)
  BY Typed
<1>2. n # 0 => n \in 1..n /\ Inner = open[n]
  BY <1>1, OpenTyped
<1>3. /\ AtValue \/ AtItem \/ (kind = "mapping" /\ open = <<>>)
      /\ shape'.nested <=> shape.nested \/ (AtItem /\ kind = "sequence")
      /\ Started(kind)
  BY StartWritten
<1>4. /\ Len(open') = n + 1 /\ (DOMAIN open)' = 1..(n + 1)
      /\ \A h \in 1..n : open'[h] = open[h]
      /\ open'[n + 1].kind = kind /\ open'[n + 1].key = None /\ open'[n + 1].used = {}
      /\ open'[n + 1].path = IF open = <<>> THEN <<>>
                              ELSE IF AtValue THEN Append(Inner.path, Inner.key) ELSE Inner.path
      /\ open'[n + 1].inSeq <=> AtItem \/ kind = "sequence" \/ (open # <<>> /\ Inner.inSeq)
  BY <1>1, <1>3 DEF Started
<1>5. \A h \in 1..n : Outside(h)' <=> Outside(h)
  BY <1>4 DEF Outside
<1>6. ASSUME NEW h \in 1..n PROVE OpenAt(h)'
  <2>1. OpenAt(h)
    BY <1>1 DEF OpenInv
  <2>2. \A g \in 1..(h - 1) : g \in 1..n
    OBVIOUS
  <2>3. h # 1 => h - 1 \in 1..n
    OBVIOUS
  <2>4. open[n].kind = "mapping" => open[n].key # None
    BY <1>1, <1>2, <1>3 DEF AtValue, AtItem
  <2> QED
    BY <1>1, <1>3, <1>4, <1>5, <2>1, <2>2, <2>3, <2>4 DEF OpenAt
<1>7. OpenAt(n + 1)'
  <2>1. CASE n = 0
    <3>1. kind = "mapping" /\ ~AtItem /\ ~AtValue
      BY <1>1, <1>3, <2>1 DEF AtItem, AtValue
    <3>2. Outside(n + 1)' /\ open'[1].path = <<>> /\ 1..0 = {}
      BY <1>1, <1>4, <2>1, <3>1 DEF Outside
    <3> QED
      BY <1>4, <2>1, <3>1, <3>2 DEF OpenAt
  <2>2. CASE n # 0
    <3>1. OpenAt(n) /\ open # <<>>
      BY <1>1, <1>2, <2>2 DEF OpenInv
    <3>2. Outside(n + 1)' => Outside(n) /\ AtValue /\ kind = "mapping"
      <4>1. Outside(n + 1)' => ~AtItem /\ kind # "sequence" /\ ~Inner.inSeq
        BY <1>4, <3>1 DEF Outside
      <4> QED
        BY <1>2, <1>3, <2>2, <3>1, <4>1 DEF Outside
    <3>3. ASSUME Outside(n + 1)'
          PROVE  /\ Len(open'[n + 1].path) = n
                 /\ \A g \in 1..n : Outside(g)' /\ open'[n + 1].path[g] = open'[g].key
      <4>1. /\ open[n].path \in Seq(Names) /\ open[n].key \in Names /\ Len(open[n].path) = n - 1
            /\ \A g \in 1..(n - 1) : Outside(g) /\ open[n].path[g] = open[g].key
        BY <1>1, <1>2, <2>2, <3>1, <3>2, <3>3, OpenTyped DEF AtValue, OpenAt
      <4>2. open'[n + 1].path = Append(open[n].path, open[n].key)
        BY <1>2, <1>4, <2>2, <3>1, <3>2, <3>3
      <4>3. /\ Len(open'[n + 1].path) = n /\ open'[n + 1].path[n] = open[n].key
            /\ \A g \in 1..(n - 1) : open'[n + 1].path[g] = open[n].path[g]
        BY <2>2, <4>1, <4>2
      <4>4. \A g \in 1..n : g \in 1..(n - 1) \/ g = n
        OBVIOUS
      <4> QED
        BY <1>4, <1>5, <3>2, <3>3, <4>1, <4>3, <4>4
    <3>4. ~Outside(n + 1)' /\ Outside(n)' => kind = "sequence"
      <4>1. Outside(n) => ~Inner.inSeq /\ Inner.kind = "mapping"
        BY <1>2, <2>2, <3>1 DEF OpenAt, Outside
      <4> QED
        BY <1>2, <1>4, <1>5, <2>2, <4>1 DEF Outside, AtItem
    <3>5. ~shape'.nested /\ kind = "sequence" => open'[n].kind = "mapping"
      BY <1>2, <1>3, <1>4, <2>2, <3>1 DEF AtValue
    <3> QED
      BY <1>4, <2>2, <3>2, <3>3, <3>4, <3>5 DEF OpenAt
  <2> QED
    BY <2>1, <2>2
<1>8. \A h \in 1..(n + 1) : h \in 1..n \/ h = n + 1
  OBVIOUS
<1> QED
  BY <1>4, <1>6, <1>7, <1>8 DEF OpenInv

(* And the end of one. *)
LEMMA OpenEnd ==
    ASSUME TypeOK, OpenInv, NEW kind \in {"mapping", "sequence"}, WriteEnd(kind)
    PROVE  OpenInv'
<1>1. PICK n \in Nat : n = Len(open) /\ DOMAIN open = 1..n /\ n # 0
  BY Typed, EndWritten
<1>2. Ended /\ (shape'.nested <=> shape.nested)
  BY EndWritten
<1>3. /\ Len(open') = n - 1 /\ (DOMAIN open)' = 1..(n - 1)
      /\ \A h \in 1..(n - 1) :
            /\ open'[h].kind = open[h].kind /\ open'[h].path = open[h].path
            /\ open'[h].inSeq = open[h].inSeq /\ open'[h].used = open[h].used
            /\ open'[h].key = IF h = n - 1 THEN None ELSE open[h].key
  <2>1. /\ open' \in Seq(Opens) /\ Len(open') = n - 1
        /\ \A h \in 1..(n - 1) : h # n - 1 => open'[h] = open[h]
        /\ n > 1 => open'[n - 1] = [kind |-> open[n - 1].kind, key |-> None,
                                    used |-> open[n - 1].used, path |-> open[n - 1].path,
                                    inSeq |-> open[n - 1].inSeq]
    BY <1>1, <1>2 DEF Ended
  <2>2. \A h \in 1..(n - 1) : h = n - 1 => n > 1
    OBVIOUS
  <2> QED
    BY <2>1, <2>2
<1>4. \A h \in 1..(n - 1) : h \in 1..n /\ (Outside(h)' <=> Outside(h))
  BY <1>3 DEF Outside
<1>5. ASSUME NEW h \in 1..(n - 1) PROVE OpenAt(h)'
  <2>1. OpenAt(h)
    BY <1>1, <1>4 DEF OpenInv
  <2>2. \A g \in 1..(h - 1) : g \in 1..(n - 1) /\ g # n - 1
    OBVIOUS
  <2>3. h # 1 => h - 1 \in 1..(n - 1)
    OBVIOUS
  <2>4. h # n
    OBVIOUS
  <2> QED
    BY <1>1, <1>2, <1>3, <1>4, <2>1, <2>2, <2>3, <2>4 DEF OpenAt
<1> QED
  BY <1>3, <1>5 DEF OpenInv

(* A scalar's path is that of its mapping and its key. *)
LEMMA ScalarsAre ==
    ASSUME TypeOK, OpenInv, NEW s \in Names, WriteScalar(s)
    PROVE  \/ scalars' = scalars
           \/ /\ AtValue /\ Outside(Len(open)) /\ Here(Len(open)) \in Seq(Names)
              /\ DOMAIN scalars' = DOMAIN scalars \cup {Here(Len(open))}
              /\ scalars'[Here(Len(open))] = s
              /\ \A p \in DOMAIN scalars : p # Here(Len(open)) => scalars'[p] = scalars[p]
<1>1. /\ open # <<>> /\ Inner = open[Len(open)] /\ Len(open) \in DOMAIN open
      /\ Inner.path \in Seq(Names) /\ Inner.key \in Names \cup {None}
  BY ScalarWritten, OpenTyped
<1>2. Here(Len(open)) = Append(Inner.path, Inner.key)
  BY <1>1 DEF Here
<1>3. \/ scalars' = scalars
      \/ AtValue /\ ~Inner.inSeq /\ scalars' = With(scalars, Here(Len(open)), s)
  BY <1>2, ScalarWritten
<1>4. AtValue => Here(Len(open)) \in Seq(Names)
  BY <1>1, <1>2 DEF AtValue
<1> DEFINE p == Here(Len(open))
<1> HIDE DEF p
<1>5. ASSUME scalars' = With(scalars, p, s)
      PROVE  /\ DOMAIN scalars' = DOMAIN scalars \cup {p} /\ scalars'[p] = s
             /\ \A q \in DOMAIN scalars : q # p => scalars'[q] = scalars[q]
  BY <1>5 DEF With
<1> QED
  BY <1>1, <1>3, <1>4, <1>5 DEF Outside, p

(* What a scalar leaves of the keys. *)
LEMMA KeyedScalar ==
    ASSUME TypeOK, OpenInv, KeyedInv, NEW s \in Names, WriteScalar(s)
    PROVE  KeyedInv'
<1>1. PICK n \in Nat : n = Len(open) /\ DOMAIN open = 1..n /\ n \in 1..n /\ Inner = open[n]
  <2>1. open # <<>>
    BY ScalarWritten
  <2> QED
    BY <2>1, Typed, OpenTyped
<1>2. AtKey => s \in Keys
  BY DEF WriteScalar, AtKey, AtValue, AtItem
<1>3. open[n].used \subseteq Keys /\ open[n].path \in Seq(Keys)
  BY <1>1 DEF KeyedInv
<1>4. ASSUME NEW k, NEW u, Rekeyed(k, u), u \subseteq Keys
      PROVE  \A h \in (DOMAIN open)' : open'[h].used \subseteq Keys /\ open'[h].path \in Seq(Keys)
  <2>1. /\ open' \in Seq(Opens) /\ Len(open') = n
        /\ open'[n].used = u /\ open'[n].path = open[n].path
        /\ \A h \in 1..n : h # n => open'[h] = open[h]
    BY <1>1, <1>4 DEF Rekeyed
  <2>2. (DOMAIN open)' = 1..n
    BY <2>1
  <2> QED
    BY <1>1, <1>3, <1>4, <2>1, <2>2 DEF KeyedInv
<1>5. \A h \in (DOMAIN open)' : open'[h].used \subseteq Keys /\ open'[h].path \in Seq(Keys)
  <2>1. \/ AtKey /\ Rekeyed(s, Inner.used \cup {s})
        \/ Rekeyed(None, Inner.used)
        \/ open' = open
    BY ScalarWritten
  <2>2. CASE AtKey /\ Rekeyed(s, Inner.used \cup {s})
    <3>1. Inner.used \cup {s} \subseteq Keys
      BY <1>1, <1>2, <1>3, <2>2
    <3> QED
      BY <1>4, <2>2, <3>1
  <2>3. CASE Rekeyed(None, Inner.used)
    BY <1>1, <1>3, <1>4, <2>3
  <2>4. CASE open' = open
    BY <2>4 DEF KeyedInv
  <2> QED
    BY <2>1, <2>2, <2>3, <2>4
<1>6. shape'.top \subseteq Keys
  <2>1. shape \in Shapes /\ (shape' = shape \/ (AtKey /\ shape' = [shape EXCEPT !.top = @ \cup {s}]))
    BY ScalarWritten, Typed
  <2>2. shape'.top = shape.top \/ (AtKey /\ shape'.top = shape.top \cup {s})
    BY <2>1 DEF Shapes
  <2> QED
    BY <1>2, <2>2 DEF KeyedInv
<1>7. AtValue => Here(n) \in Seq(Keys)
  <2>1. AtValue => open[n].key \in Keys
    <3>1. open[n].key \in open[n].used \cup {None}
      BY <1>1 DEF OpenInv, OpenAt
    <3> QED
      BY <1>1, <1>3, <3>1 DEF AtValue
  <2> QED
    BY <1>3, <2>1 DEF Here
<1>8. DOMAIN scalars' \subseteq Seq(Keys)
  <2>1. scalars' = scalars \/ (AtValue /\ DOMAIN scalars' = DOMAIN scalars \cup {Here(n)})
    BY <1>1, ScalarsAre
  <2> QED
    BY <1>7, <2>1 DEF KeyedInv
<1> QED
  BY <1>5, <1>6, <1>8 DEF KeyedInv

(* And the start of a collection. *)
LEMMA KeyedStart ==
    ASSUME TypeOK, OpenInv, KeyedInv, NEW kind \in {"mapping", "sequence"}, WriteStart(kind)
    PROVE  KeyedInv'
<1>1. PICK n \in Nat : n = Len(open) /\ DOMAIN open = 1..n /\ (open = <<>> <=> n = 0)
  BY Typed
<1>2. Started(kind) /\ scalars' = scalars /\ shape'.top = shape.top
  BY StartWritten
<1>3. /\ open' \in Seq(Opens) /\ Len(open') = n + 1 /\ (DOMAIN open)' = 1..(n + 1)
      /\ \A h \in 1..n : open'[h] = open[h]
      /\ open'[n + 1].used = {}
      /\ open'[n + 1].path = IF open = <<>> THEN <<>>
                             ELSE IF AtValue THEN Append(Inner.path, Inner.key) ELSE Inner.path
  BY <1>1, <1>2 DEF Started
<1>4. open'[n + 1].path \in Seq(Keys)
  <2>1. CASE open = <<>>
    BY <1>3, <2>1
  <2>2. CASE open # <<>>
    <3>1. /\ n \in 1..n /\ Inner = open[n] /\ open[n].key \in open[n].used \cup {None}
          /\ open[n].used \subseteq Keys /\ open[n].path \in Seq(Keys)
      BY <1>1, <2>2, OpenTyped DEF OpenInv, OpenAt, KeyedInv
    <3>2. AtValue => Inner.key \in Keys
      BY <3>1 DEF AtValue
    <3> QED
      BY <1>3, <2>2, <3>1, <3>2
  <2> QED
    BY <2>1, <2>2
<1>5. \A h \in 1..(n + 1) : h \in 1..n \/ h = n + 1
  OBVIOUS
<1> QED
  BY <1>1, <1>2, <1>3, <1>4, <1>5 DEF KeyedInv

(* And its end. *)
LEMMA KeyedEnd ==
    ASSUME TypeOK, KeyedInv, NEW kind \in {"mapping", "sequence"}, WriteEnd(kind)
    PROVE  KeyedInv'
<1>1. PICK n \in Nat : n = Len(open) /\ DOMAIN open = 1..n /\ n # 0
  BY Typed, EndWritten
<1>2. Ended /\ scalars' = scalars /\ shape'.top = shape.top
  BY EndWritten
<1>3. /\ open' \in Seq(Opens) /\ Len(open') = n - 1 /\ (DOMAIN open)' = 1..(n - 1)
      /\ \A h \in 1..(n - 1) : open'[h].used = open[h].used /\ open'[h].path = open[h].path
  <2>1. /\ open' \in Seq(Opens) /\ Len(open') = n - 1
        /\ \A h \in 1..(n - 1) : h # n - 1 => open'[h] = open[h]
        /\ n > 1 => open'[n - 1] = [kind |-> open[n - 1].kind, key |-> None,
                                    used |-> open[n - 1].used, path |-> open[n - 1].path,
                                    inSeq |-> open[n - 1].inSeq]
    BY <1>1, <1>2 DEF Ended
  <2>2. \A h \in 1..(n - 1) : h = n - 1 => n > 1
    OBVIOUS
  <2> QED
    BY <2>1, <2>2
<1>4. \A h \in 1..(n - 1) : h \in 1..n
  OBVIOUS
<1> QED
  BY <1>1, <1>2, <1>3, <1>4 DEF KeyedInv

(* A scalar keeps what is known of the file. *)
LEMMA FileScalar ==
    ASSUME TypeOK, OpenInv, FileInv, NEW s \in Names, WriteScalar(s)
    PROVE  FileInv'
<1>1. PICK n \in Nat : n = Len(open) /\ DOMAIN open = 1..n
  BY Typed
<1>2. /\ n # 0 /\ n \in 1..n /\ Inner = open[n] /\ open # <<>> /\ shape.begun
      /\ Inner.used \in SUBSET Names
  BY <1>1, ScalarWritten, OpenTyped, Typed DEF FileInv
<1>3. /\ shape' \in Shapes /\ (shape'.begun <=> shape.begun)
      /\ (shape'.plain <=> shape.plain) /\ (shape'.nested <=> shape.nested)
      /\ shape.top \subseteq shape'.top
  <2>1. shape \in Shapes /\ (shape' = shape \/ shape' = [shape EXCEPT !.top = @ \cup {s}])
    BY ScalarWritten, Typed
  <2> QED
    BY <2>1 DEF Shapes
<1>4. /\ (DOMAIN open)' = 1..n /\ open' # <<>>
      /\ \A h \in 1..n : Outside(h)' <=> Outside(h)
      /\ shape'.top = open'[1].used
  <2>1. shape.top = open[1].used /\ shape \in Shapes
    BY <1>2, Typed DEF FileInv
  <2>2. CASE open' = open /\ shape' = shape
    BY <1>1, <1>2, <2>1, <2>2 DEF Outside
  <2>3. ASSUME NEW k, NEW u, Rekeyed(k, u)
        PROVE  /\ open' \in Seq(Opens) /\ Len(open') = n
               /\ (DOMAIN open)' = 1..n /\ open' # <<>>
               /\ \A h \in 1..n : Outside(h)' <=> Outside(h)
               /\ open'[n].used = u /\ (n # 1 => open'[1] = open[1])
    <3>1. /\ open' \in Seq(Opens) /\ Len(open') = n /\ open'[n].used = u
          /\ \A h \in 1..n : open'[h].inSeq = open[h].inSeq
          /\ \A h \in 1..n : h # n => open'[h] = open[h]
      BY <1>1, <1>2, <2>3 DEF Rekeyed
    <3>2. (DOMAIN open)' = 1..n /\ open' # <<>> /\ 1 \in 1..n
      BY <1>2, <3>1
    <3> QED
      BY <3>1, <3>2 DEF Outside
  <2>4. CASE /\ AtKey /\ Rekeyed(s, Inner.used \cup {s})
             /\ shape' = IF n = 1 THEN [shape EXCEPT !.top = @ \cup {s}] ELSE shape
    <3>1. shape' = IF n = 1 THEN [shape EXCEPT !.top = @ \cup {s}] ELSE shape
      BY <2>4
    <3>2. shape'.top = IF n = 1 THEN shape.top \cup {s} ELSE shape.top
      BY <2>1, <3>1 DEF Shapes
    <3>3. open'[1].used = IF n = 1 THEN Inner.used \cup {s} ELSE open[1].used
      <4>1. open'[n].used = Inner.used \cup {s} /\ (n # 1 => open'[1] = open[1])
        BY <2>3, <2>4, Zenon
      <4> QED
        BY <4>1
    <3>4. shape'.top = open'[1].used
      BY <1>2, <2>1, <3>2, <3>3
    <3> QED
      BY <2>3, <2>4, <3>4
  <2>5. CASE AtValue /\ Rekeyed(None, Inner.used) /\ shape' = shape
    <3>1. open'[1].used = open[1].used
      <4>1. open'[n].used = Inner.used /\ (n # 1 => open'[1] = open[1])
        BY <2>3, <2>5, Zenon
      <4> QED
        BY <1>2, <4>1
    <3> QED
      BY <2>1, <2>3, <2>5, <3>1
  <2>6. \/ /\ AtKey /\ Rekeyed(s, Inner.used \cup {s})
           /\ shape' = IF n = 1 THEN [shape EXCEPT !.top = @ \cup {s}] ELSE shape
        \/ AtValue /\ Rekeyed(None, Inner.used) /\ shape' = shape
        \/ open' = open /\ shape' = shape
    BY <1>1, ScalarWritten
  <2> QED
    BY <2>2, <2>4, <2>5, <2>6
<1>5. \A p \in DOMAIN scalars' : Len(p) >= 1 /\ p[1] \in shape'.top
  <2>1. \A p \in DOMAIN scalars : Len(p) >= 1 /\ p[1] \in shape'.top
    BY <1>3 DEF FileInv
  <2>2. ASSUME AtValue, Outside(n) PROVE Len(Here(n)) >= 1 /\ Here(n)[1] \in shape'.top
    <3>1. /\ OpenAt(n) /\ open[n].path \in Seq(Names) /\ open[n].key \in Names
          /\ Len(open[n].path) = n - 1
      BY <1>1, <1>2, <2>2, OpenTyped DEF OpenInv, OpenAt, AtValue
    <3>2. Here(n)[1] = open[1].key /\ Len(Here(n)) = n
      <4>1. CASE n = 1
        <5>1. open[n].path = <<>>
          BY <3>1, <4>1
        <5> QED
          BY <3>1, <4>1, <5>1 DEF Here
      <4>2. CASE n # 1
        <5>1. /\ 1 \in 1..(n - 1) /\ Append(open[n].path, open[n].key)[1] = open[n].path[1]
              /\ Len(Append(open[n].path, open[n].key)) = n
          BY <1>2, <3>1, <4>2
        <5>2. open[n].path[1] = open[1].key
          BY <2>2, <3>1, <5>1 DEF OpenAt
        <5> QED
          BY <5>1, <5>2 DEF Here
      <4> QED
        BY <4>1, <4>2
    <3>3. Here(n)[1] \in Names
      <4>1. Append(open[n].path, open[n].key) \in Seq(Names)
        BY <3>1
      <4> QED
        BY <1>2, <3>2, <4>1 DEF Here
    <3>4. 1 \in 1..n /\ open[1].key \in open[1].used \cup {None}
      BY <1>1, <1>2 DEF OpenInv, OpenAt
    <3> QED
      BY <1>2, <1>3, <3>2, <3>3, <3>4, NamesAssumption DEF FileInv
  <2> QED
    BY <1>1, <2>1, <2>2, ScalarsAre
<1>6. KeyedInv'
  BY KeyedScalar DEF FileInv
<1> QED
  BY <1>1, <1>2, <1>3, <1>4, <1>5, <1>6 DEF FileInv

(* So does a new collection. *)
LEMMA FileStart ==
    ASSUME TypeOK, OpenInv, FileInv, NEW kind \in {"mapping", "sequence"}, WriteStart(kind)
    PROVE  FileInv'
<1>1. PICK n \in Nat : n = Len(open) /\ DOMAIN open = 1..n /\ (open = <<>> <=> n = 0)
  BY Typed
<1>2. /\ n # 0 => n \in 1..n /\ Inner = open[n]
      /\ AtValue \/ AtItem \/ (kind = "mapping" /\ open = <<>> /\ ~shape.begun)
      /\ shape' \in Shapes /\ shape'.top = shape.top /\ shape'.begun
      /\ shape'.plain <=> shape.plain /\ kind = "mapping"
      /\ shape'.nested <=> shape.nested \/ (AtItem /\ kind = "sequence")
      /\ Started(kind) /\ scalars' = scalars
  BY <1>1, OpenTyped, StartWritten
<1>3. /\ open' \in Seq(Opens) /\ Len(open') = n + 1 /\ (DOMAIN open)' = 1..(n + 1)
      /\ \A h \in 1..n : open'[h] = open[h]
      /\ open'[n + 1].used = {}
      /\ open'[n + 1].inSeq <=> AtItem \/ kind = "sequence" \/ (open # <<>> /\ Inner.inSeq)
  BY <1>1, <1>2 DEF Started
<1>4. shape'.top = open'[1].used
  <2>1. CASE n = 0
    <3>1. ~shape.begun /\ n + 1 = 1
      BY <1>1, <1>2, <2>1 DEF AtValue, AtItem
    <3> QED
      BY <1>2, <1>3, <3>1 DEF FileInv
  <2>2. CASE n # 0
    <3>1. 1 \in 1..n
      BY <2>2
    <3> QED
      BY <1>1, <1>2, <1>3, <2>2, <3>1 DEF FileInv
  <2> QED
    BY <2>1, <2>2
<1>5. shape'.plain => ~shape'.nested /\ \A h \in 1..(n + 1) : Outside(h)'
  <2> SUFFICES ASSUME shape'.plain PROVE ~shape'.nested /\ \A h \in 1..(n + 1) : Outside(h)'
    OBVIOUS
  <2>1. kind = "mapping" /\ ~shape.nested /\ \A h \in 1..n : Outside(h)
    BY <1>1, <1>2 DEF FileInv
  <2>2. n # 0 => ~AtItem /\ ~Inner.inSeq
    <3>1. n # 0 => OpenAt(n) /\ Outside(n)
      BY <1>1, <1>2, <2>1 DEF OpenInv
    <3> QED
      BY <1>2, <3>1 DEF OpenAt, AtItem, Outside
  <2>3. ~open'[n + 1].inSeq
    BY <1>1, <1>3, <2>1, <2>2 DEF AtItem
  <2>4. \A h \in 1..(n + 1) : h \in 1..n \/ h = n + 1
    OBVIOUS
  <2> QED
    BY <1>2, <1>3, <2>1, <2>3, <2>4 DEF Outside
<1>6. KeyedInv'
  BY KeyedStart DEF FileInv
<1> QED
  BY <1>2, <1>3, <1>4, <1>5, <1>6 DEF FileInv

(* And the end of one. *)
LEMMA FileEnd ==
    ASSUME TypeOK, FileInv, NEW kind \in {"mapping", "sequence"}, WriteEnd(kind)
    PROVE  FileInv'
<1>1. PICK n \in Nat : n = Len(open) /\ DOMAIN open = 1..n /\ n # 0
  BY Typed, EndWritten
<1>2. /\ Ended /\ open # <<>> /\ scalars' = scalars
      /\ shape'.top = shape.top
      /\ (shape'.begun <=> shape.begun) /\ (shape'.nested <=> shape.nested)
      /\ shape'.plain => shape.plain
  BY EndWritten
<1>3. /\ open' \in Seq(Opens) /\ Len(open') = n - 1 /\ (DOMAIN open)' = 1..(n - 1)
      /\ \A h \in 1..(n - 1) : open'[h].inSeq = open[h].inSeq /\ open'[h].used = open[h].used
  <2>1. /\ open' \in Seq(Opens) /\ Len(open') = n - 1
        /\ \A h \in 1..(n - 1) : h # n - 1 => open'[h] = open[h]
        /\ n > 1 => open'[n - 1] = [kind |-> open[n - 1].kind, key |-> None,
                                    used |-> open[n - 1].used, path |-> open[n - 1].path,
                                    inSeq |-> open[n - 1].inSeq]
    BY <1>1, <1>2 DEF Ended
  <2>2. \A h \in 1..(n - 1) : h = n - 1 => n > 1
    OBVIOUS
  <2> QED
    BY <2>1, <2>2
<1>4. open' # <<>> => 1 \in 1..(n - 1)
  BY <1>1, <1>3
<1>5. \A h \in 1..(n - 1) : h \in 1..n /\ (Outside(h)' <=> Outside(h))
  BY <1>3 DEF Outside
<1>6. KeyedInv'
  BY KeyedEnd DEF FileInv
<1> QED
  BY <1>1, <1>2, <1>3, <1>4, <1>5, <1>6 DEF FileInv

-----------------------------------------------------------------------------
(* Paths. *)

(* Beginnings of paths. *)
LEMMA BeginsLaws ==
    ASSUME NEW p \in Seq(Names), NEW q \in Seq(Names), NEW s \in Names
    PROVE  /\ Begins(p, p)
           /\ Begins(p, q) => Begins(p, Append(q, s))
           /\ Begins(p, Append(q, s)) => Begins(p, q) \/ p = Append(q, s)
           /\ ~Begins(Append(q, s), q)
           /\ Append(p, s) # p /\ Len(Append(p, s)) = Len(p) + 1
           /\ Begins(p, q) /\ Len(p) = Len(q) => p = q
           /\ Append(q, s) \in Seq(Names)
<1>1. PICK m \in Nat : m = Len(p) /\ DOMAIN p = 1..m
  OBVIOUS
<1>2. PICK n \in Nat : n = Len(q) /\ DOMAIN q = 1..n
  OBVIOUS
<1> DEFINE r == Append(q, s)
<1>3. /\ r \in Seq(Names) /\ Len(r) = n + 1 /\ DOMAIN r = 1..(n + 1)
      /\ \A i \in 1..n : r[i] = q[i]
  BY <1>2
<1>4. Append(p, s) # p /\ Len(Append(p, s)) = Len(p) + 1
  OBVIOUS
<1> HIDE DEF r
<1>5. Begins(p, p)
  BY <1>1 DEF Begins
<1>6. Begins(p, q) => Begins(p, r)
  <2> SUFFICES ASSUME Begins(p, q) PROVE Begins(p, r)
    OBVIOUS
  <2>1. m <= n /\ \A i \in 1..m : q[i] = p[i]
    BY <1>1, <1>2 DEF Begins
  <2>2. \A i \in 1..m : i \in 1..n
    BY <2>1
  <2> QED
    BY <1>1, <1>3, <2>1, <2>2 DEF Begins
<1>7. \A u, v \in Seq(Names) : Begins(u, v) /\ Len(u) = Len(v) => u = v
  BY SeqEqual DEF Begins
<1>8. Begins(p, r) => Begins(p, q) \/ p = r
  <2> SUFFICES ASSUME Begins(p, r), m # n + 1 PROVE Begins(p, q)
    BY <1>1, <1>3, <1>7
  <2>1. m <= n + 1 /\ \A i \in 1..m : r[i] = p[i]
    BY <1>1, <1>3 DEF Begins
  <2>2. m <= n /\ \A i \in 1..m : i \in 1..n
    BY <2>1
  <2> QED
    BY <1>1, <1>2, <1>3, <2>1, <2>2 DEF Begins
<1>9. ~Begins(r, q)
  BY <1>2, <1>3 DEF Begins
<1> QED
  BY <1>3, <1>4, <1>5, <1>6, <1>7, <1>8, <1>9 DEF r

(* Two beginnings of one path. *)
LEMMA BeginsBoth ==
    ASSUME NEW p \in Seq(Names), NEW q \in Seq(Names), NEW r \in Seq(Names)
    PROVE  /\ Begins(p, r) /\ Begins(q, r) => Begins(p, q) \/ Begins(q, p)
           /\ Begins(p, q) /\ Begins(q, r) => Begins(p, r)
<1>1. PICK l \in Nat : l = Len(p)
  OBVIOUS
<1>2. PICK m \in Nat : m = Len(q)
  OBVIOUS
<1>3. PICK n \in Nat : n = Len(r)
  OBVIOUS
<1>4. ASSUME Begins(p, r), Begins(q, r) PROVE Begins(p, q) \/ Begins(q, p)
  <2>1. /\ \A i \in 1..l : r[i] = p[i]
        /\ \A i \in 1..m : r[i] = q[i]
    BY <1>1, <1>2, <1>4 DEF Begins
  <2>2. CASE l <= m
    <3>1. \A i \in 1..l : i \in 1..m
      BY <2>2
    <3> QED
      BY <1>1, <1>2, <2>1, <2>2, <3>1 DEF Begins
  <2>3. CASE m <= l
    <3>1. \A i \in 1..m : i \in 1..l
      BY <2>3
    <3> QED
      BY <1>1, <1>2, <2>1, <2>3, <3>1 DEF Begins
  <2> QED
    BY <2>2, <2>3
<1>5. ASSUME Begins(p, q), Begins(q, r) PROVE Begins(p, r)
  <2>1. /\ l <= m /\ m <= n
        /\ \A i \in 1..l : q[i] = p[i]
        /\ \A i \in 1..m : r[i] = q[i]
    BY <1>1, <1>2, <1>3, <1>5 DEF Begins
  <2>2. l <= n /\ \A i \in 1..l : i \in 1..m
    BY <2>1
  <2> QED
    BY <1>1, <1>3, <2>1, <2>2 DEF Begins
<1> QED
  BY <1>4, <1>5

(* The tree has grown: every new node is under an old one. *)
Growth(at, b) ==
    /\ DOMAIN nodes \subseteq (DOMAIN nodes)'
    /\ \A i \in DOMAIN nodes : b[i] = at[i] /\ nodes'[i] = nodes[i]
    /\ \A j \in (DOMAIN nodes)' : j \notin DOMAIN nodes =>
          /\ nodes'[j].parent \in DOMAIN nodes /\ nodes'[j].data \in Names
          /\ b[j] = Append(at[nodes'[j].parent], nodes'[j].data)

(* The tree with one more node, and the paths of its nodes. *)
LEMMA Grown ==
    ASSUME TypeOK, NEW at, PathsInv(at), NEW x \in DOMAIN nodes, NEW s \in Names, Added(x, s),
           NEW m \in Nat, m = Len(nodes) + 1
    PROVE  /\ (DOMAIN nodes)' = DOMAIN nodes \cup {m} /\ m \notin DOMAIN nodes /\ m # 0
           /\ nodes'[m].parent = x /\ nodes'[m].data = s
           /\ \E b : PathsInv(b)' /\ Growth(at, b)
<1> PICK b : b = Append(at, Append(at[x], s))
  OBVIOUS
<1>1. PICK n \in Nat : n = Len(nodes) /\ DOMAIN nodes = 1..n
  BY CallsTyped
<1>2. /\ at \in Seq(Seq(Names)) /\ Len(at) = n /\ n >= 1 /\ at[1] = <<>>
      /\ nodes[1].parent = 0 /\ nodes[1].data = Root
      /\ \A i \in 1..n : i # 1 =>
            /\ nodes[i].parent \in 1..n /\ nodes[i].data \in Names
            /\ at[i] = Append(at[nodes[i].parent], nodes[i].data)
  BY <1>1 DEF PathsInv
<1>3. \A i \in 1..n : at[i] \in Seq(Names)
  BY <1>2, ElementOfSeq
<1> DEFINE e == Append(at[x], s)
<1>4. e \in Seq(Names)
  BY <1>1, <1>3, BeginsLaws
<1> HIDE DEF e
<1>5. /\ b \in Seq(Seq(Names)) /\ Len(b) = n + 1
      /\ \A i \in 1..n : b[i] = at[i]
      /\ b[n + 1] = e
  BY <1>2, <1>4, Appended DEF e
<1>6. /\ nodes' \in Seq(Tree) /\ Len(nodes') = n + 1
      /\ \A i \in 1..n : nodes'[i] = nodes[i]
      /\ nodes'[n + 1].parent = x /\ nodes'[n + 1].data = s
  <2>1. /\ nodes' \in Seq(Tree) /\ Len(nodes') = n + 1
        /\ \A i \in 1..n : nodes'[i] = nodes[i]
        /\ nodes'[n + 1] = [parent |-> x, data |-> s]
    BY <1>1, Zenon DEF Added
  <2> QED
    BY <2>1
<1>7. (DOMAIN nodes)' = 1..(n + 1)
  BY <1>6
<1>8. \A i \in 1..(n + 1) : i \in 1..n \/ i = n + 1
  OBVIOUS
<1>9. 1..n \subseteq 1..(n + 1) /\ n + 1 \in 1..(n + 1) /\ n + 1 \notin 1..n /\ 1 \in 1..n
  BY <1>2
<1>10. ASSUME NEW i \in 1..(n + 1), i # 1
       PROVE  /\ nodes'[i].parent \in 1..(n + 1) /\ nodes'[i].data \in Names
              /\ b[i] = Append(b[nodes'[i].parent], nodes'[i].data)
  <2>1. CASE i \in 1..n
    <3>1. PICK y \in 1..n : y = nodes[i].parent
      BY <1>2, <1>10, <2>1
    <3>2. PICK d \in Names : d = nodes[i].data
      BY <1>2, <1>10, <2>1
    <3>3. at[i] = Append(at[y], d)
      BY <1>2, <1>10, <2>1, <3>1, <3>2
    <3>4. nodes'[i] = nodes[i] /\ b[i] = at[i] /\ b[y] = at[y]
      BY <1>5, <1>6, <2>1
    <3>5. b[i] = Append(b[y], d)
      BY <3>3, <3>4
    <3>6. y = nodes'[i].parent /\ d = nodes'[i].data
      BY <3>1, <3>2, <3>4
    <3> QED
      BY <1>9, <3>5, <3>6
  <2>2. CASE i = n + 1
    BY <1>1, <1>5, <1>6, <1>9, <2>2 DEF e
  <2> QED
    BY <1>8, <2>1, <2>2
<1>11. PathsInv(b)'
  <2>1. Len(b) = Len(nodes') /\ Len(nodes') >= 1
    BY <1>2, <1>5, <1>6
  <2>2. nodes'[1].parent = 0 /\ nodes'[1].data = Root /\ b[1] = <<>>
    BY <1>2, <1>5, <1>6, <1>9
  <2>3. \A i \in (DOMAIN nodes)' \ {1} :
          /\ nodes'[i].parent \in (DOMAIN nodes)' /\ nodes'[i].data \in Names
          /\ b[i] = Append(b[nodes'[i].parent], nodes'[i].data)
    BY <1>7, <1>10, Zenon
  <2> QED
    BY <1>5, <2>1, <2>2, <2>3, Zenon DEF PathsInv
<1>12. (DOMAIN nodes)' = DOMAIN nodes \cup {m} /\ m \notin DOMAIN nodes /\ m # 0
  BY <1>1, <1>7, <1>8, <1>9
<1>13. Growth(at, b)
  <2>1. ASSUME NEW j \in (DOMAIN nodes)', j \notin DOMAIN nodes
        PROVE  /\ nodes'[j].parent \in DOMAIN nodes /\ nodes'[j].data \in Names
               /\ b[j] = Append(at[nodes'[j].parent], nodes'[j].data)
    <3>1. j = n + 1
      BY <1>1, <1>12, <2>1
    <3> QED
      BY <1>5, <1>6, <3>1 DEF e
  <2> QED
    BY <1>1, <1>5, <1>6, <1>12, <2>1 DEF Growth
<1>14. nodes'[m].parent = x /\ nodes'[m].data = s
  BY <1>1, <1>6
<1> QED
  BY <1>11, <1>12, <1>13, <1>14

-----------------------------------------------------------------------------
(* Where the file is, and which call reads it. *)

(* Around an open mapping outside sequences there are only such mappings, each
   with a key. *)
LEMMA Around ==
    ASSUME TypeOK, OpenInv, NEW h \in DOMAIN open, Outside(h)
    PROVE  /\ open[h].kind = "mapping" /\ Len(open[h].path) = h - 1
           /\ open[h].path \in Seq(Names) /\ open[h].key \in open[h].used \cup {None}
           /\ open[h].key # None => open[h].key \in Names /\ Here(h) \in Seq(Names)
                                    /\ Len(Here(h)) = h /\ Here(h)[h] = open[h].key
                                    /\ \A g \in 1..(h - 1) : Here(h)[g] = open[g].key
           /\ \A g \in 1..(h - 1) :
                 /\ g \in DOMAIN open /\ Outside(g) /\ ~Entered(g)
                 /\ open[h].path[g] = open[g].key
                 /\ open[g].key \in Names /\ open[g].key \in open[g].used
<1>1. PICK n \in Nat : n = Len(open) /\ DOMAIN open = 1..n
  BY Typed
<1>2. /\ open[h].kind = "mapping" /\ Len(open[h].path) = h - 1
      /\ open[h].path \in Seq(Names) /\ open[h].key \in open[h].used \cup {None}
      /\ open[h].key \in Names \cup {None}
      /\ \A g \in 1..(h - 1) : Outside(g) /\ open[h].path[g] = open[g].key
  BY OpenTyped DEF OpenInv, OpenAt
<1>3. ASSUME NEW g \in 1..(h - 1)
      PROVE  /\ g \in DOMAIN open /\ ~Entered(g)
             /\ open[g].key \in Names /\ open[g].key \in open[g].used
  <2>1. g \in 1..n /\ g # n /\ Outside(g)
    BY <1>1, <1>2
  <2>2. OpenAt(g) /\ open[g].key \in Names \cup {None}
    BY <1>1, <2>1, OpenTyped DEF OpenInv
  <2>3. open[g].key # None
    BY <1>1, <2>1, <2>2 DEF OpenAt
  <2>4. Outside(g + 1)
    <3>1. g + 1 \in 1..(h - 1) \/ g + 1 = h
      BY <1>1
    <3> QED
      BY <1>2, <3>1
  <2> QED
    BY <1>1, <2>1, <2>2, <2>3, <2>4 DEF OpenAt, Entered
<1>4. ASSUME open[h].key # None
      PROVE  /\ open[h].key \in Names /\ Here(h) \in Seq(Names)
             /\ Len(Here(h)) = h /\ Here(h)[h] = open[h].key
             /\ \A g \in 1..(h - 1) : Here(h)[g] = open[g].key
  <2>1. PICK p \in Seq(Names) : p = open[h].path
    BY <1>2
  <2>2. PICK k \in Names : k = open[h].key
    BY <1>2, <1>4
  <2>3. /\ Append(p, k) \in Seq(Names) /\ Len(Append(p, k)) = h /\ Append(p, k)[h] = k
        /\ \A g \in 1..(h - 1) : Append(p, k)[g] = p[g]
    BY <1>1, <1>2, <2>1
  <2> QED
    BY <1>2, <2>1, <2>2, <2>3 DEF Here
<1> QED
  BY <1>2, <1>3, <1>4

(* In a sequence, there is a key of such a mapping that it stands under. *)
LEMMA InSequence ==
    ASSUME TypeOK, OpenInv, open # <<>>, ~Outside(Len(open))
    PROVE  \E q \in DOMAIN open :
              /\ Outside(q) /\ Entered(q) /\ q < Len(open) /\ open[q].key # None
              /\ \A h \in DOMAIN open : Outside(h) <=> h <= q
              /\ open[q + 1].kind = "sequence"
<1>1. PICK n \in Nat : n = Len(open) /\ DOMAIN open = 1..n /\ n # 0
  BY Typed
<1> DEFINE T == {h \in 1..n : ~Outside(h)}
<1>2. n \in T
  BY <1>1
<1>3. PICK t \in T : \A h \in T : t <= h
  <2>1. T \in SUBSET Nat /\ T # {}
    BY <1>2
  <2> HIDE DEF T
  <2> QED
    BY <2>1, Least
<1>4. t # 1
  BY <1>1, <1>3 DEF OpenInv, OpenAt
<1>5. PICK q \in 1..n : q + 1 = t /\ q < n
  <2>1. t - 1 \in 1..n /\ t - 1 + 1 = t /\ t - 1 < n
    BY <1>3, <1>4
  <2> QED
    BY <2>1
<1>6. Outside(q) /\ Entered(q)
  <2>1. q \notin T
    BY <1>3, <1>5
  <2> QED
    BY <1>1, <1>3, <1>5, <2>1 DEF Entered
<1>7. open[q].kind = "mapping" /\ open[q].key # None
  BY <1>1, <1>5, <1>6 DEF OpenInv, OpenAt
<1>8. ASSUME NEW h \in 1..n PROVE Outside(h) <=> h <= q
  <2>1. CASE h <= q
    BY <1>3, <1>5, <2>1
  <2>2. CASE ~(h <= q)
    <3>1. q + 1 \in 1..(h - 1) \/ q + 1 = h
      BY <2>2
    <3>2. ~Outside(q + 1)
      BY <1>3, <1>5
    <3> QED
      BY <1>1, <2>2, <3>1, <3>2, Around
  <2> QED
    BY <2>1, <2>2
<1>9. open[q + 1].kind = "sequence"
  <2>1. q + 1 \in 1..n /\ OpenAt(q + 1) /\ q + 1 - 1 = q
    BY <1>1, <1>5 DEF OpenInv
  <2> QED
    BY <1>3, <1>5, <1>6, <2>1 DEF OpenAt
<1> QED
  BY <1>1, <1>5, <1>6, <1>7, <1>8, <1>9

(* The innermost call is that of the innermost mapping; that of a mapping with
   a sequence in it is the innermost one only in the sequence itself. *)
LEMMA TopCall ==
    ASSUME TypeOK, OpenInv, phase = "parse"
    PROVE  /\ Len(frames) \in Nat \ {0} /\ Top = frames[Len(frames)]
           /\ open = <<>> => Len(frames) = 1
           /\ open # <<>> /\ Outside(Len(open)) => Len(frames) = Len(open) + 1
           /\ \A q \in DOMAIN open : Outside(q) /\ Entered(q) /\ ~shape.nested =>
                 IF Len(open) = q + 1 THEN Len(frames) = q + 1 ELSE Len(frames) > q + 1
<1>1. PICK n \in Nat : n = Len(open) /\ DOMAIN open = 1..n /\ (open = <<>> <=> n = 0)
  BY Typed
<1>2. /\ Len(frames) \in Nat \ {0} /\ Top = frames[Len(frames)]
      /\ Len(frames) = 1 + Cardinality(Mappings)
      /\ IsFiniteSet(Mappings) /\ Cardinality(Mappings) \in Nat
  BY CallsTyped, MappingsCounted DEF TypeOK
<1>3. Mappings = {i \in 1..n : open[i].kind = "mapping"}
  BY <1>1 DEF Mappings
<1>4. \A k \in Nat : Cardinality(1..k) = k /\ IsFiniteSet(1..k)
  BY FS_Interval
<1>5. n = 0 => Len(frames) = 1
  <2>1. n = 0 => Mappings = {}
    BY <1>3
  <2> QED
    BY <1>2, <2>1, FS_EmptySet
<1>6. ASSUME n # 0, Outside(n) PROVE Len(frames) = n + 1
  <2>1. \A i \in 1..n : Outside(i)
    <3>1. n \in DOMAIN open /\ \A i \in 1..n : i \in 1..(n - 1) \/ i = n
      BY <1>1, <1>6
    <3>2. \A i \in 1..(n - 1) : Outside(i)
      BY <1>6, <3>1, Around
    <3> QED
      BY <1>6, <3>1, <3>2
  <2>2. Mappings = 1..n
    BY <1>1, <1>3, <2>1 DEF OpenInv, OpenAt
  <2> QED
    BY <1>2, <1>4, <2>2
<1>7. ASSUME NEW q \in 1..n, Outside(q), Entered(q), ~shape.nested
      PROVE  IF n = q + 1 THEN Len(frames) = q + 1 ELSE Len(frames) > q + 1
  <2>1. /\ \A i \in 1..q : i \in 1..n /\ open[i].kind = "mapping"
        /\ q + 1 \in 1..n /\ open[q + 1].kind = "sequence"
    <3>1. \A i \in 1..q : i \in 1..(q - 1) \/ i = q
      OBVIOUS
    <3>2. \A i \in 1..q : i \in 1..n /\ Outside(i)
      BY <1>1, <1>7, <3>1, Around
    <3>3. q + 1 \in 1..n /\ ~Outside(q + 1) /\ OpenAt(q + 1) /\ q + 1 - 1 = q
      BY <1>1, <1>7 DEF Entered, OpenInv
    <3> QED
      BY <1>1, <1>7, <3>2, <3>3 DEF OpenInv, OpenAt
  <2>2. 1..q \subseteq Mappings
    BY <1>3, <2>1
  <2>3. CASE n = q + 1
    <3>1. \A i \in 1..n : i \in 1..q \/ i = q + 1
      BY <2>3
    <3>2. Mappings = 1..q
      BY <1>3, <2>1, <2>2, <3>1
    <3> QED
      BY <1>2, <1>4, <2>3, <3>2
  <2>4. CASE n # q + 1
    <3>1. q + 2 \in 1..n /\ OpenAt(q + 2) /\ q + 2 - 1 = q + 1
      BY <1>1, <2>1, <2>4 DEF OpenInv
    <3>2. open[q + 2].kind = "mapping"
      <4>1. open[q + 2].kind \in {"mapping", "sequence"}
        BY <1>1, <3>1, OpenTyped
      <4> QED
        BY <1>7, <2>1, <3>1, <4>1 DEF OpenAt
    <3>3. (1..q) \cup {q + 2} \in SUBSET Mappings /\ q + 2 \notin 1..q
      BY <1>3, <2>2, <3>1, <3>2
    <3>4. Cardinality((1..q) \cup {q + 2}) = q + 1
      <4>1. q \in Nat /\ IsFiniteSet(1..q) /\ Cardinality(1..q) = q
        BY <1>1, <1>4
      <4> QED
        BY <3>3, <4>1, FS_AddElement
    <3>5. Cardinality((1..q) \cup {q + 2}) <= Cardinality(Mappings)
      BY <1>2, <3>3, FS_Subset
    <3> QED
      BY <1>2, <2>4, <3>4, <3>5
  <2> QED
    BY <2>3, <2>4
<1> QED
  BY <1>1, <1>2, <1>5, <1>6, <1>7

(* What a scalar is put under. *)
LEMMA WhereIs ==
    ASSUME TypeOK, phase = "parse", NEW at, PathsInv(at), OpenInv, FramesInv(at),
           ~shape.nested, open # <<>>
    PROVE  /\ AtKey /\ Outside(Len(open)) =>
                Where = Top.data /\ at[Where] = open[Len(open)].path /\ Top.storage = VAR
           /\ AtValue /\ Outside(Len(open)) =>
                /\ Where = Top.last_leaf /\ at[Where] = Here(Len(open)) /\ Top.storage = VAL
           /\ \A q \in DOMAIN open : Outside(q) /\ Entered(q) /\ open[q].key # None =>
                Begins(Here(q), at[Where]) /\ Begins(Here(q), at[Top.last_leaf])
<1>1. PICK n \in Nat : n = Len(open) /\ DOMAIN open = 1..n /\ n # 0
  BY Typed
<1>2. n \in 1..n /\ Inner = open[n]
  BY <1>1, OpenTyped
<1>3. Top = frames[Len(frames)] /\ Len(frames) \in DOMAIN frames
  <2>1. PICK l \in Nat \ {0} : l = Len(frames) /\ Top = frames[l]
    BY TopCall
  <2>2. l \in 1..l /\ DOMAIN frames = 1..l
    BY <2>1, Typed
  <2> QED
    BY <2>1, <2>2
<1>4. ASSUME Outside(n)
      PROVE  /\ CallAt(at, n) /\ ~Entered(n) /\ Top = frames[n + 1]
             /\ VAR = 0 /\ VAL = 1 /\ Inner.kind = "mapping"
  BY <1>1, <1>2, <1>3, <1>4, TopCall, FlipIs, Around DEF FramesInv, Entered
<1>5. AtKey /\ Outside(n) => Where = Top.data /\ at[Where] = open[n].path /\ Top.storage = VAR
  BY <1>2, <1>4 DEF AtKey, CallAt, Where
<1>6. AtValue /\ Outside(n) =>
        Where = Top.last_leaf /\ at[Where] = Here(n) /\ Top.storage = VAL
  BY <1>2, <1>4 DEF AtValue, CallAt, Where
<1>7. ASSUME NEW q \in 1..n, Outside(q), Entered(q), open[q].key # None
      PROVE  Begins(Here(q), at[Where]) /\ Begins(Here(q), at[Top.last_leaf])
  <2>1. CallAt(at, q)
    BY <1>1, <1>7 DEF FramesInv
  <2>2. CASE n = q + 1
    <3>1. Len(frames) = q + 1
      BY <1>1, <1>7, <2>2, TopCall
    <3>2. Top.storage # VAR /\ Begins(Here(q), at[Top.last_leaf])
      BY <1>3, <1>7, <2>1, <3>1, FlipIs DEF CallAt
    <3> QED
      BY <3>2 DEF Where
  <2>3. CASE n # q + 1
    <3>1. Len(frames) > q + 1
      BY <1>1, <1>7, <2>3, TopCall
    <3>2. Begins(Here(q), at[Top.data]) /\ Begins(Here(q), at[Top.last_leaf])
      BY <1>3, <1>7, <2>1, <3>1 DEF CallAt
    <3> QED
      BY <3>2 DEF Where
  <2> QED
    BY <2>2, <2>3
<1> QED
  BY <1>1, <1>5, <1>6, <1>7

-----------------------------------------------------------------------------
(* Scalars that are already there. *)

(* Paths and parents of nodes. *)
LEMMA NodesTyped ==
    ASSUME TypeOK, NEW at, PathsInv(at), NEW i \in DOMAIN nodes
    PROVE  /\ at[i] \in Seq(Names) /\ i # 0 /\ i \in Nat /\ 0 \notin DOMAIN nodes
           /\ 1 \in DOMAIN nodes
           /\ nodes[i].parent # 0 =>
                /\ nodes[i].parent \in DOMAIN nodes /\ nodes[i].data \in Names
                /\ at[i] = Append(at[nodes[i].parent], nodes[i].data)
                /\ at[nodes[i].parent] \in Seq(Names)
<1>1. PICK n \in Nat : n = Len(nodes) /\ DOMAIN nodes = 1..n
  BY CallsTyped
<1>2. /\ at \in Seq(Seq(Names)) /\ Len(at) = n /\ nodes[1].parent = 0 /\ n >= 1
      /\ \A j \in 1..n : j # 1 =>
            /\ nodes[j].parent \in 1..n /\ nodes[j].data \in Names
            /\ at[j] = Append(at[nodes[j].parent], nodes[j].data)
  BY <1>1 DEF PathsInv
<1>3. \A j \in 1..n : at[j] \in Seq(Names)
  BY <1>2, ElementOfSeq
<1> QED
  BY <1>1, <1>2, <1>3

(* A scalar stays where it is as long as nothing is put at or below its path. *)
LEMMA HoldsKept ==
    ASSUME TypeOK, NEW at, PathsInv(at), NEW b, Growth(at, b),
           NEW p \in DOMAIN scalars, NEW v \in DOMAIN nodes, Holds(at, v, p),
           \A j \in (DOMAIN nodes)' : j \notin DOMAIN nodes =>
              ~Begins(p, at[nodes'[j].parent]),
           scalars'[p] = scalars[p]
    PROVE  Holds(b, v, p)'
<1>1. p \in Seq(Names)
  BY Typed
<1>2. /\ nodes[v].parent \in DOMAIN nodes /\ at[nodes[v].parent] = p
      /\ nodes[v].data \in Names /\ at[v] = Append(p, nodes[v].data)
      /\ nodes[v].parent # 0 /\ nodes[v].data = scalars[p]
  BY NodesTyped DEF Holds
<1>3. Begins(p, p) /\ Begins(p, at[v])
  BY <1>1, <1>2, BeginsLaws
<1>4. ASSUME NEW j \in (DOMAIN nodes)'
      PROVE  /\ nodes'[j].parent # v
             /\ nodes'[j].parent # 0 /\ b[nodes'[j].parent] = p => j = v
  <2>1. CASE j \in DOMAIN nodes
    <3>1. nodes'[j] = nodes[j] /\ nodes[j].parent # v
      BY <2>1 DEF Growth, Holds
    <3>2. nodes[j].parent # 0 => b[nodes[j].parent] = at[nodes[j].parent]
      BY <2>1, NodesTyped DEF Growth
    <3> QED
      BY <2>1, <3>1, <3>2 DEF Holds
  <2>2. CASE j \notin DOMAIN nodes
    <3>1. nodes'[j].parent \in DOMAIN nodes /\ ~Begins(p, at[nodes'[j].parent])
      BY <1>4, <2>2 DEF Growth
    <3>2. b[nodes'[j].parent] = at[nodes'[j].parent]
      BY <3>1 DEF Growth
    <3> QED
      BY <1>3, <3>1, <3>2
  <2> QED
    BY <2>1, <2>2
<1>5. nodes'[v] = nodes[v] /\ b[nodes[v].parent] = p
  BY <1>2 DEF Growth
<1> QED
  BY <1>2, <1>4, <1>5 DEF Holds

(* No scalar has a path at, above or below a key whose value is not there yet. *)
LEMMA KeyFree ==
    ASSUME TypeOK, NEW at, PathsInv(at), OpenInv, KeysInv(at), ApartInv, ScalarsInv(at),
           NEW h \in DOMAIN open, Outside(h), open[h].key # None, h = Len(open) \/ Entered(h),
           NEW p \in DOMAIN scalars
    PROVE  ~Begins(Here(h), p) /\ \A r \in Seq(Names) : Begins(Here(h), r) => ~Begins(p, r)
<1>1. /\ p \in Seq(Names) /\ Here(h) \in Seq(Names) /\ open[h].path \in Seq(Names)
      /\ open[h].key \in Names /\ Here(h) = Append(open[h].path, open[h].key)
  BY Typed, Around DEF Here
<1>2. ~Begins(p, open[h].path)
  BY DEF ApartInv
<1>3. ~Begins(Here(h), p)
  <2>1. CASE Entered(h)
    BY <2>1 DEF ApartInv
  <2>2. CASE h = Len(open)
    <3>1. PICK v \in DOMAIN nodes : Holds(at, v, p)
      BY DEF ScalarsInv
    <3>2. nodes[v].data \in Names /\ at[v] = Append(p, nodes[v].data)
      BY <3>1, NodesTyped DEF Holds
    <3>3. Begins(Here(h), p) => Begins(Here(h), at[v])
      <4>1. PICK e \in Seq(Names) : e = Here(h)
        BY <1>1
      <4>2. PICK d \in Names : d = nodes[v].data
        BY <3>2
      <4>3. Begins(e, p) => Begins(e, Append(p, d))
        BY <1>1, BeginsLaws
      <4> QED
        BY <3>2, <4>1, <4>2, <4>3
    <3>4. Begins(Here(h), at[v]) => at[v] = Here(h)
      BY <2>2 DEF KeysInv, KeysAt
    <3>5. Begins(p, at[v])
      BY <1>1, <3>2, BeginsLaws
    <3>6. at[v] = Here(h) => Begins(p, Here(h))
      BY <3>5
    <3>7. Begins(p, Here(h)) => p = Here(h)
      BY <1>1, <1>2, BeginsLaws
    <3>8. p # at[v]
      BY <1>1, <3>2, BeginsLaws
    <3> QED
      BY <3>3, <3>4, <3>6, <3>7, <3>8
  <2> QED
    BY <2>1, <2>2
<1>4. ASSUME NEW r \in Seq(Names), Begins(Here(h), r), Begins(p, r) PROVE FALSE
  <2>1. Begins(p, Here(h))
    BY <1>1, <1>3, <1>4, BeginsBoth
  <2>2. p = Here(h)
    BY <1>1, <1>2, <2>1, BeginsLaws
  <2> QED
    BY <1>1, <1>3, <2>2, BeginsLaws
<1> QED
  BY <1>3, <1>4

-----------------------------------------------------------------------------
(* What an event keeps. *)

(* A tree that stays as it is. *)
LEMMA GrowthNone ==
    ASSUME TypeOK, NEW at, PathsInv(at), nodes' = nodes
    PROVE  PathsInv(at)' /\ Growth(at, at)
  BY DEF PathsInv, Growth

(* The call for a mapping that is neither innermost nor around a sequence goes
   on as it stood. *)
LEMMA CallKept ==
    ASSUME TypeOK, NEW at, NEW b, Growth(at, b), FramesInv(at),
           NEW h \in DOMAIN open, Outside(h), ~Entered(h), ~Entered(h)', open'[h] = open[h],
           h + 1 \in DOMAIN frames', frames'[h + 1] = frames[h + 1]
    PROVE  CallAt(b, h)'
<1>1. CallAt(at, h)
  BY DEF FramesInv
<1>2. frames[h + 1].data \in DOMAIN nodes /\ frames[h + 1].last_leaf \in DOMAIN nodes
  BY <1>1, Typed DEF CallAt
<1>3. /\ b[frames[h + 1].data] = at[frames[h + 1].data]
      /\ b[frames[h + 1].last_leaf] = at[frames[h + 1].last_leaf]
  BY <1>2 DEF Growth
<1> QED
  BY <1>1, <1>3 DEF CallAt, Here

(* Below a mapping there are only its keys, as long as what is put there is. *)
LEMMA KeysKept ==
    ASSUME TypeOK, NEW at, NEW b, Growth(at, b), KeysInv(at),
           NEW h \in DOMAIN open, Outside(h), open'[h].path = open[h].path,
           open[h].used \subseteq open'[h].used,
           h # Len(open') \/ open'[h].key = None,
           \A j \in (DOMAIN nodes)' :
              j \notin DOMAIN nodes /\ Begins(open[h].path, b[j]) /\ Len(b[j]) >= h =>
                 b[j][h] \in open'[h].used
    PROVE  KeysAt(b, h)'
<1>1. KeysAt(at, h)
  BY DEF KeysInv
<1>2. \A j \in DOMAIN nodes : b[j] = at[j]
  BY DEF Growth
<1>3. \A j \in (DOMAIN nodes)' :
         Begins(open[h].path, b[j]) /\ Len(b[j]) >= h => b[j][h] \in open'[h].used
  BY <1>1, <1>2 DEF KeysAt
<1>4. h = Len(open') => open'[h].key = None
  OBVIOUS
<1> QED
  BY <1>3, <1>4, Zenon DEF KeysAt

(* Scalars stay where they are. *)
LEMMA ScalarsKept ==
    ASSUME TypeOK, NEW at, PathsInv(at), NEW b, Growth(at, b), ScalarsInv(at),
           scalars' = scalars,
           \A p \in DOMAIN scalars, j \in (DOMAIN nodes)' : j \notin DOMAIN nodes =>
              ~Begins(p, at[nodes'[j].parent])
    PROVE  ScalarsInv(b)'
<1>1. ASSUME NEW p \in DOMAIN scalars PROVE \E v \in (DOMAIN nodes)' : Holds(b, v, p)'
  <2>1. PICK v \in DOMAIN nodes : Holds(at, v, p)
    BY DEF ScalarsInv
  <2>2. Holds(b, v, p)'
    BY <2>1, HoldsKept
  <2>3. v \in (DOMAIN nodes)'
    BY DEF Growth
  <2> QED
    BY <2>2, <2>3
<1> QED
  BY <1>1 DEF ScalarsInv

(* An event in a sequence: what is outside it stays as it is, and all that the
   calls add stands under the key of the sequence. *)
LEMMA InsideKeeps ==
    ASSUME TypeOK, NEW at, PathsInv(at), OpenInv, FramesInv(at), KeysInv(at), ApartInv,
           ScalarsInv(at), NEW b, Growth(at, b), scalars' = scalars, ~shape'.plain, shape'.begun,
           open' \in Seq(Opens),
           NEW q \in DOMAIN open, Outside(q), Entered(q), open[q].key # None,
           q + 1 \in (DOMAIN open)',
           \A h \in 1..q : open'[h] = open[h],
           \A h \in (DOMAIN open)' : Outside(h)' <=> h <= q,
           \A j \in (DOMAIN nodes)' : j \notin DOMAIN nodes =>
              Begins(Here(q), at[nodes'[j].parent]),
           1..(q + 1) \subseteq (DOMAIN frames)',
           \A i \in 1..q : frames'[i] = frames[i],
           frames'[q + 1].data = frames[q + 1].data,
           frames'[q + 1].storage \in {SEQ, SEQ + VAL},
           Begins(Here(q), b[frames'[q + 1].last_leaf]),
           \A i \in (DOMAIN frames)' : i > q + 1 =>
              Begins(Here(q), b[frames'[i].data]) /\ Begins(Here(q), b[frames'[i].last_leaf])
    PROVE  FramesInv(b)' /\ KeysInv(b)' /\ ApartInv' /\ ScalarsInv(b)' /\ LeavesInv(b)'
<1>1. PICK n \in Nat : n = Len(open) /\ DOMAIN open = 1..n /\ q \in 1..n
  BY Typed
<1>2. PICK e \in Seq(Names) : /\ e = Here(q) /\ Len(e) = q
                              /\ \A g \in 1..q : e[g] = open[g].key /\ open[g].key \in open[g].used
  <2>1. /\ Here(q) \in Seq(Names) /\ Len(Here(q)) = q /\ Here(q)[q] = open[q].key
        /\ open[q].key \in open[q].used
        /\ \A g \in 1..(q - 1) : Here(q)[g] = open[g].key /\ open[g].key \in open[g].used
    BY Around
  <2>2. \A g \in 1..q : g = q \/ g \in 1..(q - 1)
    BY <1>1
  <2> QED
    BY <2>1, <2>2
<1>3. ASSUME NEW h \in 1..q
      PROVE  /\ h \in DOMAIN open /\ Outside(h) /\ open'[h] = open[h]
             /\ h # q => ~Entered(h)
             /\ h \in (DOMAIN open)' /\ h # Len(open')
             /\ h # q => ~Entered(h)'
  <2>1. h \in 1..n /\ (h = q \/ h \in 1..(q - 1))
    BY <1>1
  <2>2. Outside(h) /\ (h # q => ~Entered(h))
    BY <2>1, Around
  <2>3. PICK k \in Nat : k = Len(open') /\ (DOMAIN open)' = 1..k
    OBVIOUS
  <2>4. h \in 1..k /\ h # k
    BY <1>1, <2>1, <2>3
  <2>5. h # q => h + 1 <= q
    BY <1>1
  <2>6. h # q => ~Entered(h)'
    BY <2>3, <2>5 DEF Entered
  <2> QED
    BY <1>1, <2>1, <2>2, <2>3, <2>4, <2>6
<1>4. \A h \in (DOMAIN open)' : Outside(h)' => h \in 1..q
  <2>1. PICK k \in Nat : (DOMAIN open)' = 1..k
    OBVIOUS
  <2>2. \A h \in 1..k : h <= q => h \in 1..q
    BY <1>1
  <2> QED
    BY <2>1, <2>2
<1>5. ASSUME NEW h \in 1..q PROVE CallAt(b, h)'
  <2>1. CASE h # q
    <3>1. h + 1 \in 1..q /\ h + 1 \in (DOMAIN frames)'
      <4>1. h + 1 \in 1..q /\ h + 1 \in 1..(q + 1)
        BY <1>1, <2>1
      <4> QED
        BY <4>1
    <3>2. h \in DOMAIN open /\ Outside(h) /\ ~Entered(h) /\ ~Entered(h)' /\ open'[h] = open[h]
      BY <1>3, <2>1
    <3>3. frames'[h + 1] = frames[h + 1]
      BY <3>1
    <3> QED
      BY <3>1, <3>2, <3>3, CallKept, Zenon
  <2>2. CASE h = q
    <3>1. CallAt(at, q)
      BY <1>1 DEF FramesInv
    <3>2. frames[q + 1].data \in DOMAIN nodes
      BY <3>1, Typed DEF CallAt
    <3>3. b[frames[q + 1].data] = at[frames[q + 1].data]
      BY <3>2 DEF Growth
    <3>4. Here(q)' = Here(q) /\ Entered(q)' /\ open'[q] = open[q]
      <4>1. ~(q + 1 <= q) /\ q \in 1..q
        BY <1>1
      <4>2. open'[q] = open[q] /\ ~Outside(q + 1)'
        BY <4>1
      <4> QED
        BY <4>2 DEF Here, Entered
    <3> QED
      BY <2>2, <3>1, <3>3, <3>4 DEF CallAt
  <2> QED
    BY <2>1, <2>2
<1>6. ASSUME NEW j \in (DOMAIN nodes)', j \notin DOMAIN nodes
      PROVE  /\ b[j] \in Seq(Names) /\ Begins(e, at[nodes'[j].parent])
             /\ at[nodes'[j].parent] \in Seq(Names) /\ Begins(e, b[j])
  <2>1. PICK d \in Names : d = nodes'[j].data
    BY <1>6 DEF Growth
  <2>2. PICK r \in Seq(Names) : r = at[nodes'[j].parent]
    BY <1>6, NodesTyped DEF Growth
  <2>3. b[j] = Append(r, d) /\ Begins(e, r)
    BY <1>2, <1>6, <2>1, <2>2 DEF Growth
  <2> QED
    BY <2>2, <2>3, BeginsLaws
<1>7. ASSUME NEW h \in 1..q PROVE KeysAt(b, h)'
  <2>1. ASSUME NEW j \in (DOMAIN nodes)', j \notin DOMAIN nodes PROVE b[j][h] \in open'[h].used
    <3>1. Begins(e, b[j])
      BY <1>6, <2>1
    <3>2. b[j][h] = e[h]
      BY <1>2, <3>1 DEF Begins
    <3> QED
      BY <1>2, <1>3, <3>2
  <2> QED
    BY <1>3, <2>1, KeysKept, Zenon
<1>8. FramesInv(b)' /\ KeysInv(b)'
  BY <1>4, <1>5, <1>7 DEF FramesInv, KeysInv
<1>9. ApartInv'
  <2>1. ASSUME NEW h \in 1..q, NEW p \in DOMAIN scalars
        PROVE  /\ ~Begins(p, open'[h].path)
               /\ open'[h].key # None /\ Entered(h)' => ~Begins(Here(h)', p)
    <3>1. open'[h] = open[h] /\ Here(h)' = Here(h) /\ (Entered(h)' => Entered(h))
      BY <1>3 DEF Here
    <3>2. /\ ~Begins(p, open[h].path)
          /\ open[h].key # None /\ Entered(h) => ~Begins(Here(h), p)
      BY <1>3, Zenon DEF ApartInv
    <3> QED
      BY <3>1, <3>2
  <2> QED
    BY <1>4, <2>1 DEF ApartInv
<1>10. ScalarsInv(b)'
  <2>1. ASSUME NEW p \in DOMAIN scalars, NEW j \in (DOMAIN nodes)', j \notin DOMAIN nodes
        PROVE  ~Begins(p, at[nodes'[j].parent])
    BY <1>2, <1>6, <2>1, KeyFree
  <2> QED
    BY <2>1, ScalarsKept
<1> QED
  BY <1>8, <1>9, <1>10 DEF LeavesInv

-----------------------------------------------------------------------------
(* Scalars outside sequences. *)

(* Of the n mappings that are open only the innermost one and its call change,
   and the node added is m. *)
InnermostGoesOn(n, m, s) ==
    /\ n \in Nat /\ DOMAIN open = 1..n /\ n \in 1..n /\ Inner = open[n]
    /\ (DOMAIN open)' = 1..n /\ Len(open') = n
    /\ \A h \in 1..n : /\ Outside(h) /\ Outside(h)' /\ ~Entered(h) /\ ~Entered(h)'
                       /\ open'[h].path = open[h].path
                       /\ h + 1 \in (DOMAIN frames)'
    /\ \A h \in 1..n : h # n => open'[h] = open[h] /\ frames'[h + 1] = frames[h + 1]
    /\ Top = frames[n + 1]
    /\ frames'[n + 1].data = frames[n + 1].data /\ frames'[n + 1].last_leaf = m
    /\ frames'[n + 1].storage = Flip(Top.storage)
    /\ Top' = frames'[n + 1] /\ Inner' = open'[n]
    /\ (DOMAIN nodes)' = DOMAIN nodes \cup {m} /\ m \notin DOMAIN nodes
    /\ \A j \in DOMAIN nodes : nodes'[j] = nodes[j]
    /\ nodes'[m].parent = Where /\ nodes'[m].data = s

(* A key or its value. *)
LEMMA OutsideScalar ==
    ASSUME TypeOK, phase = "parse", NEW at, PathsInv(at), OpenInv, NEW s \in Names, Scalar(s),
           NEW n \in Nat, n = Len(open), open # <<>>, Outside(n), AtKey \/ AtValue,
           NEW m \in Nat, m = Len(nodes) + 1
    PROVE  InnermostGoesOn(n, m, s)
<1>1. n \in Nat /\ n # 0 /\ DOMAIN open = 1..n /\ n \in 1..n /\ Inner = open[n]
  BY Typed, OpenTyped
<1>2. /\ open' \in Seq(Opens) /\ Len(open') = n
      /\ \A h \in 1..n : h # n => open'[h] = open[h]
      /\ open'[n].path = open[n].path /\ open'[n].inSeq = open[n].inSeq
  <2>1. WriteScalar(s)
    BY DEF Scalar
  <2>2. ~AtItem
    BY DEF AtKey, AtValue, AtItem
  <2>3. (\E k, u : Rekeyed(k, u))
    BY <2>1, <2>2, ScalarWritten
  <2>4. PICK k, u : Rekeyed(k, u)
    BY <2>3
  <2> QED
    BY <2>4 DEF Rekeyed
<1>3. (DOMAIN open)' = 1..n /\ Inner' = open'[n]
  <2>1. (DOMAIN open)' = 1..n /\ open' # <<>>
    BY <1>1, <1>2
  <2>2. Inner' = open'[Len(open')]
    BY <1>1, <1>2, <2>1 DEF Inner, Last
  <2> QED
    BY <1>2, <2>1, <2>2
<1>4. ASSUME NEW h \in 1..n
      PROVE  /\ Outside(h) /\ Outside(h)' /\ ~Entered(h) /\ ~Entered(h)'
             /\ open'[h].path = open[h].path
  <2>1. h = n \/ h \in 1..(n - 1)
    BY <1>1
  <2>2. h = n => ~(h + 1 \in 1..n)
    BY <1>1
  <2>3. Outside(h) /\ ~Entered(h)
    BY <1>1, <2>1, <2>2, Around DEF Entered
  <2>4. \A g \in 1..n : Outside(g)' <=> Outside(g)
    BY <1>2 DEF Outside
  <2> QED
    BY <1>1, <1>2, <1>3, <2>3, <2>4 DEF Entered
<1>5. PICK l \in Nat : l = Len(frames) /\ l = n + 1 /\ Top = frames[l]
  BY <1>1, TopCall
<1>6. Added(Where, s) /\ GoesOn(m, Flip(Top.storage))
  BY ScalarCalls
<1>7. /\ (DOMAIN frames)' = 1..(n + 1) /\ frames' # <<>> /\ Len(frames') = n + 1
      /\ \A h \in 1..(n + 1) : h # n + 1 => frames'[h] = frames[h]
      /\ frames'[n + 1].data = frames[n + 1].data /\ frames'[n + 1].last_leaf = m
      /\ frames'[n + 1].storage = Flip(Top.storage)
  <2>1. PICK C : C = Calls'
    OBVIOUS
  <2>2. /\ frames' \in Seq(C) /\ Len(frames') = n + 1
        /\ \A h \in 1..(n + 1) : h # n + 1 => frames'[h] = frames[h]
        /\ frames'[n + 1] = [data |-> Top.data, last_leaf |-> m, storage |-> Flip(Top.storage)]
    BY <1>1, <1>5, <1>6, <2>1 DEF GoesOn
  <2>3. (DOMAIN frames)' = 1..(n + 1) /\ frames' # <<>>
    BY <1>1, <2>2
  <2> QED
    BY <1>5, <2>2, <2>3
<1>8. Top' = frames'[n + 1]
  BY <1>7 DEF Top, Last
<1>9. \A h \in 1..n : h + 1 \in 1..(n + 1) /\ (h # n => h + 1 # n + 1)
  BY <1>1
<1>10. /\ (DOMAIN nodes)' = DOMAIN nodes \cup {m} /\ m \notin DOMAIN nodes
       /\ nodes'[m].parent = Where /\ nodes'[m].data = s
  <2>1. PICK x \in DOMAIN nodes : x = Where
    BY ScalarCalls
  <2>2. Added(x, s)
    BY <1>6, <2>1 DEF Added
  <2> QED
    BY <2>1, <2>2, Grown
<1>11. \A j \in DOMAIN nodes : nodes'[j] = nodes[j]
  BY <1>6, Typed DEF Added
<1> QED
  BY <1>1, <1>2, <1>3, <1>4, <1>5, <1>7, <1>8, <1>9, <1>10, <1>11 DEF InnermostGoesOn

(* A key. *)
LEMMA KeyPlaces ==
    ASSUME TypeOK, phase = "parse", NEW at, PathsInv(at), OpenInv, FileInv, PlacesInv(at),
           ~shape.nested, NEW s \in Names, Scalar(s), AtKey, Outside(Len(open)),
           NEW b, Growth(at, b), b[Len(nodes) + 1] = Append(at[Where], s)
    PROVE  PlacesInv(b)'
<1>1. PICK n \in Nat : n = Len(open) /\ Outside(n) /\ open # <<>>
  BY Typed DEF AtKey
<1>2. PICK m \in Nat : m = Len(nodes) + 1 /\ b[m] = Append(at[Where], s)
  BY Typed
<1>3. /\ n \in Nat /\ DOMAIN open = 1..n /\ n \in 1..n /\ Inner = open[n]
      /\ (DOMAIN open)' = 1..n /\ Len(open') = n
      /\ \A h \in 1..n : /\ Outside(h) /\ Outside(h)' /\ ~Entered(h) /\ ~Entered(h)'
                         /\ open'[h].path = open[h].path
                         /\ h + 1 \in (DOMAIN frames)'
      /\ \A h \in 1..n : h # n => open'[h] = open[h] /\ frames'[h + 1] = frames[h + 1]
      /\ Top = frames[n + 1]
      /\ frames'[n + 1].data = frames[n + 1].data /\ frames'[n + 1].last_leaf = m
      /\ frames'[n + 1].storage = Flip(Top.storage)
      /\ Top' = frames'[n + 1] /\ Inner' = open'[n]
      /\ (DOMAIN nodes)' = DOMAIN nodes \cup {m} /\ m \notin DOMAIN nodes
      /\ \A j \in DOMAIN nodes : nodes'[j] = nodes[j]
      /\ nodes'[m].parent = Where /\ nodes'[m].data = s
  <2>1. InnermostGoesOn(n, m, s)
    BY <1>1, <1>2, OutsideScalar
  <2> QED
    BY <2>1 DEF InnermostGoesOn
<1>4. FramesInv(at) /\ KeysInv(at) /\ ApartInv /\ ScalarsInv(at) /\ LeavesInv(at)
  BY DEF PlacesInv
<1>5. PICK p \in Seq(Names) : p = open[n].path /\ Len(p) = n - 1
  BY <1>3, Around
<1>6. Where = Top.data /\ at[Where] = p /\ Top.storage = VAR /\ Where \in DOMAIN nodes
  <2>1. Where = Top.data /\ at[Where] = open[Len(open)].path /\ Top.storage = VAR
    BY <1>1, <1>4, WhereIs, Zenon
  <2>2. Where \in DOMAIN nodes
    BY ScalarCalls
  <2> QED
    BY <1>1, <1>5, <2>1, <2>2
<1>7. PICK e \in Seq(Names) : /\ e = Append(p, s) /\ b[m] = e /\ Len(e) = n /\ e[n] = s
                              /\ \A g \in 1..(n - 1) : e[g] = p[g]
  <2>1. /\ Append(p, s) \in Seq(Names) /\ Len(Append(p, s)) = n /\ Append(p, s)[n] = s
        /\ \A g \in 1..(n - 1) : Append(p, s)[g] = p[g]
    BY <1>3, <1>5
  <2> QED
    BY <1>2, <1>6, <2>1, Zenon
<1>8. /\ s \notin open[n].used /\ scalars' = scalars
      /\ open'[n].key = s /\ open'[n].used = open[n].used \cup {s}
      /\ shape'.plain = shape.plain /\ shape'.begun = shape.begun
  <2>1. WriteScalar(s) /\ ~AtValue /\ ~AtItem /\ shape \in Shapes
    BY Typed DEF Scalar, AtKey, AtValue, AtItem
  <2>2. /\ s \notin Inner.used /\ Rekeyed(s, Inner.used \cup {s}) /\ scalars' = scalars
        /\ shape' = IF Len(open) = 1 THEN [shape EXCEPT !.top = @ \cup {s}] ELSE shape
    BY <2>1, ScalarWritten
  <2>3. shape'.plain = shape.plain /\ shape'.begun = shape.begun
    BY <2>1, <2>2 DEF Shapes
  <2> QED
    BY <1>1, <1>3, <2>2, <2>3 DEF Rekeyed
<1>9. Here(n)' = e /\ s # None
  BY <1>3, <1>5, <1>7, <1>8, NamesAssumption DEF Here
<1>10. \A h \in 1..n : CallAt(b, h)'
  <2>1. ASSUME NEW h \in 1..n, h # n PROVE CallAt(b, h)'
    BY <1>3, <1>4, <2>1, CallKept
  <2>2. CallAt(b, n)'
    <3>1. b[Where] = p
      BY <1>6 DEF Growth
    <3>2. frames'[n + 1].data = Where /\ frames'[n + 1].last_leaf = m /\ frames'[n + 1].storage = VAL
      BY <1>3, <1>6, FlipIs
    <3>3. b[frames'[n + 1].data] = open'[n].path
      BY <1>3, <1>5, <3>1, <3>2
    <3>4. b[frames'[n + 1].last_leaf] = Here(n)'
      BY <1>7, <1>9, <3>2
    <3> QED
      BY <1>3, <1>8, <1>9, <3>2, <3>3, <3>4 DEF CallAt
  <2> QED
    BY <2>1, <2>2
<1>11. \A h \in 1..n : KeysAt(b, h)'
  <2>1. ASSUME NEW h \in 1..n, h # n PROVE KeysAt(b, h)'
    <3>1. h \in 1..(n - 1) /\ b[m][h] = p[h]
      BY <1>3, <1>7, <2>1
    <3>2. p[h] \in open[h].used
      BY <1>3, <1>5, <3>1, Around
    <3> QED
      BY <1>3, <1>4, <2>1, <3>1, <3>2, KeysKept
  <2>2. KeysAt(b, n)'
    <3>1. KeysAt(at, n)
      BY <1>3, <1>4 DEF KeysInv
    <3>2. ASSUME NEW j \in DOMAIN nodes
          PROVE  /\ b[j] \in Seq(Names)
                 /\ Begins(p, b[j]) /\ Len(b[j]) >= n => b[j][n] \in open[n].used
      BY <1>5, <3>1, <3>2, NodesTyped DEF Growth, KeysAt
    <3>3. ASSUME NEW j \in DOMAIN nodes PROVE ~Begins(e, b[j])
      <4> SUFFICES ASSUME Begins(e, b[j]) PROVE FALSE
        OBVIOUS
      <4>1. PICK r \in Seq(Names) : r = b[j]
        BY <3>2
      <4>2. Len(r) \in Nat /\ n <= Len(r) /\ \A g \in 1..n : r[g] = e[g]
        BY <1>7, <4>1 DEF Begins
      <4>3. \A g \in 1..(n - 1) : g \in 1..n
        BY <1>3
      <4>4. Begins(p, r)
        BY <1>3, <1>5, <1>7, <4>2, <4>3 DEF Begins
      <4> QED
        BY <1>3, <1>7, <1>8, <3>2, <4>1, <4>2, <4>4
    <3> QED
      BY <1>3, <1>5, <1>7, <1>8, <1>9, <3>2, <3>3 DEF KeysAt
  <2> QED
    BY <2>1, <2>2
<1>12. ApartInv'
  <2>1. \A h \in 1..n, q \in DOMAIN scalars : ~Begins(q, open[h].path)
    BY <1>3, <1>4 DEF ApartInv
  <2> QED
    BY <1>3, <1>8, <2>1 DEF ApartInv
<1>13. ScalarsInv(b)'
  <2>1. \A q \in DOMAIN scalars : ~Begins(q, p)
    BY <1>3, <1>4, <1>5 DEF ApartInv
  <2> QED
    BY <1>3, <1>4, <1>6, <1>8, <2>1, ScalarsKept
<1>14. shape.begun
  BY <1>1 DEF FileInv
<1>15. LeavesInv(b)'
  <2> SUFFICES ASSUME shape.plain, NEW i \in (DOMAIN nodes)',
                      \A j \in (DOMAIN nodes)' : nodes'[j].parent # i
               PROVE  \/ nodes'[i].parent # 0 /\ b[nodes'[i].parent] \in DOMAIN scalars'
                      \/ open' # <<>> /\ Inner'.key # None /\ i = Top'.last_leaf
    BY <1>8 DEF LeavesInv
  <2>1. CASE i = m
    BY <1>3, <1>8, <1>9, <2>1
  <2>2. CASE i \in DOMAIN nodes
    <3>1. i # Top.data /\ \A j \in DOMAIN nodes : nodes[j].parent # i
      BY <1>3, <1>6
    <3>2. nodes[i].parent # 0 /\ at[nodes[i].parent] \in DOMAIN scalars
      BY <1>3, <1>4, <1>14, <2>2, <3>1 DEF LeavesInv, AtKey
    <3>3. b[nodes[i].parent] = at[nodes[i].parent]
      BY <2>2, <3>2, NodesTyped DEF Growth
    <3> QED
      BY <1>3, <1>8, <2>2, <3>2, <3>3
  <2> QED
    BY <1>3, <2>1, <2>2
<1> QED
  BY <1>3, <1>8, <1>10, <1>11, <1>12, <1>13, <1>14, <1>15 DEF PlacesInv, FramesInv, KeysInv

(* A value. *)
LEMMA ValuePlaces ==
    ASSUME TypeOK, phase = "parse", NEW at, PathsInv(at), OpenInv, FileInv, PlacesInv(at),
           ~shape.nested, NEW s \in Names, Scalar(s), AtValue, Outside(Len(open)),
           NEW b, Growth(at, b), b[Len(nodes) + 1] = Append(at[Where], s)
    PROVE  PlacesInv(b)'
<1>1. PICK n \in Nat : n = Len(open) /\ Outside(n) /\ open # <<>>
  BY Typed DEF AtValue
<1>2. PICK m \in Nat : m = Len(nodes) + 1 /\ b[m] = Append(at[Where], s)
  BY Typed
<1>3. InnermostGoesOn(n, m, s)
  BY <1>1, <1>2, OutsideScalar
<1>4. /\ n \in 1..n /\ DOMAIN open = 1..n /\ (DOMAIN open)' = 1..n /\ Inner = open[n]
      /\ \A h \in 1..n : /\ Outside(h) /\ Outside(h)' /\ ~Entered(h) /\ ~Entered(h)'
                         /\ open'[h].path = open[h].path
                         /\ h + 1 \in (DOMAIN frames)'
      /\ \A h \in 1..n : h # n => open'[h] = open[h] /\ frames'[h + 1] = frames[h + 1]
      /\ Top = frames[n + 1] /\ frames'[n + 1].data = frames[n + 1].data
      /\ frames'[n + 1].storage = Flip(Top.storage)
  BY <1>3 DEF InnermostGoesOn
<1>5. /\ (DOMAIN nodes)' = DOMAIN nodes \cup {m} /\ m \notin DOMAIN nodes
      /\ \A j \in DOMAIN nodes : nodes'[j] = nodes[j]
      /\ nodes'[m].parent = Where /\ nodes'[m].data = s
  BY <1>3 DEF InnermostGoesOn
<1>6. FramesInv(at) /\ KeysInv(at) /\ ApartInv /\ ScalarsInv(at) /\ LeavesInv(at)
  BY DEF PlacesInv
<1>7. Where = Top.last_leaf /\ at[Where] = Here(n) /\ Top.storage = VAL /\ Where \in DOMAIN nodes
  <2>1. Where = Top.last_leaf /\ at[Where] = Here(Len(open)) /\ Top.storage = VAL
    BY <1>1, <1>6, WhereIs, Zenon
  <2>2. Where \in DOMAIN nodes
    BY ScalarCalls
  <2> QED
    BY <1>1, <2>1, <2>2
<1>8. PICK e \in Seq(Names) : /\ e = Here(n) /\ Len(e) = n /\ open[n].key # None
                              /\ \A g \in 1..n : e[g] = open[g].key /\ open[g].key \in open[g].used
  <2>1. open[n].key # None
    BY <1>4 DEF AtValue
  <2>2. /\ Here(n) \in Seq(Names) /\ Len(Here(n)) = n /\ Here(n)[n] = open[n].key
        /\ open[n].key \in open[n].used
        /\ \A g \in 1..(n - 1) : Here(n)[g] = open[g].key /\ open[g].key \in open[g].used
    BY <1>4, <2>1, Around
  <2>3. \A g \in 1..n : g = n \/ g \in 1..(n - 1)
    OBVIOUS
  <2> QED
    BY <2>1, <2>2, <2>3
<1>9. PICK r \in Seq(Names) : /\ r = Append(e, s) /\ b[m] = r
                              /\ \A g \in 1..n : r[g] = e[g]
  <2>1. /\ Append(e, s) \in Seq(Names)
        /\ \A g \in 1..n : Append(e, s)[g] = e[g]
    BY <1>8
  <2> QED
    BY <1>2, <1>7, <1>8, <2>1, Zenon
<1>10. /\ open'[n].key = None /\ open'[n].used = open[n].used
       /\ shape' = shape /\ DOMAIN scalars' = DOMAIN scalars \cup {e} /\ scalars'[e] = s
       /\ \A p \in DOMAIN scalars : p # e => scalars'[p] = scalars[p]
  <2>1. WriteScalar(s) /\ ~AtKey /\ ~AtItem
    BY DEF Scalar, AtKey, AtValue, AtItem
  <2>2. Rekeyed(None, Inner.used) /\ shape' = shape
    BY <2>1, ScalarWritten
  <2>3. scalars' = With(scalars, e, s)
    <3>1. scalars' = With(scalars, Append(Inner.path, Inner.key), s)
      BY <1>1, <1>4, <2>1 DEF WriteScalar, Outside
    <3> QED
      BY <1>4, <1>8, <3>1 DEF Here
  <2>4. /\ DOMAIN With(scalars, e, s) = DOMAIN scalars \cup {e} /\ With(scalars, e, s)[e] = s
        /\ \A p \in DOMAIN scalars : p # e => With(scalars, e, s)[p] = scalars[p]
    BY DEF With
  <2> QED
    BY <1>1, <1>4, <2>2, <2>3, <2>4 DEF Rekeyed
<1>11. \A h \in 1..n : CallAt(b, h)'
  <2>1. ASSUME NEW h \in 1..n, h # n PROVE CallAt(b, h)'
    BY <1>4, <1>6, <2>1, CallKept
  <2>2. CallAt(b, n)'
    <3>1. CallAt(at, n) /\ frames[n + 1].data \in DOMAIN nodes
      BY <1>4, <1>6, Typed DEF FramesInv, CallAt
    <3>2. b[frames'[n + 1].data] = open'[n].path
      BY <1>4, <3>1 DEF Growth, CallAt
    <3>3. frames'[n + 1].storage = VAR
      BY <1>4, <1>7, FlipIs
    <3> QED
      BY <1>4, <1>10, <3>2, <3>3 DEF CallAt
  <2> QED
    BY <2>1, <2>2
<1>12. ASSUME NEW h \in 1..n PROVE KeysAt(b, h)'
  <2>1. b[m][h] \in open'[h].used
    BY <1>4, <1>8, <1>9, <1>10
  <2>2. open[h].used \subseteq open'[h].used /\ (h # Len(open') \/ open'[h].key = None)
    BY <1>1, <1>3, <1>4, <1>10 DEF InnermostGoesOn
  <2> QED
    BY <1>4, <1>5, <1>6, <2>1, <2>2, KeysKept
<1>13. \A p \in DOMAIN scalars : ~Begins(e, p) /\ ~Begins(p, e) /\ p # e
  <2>1. \A p \in DOMAIN scalars :
           ~Begins(Here(n), p) /\ \A q \in Seq(Names) : Begins(Here(n), q) => ~Begins(p, q)
    BY <1>1, <1>4, <1>6, <1>8, KeyFree
  <2>2. Begins(e, e)
    BY BeginsLaws
  <2> QED
    BY <1>8, <2>1, <2>2
<1>14. ApartInv'
  <2>1. ASSUME NEW h \in 1..n PROVE ~Begins(e, open[h].path)
    <3>1. Len(open[h].path) = h - 1
      BY <1>4, Around
    <3> QED
      BY <1>8, <3>1 DEF Begins
  <2>2. \A h \in 1..n, p \in DOMAIN scalars : ~Begins(p, open[h].path)
    BY <1>4, <1>6 DEF ApartInv
  <2> QED
    BY <1>4, <1>10, <2>1, <2>2 DEF ApartInv
<1>15. ASSUME NEW p \in DOMAIN scalars PROVE \E v \in (DOMAIN nodes)' : Holds(b, v, p)'
  <2>1. PICK v \in DOMAIN nodes : Holds(at, v, p)
    BY <1>6 DEF ScalarsInv
  <2>2. \A j \in (DOMAIN nodes)' : j \notin DOMAIN nodes => ~Begins(p, at[nodes'[j].parent])
    BY <1>5, <1>7, <1>8, <1>13
  <2>3. scalars'[p] = scalars[p]
    BY <1>10, <1>13
  <2>4. Holds(b, v, p)'
    BY <2>1, <2>2, <2>3, HoldsKept
  <2> QED
    BY <1>5, <2>4
<1>16. Holds(b, m, e)'
  <2>1. KeysAt(at, n)
    BY <1>4, <1>6 DEF KeysInv
  <2>2. ASSUME NEW j \in DOMAIN nodes
        PROVE  nodes[j].parent # m /\ ~(nodes[j].parent # 0 /\ b[nodes[j].parent] = e)
    <3>1. nodes[j].parent # 0 => nodes[j].parent \in DOMAIN nodes
      BY NodesTyped
    <3>2. m # 0
      BY <1>2, Typed
    <3>3. ASSUME nodes[j].parent # 0, b[nodes[j].parent] = e PROVE FALSE
      <4>1. PICK d \in Names : d = nodes[j].data
        BY <3>3, NodesTyped
      <4>2. at[j] = Append(e, d)
        <5>1. at[nodes[j].parent] = e
          BY <3>1, <3>3 DEF Growth
        <5>2. at[j] = Append(at[nodes[j].parent], nodes[j].data)
          BY <3>3, NodesTyped
        <5> QED
          BY <4>1, <5>1, <5>2, Zenon
      <4>3. Begins(e, at[j]) /\ at[j] # e
        BY <4>1, <4>2, BeginsLaws
      <4>4. Begins(Here(n), at[j]) => at[j] = Here(n)
        BY <1>1, <1>8, <2>1 DEF KeysAt
      <4> QED
        BY <1>8, <4>3, <4>4
    <3> QED
      BY <1>5, <3>1, <3>2, <3>3
  <2>3. Where # 0 /\ Where # m /\ b[Where] = e
    <3>1. 0 \notin DOMAIN nodes
      BY <1>7, NodesTyped
    <3> QED
      BY <1>5, <1>7, <1>8, <3>1 DEF Growth
  <2> QED
    BY <1>5, <1>10, <2>2, <2>3 DEF Holds
<1>17. ScalarsInv(b)'
  BY <1>5, <1>10, <1>15, <1>16 DEF ScalarsInv
<1>18. shape.begun
  BY <1>1 DEF FileInv
<1>19. LeavesInv(b)'
  <2> SUFFICES ASSUME shape.plain, NEW i \in (DOMAIN nodes)',
                      \A j \in (DOMAIN nodes)' : nodes'[j].parent # i
               PROVE  nodes'[i].parent # 0 /\ b[nodes'[i].parent] \in DOMAIN scalars'
    BY <1>10 DEF LeavesInv
  <2>1. CASE i = m
    <3>1. 0 \notin DOMAIN nodes /\ b[Where] = e
      BY <1>7, <1>8, NodesTyped DEF Growth
    <3> QED
      BY <1>5, <1>7, <1>10, <2>1, <3>1
  <2>2. CASE i \in DOMAIN nodes
    <3>1. i # Top.last_leaf /\ \A j \in DOMAIN nodes : nodes[j].parent # i
      BY <1>5, <1>7
    <3>2. Inner.used # {}
      BY <1>4, <1>8
    <3>3. nodes[i].parent # 0 /\ at[nodes[i].parent] \in DOMAIN scalars
      BY <1>6, <1>18, <2>2, <3>1, <3>2 DEF LeavesInv
    <3>4. b[nodes[i].parent] = at[nodes[i].parent]
      BY <2>2, <3>3, NodesTyped DEF Growth
    <3> QED
      BY <1>5, <1>10, <2>2, <3>3, <3>4
  <2> QED
    BY <1>5, <2>1, <2>2
<1> QED
  BY <1>4, <1>10, <1>11, <1>12, <1>14, <1>17, <1>18, <1>19 DEF PlacesInv, FramesInv, KeysInv

(* An item, or a scalar of a mapping in a sequence. *)
LEMMA InsideScalar ==
    ASSUME TypeOK, phase = "parse", NEW at, PathsInv(at), OpenInv, FileInv, PlacesInv(at),
           ~shape.nested, NEW s \in Names, Scalar(s), ~Outside(Len(open)),
           NEW b, Growth(at, b), b[Len(nodes) + 1] = Append(at[Where], s)
    PROVE  PlacesInv(b)'
<1>1. WriteScalar(s) /\ open # <<>> /\ shape \in Shapes
  BY Typed, ScalarWritten DEF Scalar
<1>2. PICK n \in Nat : n = Len(open) /\ DOMAIN open = 1..n /\ n \in 1..n /\ Inner = open[n]
  BY <1>1, Typed, OpenTyped
<1>3. PICK q \in 1..n : /\ Outside(q) /\ Entered(q) /\ q < n /\ open[q].key # None
                        /\ \A h \in 1..n : Outside(h) <=> h <= q
  BY <1>1, <1>2, InSequence
<1>4. FramesInv(at) /\ KeysInv(at) /\ ApartInv /\ ScalarsInv(at) /\ LeavesInv(at)
  BY DEF PlacesInv
<1>5. /\ open' \in Seq(Opens) /\ Len(open') = n
      /\ \A h \in 1..n : h # n => open'[h] = open[h]
      /\ \A h \in 1..n : open'[h].inSeq = open[h].inSeq
      /\ scalars' = scalars /\ shape'.plain = shape.plain /\ shape'.begun = shape.begun
  <2>1. CASE AtItem
    <3>1. ~AtKey /\ ~AtValue
      BY <2>1 DEF AtKey, AtValue, AtItem
    <3>2. open' = open /\ scalars' = scalars /\ shape' = shape
      BY <1>1, <3>1, ScalarWritten
    <3> QED
      BY <1>2, <3>2, Typed
  <2>2. CASE ~AtItem
    <3>1. /\ \E k, u : Rekeyed(k, u)
          /\ scalars' = IF AtValue /\ ~Inner.inSeq
                        THEN With(scalars, Append(Inner.path, Inner.key), s) ELSE scalars
          /\ shape' = shape \/ shape' = [shape EXCEPT !.top = @ \cup {s}]
      BY <1>1, <2>2, ScalarWritten DEF AtKey, AtValue
    <3>2. Inner.inSeq
      BY <1>2 DEF Outside
    <3>3. PICK k, u : Rekeyed(k, u)
      BY <3>1
    <3>4. /\ open' \in Seq(Opens) /\ Len(open') = n
          /\ \A h \in 1..n : h # n => open'[h] = open[h]
          /\ open'[n].inSeq = open[n].inSeq
      BY <1>2, <3>3 DEF Rekeyed
    <3>5. shape'.plain = shape.plain /\ shape'.begun = shape.begun
      BY <1>1, <3>1 DEF Shapes
    <3> QED
      BY <3>1, <3>2, <3>4, <3>5
  <2> QED
    BY <2>1, <2>2
<1>6. /\ (DOMAIN open)' = 1..n /\ q + 1 \in 1..n
      /\ \A h \in 1..q : open'[h] = open[h]
      /\ \A h \in 1..n : Outside(h)' <=> h <= q
  <2>1. (DOMAIN open)' = 1..n /\ q + 1 \in 1..n /\ \A h \in 1..q : h \in 1..n /\ h # n
    BY <1>3, <1>5
  <2> QED
    BY <1>3, <1>5, <2>1 DEF Outside
<1>7. ~shape'.plain /\ shape'.begun
  <2>1. ~shape.plain /\ shape.begun
    BY <1>1, <1>2 DEF FileInv
  <2> QED
    BY <1>5, <2>1
<1>8. PICK e \in Seq(Names) : e = Here(q)
  BY <1>2, <1>3, Around
<1>9. PICK x \in DOMAIN nodes : x = Where
  BY ScalarCalls
<1>10. Begins(e, at[x]) /\ CallAt(at, q)
  BY <1>1, <1>2, <1>3, <1>4, <1>8, <1>9, WhereIs DEF FramesInv
<1>11. PICK m \in Nat : m = Len(nodes) + 1
  BY Typed
<1>12. Begins(e, b[m])
  <2>1. PICK r \in Seq(Names) : r = at[x]
    BY NodesTyped
  <2>2. b[m] = Append(r, s)
    BY <1>9, <1>11, <2>1, Zenon
  <2>3. Begins(e, Append(r, s))
    BY <1>10, <2>1, BeginsLaws
  <2> QED
    BY <2>2, <2>3
<1>13. \A j \in (DOMAIN nodes)' : j \notin DOMAIN nodes => Begins(e, at[nodes'[j].parent])
  <2>1. Added(x, s)
    BY <1>9, ScalarCalls DEF Added
  <2>2. (DOMAIN nodes)' = DOMAIN nodes \cup {m} /\ nodes'[m].parent = x
    BY <1>11, <2>1, Grown
  <2> QED
    BY <1>10, <2>2
<1>14. PICK l \in Nat \ {0} : /\ l = Len(frames) /\ DOMAIN frames = 1..l /\ Top = frames[l]
                              /\ l >= q + 1
  <2>1. Len(frames) >= q + 1
    BY <1>2, <1>3, TopCall
  <2> QED
    BY <2>1, TopCall, Typed
<1>15. /\ (DOMAIN frames)' = 1..l
       /\ \A i \in 1..l : i # l => frames'[i] = frames[i]
       /\ frames'[l].data = frames[l].data /\ frames'[l].last_leaf = m
       /\ frames'[l].storage = Flip(frames[l].storage)
  <2>1. PICK C : C = Calls'
    OBVIOUS
  <2>2. GoesOn(m, Flip(Top.storage))
    BY <1>11, ScalarCalls
  <2>3. /\ frames' \in Seq(C) /\ Len(frames') = l
        /\ \A i \in 1..l : i # l => frames'[i] = frames[i]
        /\ frames'[l] = [data |-> Top.data, last_leaf |-> m, storage |-> Flip(Top.storage)]
    BY <1>14, <2>1, <2>2 DEF GoesOn
  <2> QED
    BY <1>14, <2>3
<1>16. /\ frames[q + 1].storage \in {SEQ, SEQ + VAL} /\ q + 1 \in 1..l
       /\ Begins(e, at[frames[q + 1].last_leaf])
       /\ \A i \in 1..l : i > q + 1 => Begins(e, at[frames[i].data])
                                       /\ Begins(e, at[frames[i].last_leaf])
  BY <1>3, <1>8, <1>10, <1>14 DEF CallAt
<1>17. \A i \in 1..l : frames[i].data \in DOMAIN nodes /\ frames[i].last_leaf \in DOMAIN nodes
  BY <1>14, Typed
<1>18. \A i \in 1..l : /\ b[frames[i].data] = at[frames[i].data]
                       /\ b[frames[i].last_leaf] = at[frames[i].last_leaf]
  BY <1>17 DEF Growth
<1>19. /\ 1..(q + 1) \subseteq (DOMAIN frames)'
       /\ \A i \in 1..q : frames'[i] = frames[i]
       /\ frames'[q + 1].data = frames[q + 1].data
  BY <1>14, <1>15
<1>20. /\ frames'[q + 1].storage \in {SEQ, SEQ + VAL}
       /\ Begins(e, b[frames'[q + 1].last_leaf])
  <2>1. CASE l = q + 1
    BY <1>12, <1>15, <1>16, <2>1, FlipIs
  <2>2. CASE l # q + 1
    BY <1>15, <1>16, <1>18, <2>2
  <2> QED
    BY <2>1, <2>2
<1>21. \A i \in (DOMAIN frames)' : i > q + 1 =>
          Begins(e, b[frames'[i].data]) /\ Begins(e, b[frames'[i].last_leaf])
  <2>1. ASSUME NEW i \in 1..l, i > q + 1
        PROVE  Begins(e, b[frames'[i].data]) /\ Begins(e, b[frames'[i].last_leaf])
    <3>1. CASE i = l
      BY <1>12, <1>15, <1>16, <1>18, <2>1, <3>1
    <3>2. CASE i # l
      BY <1>15, <1>16, <1>18, <2>1, <3>2
    <3> QED
      BY <3>1, <3>2
  <2> QED
    BY <1>15, <2>1
<1> QED
  <2>1. /\ q \in DOMAIN open /\ q + 1 \in (DOMAIN open)'
        /\ \A h \in (DOMAIN open)' : Outside(h)' <=> h <= q
    BY <1>2, <1>6
  <2>2. FramesInv(b)' /\ KeysInv(b)' /\ ApartInv' /\ ScalarsInv(b)' /\ LeavesInv(b)'
    BY <1>3, <1>4, <1>5, <1>6, <1>7, <1>8, <1>13, <1>19, <1>20, <1>21, <2>1, InsideKeeps, Zenon
  <2> QED
    BY <2>2 DEF PlacesInv

-----------------------------------------------------------------------------
(* Items of sequences. *)

(* The innermost collection around goes on, or ends, or there is a new one in a
   sequence: what is written next stays apart. *)
LEMMA SequencedKept ==
    ASSUME NEW e, Sequenced(e), scalars' = scalars,
           \A h \in (DOMAIN open)' : Outside(h)' =>
              /\ h \in DOMAIN open /\ Outside(h) /\ open'[h].path = open[h].path
              /\ open'[h].key # None /\ ~Entered(h)' =>
                    open'[h].key = open[h].key /\ ~Entered(h)
    PROVE  Sequenced(e)'
<1>1. ASSUME NEW h \in (DOMAIN open)', Outside(h)'
      PROVE  /\ ~Begins(e, open'[h].path)
             /\ open'[h].key # None /\ ~Entered(h)' => ~Begins(e, Append(open'[h].path, open'[h].key))
  BY <1>1 DEF Sequenced, Here
<1>2. e \in Seq(Keys) /\ \A p \in DOMAIN scalars' : ~Begins(e, p)
  BY DEF Sequenced
<1> QED
  BY <1>1, <1>2 DEF Sequenced, Here

(* A sequence of an open mapping is apart from everything else. *)
LEMMA SequenceApart ==
    ASSUME TypeOK, OpenInv, FileInv, ApartInv,
           NEW q \in DOMAIN open, Outside(q), Entered(q), open[q].key # None
    PROVE  Sequenced(Here(q))
<1>1. PICK n \in Nat : n = Len(open) /\ DOMAIN open = 1..n
  BY Typed
<1>2. Here(q) \in Seq(Keys)
  <2>1. /\ open[q].key \in open[q].used \cup {None} /\ open[q].used \subseteq Keys
        /\ open[q].path \in Seq(Keys)
    BY DEF OpenInv, OpenAt, FileInv, KeyedInv
  <2> QED
    BY <2>1 DEF Here
<1>3. PICK e \in Seq(Names) : e = Here(q) /\ Len(e) = q
  BY Around
<1>4. ASSUME NEW h \in 1..n, Outside(h) PROVE h <= q
  <2>1. q + 1 \in 1..n /\ ~Outside(q + 1)
    BY <1>1 DEF Entered
  <2>2. h # q + 1 /\ ~(q + 1 \in 1..(h - 1))
    BY <1>1, <1>4, <2>1, Around
  <2> QED
    BY <1>1, <2>2
<1>5. ASSUME NEW h \in 1..n, Outside(h)
      PROVE  ~Begins(e, open[h].path)
  <2>1. Len(open[h].path) = h - 1
    BY <1>1, <1>5, Around
  <2> QED
    BY <1>1, <1>3, <1>4, <1>5, <2>1 DEF Begins
<1>6. ASSUME NEW h \in 1..n, Outside(h), open[h].key # None, ~Entered(h)
      PROVE  ~Begins(e, Here(h))
  <2>1. Len(Here(h)) = h
    BY <1>1, <1>6, Around
  <2>2. h # q
    BY <1>6
  <2> QED
    BY <1>1, <1>3, <1>4, <1>6, <2>1, <2>2 DEF Begins
<1>7. \A p \in DOMAIN scalars : ~Begins(e, p)
  BY <1>3 DEF ApartInv
<1> QED
  BY <1>1, <1>2, <1>3, <1>5, <1>6, <1>7 DEF Sequenced

(* The tree grows, and no path stops being apart. *)
LEMMA ItemsGrow ==
    ASSUME TypeOK, NEW at, NEW b, PathsInv(at), Growth(at, b), ItemsInv(at),
           \A e : \A i \in DOMAIN nodes :
              Sequenced(e) /\ nodes[i].parent # 0 /\ Begins(e, at[nodes[i].parent])
                 => Sequenced(e)',
           \A j \in (DOMAIN nodes)' : j \notin DOMAIN nodes =>
              \/ at[nodes'[j].parent] \in Seq(Keys)
              \/ \E e : Sequenced(e)' /\ Begins(e, at[nodes'[j].parent])
    PROVE  ItemsInv(b)'
<1> SUFFICES ASSUME NEW i \in (DOMAIN nodes)', nodes'[i].parent # 0
             PROVE  \/ b[nodes'[i].parent] \in Seq(Keys)
                    \/ \E e : Sequenced(e)' /\ Begins(e, b[nodes'[i].parent])
  BY DEF ItemsInv, ItemsAt, Begins
<1>1. CASE i \in DOMAIN nodes
  <2>1. nodes'[i] = nodes[i] /\ nodes[i].parent \in DOMAIN nodes
    BY <1>1, NodesTyped DEF Growth
  <2>2. b[nodes'[i].parent] = at[nodes[i].parent]
    BY <2>1 DEF Growth
  <2>3. ItemsAt(at[nodes[i].parent])
    BY <1>1, <2>1 DEF ItemsInv
  <2> QED
    BY <1>1, <2>1, <2>2, <2>3 DEF ItemsAt
<1>2. CASE i \notin DOMAIN nodes
  <2>1. nodes'[i].parent \in DOMAIN nodes
    BY <1>2 DEF Growth
  <2>2. b[nodes'[i].parent] = at[nodes'[i].parent]
    BY <2>1 DEF Growth
  <2> QED
    BY <1>2, <2>2
<1> QED
  BY <1>1, <1>2

(* A new key of a mapping is not apart: nothing is below it yet. *)
LEMMA KeyItems ==
    ASSUME TypeOK, phase = "parse", NEW at, PathsInv(at), OpenInv, FileInv, PlacesInv(at),
           ItemsInv(at), ~shape.nested, NEW s \in Names, Scalar(s), AtKey, Outside(Len(open)),
           NEW b, PathsInv(b)', Growth(at, b)
    PROVE  ItemsInv(b)'
<1>1. PICK m \in Nat : m = Len(nodes) + 1
  BY Typed
<1>2. PICK n \in Nat : n = Len(open) /\ InnermostGoesOn(n, m, s) /\ n # 0
  <2>1. open # <<>>
    BY DEF AtKey
  <2>2. PICK n \in Nat : n = Len(open) /\ n # 0
    BY <2>1, Typed
  <2> QED
    BY <1>1, <2>1, <2>2, OutsideScalar
<1>3. /\ DOMAIN open = 1..n /\ n \in 1..n /\ Inner = open[n] /\ (DOMAIN open)' = 1..n
      /\ \A h \in 1..n : /\ Outside(h) /\ ~Entered(h) /\ ~Entered(h)'
                         /\ open'[h].path = open[h].path
      /\ \A h \in 1..n : h # n => open'[h] = open[h]
      /\ (DOMAIN nodes)' = DOMAIN nodes \cup {m} /\ nodes'[m].parent = Where
  BY <1>2 DEF InnermostGoesOn
<1>4. scalars' = scalars /\ s \notin open[n].used /\ open'[n].key = s /\ s \in Keys
  <2>1. WriteScalar(s)
    BY DEF Scalar
  <2>2. ~AtValue /\ ~AtItem
    BY DEF AtKey, AtValue, AtItem
  <2>3. Rekeyed(s, Inner.used \cup {s}) /\ s \notin Inner.used /\ scalars' = scalars
    BY <2>1, <2>2, ScalarWritten
  <2>4. s \in Keys
    BY <2>1, <2>2 DEF WriteScalar
  <2> QED
    BY <1>2, <1>3, <2>3, <2>4 DEF Rekeyed
<1>5. PICK p \in Seq(Names) : p = open[n].path /\ Len(p) = n - 1
  BY <1>3, Around
<1>6. at[Where] \in Seq(Keys)
  <2>1. at[Where] = open[n].path
    BY <1>2, <1>3, WhereIs DEF PlacesInv, AtKey
  <2> QED
    BY <1>3, <2>1 DEF FileInv, KeyedInv
<1>7. ASSUME NEW e, NEW i \in DOMAIN nodes, Sequenced(e), nodes[i].parent # 0,
             Begins(e, at[nodes[i].parent])
      PROVE  Sequenced(e)'
  <2>1. PICK r \in Seq(Names) : r = at[nodes[i].parent]
    BY <1>7, NodesTyped
  <2>2. e \in Seq(Names)
    <3>1. Keys \subseteq Names /\ e \in Seq(Keys)
      BY <1>7, NamesAssumption DEF Sequenced
    <3> QED
      BY <3>1, SeqMonotonic
  <2>3. ~Begins(e, Append(p, s))
    <3> SUFFICES ASSUME Begins(e, Append(p, s)) PROVE FALSE
      OBVIOUS
    <3>1. ~Begins(e, p)
      BY <1>3, <1>5, <1>7 DEF Sequenced
    <3>2. e = Append(p, s)
      BY <1>5, <2>2, <3>1, BeginsLaws
    <3>3. Begins(Append(p, s), r)
      BY <1>7, <2>1, <3>2
    <3>4. PICK u \in Seq(Names) : u = Append(p, s) /\ Begins(p, u)
      BY BeginsLaws
    <3>5. Begins(p, r)
      <4>1. Begins(u, r)
        BY <3>3, <3>4
      <4> QED
        BY <3>4, <4>1, BeginsBoth
    <3>6. Len(Append(p, s)) = n /\ Append(p, s)[n] = s
      BY <1>2, <1>5
    <3>7. Len(r) >= n /\ r[n] = s
      BY <1>2, <1>3, <2>1, <3>3, <3>6 DEF Begins
    <3>8. KeysAt(at, n)
      BY <1>3 DEF PlacesInv, KeysInv
    <3>9. nodes[i].parent \in DOMAIN nodes
      BY <1>7, NodesTyped
    <3>10. r[n] \in open[n].used
      BY <1>5, <2>1, <3>5, <3>7, <3>8, <3>9 DEF KeysAt
    <3> QED
      BY <1>4, <3>7, <3>10
  <2>4. Here(n)' = Append(p, s)
    BY <1>3, <1>4, <1>5 DEF Here
  <2>5. ASSUME NEW h \in 1..n
        PROVE  /\ ~Begins(e, open'[h].path)
               /\ open'[h].key # None /\ ~Entered(h)' => ~Begins(e, Here(h)')
    <3>1. CASE h = n
      BY <1>3, <1>7, <2>3, <2>4, <3>1 DEF Sequenced
    <3>2. CASE h # n
      <4>1. open'[h] = open[h] /\ Outside(h) /\ ~Entered(h)
        BY <1>3, <3>2
      <4>2. Here(h)' = Here(h)
        BY <4>1 DEF Here
      <4> QED
        BY <1>3, <1>7, <4>1, <4>2 DEF Sequenced
    <3> QED
      BY <3>1, <3>2
  <2>6. e \in Seq(Keys) /\ \A q \in DOMAIN scalars' : ~Begins(e, q)
    BY <1>4, <1>7 DEF Sequenced
  <2> QED
    BY <1>3, <2>5, <2>6 DEF Sequenced, Begins
<1>8. \A j \in (DOMAIN nodes)' : j \notin DOMAIN nodes => at[nodes'[j].parent] \in Seq(Keys)
  BY <1>3, <1>6
<1> QED
  BY <1>7, <1>8, ItemsGrow

(* A value is not at a path that is apart. *)
LEMMA ValueItems ==
    ASSUME TypeOK, phase = "parse", NEW at, PathsInv(at), OpenInv, FileInv, PlacesInv(at),
           ItemsInv(at), ~shape.nested, NEW s \in Names, Scalar(s), AtValue, Outside(Len(open)),
           NEW b, PathsInv(b)', Growth(at, b)
    PROVE  ItemsInv(b)'
<1>1. PICK m \in Nat : m = Len(nodes) + 1
  BY Typed
<1>2. PICK n \in Nat : n = Len(open) /\ InnermostGoesOn(n, m, s) /\ n # 0
  <2>1. open # <<>>
    BY DEF AtValue
  <2>2. PICK n \in Nat : n = Len(open) /\ n # 0
    BY <2>1, Typed
  <2> QED
    BY <1>1, <2>1, <2>2, OutsideScalar
<1>3. /\ DOMAIN open = 1..n /\ n \in 1..n /\ Inner = open[n] /\ (DOMAIN open)' = 1..n
      /\ \A h \in 1..n : /\ Outside(h) /\ ~Entered(h) /\ ~Entered(h)'
                         /\ open'[h].path = open[h].path
      /\ \A h \in 1..n : h # n => open'[h] = open[h]
      /\ (DOMAIN nodes)' = DOMAIN nodes \cup {m} /\ nodes'[m].parent = Where
  BY <1>2 DEF InnermostGoesOn
<1>4. /\ open'[n].key = None /\ open[n].key # None
      /\ \A p \in DOMAIN scalars' : p \in DOMAIN scalars \/ p = Here(n)
  <2>1. WriteScalar(s)
    BY DEF Scalar
  <2>2. ~AtKey /\ ~AtItem
    BY DEF AtKey, AtValue, AtItem
  <2>3. Rekeyed(None, Inner.used)
    BY <2>1, <2>2, ScalarWritten
  <2>4. \A p \in DOMAIN scalars' : p \in DOMAIN scalars \/ p = Here(n)
    BY <1>2, <2>1, ScalarsAre
  <2> QED
    BY <1>2, <1>3, <2>3, <2>4 DEF Rekeyed, AtValue
<1>5. at[Where] \in Seq(Keys)
  <2>1. at[Where] = Here(n)
    BY <1>2, <1>3, WhereIs DEF PlacesInv, AtValue
  <2>2. /\ open[n].key \in open[n].used \cup {None} /\ open[n].used \subseteq Keys
        /\ open[n].path \in Seq(Keys)
    BY <1>3 DEF OpenInv, OpenAt, FileInv, KeyedInv
  <2> QED
    BY <1>4, <2>1, <2>2 DEF Here
<1>6. ASSUME NEW e, Sequenced(e) PROVE Sequenced(e)'
  <2>1. ~Begins(e, Here(n))
    BY <1>3, <1>4, <1>6 DEF Sequenced
  <2>2. ASSUME NEW h \in 1..n
        PROVE  /\ ~Begins(e, open'[h].path)
               /\ open'[h].key # None /\ ~Entered(h)' => ~Begins(e, Here(h)')
    <3>1. CASE h = n
      BY <1>3, <1>4, <1>6, <3>1 DEF Sequenced
    <3>2. CASE h # n
      <4>1. open'[h] = open[h] /\ Outside(h) /\ ~Entered(h)
        BY <1>3, <3>2
      <4>2. Here(h)' = Here(h)
        BY <4>1 DEF Here
      <4> QED
        BY <1>3, <1>6, <4>1, <4>2 DEF Sequenced
    <3> QED
      BY <3>1, <3>2
  <2>3. e \in Seq(Keys) /\ \A q \in DOMAIN scalars' : ~Begins(e, q)
    BY <1>4, <1>6, <2>1 DEF Sequenced
  <2> QED
    BY <1>3, <2>2, <2>3 DEF Sequenced, Begins
<1>7. \A j \in (DOMAIN nodes)' : j \notin DOMAIN nodes => at[nodes'[j].parent] \in Seq(Keys)
  BY <1>3, <1>5
<1> QED
  BY <1>6, <1>7, ItemsGrow

(* What is written in a sequence is below it. *)
LEMMA InsideItems ==
    ASSUME TypeOK, phase = "parse", NEW at, PathsInv(at), OpenInv, FileInv, PlacesInv(at),
           ItemsInv(at), ~shape.nested, NEW s \in Names, Scalar(s), ~Outside(Len(open)),
           NEW b, PathsInv(b)', Growth(at, b)
    PROVE  ItemsInv(b)'
<1>1. PICK m \in Nat : m = Len(nodes) + 1
  BY Typed
<1>2. WriteScalar(s) /\ open # <<>>
  BY ScalarWritten DEF Scalar
<1>3. PICK q, n \in Nat :
         /\ q \in 1..n /\ q + 1 \in 1..n /\ Outside(q) /\ Entered(q) /\ open[q].key # None
         /\ n = Len(open) /\ DOMAIN open = 1..n
         /\ \A h \in 1..n : Outside(h) <=> h <= q
  <2>1. PICK n \in Nat : n = Len(open) /\ DOMAIN open = 1..n
    BY Typed
  <2>2. PICK q \in 1..n : /\ Outside(q) /\ Entered(q) /\ q < n /\ open[q].key # None
                          /\ \A h \in 1..n : Outside(h) <=> h <= q
    BY <1>2, <2>1, InSequence
  <2>3. q + 1 \in 1..n
    BY <2>2
  <2> QED
    BY <2>1, <2>2, <2>3
<1>4. scalars' = scalars
  BY <1>2, ScalarsAre
<1>5. /\ (DOMAIN open)' = 1..n
      /\ \A h \in 1..n : open'[h].inSeq = open[h].inSeq /\ (h # n => open'[h] = open[h])
  <2>1. (\E k, u : Rekeyed(k, u)) \/ open' = open
    BY <1>2, ScalarWritten
  <2>2. ASSUME NEW k, NEW u, Rekeyed(k, u)
        PROVE  /\ (DOMAIN open)' = 1..n
               /\ \A h \in 1..n : open'[h].inSeq = open[h].inSeq /\ (h # n => open'[h] = open[h])
    <3>1. /\ open' \in Seq(Opens) /\ Len(open') = n
          /\ open'[n].inSeq = open[n].inSeq /\ \A h \in 1..n : h # n => open'[h] = open[h]
      BY <1>3, <2>2 DEF Rekeyed
    <3> QED
      BY <3>1
  <2> QED
    BY <1>3, <2>1, <2>2
<1>6. \A h \in 1..n : Outside(h)' <=> h <= q
  BY <1>3, <1>5 DEF Outside
<1>7. ASSUME NEW e, Sequenced(e) PROVE Sequenced(e)'
  <2>1. ASSUME NEW h \in (DOMAIN open)', Outside(h)'
        PROVE  /\ h \in DOMAIN open /\ Outside(h) /\ open'[h].path = open[h].path
               /\ open'[h].key # None /\ ~Entered(h)' =>
                     open'[h].key = open[h].key /\ ~Entered(h)
    <3>1. h \in 1..n /\ h <= q /\ h # n /\ Outside(h) /\ h + 1 \in 1..n
      BY <1>3, <1>5, <1>6, <2>1
    <3>2. open'[h] = open[h] /\ (Outside(h + 1)' <=> Outside(h + 1))
      BY <1>3, <1>5, <1>6, <3>1
    <3>3. Entered(h)' <=> Entered(h)
      BY <1>3, <1>5, <3>1, <3>2 DEF Entered
    <3> QED
      BY <1>3, <3>1, <3>2, <3>3
  <2> QED
    BY <1>4, <1>7, <2>1, SequencedKept
<1>10. Begins(Here(q), at[Where])
  BY <1>2, <1>3, WhereIs DEF PlacesInv
<1>11. (DOMAIN nodes)' = DOMAIN nodes \cup {m} /\ nodes'[m].parent = Where
  <2>1. PICK x \in DOMAIN nodes : x = Where
    BY ScalarCalls
  <2>2. Added(x, s)
    BY <2>1, ScalarCalls DEF Added
  <2> QED
    BY <1>1, <2>1, <2>2, Grown
<1>12. PICK e : e = Here(q) /\ Sequenced(e)'
  <2>1. PICK e : e = Here(q)
    OBVIOUS
  <2>2. Sequenced(e)
    BY <1>3, <2>1, SequenceApart DEF PlacesInv
  <2> QED
    BY <1>7, <2>1, <2>2
<1>13. \A j \in (DOMAIN nodes)' : j \notin DOMAIN nodes =>
         \E d : Sequenced(d)' /\ Begins(d, at[nodes'[j].parent])
  BY <1>10, <1>11, <1>12
<1> QED
  BY <1>7, <1>13, ItemsGrow

(* A scalar keeps the invariant. *)
LEMMA ScalarParsed ==
    ASSUME TypeOK, phase = "parse", NEW at, Parsed(at), NEW s \in Names, Scalar(s)
    PROVE  \E b : Parsed(b)'
<1>1. PathsInv(at) /\ OpenInv /\ FileInv /\ WriteScalar(s)
      /\ (~shape.nested => PlacesInv(at) /\ ItemsInv(at))
  BY DEF Parsed, Scalar
<1>2. OpenInv' /\ FileInv'
  BY <1>1, OpenScalar, FileScalar
<1>3. shape'.nested = shape.nested
  <2>1. shape \in Shapes
    BY Typed
  <2>2. shape' = shape \/ shape' = [shape EXCEPT !.top = @ \cup {s}]
    BY <1>1 DEF WriteScalar
  <2> QED
    BY <2>1, <2>2 DEF Shapes
<1>4. PICK m \in Nat : m = Len(nodes) + 1
  BY Typed
<1>5. PICK x \in DOMAIN nodes : x = Where
  BY ScalarCalls
<1>6. /\ (DOMAIN nodes)' = DOMAIN nodes \cup {m} /\ m \notin DOMAIN nodes
      /\ nodes'[m].parent = x /\ nodes'[m].data = s
      /\ \E b : PathsInv(b)' /\ Growth(at, b)
  <2>1. Added(x, s)
    BY <1>5, ScalarCalls DEF Added
  <2> QED
    BY <1>1, <1>4, <2>1, Grown
<1>7. PICK b : PathsInv(b)' /\ Growth(at, b)
  BY <1>6
<1>8. b[Len(nodes) + 1] = Append(at[Where], s)
  <2>1. b[m] = Append(at[nodes'[m].parent], nodes'[m].data)
    BY <1>6, <1>7 DEF Growth
  <2> QED
    BY <1>4, <1>5, <1>6, <2>1, Zenon
<1>9. ASSUME ~shape.nested PROVE PlacesInv(b)' /\ ItemsInv(b)'
  <2>1. AtKey \/ AtValue \/ ~Outside(Len(open))
    <3>1. open # <<>>
      BY <1>1, ScalarWritten
    <3>2. OpenAt(Len(open)) /\ Inner = open[Len(open)]
      BY <1>1, <3>1, OpenTyped DEF OpenInv
    <3> QED
      BY <3>1, <3>2 DEF OpenAt, AtKey, AtValue
  <2>2. CASE ~Outside(Len(open))
    BY <1>1, <1>7, <1>8, <1>9, <2>2, InsideScalar, InsideItems, Zenon
  <2>3. CASE Outside(Len(open)) /\ AtKey
    BY <1>1, <1>7, <1>8, <1>9, <2>3, KeyPlaces, KeyItems, Zenon
  <2>4. CASE Outside(Len(open)) /\ AtValue
    BY <1>1, <1>7, <1>8, <1>9, <2>4, ValuePlaces, ValueItems, Zenon
  <2> QED
    BY <2>1, <2>2, <2>3, <2>4
<1>10. Parsed(b)'
  BY <1>2, <1>3, <1>7, <1>9 DEF Parsed
<1> QED
  BY <1>10

-----------------------------------------------------------------------------
(* Sequences. *)

(* What is the same when nodes and scalars are. *)
LEMMA ScalarsSame ==
    ASSUME NEW at, ScalarsInv(at), nodes' = nodes, scalars' = scalars
    PROVE  ScalarsInv(at)'
  BY DEF ScalarsInv, Holds

(* The value of a key is a sequence. *)
LEMMA SequencePlaces ==
    ASSUME TypeOK, phase = "parse", NEW at, PathsInv(at), OpenInv, FileInv, PlacesInv(at),
           ~shape.nested, SequenceStart, open # <<>>, Outside(Len(open))
    PROVE  PlacesInv(at)'
<1>1. PICK n \in Nat : n = Len(open) /\ DOMAIN open = 1..n /\ n \in 1..n /\ Inner = open[n]
  BY Typed, OpenTyped
<1>2. FramesInv(at) /\ KeysInv(at) /\ ApartInv /\ ScalarsInv(at) /\ LeavesInv(at)
  BY DEF PlacesInv
<1>3. \A h \in 1..n : Outside(h) /\ ~Entered(h)
  <2>1. \A h \in 1..n : h = n \/ h \in 1..(n - 1)
    OBVIOUS
  <2>2. ~(n + 1 \in 1..n)
    OBVIOUS
  <2> QED
    BY <1>1, <2>1, <2>2, Around DEF Entered
<1>4. /\ AtValue /\ Started("sequence") /\ scalars' = scalars
      /\ ~shape'.plain /\ shape'.begun
  <2>1. WriteStart("sequence") /\ ~AtItem
    BY <1>1, <1>3 DEF SequenceStart, AtItem, OpenInv, OpenAt
  <2> QED
    BY <2>1, StartWritten
<1>5. /\ (DOMAIN open)' = 1..(n + 1) /\ Len(open') = n + 1 /\ \A h \in 1..n : open'[h] = open[h]
      /\ ~Outside(n + 1)'
  BY <1>1, <1>4 DEF Started, Outside
<1>6. /\ \A h \in 1..n : Outside(h)' /\ h \in (DOMAIN open)' /\ Here(h)' = Here(h) /\ h # n + 1
      /\ \A h \in 1..n : Entered(h)' <=> h = n
      /\ \A h \in 1..(n + 1) : Outside(h)' <=> h \in 1..n
      /\ open[n].key # None
  <2>1. \A h \in 1..n : /\ h \in 1..(n + 1) /\ h + 1 \in 1..(n + 1) /\ h # n + 1
                        /\ h # n => h + 1 \in 1..n
    OBVIOUS
  <2>2. \A h \in 1..n : Outside(h)' /\ Here(h)' = Here(h)
    BY <1>3, <1>5 DEF Outside, Here
  <2>3. \A h \in 1..n : Entered(h)' <=> h = n
    BY <1>5, <2>1, <2>2 DEF Entered
  <2>4. \A h \in 1..(n + 1) : h \in 1..n \/ h = n + 1
    OBVIOUS
  <2>5. ~(n + 1 \in 1..n)
    OBVIOUS
  <2> QED
    BY <1>1, <1>4, <1>5, <2>1, <2>2, <2>3, <2>4, <2>5 DEF AtValue
<1>7. PICK e \in Seq(Names) : e = Here(n)
  BY <1>1, <1>3, <1>6, Around
<1>8. /\ \A h \in 1..n : h + 1 \in (DOMAIN frames)'
      /\ \A i \in 1..n : frames'[i] = frames[i]
      /\ frames'[n + 1].data = frames[n + 1].data
      /\ frames'[n + 1].last_leaf = frames[n + 1].last_leaf
      /\ frames'[n + 1].storage = SEQ
      /\ \A i \in (DOMAIN frames)' : ~(i > n + 1)
      /\ nodes' = nodes
  <2>1. PICK l \in Nat : l = Len(frames) /\ l = n + 1 /\ Top = frames[l]
    BY <1>1, TopCall
  <2>2. PICK C : C = Calls'
    OBVIOUS
  <2>3. GoesOn(Top.last_leaf, SEQ) /\ nodes' = nodes
    BY SequenceCalls
  <2>4. /\ frames' \in Seq(C) /\ Len(frames') = l
        /\ \A i \in 1..l : i # l => frames'[i] = frames[i]
        /\ frames'[l] = [data |-> Top.data, last_leaf |-> Top.last_leaf, storage |-> SEQ]
    BY <2>1, <2>2, <2>3 DEF GoesOn
  <2>5. (DOMAIN frames)' = 1..l
    BY <2>4
  <2>6. \A i \in 1..n : i \in 1..l /\ i # l /\ i + 1 \in 1..l
    BY <2>1
  <2> QED
    BY <2>1, <2>3, <2>4, <2>5, <2>6
<1>9. Growth(at, at)
  BY <1>8, GrowthNone
<1>10. \A h \in 1..n : CallAt(at, h)'
  <2>1. ASSUME NEW h \in 1..n, h # n PROVE CallAt(at, h)'
    <3>1. h + 1 \in 1..n
      BY <2>1
    <3> QED
      BY <1>1, <1>2, <1>3, <1>5, <1>6, <1>8, <1>9, <2>1, <3>1, CallKept
  <2>2. CallAt(at, n)'
    <3>1. CallAt(at, n) /\ ~Entered(n)
      BY <1>1, <1>2, <1>3 DEF FramesInv
    <3>2. Begins(e, at[frames'[n + 1].last_leaf])
      <4>1. at[frames[n + 1].last_leaf] = e
        BY <1>6, <1>7, <3>1 DEF CallAt
      <4>2. Begins(e, e)
        BY DEF Begins
      <4> QED
        BY <1>8, <4>1, <4>2
    <3>3. at[frames'[n + 1].data] = open'[n].path
      BY <1>1, <1>5, <1>8, <3>1 DEF CallAt
    <3>4. Begins(Here(n)', at[frames'[n + 1].last_leaf])
      BY <1>1, <1>6, <1>7, <3>2
    <3>5. n + 1 \in (DOMAIN frames)' /\ open'[n].key # None /\ Entered(n)'
      BY <1>1, <1>5, <1>6, <1>8
    <3> QED
      BY <1>8, <3>3, <3>4, <3>5 DEF CallAt
  <2> QED
    BY <2>1, <2>2
<1>11. \A h \in 1..n : KeysAt(at, h)'
  BY <1>1, <1>2, <1>3, <1>5, <1>6, <1>8, <1>9, KeysKept
<1>12. ApartInv'
  <2>1. ASSUME NEW h \in 1..n, NEW p \in DOMAIN scalars
        PROVE  /\ ~Begins(p, open[h].path)
               /\ h = n => ~Begins(Here(h), p)
    <3>1. ~Begins(p, open[h].path)
      BY <1>1, <1>2, <1>3 DEF ApartInv
    <3>2. ~Begins(Here(n), p)
      BY <1>1, <1>2, <1>3, <1>6, KeyFree
    <3> QED
      BY <3>1, <3>2
  <2> QED
    BY <1>4, <1>5, <1>6, <2>1 DEF ApartInv
<1>13. ScalarsInv(at)'
  BY <1>2, <1>4, <1>8, ScalarsSame
<1> QED
  BY <1>4, <1>5, <1>6, <1>10, <1>11, <1>12, <1>13
     DEF PlacesInv, FramesInv, KeysInv, LeavesInv

-----------------------------------------------------------------------------
(* Collections in a sequence. *)

(* What the start or the end of a collection changes in the sequence under the
   key of mapping q; no scalar is added. *)
InsideGoesOn(q) ==
    /\ nodes' = nodes /\ scalars' = scalars /\ (shape'.plain => shape.plain) /\ shape'.begun
    /\ open' \in Seq(Opens) /\ q + 1 \in (DOMAIN open)'
    /\ \A h \in 1..q : open'[h] = open[h]
    /\ \A h \in (DOMAIN open)' : Outside(h)' <=> h <= q
    /\ 1..(q + 1) \subseteq (DOMAIN frames)'
    /\ \A i \in 1..q : frames'[i] = frames[i]
    /\ frames'[q + 1].storage \in {frames[q + 1].storage, Flip(frames[q + 1].storage)}
    /\ frames'[q + 1].data = frames[q + 1].data
    /\ frames'[q + 1].last_leaf = frames[q + 1].last_leaf
    /\ \A i \in (DOMAIN frames)' : i > q + 1 =>
          \/ i \in DOMAIN frames /\ frames'[i].data = frames[i].data
             /\ frames'[i].last_leaf = frames[i].last_leaf
          \/ frames'[i].data = Top.last_leaf /\ frames'[i].last_leaf = Top.last_leaf

(* It changes nothing outside. *)
LEMMA InsidePlaces ==
    ASSUME TypeOK, phase = "parse", NEW at, PathsInv(at), OpenInv, FileInv, PlacesInv(at),
           ~shape.nested, open # <<>>, ~Outside(Len(open)),
           NEW q \in DOMAIN open, Outside(q), Entered(q), open[q].key # None,
           InsideGoesOn(q)
    PROVE  PlacesInv(at)'
<1>1. FramesInv(at) /\ KeysInv(at) /\ ApartInv /\ ScalarsInv(at) /\ LeavesInv(at)
  BY DEF PlacesInv
<1>2. ~shape'.plain
  <2>1. Len(open) \in DOMAIN open
    BY OpenTyped
  <2> QED
    BY <2>1 DEF FileInv, InsideGoesOn
<1>3. PICK e \in Seq(Names) : e = Here(q)
  BY Around
<1>4. PathsInv(at)' /\ Growth(at, at)
  BY GrowthNone DEF InsideGoesOn
<1>5. /\ frames[q + 1].storage \in {SEQ, SEQ + VAL}
      /\ Begins(e, at[frames[q + 1].last_leaf])
      /\ \A i \in DOMAIN frames : i > q + 1 => Begins(e, at[frames[i].data])
                                               /\ Begins(e, at[frames[i].last_leaf])
      /\ Begins(e, at[Top.last_leaf])
  <2>1. CallAt(at, q)
    BY <1>1 DEF FramesInv
  <2>2. Begins(e, at[Top.last_leaf])
    BY <1>1, <1>3, WhereIs
  <2> QED
    BY <1>3, <2>1, <2>2 DEF CallAt
<1>6. frames'[q + 1].storage \in {SEQ, SEQ + VAL}
  BY <1>5, FlipIs DEF InsideGoesOn
<1>7. /\ Begins(e, at[frames'[q + 1].last_leaf])
      /\ \A i \in (DOMAIN frames)' : i > q + 1 =>
            Begins(e, at[frames'[i].data]) /\ Begins(e, at[frames'[i].last_leaf])
  BY <1>5 DEF InsideGoesOn
<1>8. \A j \in (DOMAIN nodes)' : j \in DOMAIN nodes
  BY DEF InsideGoesOn
<1>9. /\ scalars' = scalars /\ shape'.begun /\ open' \in Seq(Opens) /\ q + 1 \in (DOMAIN open)'
      /\ \A h \in 1..q : open'[h] = open[h]
      /\ \A h \in (DOMAIN open)' : Outside(h)' <=> h <= q
      /\ 1..(q + 1) \subseteq (DOMAIN frames)'
      /\ \A i \in 1..q : frames'[i] = frames[i]
      /\ frames'[q + 1].data = frames[q + 1].data
  BY DEF InsideGoesOn
<1>10. FramesInv(at)' /\ KeysInv(at)' /\ ApartInv' /\ ScalarsInv(at)' /\ LeavesInv(at)'
  BY <1>1, <1>2, <1>3, <1>4, <1>6, <1>7, <1>8, <1>9, InsideKeeps, Zenon
<1> QED
  BY <1>10 DEF PlacesInv

(* The innermost collection is in the sequence under the key of some mapping,
   whose call is not the innermost one if a mapping is innermost. *)
LEMMA Inside ==
    ASSUME TypeOK, phase = "parse", OpenInv, FileInv, ~shape.nested, open # <<>>,
           ~Outside(Len(open))
    PROVE  \E q, n, l \in Nat :
              /\ q \in 1..n /\ q + 1 \in 1..n /\ Outside(q) /\ Entered(q) /\ open[q].key # None
              /\ n = Len(open) /\ DOMAIN open = 1..n /\ Inner = open[n] /\ Inner.inSeq
              /\ \A h \in 1..n : Outside(h) <=> h <= q
              /\ open[q + 1].kind = "sequence" /\ shape.begun
              /\ l = Len(frames) /\ DOMAIN frames = 1..l /\ Top = frames[l] /\ l >= q + 1
              /\ l = q + 1 <=> n = q + 1
              /\ Inner.kind = "mapping" => n # q + 1
<1>1. PICK n \in Nat : n = Len(open) /\ DOMAIN open = 1..n /\ n \in 1..n /\ Inner = open[n]
  BY Typed, OpenTyped
<1>2. PICK q \in 1..n : /\ Outside(q) /\ Entered(q) /\ q < n /\ open[q].key # None
                        /\ \A h \in 1..n : Outside(h) <=> h <= q
                        /\ open[q + 1].kind = "sequence"
  BY <1>1, InSequence
<1>3. PICK l \in Nat : /\ l = Len(frames) /\ DOMAIN frames = 1..l /\ Top = frames[l]
                       /\ IF n = q + 1 THEN l = q + 1 ELSE l > q + 1
  BY <1>1, <1>2, TopCall, Typed
<1>4. Inner.inSeq /\ shape.begun
  <2>1. Inner.inSeq \in BOOLEAN
    BY <1>1, OpenTyped
  <2> QED
    BY <1>1, <2>1 DEF Outside, FileInv
<1>5. q + 1 \in 1..n /\ l >= q + 1 /\ (l = q + 1 <=> n = q + 1) /\ q \in Nat
  BY <1>2, <1>3
<1>6. Inner.kind = "mapping" => n # q + 1
  BY <1>1, <1>2
<1> QED
  BY <1>1, <1>2, <1>3, <1>4, <1>5, <1>6

(* A collection starts. *)
LEMMA InsideStart ==
    ASSUME TypeOK, phase = "parse", NEW at, PathsInv(at), OpenInv, FileInv, PlacesInv(at),
           ~shape.nested, ~shape'.nested, open # <<>>, ~Outside(Len(open)),
           SequenceStart \/ MappingStart
    PROVE  PlacesInv(at)'
<1>1. PICK q, n, l \in Nat :
              /\ q \in 1..n /\ q + 1 \in 1..n /\ Outside(q) /\ Entered(q) /\ open[q].key # None
              /\ n = Len(open) /\ DOMAIN open = 1..n /\ Inner = open[n] /\ Inner.inSeq
              /\ \A h \in 1..n : Outside(h) <=> h <= q
              /\ open[q + 1].kind = "sequence" /\ shape.begun
              /\ l = Len(frames) /\ DOMAIN frames = 1..l /\ Top = frames[l] /\ l >= q + 1
              /\ l = q + 1 <=> n = q + 1
              /\ Inner.kind = "mapping" => n # q + 1
  BY Inside
<1>2. PICK kind \in {"mapping", "sequence"} :
         /\ Started(kind) /\ scalars' = scalars /\ shape'.begun /\ (shape'.plain => shape.plain)
         /\ kind = "sequence" => SequenceStart /\ ~AtItem
         /\ kind = "mapping" => MappingStart
  <2>1. CASE SequenceStart
    <3>1. WriteStart("sequence")
      BY <2>1 DEF SequenceStart
    <3> QED
      BY <2>1, <3>1, StartWritten
  <2>2. CASE MappingStart
    <3>1. WriteStart("mapping")
      BY <2>2 DEF MappingStart
    <3> QED
      BY <2>2, <3>1, StartWritten
  <2> QED
    BY <2>1, <2>2
<1>3. /\ open' \in Seq(Opens) /\ Len(open') = n + 1 /\ (DOMAIN open)' = 1..(n + 1)
      /\ \A h \in 1..n : open'[h] = open[h]
      /\ ~Outside(n + 1)'
  BY <1>1, <1>2 DEF Started, Outside
<1>4. /\ q + 1 \in (DOMAIN open)' /\ \A h \in 1..q : open'[h] = open[h]
      /\ \A h \in (DOMAIN open)' : Outside(h)' <=> h <= q
  <2>1. ASSUME NEW h \in 1..(n + 1) PROVE Outside(h)' <=> h <= q
    <3>1. CASE h \in 1..n
      BY <1>1, <1>3, <3>1 DEF Outside
    <3>2. CASE h = n + 1
      BY <1>1, <1>3, <3>2
    <3> QED
      BY <3>1, <3>2
  <2>2. \A h \in 1..q : h \in 1..n
    BY <1>1
  <2> QED
    BY <1>1, <1>3, <2>1, <2>2
<1>5. PICK C : C = Calls'
  OBVIOUS
<1>6. CASE kind = "sequence"
  <2>1. nodes' = nodes /\ GoesOn(Top.last_leaf, SEQ)
    BY <1>2, <1>6, SequenceCalls
  <2>2. l # q + 1
    <3>1. AtValue
      BY <1>2, <1>6, StartWritten DEF SequenceStart
    <3> QED
      BY <1>1, <3>1 DEF AtValue
  <2>3. /\ frames' \in Seq(C) /\ Len(frames') = l
        /\ \A i \in 1..l : i # l => frames'[i] = frames[i]
        /\ frames'[l] = [data |-> Top.data, last_leaf |-> Top.last_leaf, storage |-> SEQ]
    BY <1>1, <1>5, <2>1 DEF GoesOn
  <2>4. /\ (DOMAIN frames)' = 1..l /\ q + 1 \in 1..l /\ 1..(q + 1) \subseteq 1..l
        /\ \A i \in 1..(q + 1) : frames'[i] = frames[i]
        /\ \A i \in 1..l : frames'[i].data = frames[i].data
                           /\ frames'[i].last_leaf = frames[i].last_leaf
    BY <1>1, <2>2, <2>3
  <2>5. InsideGoesOn(q)
    BY <1>1, <1>2, <1>3, <1>4, <2>1, <2>4 DEF InsideGoesOn
  <2> QED
    BY <1>1, <2>5, InsidePlaces
<1>7. CASE kind = "mapping"
  <2>1. nodes' = nodes /\ Called(Top.last_leaf)
    BY <1>2, <1>7, MappingCalled
  <2>2. /\ frames' \in Seq(C) /\ Len(frames') = l + 1
        /\ \A i \in 1..l : frames'[i] = frames[i]
        /\ frames'[l + 1].data = Top.last_leaf /\ frames'[l + 1].last_leaf = Top.last_leaf
    BY <1>1, <1>5, <2>1 DEF Called
  <2>3. /\ (DOMAIN frames)' = 1..(l + 1) /\ q + 1 \in 1..l /\ 1..(q + 1) \subseteq 1..(l + 1)
        /\ \A i \in 1..(q + 1) : frames'[i] = frames[i]
        /\ \A i \in 1..(l + 1) : i \in 1..l \/ i = l + 1
    BY <1>1, <2>2
  <2>4. InsideGoesOn(q)
    BY <1>1, <1>2, <1>3, <1>4, <2>1, <2>2, <2>3 DEF InsideGoesOn
  <2> QED
    BY <1>1, <2>4, InsidePlaces
<1> QED
  BY <1>6, <1>7

(* A collection ends that is not the outermost sequence. *)
LEMMA InsideEnd ==
    ASSUME TypeOK, phase = "parse", NEW at, PathsInv(at), OpenInv, FileInv, PlacesInv(at),
           ~shape.nested, open # <<>>, ~Outside(Len(open)), ~Outside(Len(open) - 1),
           SequenceEnd \/ MappingEnd
    PROVE  PlacesInv(at)'
<1>1. PICK q, n, l \in Nat :
              /\ q \in 1..n /\ q + 1 \in 1..n /\ Outside(q) /\ Entered(q) /\ open[q].key # None
              /\ n = Len(open) /\ DOMAIN open = 1..n /\ Inner = open[n] /\ Inner.inSeq
              /\ \A h \in 1..n : Outside(h) <=> h <= q
              /\ open[q + 1].kind = "sequence" /\ shape.begun
              /\ l = Len(frames) /\ DOMAIN frames = 1..l /\ Top = frames[l] /\ l >= q + 1
              /\ l = q + 1 <=> n = q + 1
              /\ Inner.kind = "mapping" => n # q + 1
  BY Inside
<1>2. PICK kind \in {"mapping", "sequence"} :
         /\ Ended /\ scalars' = scalars /\ shape'.begun /\ (shape'.plain => shape.plain)
         /\ kind = "sequence" => SequenceEnd
         /\ kind = "mapping" => MappingEnd
  <2>1. CASE SequenceEnd
    <3>1. WriteEnd("sequence")
      BY <2>1 DEF SequenceEnd
    <3> QED
      BY <1>1, <2>1, <3>1, EndWritten
  <2>2. CASE MappingEnd
    <3>1. WriteEnd("mapping")
      BY <2>2 DEF MappingEnd
    <3> QED
      BY <1>1, <2>2, <3>1, EndWritten
  <2> QED
    BY <2>1, <2>2
<1>3. n # q + 1 /\ l # q + 1 /\ q + 1 \in 1..(n - 1) /\ n > 1
  <2>1. n # q + 1
    <3>1. n = q + 1 => n - 1 = q
      BY <1>1
    <3> QED
      BY <1>1, <3>1
  <2> QED
    BY <1>1, <2>1
<1>4. /\ open' \in Seq(Opens) /\ Len(open') = n - 1 /\ (DOMAIN open)' = 1..(n - 1)
      /\ \A h \in 1..(n - 1) : h # n - 1 => open'[h] = open[h]
      /\ \A h \in 1..(n - 1) : open'[h].inSeq = open[h].inSeq
  <2>1. /\ open' \in Seq(Opens) /\ Len(open') = n - 1
        /\ \A h \in 1..(n - 1) : h # n - 1 => open'[h] = open[h]
        /\ open'[n - 1].inSeq = open[n - 1].inSeq
    BY <1>1, <1>2, <1>3 DEF Ended
  <2> QED
    BY <1>3, <2>1
<1>5. /\ q + 1 \in (DOMAIN open)' /\ \A h \in 1..q : open'[h] = open[h]
      /\ \A h \in (DOMAIN open)' : Outside(h)' <=> h <= q
  <2>1. \A h \in 1..(n - 1) : h \in 1..n
    BY <1>1
  <2>2. \A h \in 1..q : h \in 1..(n - 1) /\ h # n - 1
    BY <1>3
  <2> QED
    BY <1>1, <1>3, <1>4, <2>1, <2>2 DEF Outside
<1>6. PICK C : C = Calls'
  OBVIOUS
<1>7. CASE kind = "sequence"
  <2>1. nodes' = nodes /\ \E g : GoesOn(Top.last_leaf, g)
    BY <1>2, <1>7, SequenceCalls
  <2>2. PICK g : GoesOn(Top.last_leaf, g)
    BY <2>1
  <2>3. /\ frames' \in Seq(C) /\ Len(frames') = l
        /\ \A i \in 1..l : i # l => frames'[i] = frames[i]
        /\ frames'[l].data = Top.data /\ frames'[l].last_leaf = Top.last_leaf
    BY <1>1, <1>6, <2>2 DEF GoesOn
  <2>4. /\ (DOMAIN frames)' = 1..l /\ q + 1 \in 1..l /\ 1..(q + 1) \subseteq 1..l
        /\ \A i \in 1..(q + 1) : frames'[i] = frames[i]
        /\ \A i \in 1..l : frames'[i].data = frames[i].data
                           /\ frames'[i].last_leaf = frames[i].last_leaf
    <3>1. (DOMAIN frames)' = 1..l
      BY <2>3
    <3>2. q + 1 \in 1..l /\ 1..(q + 1) \subseteq 1..l /\ ~(l \in 1..(q + 1))
      BY <1>1, <1>3
    <3> QED
      BY <1>1, <2>3, <3>1, <3>2
  <2>5. InsideGoesOn(q)
    BY <1>1, <1>2, <1>4, <1>5, <2>1, <2>4 DEF InsideGoesOn
  <2> QED
    BY <1>1, <2>5, InsidePlaces
<1>8. CASE kind = "mapping"
  <2>1. nodes' = nodes /\ Returned
    BY <1>2, <1>8, MappingReturned
  <2>2. /\ frames' \in Seq(C) /\ Len(frames') = l - 1
        /\ \A i \in 1..(l - 1) : i # l - 1 => frames'[i] = frames[i]
        /\ frames'[l - 1].data = frames[l - 1].data
        /\ frames'[l - 1].last_leaf = frames[l - 1].last_leaf
        /\ frames'[l - 1].storage = Flip(frames[l - 1].storage)
    BY <1>1, <1>6, <2>1 DEF Returned
  <2>3. /\ (DOMAIN frames)' = 1..(l - 1) /\ q + 1 \in 1..(l - 1) /\ 1..(q + 1) \subseteq 1..(l - 1)
        /\ \A i \in 1..q : frames'[i] = frames[i]
        /\ \A i \in 1..(l - 1) : /\ i \in 1..l /\ frames'[i].data = frames[i].data
                                 /\ frames'[i].last_leaf = frames[i].last_leaf
                                 /\ frames'[i].storage \in {frames[i].storage, Flip(frames[i].storage)}
    <3>1. (DOMAIN frames)' = 1..(l - 1)
      BY <2>2
    <3>2. /\ q + 1 \in 1..(l - 1) /\ 1..(q + 1) \subseteq 1..(l - 1)
          /\ \A i \in 1..q : i \in 1..(l - 1) /\ i # l - 1
          /\ \A i \in 1..(l - 1) : i \in 1..l
      BY <1>1, <1>3
    <3>3. \A i \in 1..(l - 1) : i # l - 1 => frames'[i] = frames[i]
      BY <2>2
    <3>4. \A i \in 1..(l - 1) :
             /\ frames'[i].data = frames[i].data /\ frames'[i].last_leaf = frames[i].last_leaf
             /\ frames'[i].storage \in {frames[i].storage, Flip(frames[i].storage)}
      BY <2>2, <3>3
    <3> QED
      BY <3>1, <3>2, <3>3, <3>4
  <2>4. InsideGoesOn(q)
    BY <1>1, <1>2, <1>4, <1>5, <2>1, <2>3 DEF InsideGoesOn
  <2> QED
    BY <1>1, <2>4, InsidePlaces
<1> QED
  BY <1>7, <1>8

(* The outermost sequence ends: its mapping is at a key again. *)
LEMMA SequenceLeft ==
    ASSUME TypeOK, phase = "parse", NEW at, PathsInv(at), OpenInv, FileInv, PlacesInv(at),
           ~shape.nested, SequenceEnd, open # <<>>, ~Outside(Len(open)), Outside(Len(open) - 1)
    PROVE  PlacesInv(at)'
<1>1. PICK q, n, l \in Nat :
              /\ q \in 1..n /\ q + 1 \in 1..n /\ Outside(q) /\ Entered(q) /\ open[q].key # None
              /\ n = Len(open) /\ DOMAIN open = 1..n /\ Inner = open[n] /\ Inner.inSeq
              /\ \A h \in 1..n : Outside(h) <=> h <= q
              /\ open[q + 1].kind = "sequence" /\ shape.begun
              /\ l = Len(frames) /\ DOMAIN frames = 1..l /\ Top = frames[l] /\ l >= q + 1
              /\ l = q + 1 <=> n = q + 1
              /\ Inner.kind = "mapping" => n # q + 1
  BY Inside
<1>2. n = q + 1 /\ l = q + 1
  <2>1. n - 1 \in 1..n /\ Outside(n - 1)
    BY <1>1
  <2>2. n - 1 <= q
    BY <1>1, <2>1
  <2> QED
    BY <1>1, <2>2
<1>3. FramesInv(at) /\ KeysInv(at) /\ ApartInv /\ ScalarsInv(at) /\ LeavesInv(at)
  BY DEF PlacesInv
<1>4. Ended /\ scalars' = scalars /\ shape'.begun /\ ~shape'.plain
  <2>1. WriteEnd("sequence")
    BY DEF SequenceEnd
  <2>2. ~shape.plain
    BY <1>1, <1>2 DEF FileInv
  <2> QED
    BY <1>1, <2>1, <2>2, EndWritten
<1>5. /\ Len(open') = q /\ (DOMAIN open)' = 1..q
      /\ \A h \in 1..q : h # q => open'[h] = open[h]
      /\ open'[q].key = None /\ open'[q].used = open[q].used
      /\ open'[q].path = open[q].path /\ open'[q].inSeq = open[q].inSeq
  <2>1. n - 1 = q /\ n > 1
    BY <1>1, <1>2
  <2> QED
    BY <1>1, <2>1, <1>4 DEF Ended
<1>6. /\ \A h \in 1..q : h \in 1..n /\ Outside(h) /\ Outside(h)' /\ ~Entered(h)'
      /\ \A h \in 1..q : open'[h].path = open[h].path /\ open'[h].used = open[h].used
      /\ \A h \in 1..q : h # q => ~Entered(h)
  <2>1. \A h \in 1..q : h \in 1..n /\ h <= q /\ (h # q => h + 1 \in 1..n /\ h + 1 <= q)
    BY <1>1
  <2>2. \A h \in 1..q : Outside(h) /\ Outside(h)'
    BY <1>1, <1>5, <2>1 DEF Outside
  <2>3. \A h \in 1..q : h # q => ~Entered(h)
    BY <1>1, <2>1 DEF Entered
  <2>4. \A h \in 1..q : ~Entered(h)'
    <3>1. \A h \in 1..q : h + 1 \in 1..q \/ ~(h + 1 \in 1..q)
      OBVIOUS
    <3> QED
      BY <1>5, <2>2, <3>1 DEF Entered
  <2> QED
    BY <1>5, <2>1, <2>2, <2>3, <2>4
<1>7. /\ \A i \in 1..(q + 1) : i \in (DOMAIN frames)'
      /\ \A i \in 1..q : frames'[i] = frames[i]
      /\ frames'[q + 1].data = frames[q + 1].data /\ frames'[q + 1].storage = VAR
      /\ nodes' = nodes
  <2>1. PICK C : C = Calls'
    OBVIOUS
  <2>2. GoesOn(Top.last_leaf, VAR) /\ nodes' = nodes
    <3>1. ~SequenceStart
      BY <1>1, <1>4, <1>5, StartWritten DEF SequenceStart, Started
    <3> QED
      BY <3>1, SequenceCalls
  <2>3. /\ frames' \in Seq(C) /\ Len(frames') = q + 1
        /\ \A i \in 1..(q + 1) : i # q + 1 => frames'[i] = frames[i]
        /\ frames'[q + 1] = [data |-> Top.data, last_leaf |-> Top.last_leaf, storage |-> VAR]
    BY <1>1, <1>2, <2>1, <2>2 DEF GoesOn
  <2> QED
    BY <1>1, <1>2, <2>2, <2>3
<1>8. Growth(at, at)
  BY <1>7, GrowthNone
<1>9. \A h \in 1..q : CallAt(at, h)'
  <2>1. ASSUME NEW h \in 1..q, h # q PROVE CallAt(at, h)'
    <3>1. h + 1 \in 1..q /\ h + 1 \in 1..(q + 1)
      BY <2>1
    <3> QED
      BY <1>1, <1>3, <1>5, <1>6, <1>7, <1>8, <2>1, <3>1, CallKept
  <2>2. CallAt(at, q)'
    <3>1. CallAt(at, q)
      BY <1>1, <1>3 DEF FramesInv
    <3>2. q + 1 \in (DOMAIN frames)'
      BY <1>1, <1>7
    <3> QED
      BY <1>5, <1>7, <3>1, <3>2 DEF CallAt
  <2> QED
    BY <2>1, <2>2
<1>10. \A h \in 1..q : KeysAt(at, h)'
  BY <1>1, <1>3, <1>5, <1>6, <1>7, <1>8, KeysKept
<1>11. ApartInv'
  <2>1. \A h \in 1..q, p \in DOMAIN scalars : ~Begins(p, open[h].path)
    BY <1>1, <1>3, <1>6 DEF ApartInv
  <2> QED
    BY <1>4, <1>5, <1>6, <2>1 DEF ApartInv
<1>12. ScalarsInv(at)'
  BY <1>3, <1>4, <1>7, ScalarsSame
<1> QED
  BY <1>4, <1>5, <1>9, <1>10, <1>11, <1>12 DEF PlacesInv, FramesInv, KeysInv, LeavesInv

-----------------------------------------------------------------------------
(* Mappings outside sequences. *)

(* The first mapping. *)
LEMMA FirstMapping ==
    ASSUME TypeOK, phase = "parse", NEW at, PathsInv(at), OpenInv, FileInv, PlacesInv(at),
           MappingStart, open = <<>>
    PROVE  PlacesInv(at)'
<1>1. ~AtValue /\ ~AtItem
  BY DEF AtValue, AtItem
<1>2. /\ Started("mapping") /\ scalars' = scalars /\ ~shape.begun /\ shape'.begun
  <2>1. WriteStart("mapping")
    BY DEF MappingStart
  <2> QED
    BY <1>1, <2>1, StartWritten
<1>3. Len(nodes) = 1 /\ DOMAIN nodes = 1..1 /\ at[1] = <<>> /\ DOMAIN scalars = {}
  BY <1>2, Typed DEF PlacesInv, KeysInv, FileInv, PathsInv
<1>4. /\ nodes' = nodes /\ frames'[2].data = 1 /\ frames'[2].storage = VAR
      /\ 2 \in (DOMAIN frames)' /\ Top' = frames'[2]
  <2>1. Top.last_leaf = 1
    <3>1. Top.last_leaf \in 1..1
      BY <1>3, CallsTyped
    <3> QED
      BY <3>1
  <2>2. nodes' = nodes /\ Called(Top.last_leaf) /\ Len(frames) = 1
    BY MappingCalled, TopCall
  <2>3. PICK C : C = Calls'
    OBVIOUS
  <2>4. /\ frames' \in Seq(C) /\ Len(frames') = 2
        /\ frames'[2] = [data |-> 1, last_leaf |-> 1, storage |-> VAR]
    BY <2>1, <2>2, <2>3 DEF Called
  <2>5. 2 \in (DOMAIN frames)' /\ Top' = frames'[2]
    BY <2>4 DEF Top, Last
  <2> QED
    BY <2>2, <2>4, <2>5
<1>5. /\ (DOMAIN open)' = 1..1 /\ open'[1].path = <<>> /\ open'[1].key = None /\ open'[1].used = {}
      /\ Inner' = open'[1] /\ open' # <<>>
  <2>1. PICK k \in Nat : k = Len(open) /\ k + 1 = 1
    BY Typed
  <2>2. /\ open' \in Seq(Opens) /\ Len(open') = 1 /\ open'[1].path = <<>> /\ open'[1].key = None
        /\ open'[1].used = {}
    <3>1. /\ open' \in Seq(Opens) /\ Len(open') = k + 1 /\ open'[k + 1].path = <<>>
          /\ open'[k + 1].key = None /\ open'[k + 1].used = {}
      BY <1>2, <2>1 DEF Started
    <3> QED
      BY <2>1, <3>1
  <2>3. (DOMAIN open)' = 1..1 /\ open' # <<>> /\ Inner' = open'[1]
    <3>1. (DOMAIN open)' = 1..1 /\ open' # <<>>
      <4>1. PICK o \in Seq(Opens) : o = open' /\ Len(o) = 1
        BY <2>2
      <4>2. DOMAIN o = 1..1 /\ o # <<>>
        BY <4>1
      <4> QED
        BY <4>1, <4>2
    <3>2. Inner' = open'[Len(open')]
      BY DEF Inner, Last
    <3> QED
      BY <2>2, <3>1, <3>2
  <2> QED
    BY <2>2, <2>3
<1>6. \A h \in 1..1 : h = 1 /\ h + 1 = 2
  OBVIOUS
<1>7. FramesInv(at)'
  <2>1. CallAt(at, 1)'
    <3>1. 1 + 1 = 2
      OBVIOUS
    <3> QED
      BY <1>3, <1>4, <1>5, <3>1 DEF CallAt
  <2> QED
    BY <1>5, <1>6, <2>1 DEF FramesInv
<1>8. KeysInv(at)'
  <2>1. Len(at[1]) = 0
    BY <1>3
  <2>2. ~(0 >= 1) /\ (DOMAIN nodes)' = DOMAIN nodes
    BY <1>4
  <2>3. KeysAt(at, 1)'
    BY <1>3, <1>5, <1>6, <2>1, <2>2 DEF KeysAt
  <2> QED
    BY <1>2, <1>5, <1>6, <2>3 DEF KeysInv
<1>9. ApartInv' /\ ScalarsInv(at)'
  BY <1>2, <1>3 DEF ApartInv, ScalarsInv
<1>10. LeavesInv(at)'
  <2>1. \A i \in (DOMAIN nodes)' : i = Top'.data
    BY <1>3, <1>4, <1>6
  <2> QED
    BY <1>5, <2>1 DEF LeavesInv
<1> QED
  BY <1>7, <1>8, <1>9, <1>10 DEF PlacesInv

(* The value of a key is a mapping. *)
LEMMA MappingPlaces ==
    ASSUME TypeOK, phase = "parse", NEW at, PathsInv(at), OpenInv, FileInv, PlacesInv(at),
           ~shape.nested, MappingStart, open # <<>>, Outside(Len(open))
    PROVE  PlacesInv(at)'
<1>1. PICK n \in Nat : n = Len(open) /\ DOMAIN open = 1..n /\ n \in 1..n /\ Inner = open[n]
  BY Typed, OpenTyped
<1>2. FramesInv(at) /\ KeysInv(at) /\ ApartInv /\ ScalarsInv(at) /\ LeavesInv(at)
  BY DEF PlacesInv
<1>3. \A h \in 1..n : Outside(h) /\ ~Entered(h)
  <2>1. \A h \in 1..n : h = n \/ h \in 1..(n - 1)
    OBVIOUS
  <2>2. ~(n + 1 \in 1..n)
    OBVIOUS
  <2> QED
    BY <1>1, <2>1, <2>2, Around DEF Entered
<1>4. /\ AtValue /\ ~AtItem /\ Started("mapping") /\ scalars' = scalars
      /\ shape'.begun /\ shape.begun /\ (shape'.plain => shape.plain)
  <2>1. WriteStart("mapping") /\ ~AtItem
    BY <1>1, <1>3 DEF MappingStart, AtItem, OpenInv, OpenAt
  <2>2. shape.begun
    BY DEF FileInv
  <2> QED
    BY <2>1, <2>2, StartWritten
<1>5. open[n].key # None
  BY <1>1, <1>4 DEF AtValue
<1>6. PICK e \in Seq(Names) : /\ e = Here(n) /\ Len(e) = n /\ open[n].key \in open[n].used
  BY <1>1, <1>3, <1>5, Around, NamesAssumption
<1>7. /\ (DOMAIN open)' = 1..(n + 1) /\ Len(open') = n + 1 /\ \A h \in 1..n : open'[h] = open[h]
      /\ Outside(n + 1)' /\ open'[n + 1].key = None /\ open'[n + 1].used = {}
      /\ open'[n + 1].path = e /\ Inner' = open'[n + 1] /\ open' # <<>>
  <2>1. ~Inner.inSeq
    BY <1>1, <1>3 DEF Outside
  <2>2. /\ open' \in Seq(Opens) /\ Len(open') = n + 1 /\ \A h \in 1..n : open'[h] = open[h]
        /\ ~open'[n + 1].inSeq /\ open'[n + 1].key = None /\ open'[n + 1].used = {}
        /\ open'[n + 1].path = Append(Inner.path, Inner.key)
    BY <1>1, <1>4, <2>1 DEF Started
  <2>3. (DOMAIN open)' = 1..(n + 1) /\ open' # <<>>
    BY <2>2
  <2>4. Inner' = open'[n + 1]
    BY <2>2 DEF Inner, Last
  <2> QED
    BY <1>1, <1>6, <2>2, <2>3, <2>4 DEF Outside, Here
<1>8. /\ \A h \in 1..(n + 1) : h \in 1..n \/ h = n + 1
      /\ \A h \in 1..n : h \in 1..(n + 1) /\ h # n + 1
      /\ \A h \in 1..(n + 1) : Outside(h)' /\ ~Entered(h)'
      /\ \A h \in 1..n : Here(h)' = Here(h)
  <2>1. /\ \A h \in 1..(n + 1) : h \in 1..n \/ h = n + 1
        /\ \A h \in 1..n : h \in 1..(n + 1) /\ h # n + 1
    OBVIOUS
  <2>2. \A h \in 1..(n + 1) : Outside(h)'
    BY <1>3, <1>7, <2>1 DEF Outside
  <2>3. \A h \in 1..(n + 1) : ~Entered(h)'
    BY <1>7, <2>2 DEF Entered
  <2> QED
    BY <1>7, <2>1, <2>2, <2>3 DEF Here
<1>9. /\ Top = frames[n + 1]
      /\ \A i \in 1..(n + 1) : frames'[i] = frames[i]
      /\ \A i \in 1..(n + 2) : i \in (DOMAIN frames)'
      /\ frames'[n + 2].data = frames[n + 1].last_leaf /\ frames'[n + 2].storage = VAR
      /\ Top' = frames'[n + 2] /\ nodes' = nodes
  <2>1. PICK l \in Nat : l = Len(frames) /\ Top = frames[l]
    BY TopCall
  <2>8. l = n + 1
    BY <1>1, <2>1, TopCall
  <2>2. PICK C : C = Calls'
    OBVIOUS
  <2>3. Called(Top.last_leaf) /\ nodes' = nodes
    BY MappingCalled
  <2>4. /\ frames' \in Seq(C) /\ Len(frames') = l + 1
        /\ \A i \in 1..l : frames'[i] = frames[i]
        /\ frames'[l + 1].data = Top.last_leaf /\ frames'[l + 1].storage = VAR
    BY <2>1, <2>2, <2>3 DEF Called
  <2>5. (DOMAIN frames)' = 1..(l + 1) /\ frames' # <<>>
    BY <2>4
  <2>6. Top' = frames'[l + 1]
    BY <2>4, <2>5 DEF Top, Last
  <2>7. l + 1 = n + 2
    BY <2>8
  <2> QED
    BY <2>1, <2>3, <2>4, <2>5, <2>6, <2>7, <2>8
<1>10. Growth(at, at)
  BY <1>9, GrowthNone
<1>11. CallAt(at, n) /\ KeysAt(at, n)
  BY <1>1, <1>2, <1>3 DEF FramesInv, KeysInv
<1>12. at[frames[n + 1].last_leaf] = e /\ frames[n + 1].storage = VAL
  BY <1>1, <1>3, <1>5, <1>6, <1>11 DEF CallAt
<1>13. \A h \in 1..(n + 1) : CallAt(at, h)'
  <2>1. ASSUME NEW h \in 1..n PROVE CallAt(at, h)'
    <3>1. h + 1 \in 1..(n + 1) /\ h + 1 \in 1..(n + 2)
      BY <2>1
    <3> QED
      BY <1>1, <1>2, <1>3, <1>7, <1>8, <1>9, <1>10, <3>1, CallKept
  <2>2. CallAt(at, n + 1)'
    <3>1. n + 2 \in 1..(n + 2) /\ n + 1 + 1 = n + 2
      OBVIOUS
    <3> QED
      BY <1>7, <1>9, <1>12, <3>1 DEF CallAt
  <2> QED
    BY <1>8, <2>1, <2>2
<1>14. \A h \in 1..(n + 1) : KeysAt(at, h)'
  <2>1. \A h \in 1..n : KeysAt(at, h)'
    BY <1>1, <1>2, <1>3, <1>7, <1>8, <1>9, <1>10, KeysKept
  <2>2. \A j \in DOMAIN nodes : Begins(e, at[j]) => ~(Len(at[j]) >= n + 1)
    <3>1. \A j \in DOMAIN nodes : Begins(Here(n), at[j]) => at[j] = Here(n)
      BY <1>1, <1>5, <1>11 DEF KeysAt
    <3> QED
      BY <1>6, <3>1
  <2>3. KeysAt(at, n + 1)'
    BY <1>7, <1>9, <2>2 DEF KeysAt
  <2> QED
    BY <1>8, <2>1, <2>3
<1>15. ApartInv'
  <2>1. \A h \in 1..n, p \in DOMAIN scalars : ~Begins(p, open[h].path)
    BY <1>1, <1>2, <1>3 DEF ApartInv
  <2>2. \A p \in DOMAIN scalars : ~Begins(p, e)
    <3>1. Begins(e, e)
      BY DEF Begins
    <3>2. \A p \in DOMAIN scalars : \A r \in Seq(Names) : Begins(Here(n), r) => ~Begins(p, r)
      BY <1>1, <1>2, <1>3, <1>5, KeyFree
    <3> QED
      BY <1>6, <3>1, <3>2
  <2>3. \A h \in 1..(n + 1), p \in DOMAIN scalars : ~Begins(p, open'[h].path)
    BY <1>7, <1>8, <2>1, <2>2
  <2> QED
    BY <1>4, <1>7, <1>8, <2>3 DEF ApartInv
<1>16. ScalarsInv(at)'
  BY <1>2, <1>4, <1>9, ScalarsSame
<1>17. LeavesInv(at)'
  <2> SUFFICES ASSUME shape.plain, NEW i \in DOMAIN nodes, \A j \in DOMAIN nodes : nodes[j].parent # i
               PROVE  \/ nodes[i].parent # 0 /\ at[nodes[i].parent] \in DOMAIN scalars
                      \/ i = Top'.data
    BY <1>4, <1>7, <1>9 DEF LeavesInv
  <2>1. Inner.used # {}
    BY <1>1, <1>6
  <2>2. \/ nodes[i].parent # 0 /\ at[nodes[i].parent] \in DOMAIN scalars
        \/ i = Top.last_leaf
    BY <1>2, <1>4, <2>1 DEF LeavesInv
  <2> QED
    BY <1>9, <2>2
<1> QED
  BY <1>4, <1>7, <1>13, <1>14, <1>15, <1>16, <1>17 DEF PlacesInv, FramesInv, KeysInv

(* A mapping ends: the one around it is at a key again. *)
LEMMA MappingLeft ==
    ASSUME TypeOK, phase = "parse", NEW at, PathsInv(at), OpenInv, FileInv, PlacesInv(at),
           ~shape.nested, MappingEnd, open # <<>>, Outside(Len(open))
    PROVE  PlacesInv(at)'
<1>1. PICK n \in Nat : n = Len(open) /\ DOMAIN open = 1..n /\ n \in 1..n /\ Inner = open[n]
  BY Typed, OpenTyped
<1>2. FramesInv(at) /\ KeysInv(at) /\ ApartInv /\ ScalarsInv(at) /\ LeavesInv(at)
  BY DEF PlacesInv
<1>3. /\ Ended /\ scalars' = scalars /\ shape'.begun /\ shape.begun
      /\ shape'.plain => shape.plain /\ Inner.used # {}
      /\ Inner.key = None
  <2>1. WriteEnd("mapping") /\ shape.begun
    BY DEF MappingEnd, FileInv
  <2>2. Inner.key = None
    BY <2>1, EndWritten DEF AtValue
  <2> QED
    BY <2>1, <2>2, EndWritten
<1>4. /\ Len(open') = n - 1 /\ (DOMAIN open)' = 1..(n - 1)
      /\ \A h \in 1..(n - 1) : h # n - 1 => open'[h] = open[h]
      /\ \A h \in 1..(n - 1) : /\ open'[h].used = open[h].used
                               /\ open'[h].path = open[h].path /\ open'[h].inSeq = open[h].inSeq
      /\ \A h \in 1..(n - 1) : h = n - 1 => open'[h].key = None
  <2>1. /\ open' \in Seq(Opens) /\ Len(open') = n - 1
        /\ \A h \in 1..(n - 1) : h # n - 1 => open'[h] = open[h]
        /\ n > 1 => /\ open'[n - 1].used = open[n - 1].used /\ open'[n - 1].key = None
                    /\ open'[n - 1].path = open[n - 1].path
                    /\ open'[n - 1].inSeq = open[n - 1].inSeq
    BY <1>1, <1>3 DEF Ended
  <2>2. (DOMAIN open)' = 1..(n - 1)
    BY <1>1, <2>1
  <2>3. \A h \in 1..(n - 1) : n > 1
    OBVIOUS
  <2> QED
    BY <2>1, <2>2, <2>3
<1>5. \A h \in 1..(n - 1) : h \in 1..n /\ Outside(h) /\ Outside(h)' /\ ~Entered(h) /\ ~Entered(h)'
  <2>1. \A h \in 1..(n - 1) : h \in 1..n /\ Outside(h) /\ ~Entered(h)
    BY <1>1, Around
  <2>2. \A h \in 1..(n - 1) : Outside(h)'
    BY <1>4, <2>1 DEF Outside
  <2> QED
    BY <1>4, <2>1, <2>2 DEF Entered
<1>6. /\ \A i \in 1..(n - 1) : i + 1 \in (DOMAIN frames)'
      /\ \A i \in 1..(n - 1) : frames'[i] = frames[i]
      /\ frames'[n].data = frames[n].data /\ frames'[n].storage = Flip(frames[n].storage)
      /\ nodes' = nodes
  <2>1. PICK l \in Nat : l = Len(frames)
    BY TopCall
  <2>7. l = n + 1
    BY <1>1, <2>1, TopCall
  <2>2. PICK C : C = Calls'
    OBVIOUS
  <2>3. Returned /\ nodes' = nodes
    BY MappingReturned
  <2>4. /\ frames' \in Seq(C) /\ Len(frames') = l - 1
        /\ \A i \in 1..(l - 1) : i # l - 1 => frames'[i] = frames[i]
        /\ frames'[l - 1].data = frames[l - 1].data
        /\ frames'[l - 1].storage = Flip(frames[l - 1].storage)
    BY <2>1, <2>2, <2>3 DEF Returned
  <2>5. (DOMAIN frames)' = 1..(l - 1) /\ l - 1 = n
    BY <2>7, <2>4
  <2>6. \A i \in 1..(n - 1) : i + 1 \in 1..n /\ i \in 1..n /\ i # n
    OBVIOUS
  <2> QED
    BY <2>3, <2>4, <2>5, <2>6
<1>7. Growth(at, at)
  BY <1>6, GrowthNone
<1>8. \A h \in 1..(n - 1) : CallAt(at, h)'
  <2>1. ASSUME NEW h \in 1..(n - 1), h # n - 1 PROVE CallAt(at, h)'
    <3>1. h + 1 \in 1..(n - 1)
      BY <2>1
    <3> QED
      BY <1>1, <1>2, <1>4, <1>5, <1>6, <1>7, <2>1, <3>1, CallKept
  <2>2. ASSUME NEW h \in 1..(n - 1), h = n - 1 PROVE CallAt(at, h)'
    <3>1. CallAt(at, h) /\ ~Entered(h)
      BY <1>1, <1>2, <1>5 DEF FramesInv
    <3>2. open[h].key # None
      BY <1>1, Around, NamesAssumption
    <3>3. frames[h + 1].storage = VAL /\ h + 1 = n /\ open'[h].key = None
      BY <1>4, <2>2, <3>1, <3>2 DEF CallAt
    <3>4. frames'[h + 1].storage = VAR
      BY <1>6, <3>3, FlipIs
    <3>5. at[frames'[h + 1].data] = open'[h].path
      BY <1>4, <1>6, <3>1, <3>3 DEF CallAt
    <3> QED
      BY <1>6, <3>3, <3>4, <3>5 DEF CallAt
  <2> QED
    BY <2>1, <2>2
<1>9. \A h \in 1..(n - 1) : KeysAt(at, h)'
  <2>1. ASSUME NEW h \in 1..(n - 1) PROVE h # Len(open') \/ open'[h].key = None
    BY <1>4
  <2> QED
    BY <1>1, <1>2, <1>4, <1>5, <1>6, <1>7, <2>1, KeysKept
<1>10. ApartInv'
  <2>1. \A h \in 1..(n - 1), p \in DOMAIN scalars : ~Begins(p, open[h].path)
    BY <1>1, <1>2, <1>5 DEF ApartInv
  <2> QED
    BY <1>3, <1>4, <1>5, <2>1 DEF ApartInv
<1>11. ScalarsInv(at)'
  BY <1>2, <1>3, <1>6, ScalarsSame
<1>12. LeavesInv(at)'
  <2> SUFFICES ASSUME shape'.plain, NEW i \in DOMAIN nodes, \A j \in DOMAIN nodes : nodes[j].parent # i
               PROVE  nodes[i].parent # 0 /\ at[nodes[i].parent] \in DOMAIN scalars
    BY <1>3, <1>6 DEF LeavesInv
  <2> QED
    BY <1>2, <1>3 DEF LeavesInv
<1> QED
  BY <1>3, <1>4, <1>8, <1>9, <1>10, <1>11, <1>12 DEF PlacesInv, FramesInv, KeysInv

-----------------------------------------------------------------------------
(* The parser as a whole. *)

(* The start or the end of a collection writes nothing. *)
LEMMA CollectionItems ==
    ASSUME TypeOK, phase = "parse", NEW at, PathsInv(at), OpenInv, FileInv, PlacesInv(at),
           ItemsInv(at),
           SequenceStart \/ SequenceEnd \/ MappingStart \/ MappingEnd
    PROVE  ItemsInv(at)'
<1>1. PICK n \in Nat : n = Len(open) /\ DOMAIN open = 1..n /\ (open = <<>> <=> n = 0)
  BY Typed
<1>2. nodes' = nodes
  BY DEF SequenceStart, SequenceEnd, MappingStart, MappingEnd
<1>3. (\A e : Sequenced(e) => Sequenced(e)') => ItemsInv(at)'
  <2>1. Growth(at, at)
    BY <1>2, GrowthNone
  <2>2. \A j \in (DOMAIN nodes)' : j \in DOMAIN nodes
    BY <1>2
  <2> QED
    BY <2>1, <2>2, ItemsGrow
<1>4. ASSUME NEW kind \in {"mapping", "sequence"}, WriteStart(kind), n # 0
      PROVE  ItemsInv(at)'
  <2>1. Started(kind) /\ scalars' = scalars /\ (AtValue \/ AtItem)
    BY <1>1, <1>4, StartWritten
  <2>2. /\ (DOMAIN open)' = 1..(n + 1) /\ \A h \in 1..n : open'[h] = open[h]
        /\ open'[n + 1].key = None
        /\ open'[n + 1].path = IF AtValue THEN Append(Inner.path, Inner.key) ELSE Inner.path
        /\ open'[n + 1].inSeq <=> AtItem \/ kind = "sequence" \/ Inner.inSeq
    <3>1. open' \in Seq(Opens) /\ Len(open') = n + 1
      BY <1>1, <2>1 DEF Started
    <3>2. (DOMAIN open)' = 1..(n + 1)
      BY <3>1
    <3> QED
      BY <1>1, <1>4, <2>1, <3>2 DEF Started
  <2>3. n \in 1..n /\ Inner = open[n]
    BY <1>1, <1>4, OpenTyped
  <2>4. \A h \in 1..n : Outside(h)' <=> Outside(h)
    BY <2>2 DEF Outside
  <2>5. ASSUME NEW h \in 1..n, ~Entered(h)' PROVE ~Entered(h)
    <3>1. h + 1 \in 1..n => h + 1 \in 1..(n + 1) /\ (Outside(h + 1)' <=> Outside(h + 1))
      BY <2>4
    <3> QED
      BY <1>1, <2>2, <2>5, <3>1 DEF Entered
  <2>6. ASSUME NEW e, Sequenced(e) PROVE Sequenced(e)'
    <3>1. ASSUME NEW h \in 1..n, Outside(h)'
          PROVE  /\ ~Begins(e, open'[h].path)
                 /\ open'[h].key # None /\ ~Entered(h)' => ~Begins(e, Here(h)')
      <4>1. open'[h] = open[h] /\ Outside(h)
        BY <2>2, <2>4, <3>1
      <4>2. Here(h)' = Here(h)
        BY <4>1 DEF Here
      <4> QED
        BY <1>1, <2>5, <2>6, <4>1, <4>2 DEF Sequenced
    <3>2. ASSUME Outside(n + 1)' PROVE ~Begins(e, open'[n + 1].path)
      <4>1. AtValue /\ Outside(n)
        BY <2>1, <2>2, <2>3, <3>2 DEF Outside
      <4>2. open'[n + 1].path = Here(n) /\ open[n].key # None
        BY <2>2, <2>3, <4>1 DEF Here, AtValue
      <4>3. ~Entered(n)
        BY <1>1 DEF Entered
      <4> QED
        BY <1>1, <2>3, <2>6, <4>1, <4>2, <4>3 DEF Sequenced
    <3>3. \A h \in 1..(n + 1) : h \in 1..n \/ h = n + 1
      OBVIOUS
    <3>4. ASSUME NEW h \in 1..(n + 1), Outside(h)'
          PROVE  /\ ~Begins(e, open'[h].path)
                 /\ open'[h].key # None /\ ~Entered(h)' => ~Begins(e, Here(h)')
      BY <2>2, <3>1, <3>2, <3>3, <3>4
    <3>5. e \in Seq(Keys) /\ \A q \in DOMAIN scalars' : ~Begins(e, q)
      BY <2>1, <2>6 DEF Sequenced
    <3> QED
      BY <2>2, <3>4, <3>5 DEF Sequenced, Begins
  <2> QED
    BY <1>3, <2>6
<1>5. ASSUME NEW kind \in {"mapping", "sequence"}, WriteStart(kind), n = 0
      PROVE  ItemsInv(at)'
  <2>1. ~shape.begun
    BY <1>1, <1>5, StartWritten DEF AtValue, AtItem
  <2>2. Len(nodes) = 1 /\ DOMAIN nodes = 1..1 /\ nodes[1].parent = 0
    BY <2>1, Typed DEF PlacesInv, KeysInv, PathsInv
  <2> QED
    BY <1>2, <2>2 DEF ItemsInv
<1>6. ASSUME NEW kind \in {"mapping", "sequence"}, WriteEnd(kind)
      PROVE  ItemsInv(at)'
  <2>1. Ended /\ scalars' = scalars /\ n # 0
    BY <1>1, <1>6, EndWritten
  <2>2. /\ (DOMAIN open)' = 1..(n - 1)
        /\ \A h \in 1..(n - 1) :
              /\ open'[h].path = open[h].path /\ open'[h].inSeq = open[h].inSeq
              /\ open'[h].key = IF h = n - 1 THEN None ELSE open[h].key
    <3>1. /\ open' \in Seq(Opens) /\ Len(open') = n - 1
          /\ \A h \in 1..(n - 1) : h # n - 1 => open'[h] = open[h]
          /\ n > 1 => open'[n - 1] = [kind |-> open[n - 1].kind, key |-> None,
                                      used |-> open[n - 1].used, path |-> open[n - 1].path,
                                      inSeq |-> open[n - 1].inSeq]
      BY <1>1, <2>1 DEF Ended
    <3>2. \A h \in 1..(n - 1) : h = n - 1 => n > 1
      OBVIOUS
    <3>3. (DOMAIN open)' = 1..(n - 1)
      BY <1>1, <2>1, <3>1
    <3> QED
      BY <3>1, <3>2, <3>3
  <2>3. \A h \in 1..(n - 1) : h \in 1..n /\ (Outside(h)' <=> Outside(h))
    BY <2>2 DEF Outside
  <2>4. ASSUME NEW e, Sequenced(e) PROVE Sequenced(e)'
    <3>1. ASSUME NEW h \in (DOMAIN open)', Outside(h)'
          PROVE  /\ h \in DOMAIN open /\ Outside(h) /\ open'[h].path = open[h].path
                 /\ open'[h].key # None /\ ~Entered(h)' =>
                       open'[h].key = open[h].key /\ ~Entered(h)
      <4>1. h \in 1..(n - 1) /\ h \in DOMAIN open /\ Outside(h) /\ open'[h].path = open[h].path
        BY <1>1, <2>2, <2>3, <3>1
      <4>2. ASSUME open'[h].key # None, ~Entered(h)'
            PROVE  open'[h].key = open[h].key /\ ~Entered(h)
        <5>1. h # n - 1 /\ open'[h].key = open[h].key
          BY <2>2, <4>1, <4>2
        <5>2. h + 1 \in 1..(n - 1)
          BY <4>1, <5>1
        <5>3. Outside(h + 1)' <=> Outside(h + 1)
          BY <2>3, <5>2
        <5> QED
          BY <2>2, <4>2, <5>1, <5>2, <5>3 DEF Entered
      <4> QED
        BY <4>1, <4>2
    <3> QED
      BY <2>1, <2>4, <3>1, SequencedKept
  <2> QED
    BY <1>3, <2>4
<1> QED
  BY <1>4, <1>5, <1>6 DEF SequenceStart, SequenceEnd, MappingStart, MappingEnd

(* The start or the end of a collection keeps the invariant. *)
LEMMA CollectionParsed ==
    ASSUME TypeOK, phase = "parse", NEW at, Parsed(at),
           SequenceStart \/ SequenceEnd \/ MappingStart \/ MappingEnd
    PROVE  Parsed(at)'
<1>1. PathsInv(at) /\ OpenInv /\ FileInv /\ (~shape.nested => PlacesInv(at) /\ ItemsInv(at))
  BY DEF Parsed
<1>2. PathsInv(at)'
  <2>1. nodes' = nodes
    BY DEF SequenceStart, SequenceEnd, MappingStart, MappingEnd
  <2> QED
    BY <1>1, <2>1, GrowthNone
<1>3. ASSUME open # <<>>
      PROVE  /\ Len(open) \in DOMAIN open /\ OpenAt(Len(open)) /\ Inner = open[Len(open)]
             /\ Outside(Len(open)) => Inner.kind = "mapping"
  BY <1>1, <1>3, OpenTyped DEF OpenInv, OpenAt
<1> DEFINE Items == ~shape.nested => ItemsInv(at)'
<1>4. Items
  BY <1>1, CollectionItems
<1> HIDE DEF Items
<1>5. CASE SequenceStart
  <2>1. WriteStart("sequence")
    BY <1>5 DEF SequenceStart
  <2>2. OpenInv' /\ FileInv'
    BY <1>1, <2>1, OpenStart, FileStart
  <2>3. open # <<>> /\ (~shape'.nested => ~shape.nested)
    BY <2>1, StartWritten DEF AtValue, AtItem
  <2>4. ASSUME ~shape'.nested PROVE PlacesInv(at)'
    <3>1. CASE Outside(Len(open))
      BY <1>1, <1>5, <2>3, <2>4, <3>1, SequencePlaces
    <3>2. CASE ~Outside(Len(open))
      BY <1>1, <1>5, <2>3, <2>4, <3>2, InsideStart
    <3> QED
      BY <3>1, <3>2
  <2> QED
    BY <1>2, <1>4, <2>2, <2>3, <2>4 DEF Parsed, Items
<1>6. CASE SequenceEnd
  <2>1. WriteEnd("sequence")
    BY <1>6 DEF SequenceEnd
  <2>2. OpenInv' /\ FileInv'
    BY <1>1, <2>1, OpenEnd, FileEnd
  <2>3. open # <<>> /\ Inner.kind = "sequence" /\ (~shape'.nested => ~shape.nested)
    BY <2>1, EndWritten
  <2>4. ASSUME ~shape'.nested PROVE PlacesInv(at)'
    <3>1. ~Outside(Len(open))
      BY <1>3, <2>3
    <3>2. CASE Outside(Len(open) - 1)
      BY <1>1, <1>6, <2>3, <2>4, <3>1, <3>2, SequenceLeft
    <3>3. CASE ~Outside(Len(open) - 1)
      BY <1>1, <1>6, <2>3, <2>4, <3>1, <3>3, InsideEnd
    <3> QED
      BY <3>2, <3>3
  <2> QED
    BY <1>2, <1>4, <2>2, <2>3, <2>4 DEF Parsed, Items
<1>7. CASE MappingStart
  <2>1. WriteStart("mapping")
    BY <1>7 DEF MappingStart
  <2>2. OpenInv' /\ FileInv'
    BY <1>1, <2>1, OpenStart, FileStart
  <2>3. ~shape'.nested => ~shape.nested
    BY <2>1, StartWritten
  <2>4. ASSUME ~shape'.nested PROVE PlacesInv(at)'
    <3>1. CASE open = <<>>
      BY <1>1, <1>7, <2>3, <2>4, <3>1, FirstMapping
    <3>2. CASE open # <<>> /\ Outside(Len(open))
      BY <1>1, <1>7, <2>3, <2>4, <3>2, MappingPlaces
    <3>3. CASE open # <<>> /\ ~Outside(Len(open))
      BY <1>1, <1>7, <2>3, <2>4, <3>3, InsideStart
    <3> QED
      BY <3>1, <3>2, <3>3
  <2> QED
    BY <1>2, <1>4, <2>2, <2>3, <2>4 DEF Parsed, Items
<1>8. CASE MappingEnd
  <2>1. WriteEnd("mapping")
    BY <1>8 DEF MappingEnd
  <2>2. OpenInv' /\ FileInv'
    BY <1>1, <2>1, OpenEnd, FileEnd
  <2>3. open # <<>> /\ Inner.kind = "mapping" /\ (~shape'.nested => ~shape.nested)
    BY <2>1, EndWritten
  <2>4. ASSUME ~shape'.nested PROVE PlacesInv(at)'
    <3>1. CASE Outside(Len(open))
      BY <1>1, <1>8, <2>3, <2>4, <3>1, MappingLeft
    <3>2. CASE ~Outside(Len(open))
      <4>1. ~Outside(Len(open) - 1)
        <5>1. /\ Len(open) \in Nat /\ DOMAIN open = 1..Len(open)
              /\ Len(open) = 1 => Outside(Len(open))
          BY <1>3, <2>3, Typed DEF OpenAt
        <5> QED
          BY <1>3, <2>3, <3>2 DEF OpenAt
      <4> QED
        BY <1>1, <1>8, <2>3, <2>4, <3>2, <4>1, InsideEnd
    <3> QED
      BY <3>1, <3>2
  <2> QED
    BY <1>2, <1>4, <2>2, <2>3, <2>4 DEF Parsed, Items
<1> QED
  BY <1>5, <1>6, <1>7, <1>8

(* An empty file has an empty tree. *)
LEMMA TreeInit == Init => TreeInv
<1> SUFFICES ASSUME Init PROVE TreeInv
  OBVIOUS
<1> DEFINE at == <<(<<>>)>>
<1>1. PathsInv(at)
  <2>1. at \in Seq(Seq(Names)) /\ Len(at) = 1 /\ at[1] = <<>>
    OBVIOUS
  <2>2. Len(nodes) = 1 /\ DOMAIN nodes = 1..1 /\ nodes[1].parent = 0 /\ nodes[1].data = Root
    BY DEF Init
  <2>3. DOMAIN nodes \ {1} = {}
    BY <2>2
  <2> HIDE DEF at
  <2> QED
    BY <2>1, <2>2, <2>3 DEF PathsInv
<1>2. phase = "parse" /\ DOMAIN open = {} /\ DOMAIN scalars = {} /\ Len(nodes) = 1
  BY DEF Init, NoEntries
<1>3. open = <<>> /\ ~shape.begun /\ shape.top = {} /\ ~shape.nested /\ DOMAIN nodes = 1..1
  BY DEF Init
<1>4. OpenInv /\ FileInv
  BY <1>2, <1>3 DEF OpenInv, FileInv, KeyedInv
<1> HIDE DEF at
<1>5. PlacesInv(at)
  <2>1. \A i \in DOMAIN nodes : i = 1
    BY <1>3
  <2> QED
    BY <1>2, <1>3, <2>1
       DEF PlacesInv, FramesInv, KeysInv, ApartInv, ScalarsInv, LeavesInv
<1>6. ItemsInv(at)
  BY <1>1, <1>3 DEF ItemsInv, PathsInv
<1>7. Parsed(at)
  BY <1>1, <1>4, <1>5, <1>6 DEF Parsed
<1> QED
  BY <1>2, <1>7 DEF TreeInv

(* What is apart stays apart as long as the file does not change. *)
LEMMA ItemsSame ==
    ASSUME TypeOK, NEW at, PathsInv(at), ItemsInv(at),
           nodes' = nodes, open' = open, scalars' = scalars
    PROVE  ItemsInv(at)'
<1>1. \A h : Outside(h)' <=> Outside(h)
  BY DEF Outside
<1>2. \A h : Entered(h)' <=> Entered(h)
  BY <1>1 DEF Entered
<1>3. ASSUME NEW e, Sequenced(e) PROVE Sequenced(e)'
  BY <1>1, <1>2, <1>3, SequencedKept
<1>4. Growth(at, at)
  BY GrowthNone
<1>5. \A j \in (DOMAIN nodes)' : j \in DOMAIN nodes
  OBVIOUS
<1> QED
  BY <1>3, <1>4, <1>5, ItemsGrow

(* What is known of the file does not change as long as the file does not. *)
LEMMA FileSame ==
    ASSUME FileInv, open' = open, scalars' = scalars, shape' = shape
    PROVE  FileInv'
<1>1. /\ ~shape'.begun => open' = <<>> /\ DOMAIN scalars' = {} /\ shape'.top = {}
      /\ shape'.plain => ~shape'.nested /\ \A h \in DOMAIN open' : ~open'[h].inSeq
      /\ open' # <<>> => shape'.top = open'[1].used
      /\ \A p \in DOMAIN scalars' : Len(p) >= 1 /\ p[1] \in shape'.top
  BY Zenon DEF FileInv, Outside
<1>2. KeyedInv'
  BY DEF FileInv, KeyedInv
<1> QED
  BY <1>1, <1>2 DEF FileInv, Outside

(* A step keeps the tree as the file is. *)
LEMMA TreeNext == TypeOK /\ TreeInv /\ [Next]_vars => TreeInv'
<1> SUFFICES ASSUME TypeOK, TreeInv, [Next]_vars PROVE TreeInv'
  OBVIOUS
<1>1. ASSUME NEW s \in Names, Scalar(s) PROVE TreeInv'
  <2>1. phase = "parse" /\ phase' = "parse"
    BY <1>1 DEF Scalar
  <2>2. PICK at : Parsed(at)
    BY <2>1 DEF TreeInv
  <2> QED
    BY <1>1, <2>1, <2>2, ScalarParsed DEF TreeInv
<1>2. ASSUME SequenceStart \/ SequenceEnd \/ MappingStart \/ MappingEnd PROVE TreeInv'
  <2>1. phase = "parse" /\ phase' = "parse"
    BY <1>2 DEF SequenceStart, SequenceEnd, MappingStart, MappingEnd
  <2>2. PICK at : Parsed(at)
    BY <2>1 DEF TreeInv
  <2>3. Parsed(at)'
    BY <1>2, <2>1, <2>2, CollectionParsed
  <2> QED
    BY <2>1, <2>3 DEF TreeInv
<1>3. ASSUME phase \in {"parse", "flatten", "merge", "ready"}, phase = "parse" => open = <<>>,
             nodes' = nodes, UNCHANGED fileVars, phase' # "parse"
      PROVE  TreeInv'
  <2>1. PICK at : /\ PathsInv(at) /\ FileInv /\ open = <<>>
                  /\ ~shape.nested => ScalarsInv(at) /\ LeavesInv(at) /\ ItemsInv(at)
    <3>1. CASE phase = "parse"
      <4>1. PICK at : Parsed(at)
        BY <3>1 DEF TreeInv
      <4> QED
        BY <1>3, <3>1, <4>1 DEF Parsed, PlacesInv
    <3>2. CASE phase # "parse"
      BY <1>3, <3>2 DEF TreeInv, Walked
    <3> QED
      BY <3>1, <3>2
  <2>2. PathsInv(at)'
    BY <1>3, <2>1, GrowthNone
  <2>3. open' = open /\ scalars' = scalars /\ shape' = shape
    BY <1>3 DEF fileVars
  <2>4. FileInv'
    BY <2>1, <2>3, FileSame
  <2>5. ASSUME ~shape'.nested PROVE ScalarsInv(at)' /\ LeavesInv(at)' /\ ItemsInv(at)'
    <3>1. ScalarsInv(at)'
      BY <1>3, <2>1, <2>3, <2>5 DEF ScalarsInv, Holds
    <3>2. LeavesInv(at)'
      BY <1>3, <2>1, <2>3, <2>5 DEF LeavesInv
    <3>3. ItemsInv(at)'
      BY <1>3, <2>1, <2>3, <2>5, ItemsSame
    <3> QED
      BY <3>1, <3>2, <3>3
  <2> QED
    BY <1>3, <2>1, <2>2, <2>3, <2>4, <2>5 DEF TreeInv, Walked
<1>4. ASSUME StreamEnd \/ NoFile \/ Flatten \/ Merge \/ \E s \in Sections : GetCollection(s)
      PROVE  TreeInv'
  BY <1>3, <1>4 DEF StreamEnd, NoFile, Flatten, Merge, GetCollection, parserVars
<1>5. ASSUME SyntaxError PROVE TreeInv'
  BY <1>5 DEF SyntaxError, TreeInv
<1>6. ASSUME UNCHANGED vars PROVE TreeInv'
  <2>1. /\ phase' = phase /\ nodes' = nodes /\ frames' = frames /\ open' = open
        /\ scalars' = scalars /\ shape' = shape
    BY <1>6 DEF vars, parserVars, fileVars
  <2>2. ASSUME NEW at, PathsInv(at) PROVE PathsInv(at)'
    BY <2>1, <2>2, GrowthNone
  <2>3. FileInv => FileInv'
    BY <2>1, FileSame
  <2>4. ASSUME OpenInv PROVE OpenInv'
    BY <2>1, <2>4 DEF OpenInv, OpenAt, Outside
  <2>5. ASSUME NEW at, ScalarsInv(at) PROVE ScalarsInv(at)'
    BY <2>1, <2>5 DEF ScalarsInv, Holds
  <2>6. ASSUME NEW at, LeavesInv(at) PROVE LeavesInv(at)'
    BY <2>1, <2>6 DEF LeavesInv, Inner, Top, Last
  <2>7. ASSUME NEW at, KeysInv(at) PROVE KeysInv(at)'
    BY <2>1, <2>7 DEF KeysInv, KeysAt, Begins, Outside, Here
  <2>8. ASSUME ApartInv PROVE ApartInv'
    <3>1. \A h : Outside(h)' = Outside(h) /\ Here(h)' = Here(h)
      BY <2>1 DEF Outside, Here
    <3>2. \A h : Entered(h)' = Entered(h)
      BY <2>1, <3>1 DEF Entered
    <3> QED
      BY <2>1, <2>8, <3>1, <3>2 DEF ApartInv
  <2>9. ASSUME NEW at, FramesInv(at) PROVE FramesInv(at)'
    BY <2>1, <2>9 DEF FramesInv, CallAt, Begins, Outside, Here, Entered
  <2>10. ASSUME NEW at, PathsInv(at), ItemsInv(at) PROVE ItemsInv(at)'
    BY <2>1, <2>10, ItemsSame
  <2>11. \A at : Parsed(at) => Parsed(at)'
    BY <2>1, <2>2, <2>3, <2>4, <2>5, <2>6, <2>7, <2>8, <2>9, <2>10 DEF Parsed, PlacesInv
  <2>12. \A at : Walked(at) => Walked(at)'
    BY <2>1, <2>2, <2>3, <2>5, <2>6, <2>10 DEF Walked
  <2> QED
    BY <2>1, <2>11, <2>12 DEF TreeInv
<1> QED
  BY <1>1, <1>2, <1>4, <1>5, <1>6 DEF Next

-----------------------------------------------------------------------------
(* Keys. *)

(* What a path is made of, and a key. *)
Words == Names \cup {TokenName}
PlainWords == Keys \cup {TokenName}
Chars == STRING \cup {"config", ":"}

(* g[i] is the key of the first i names of p. *)
Joins(g, p) ==
    /\ DOMAIN g = 0..Len(p) /\ g[0] = Root
    /\ \A i \in 1..Len(p) : g[i] = g[i - 1] \o <<":">> \o p[i]

(* A set with the empty sequence, and with a sequence every longer one, has all
   sequences. *)
LEMMA SeqInduct ==
    ASSUME NEW X, NEW T, <<>> \in T,
           \A s \in Seq(X) : \A e \in X : s \in T => Append(s, e) \in T
    PROVE  Seq(X) \subseteq T
<1> DEFINE S == {n \in Nat : \A s \in Seq(X) : Len(s) = n => s \in T}
<1>1. 0 \in S
  OBVIOUS
<1>2. ASSUME NEW n \in Nat, n \in S PROVE n + 1 \in S
  <2>1. ASSUME NEW s \in Seq(X), Len(s) = n + 1 PROVE s \in T
    <3>1. s # <<>>
      BY <2>1
    <3>2. PICK r \in Seq(X), e \in X : s = Append(r, e)
      BY <3>1, SequenceEmptyOrAppend
    <3>3. PICK m \in Nat : m = Len(r)
      OBVIOUS
    <3>4. m + 1 = n + 1
      BY <2>1, <3>2, <3>3, AppendProperties
    <3>5. r \in T
      BY <1>2, <3>3, <3>4
    <3> QED
      BY <3>2, <3>5
  <2> QED
    BY <1>2, <2>1
<1>3. Nat \subseteq S
  <2> HIDE DEF S
  <2> QED
    BY <1>1, <1>2, Induct
<1>4. ASSUME NEW s \in Seq(X) PROVE s \in T
  <2>1. PICK n \in Nat : n = Len(s)
    OBVIOUS
  <2> QED
    BY <1>3, <2>1
<1> QED
  BY <1>4

(* Names are sequences of characters; keys have no colon. *)
LEMMA WordsTyped ==
    /\ Words \subseteq Seq(Chars) /\ Names \subseteq Words /\ TokenName \in Words
    /\ Root \in Seq(Chars) /\ Len(Root) = 1 /\ <<":">> \in Seq(Chars) /\ Len(<<":">>) = 1
    /\ PlainWords \subseteq Words /\ Seq(PlainWords) \subseteq Seq(Words)
    /\ Keys \subseteq PlainWords /\ Seq(Keys) \subseteq Seq(PlainWords)
    /\ \A w \in PlainWords : \A i \in 1..Len(w) : w[i] # ":"
<1>1. /\ \A w \in PlainWords : ":" \notin ToSet(w)
      /\ PlainWords \subseteq Words /\ Keys \subseteq PlainWords
  BY NamesAssumption DEF Words, PlainWords
<1>2. Words \subseteq Seq(Chars)
  <2>1. ASSUME NEW w \in Words PROVE w \in Seq(Chars)
    <3>1. w \in Seq(STRING) /\ STRING \subseteq Chars
      BY NamesAssumption DEF Words, Chars
    <3> QED
      BY <3>1, SeqMonotonic
  <2> QED
    BY <2>1
<1>3. ASSUME NEW w \in PlainWords, NEW i \in 1..Len(w) PROVE w[i] # ":"
  <2>1. w \in Seq(Chars)
    BY <1>1, <1>2
  <2>2. i \in DOMAIN w
    BY <2>1
  <2>3. w[i] \in ToSet(w)
    BY <2>2 DEF ToSet
  <2> QED
    BY <1>1, <2>3
<1> QED
  <2>1. "config" \in Chars /\ ":" \in Chars
    BY DEF Chars
  <2>2. <<"config">> \in Seq(Chars) /\ Len(<<"config">>) = 1
    BY <2>1
  <2>3. <<":">> \in Seq(Chars) /\ Len(<<":">>) = 1
    BY <2>1
  <2> QED
    BY <1>1, <1>2, <1>3, <2>2, <2>3, SeqMonotonic DEF Words, Root

(* Each path has its keys, one after another. *)
LEMMA JoinsExists == ASSUME NEW p \in Seq(Words) PROVE \E g : Joins(g, p)
<1> DEFINE T == {s \in Seq(Words) : \E g : Joins(g, s)}
<1>1. <<>> \in T
  <2>1. Joins([i \in 0..0 |-> Root], <<>>)
    BY DEF Joins
  <2> QED
    BY <2>1
<1>2. ASSUME NEW s \in Seq(Words), NEW w \in Words, s \in T PROVE Append(s, w) \in T
  <2>1. PICK g : Joins(g, s)
    BY <1>2
  <2>2. PICK n \in Nat : n = Len(s)
    OBVIOUS
  <2>3. PICK r \in Seq(Words) : r = Append(s, w)
    BY AppendProperties
  <2>4. Len(r) = n + 1 /\ r[n + 1] = w /\ \A i \in 1..n : r[i] = s[i]
    BY <2>2, <2>3, AppendProperties
  <2> DEFINE h == [i \in 0..(n + 1) |->
                     IF i = n + 1 THEN g[n] \o <<":">> \o w ELSE g[i]]
  <2>5. DOMAIN h = 0..(n + 1) /\ h[n + 1] = g[n] \o <<":">> \o w
    BY <2>2
  <2>6. \A i \in 0..n : h[i] = g[i]
    BY <2>2
  <2> HIDE DEF h
  <2>7. h[0] = Root
    BY <2>1, <2>2, <2>6 DEF Joins
  <2>8. ASSUME NEW i \in 1..(n + 1) PROVE h[i] = h[i - 1] \o <<":">> \o r[i]
    <3>1. CASE i = n + 1
      <4>1. i - 1 = n /\ n \in 0..n
        BY <3>1
      <4> QED
        BY <2>4, <2>5, <2>6, <3>1, <4>1
    <3>2. CASE i # n + 1
      <4>1. i \in 1..n /\ i \in 0..n /\ i - 1 \in 0..n
        BY <3>2
      <4>2. g[i] = g[i - 1] \o <<":">> \o s[i]
        BY <2>1, <2>2, <4>1 DEF Joins
      <4> QED
        BY <2>4, <2>6, <4>1, <4>2
    <3> QED
      BY <3>1, <3>2
  <2>9. Joins(h, r)
    BY <2>4, <2>5, <2>7, <2>8 DEF Joins
  <2> QED
    BY <2>3, <2>9
<1>3. Seq(Words) \subseteq T
  <2> HIDE DEF T
  <2> QED
    BY <1>1, <1>2, SeqInduct
<1> QED
  BY <1>3

(* They are the keys of Joined. *)
LEMMA JoinedIs ==
    ASSUME NEW p \in Seq(Words), NEW g, Joins(g, p)
    PROVE  Joined(p) = g[Len(p)]
<1>1. PICK n \in Nat : n = Len(p)
  OBVIOUS
<1> DEFINE step(f) == [i \in 0..n |-> IF i = 0 THEN Root ELSE f[i - 1] \o <<":">> \o p[i]]
           upto == CHOOSE f : f = step(f)
<1>2. PICK f : f = [i \in 0..n |-> g[i]]
  OBVIOUS
<1>3. f = step(f)
  <2>1. ASSUME NEW i \in 0..n PROVE f[i] = IF i = 0 THEN Root ELSE f[i - 1] \o <<":">> \o p[i]
    <3>1. CASE i = 0
      BY <1>1, <1>2, <3>1 DEF Joins
    <3>2. CASE i # 0
      <4>1. i \in 1..n /\ i - 1 \in 0..n
        BY <3>2
      <4>2. g[i] = g[i - 1] \o <<":">> \o p[i]
        BY <1>1, <4>1 DEF Joins
      <4> QED
        BY <1>2, <3>2, <4>1, <4>2
    <3> QED
      BY <3>1, <3>2
  <2> QED
    BY <1>2, <2>1
<1>4. upto = step(upto)
  BY <1>3
<1>5. Joined(p) = upto[n]
  BY <1>1 DEF Joined
<1>6. PICK u : u = upto
  OBVIOUS
<1>7. u[0] = Root /\ \A i \in 1..n : u[i] = u[i - 1] \o <<":">> \o p[i]
  <2> HIDE DEF upto
  <2>1. u = [i \in 0..n |-> IF i = 0 THEN Root ELSE u[i - 1] \o <<":">> \o p[i]]
    BY <1>4, <1>6
  <2>2. 0 \in 0..n /\ \A i \in 1..n : i \in 0..n /\ i # 0
    OBVIOUS
  <2> QED
    BY <2>1, <2>2
<1> DEFINE S == {k \in Nat : k <= n => u[k] = g[k]}
<1>8. 0 \in S
  BY <1>7 DEF Joins
<1>9. ASSUME NEW k \in Nat, k \in S PROVE k + 1 \in S
  <2>1. ASSUME k + 1 <= n PROVE u[k + 1] = g[k + 1]
    <3>1. k \in Nat /\ k <= n
      BY <2>1
    <3>2. PICK i \in 1..n : i = k + 1 /\ i - 1 = k
      BY <2>1
    <3>3. u[i] = u[i - 1] \o <<":">> \o p[i]
      BY <1>7
    <3>4. g[i] = g[i - 1] \o <<":">> \o p[i]
      BY <1>1 DEF Joins
    <3>5. u[i - 1] = g[i - 1]
      BY <1>9, <3>1, <3>2
    <3> QED
      BY <3>2, <3>3, <3>4, <3>5
  <2> QED
    BY <2>1
<1>10. Nat \subseteq S
  <2> HIDE DEF S
  <2> QED
    BY <1>8, <1>9, Induct
<1>11. u[n] = g[n]
  BY <1>10
<1> QED
  BY <1>1, <1>5, <1>6, <1>11

(* The key of the empty path is the root, and a longer path adds a colon and
   its last name. *)
LEMMA JoinedAppend ==
    /\ Joined(<<>>) = Root
    /\ \A p \in Seq(Words) : \A w \in Words :
          Joined(Append(p, w)) = Joined(p) \o <<":">> \o w
<1>1. Joined(<<>>) = Root
  <2>1. Joins([i \in 0..0 |-> Root], <<>>)
    BY DEF Joins
  <2> QED
    BY <2>1, JoinedIs
<1>2. ASSUME NEW p \in Seq(Words), NEW w \in Words
      PROVE  Joined(Append(p, w)) = Joined(p) \o <<":">> \o w
  <2>1. PICK n \in Nat : n = Len(p)
    OBVIOUS
  <2>2. PICK r \in Seq(Words) : r = Append(p, w)
    BY AppendProperties
  <2>3. Len(r) = n + 1 /\ r[n + 1] = w /\ \A i \in 1..n : r[i] = p[i]
    BY <2>1, <2>2, AppendProperties
  <2>4. PICK g : Joins(g, r)
    BY JoinsExists
  <2>5. Joined(r) = g[n + 1]
    BY <2>3, <2>4, JoinedIs
  <2>6. g[0] = Root /\ \A i \in 1..(n + 1) : g[i] = g[i - 1] \o <<":">> \o r[i]
    BY <2>3, <2>4 DEF Joins
  <2>7. PICK h : h = [i \in 0..n |-> g[i]]
    OBVIOUS
  <2>8. \A i \in 1..n : h[i] = h[i - 1] \o <<":">> \o p[i]
    <3>1. \A i \in 1..n : i \in 0..n /\ i - 1 \in 0..n /\ i \in 1..(n + 1)
      OBVIOUS
    <3> QED
      BY <2>3, <2>6, <2>7, <3>1
  <2>9. Joins(h, p)
    BY <2>1, <2>6, <2>7, <2>8 DEF Joins
  <2>10. Joined(p) = g[n]
    BY <2>1, <2>7, <2>9, JoinedIs
  <2>11. g[n + 1] = g[n] \o <<":">> \o w
    <3>1. PICK i \in 1..(n + 1) : i = n + 1 /\ i - 1 = n
      OBVIOUS
    <3>2. g[i] = g[i - 1] \o <<":">> \o r[i]
      BY <2>6
    <3> QED
      BY <2>3, <3>1, <3>2
  <2> QED
    BY <2>2, <2>5, <2>10, <2>11
<1> QED
  BY <1>1, <1>2

(* Keys are sequences of characters and begin with that of the root. *)
LEMMA JoinedTyped ==
    ASSUME NEW p \in Seq(Words)
    PROVE  Joined(p) \in Seq(Chars) /\ Len(Joined(p)) \in Nat /\ Len(Joined(p)) >= 1
<1> DEFINE T == {s \in Seq(Words) : Joined(s) \in Seq(Chars) /\ Len(Joined(s)) >= 1}
<1>1. <<>> \in T
  <2>1. PICK k : k = Root
    OBVIOUS
  <2>2. k \in Seq(Chars) /\ Len(k) >= 1 /\ Joined(<<>>) = k
    BY <2>1, JoinedAppend, WordsTyped
  <2> QED
    BY <2>2
<1>2. ASSUME NEW s \in Seq(Words), NEW w \in Words, s \in T PROVE Append(s, w) \in T
  <2>1. PICK k \in Seq(Chars) : k = Joined(s)
    BY <1>2
  <2>2. k \o <<":">> \in Seq(Chars) /\ Len(k \o <<":">>) >= 1
    BY <1>2, <2>1, WordsTyped, ConcatProperties
  <2>3. /\ k \o <<":">> \o w \in Seq(Chars)
        /\ Len(k \o <<":">> \o w) = Len(k \o <<":">>) + Len(w) /\ Len(w) \in Nat
    BY <2>2, WordsTyped, ConcatProperties
  <2>4. Joined(Append(s, w)) = k \o <<":">> \o w
    BY <2>1, JoinedAppend
  <2>5. Append(s, w) \in Seq(Words)
    BY AppendProperties
  <2>6. PICK l \in Nat : l = Len(k \o <<":">>)
    BY <2>2
  <2>7. PICK m \in Nat : m = Len(w)
    BY <2>3
  <2>8. Len(k \o <<":">> \o w) >= 1
    BY <2>2, <2>3, <2>6, <2>7
  <2> QED
    BY <2>3, <2>4, <2>5, <2>8
<1>3. Seq(Words) \subseteq T
  <2> HIDE DEF T
  <2> QED
    BY <1>1, <1>2, SeqInduct
<1>4. Joined(p) \in Seq(Chars) /\ Len(Joined(p)) >= 1
  BY <1>3
<1> QED
  BY <1>4, LenProperties

(* r is k, a colon and w, of lengths m and n, element by element. *)
Parts(k, m, w, n, r) ==
    /\ r \in Seq(Chars) /\ Len(r) = m + 1 + n
    /\ \A i \in 1..m : r[i] = k[i]
    /\ r[m + 1] = ":"
    /\ \A i \in 1..n : r[m + 1 + i] = w[i]

(* Two sequences with a colon between. *)
LEMMA Coloned ==
    ASSUME NEW k \in Seq(Chars), NEW w \in Seq(Chars),
           NEW m \in Nat, m = Len(k), NEW n \in Nat, n = Len(w)
    PROVE  Parts(k, m, w, n, k \o <<":">> \o w)
<1>3. PICK c \in Seq(Chars) : c = <<":">> /\ Len(c) = 1 /\ c[1] = ":"
  BY WordsTyped
<1>4. PICK h \in Seq(Chars) :
         /\ h = k \o c /\ Len(h) = m + 1
         /\ \A i \in 1..(m + 1) : h[i] = IF i <= m THEN k[i] ELSE c[i - m]
  <2>1. /\ k \o c \in Seq(Chars) /\ Len(k \o c) = Len(k) + Len(c)
        /\ \A i \in 1..(Len(k) + Len(c)) :
              (k \o c)[i] = IF i <= Len(k) THEN k[i] ELSE c[i - Len(k)]
    BY ConcatProperties
  <2>2. m = Len(k) /\ 1 = Len(c)
    BY <1>3
  <2>3. /\ k \o c \in Seq(Chars) /\ Len(k \o c) = m + 1
        /\ \A i \in 1..(m + 1) : (k \o c)[i] = IF i <= m THEN k[i] ELSE c[i - m]
    BY <2>1, <2>2, Zenon
  <2> QED
    BY <2>3
<1>5. PICK r \in Seq(Chars) :
         /\ r = h \o w /\ Len(r) = m + 1 + n
         /\ \A i \in 1..(m + 1 + n) : r[i] = IF i <= m + 1 THEN h[i] ELSE w[i - (m + 1)]
  <2>1. /\ h \o w \in Seq(Chars) /\ Len(h \o w) = Len(h) + Len(w)
        /\ \A i \in 1..(Len(h) + Len(w)) :
              (h \o w)[i] = IF i <= Len(h) THEN h[i] ELSE w[i - Len(h)]
    BY ConcatProperties
  <2>2. m + 1 = Len(h) /\ n = Len(w)
    BY <1>4
  <2>3. /\ h \o w \in Seq(Chars) /\ Len(h \o w) = m + 1 + n
        /\ \A i \in 1..(m + 1 + n) :
              (h \o w)[i] = IF i <= m + 1 THEN h[i] ELSE w[i - (m + 1)]
    BY <2>1, <2>2, Zenon
  <2> QED
    BY <2>3
<1>6. \A i \in 1..m : r[i] = k[i]
  BY <1>4, <1>5
<1>7. r[m + 1] = ":"
  <2>1. m + 1 \in 1..(m + 1 + n) /\ m + 1 <= m + 1 /\ m + 1 - m = 1 /\ ~(m + 1 <= m)
    OBVIOUS
  <2>2. r[m + 1] = h[m + 1] /\ h[m + 1] = c[m + 1 - m]
    BY <1>4, <1>5, <2>1
  <2> QED
    BY <1>3, <2>1, <2>2
<1>8. ASSUME NEW i \in 1..n PROVE r[m + 1 + i] = w[i]
  <2>1. PICK j \in 1..(m + 1 + n) : j = m + 1 + i
    OBVIOUS
  <2>2. ~(j <= m + 1) /\ j - (m + 1) = i
    BY <2>1
  <2> QED
    BY <1>5, <2>1, <2>2
<1> QED
  BY <1>3, <1>4, <1>5, <1>6, <1>7, <1>8 DEF Parts

(* A key with one more name. *)
Extended(k, w) == k \o <<":">> \o w

(* The last colon tells where the last name begins. *)
LEMMA ColonedEqual ==
    ASSUME NEW k \in Seq(Chars), NEW l \in Seq(Chars), NEW v \in PlainWords, NEW w \in PlainWords,
           NEW r, r = Extended(k, v), r = Extended(l, w)
    PROVE  k = l /\ v = w
<1>1. v \in Seq(Chars) /\ w \in Seq(Chars)
  BY WordsTyped
<1>2. PICK a \in Nat : a = Len(k)
  OBVIOUS
<1>3. PICK b \in Nat : b = Len(l)
  OBVIOUS
<1>4. PICK m \in Nat : m = Len(v)
  BY <1>1
<1>5. PICK n \in Nat : n = Len(w)
  BY <1>1
<1>6. /\ Len(r) = a + 1 + m
      /\ \A i \in 1..a : r[i] = k[i]
      /\ r[a + 1] = ":"
      /\ \A i \in 1..m : r[a + 1 + i] = v[i]
  <2>1. Parts(k, a, v, m, r)
    BY <1>1, <1>2, <1>4, Coloned, Zenon DEF Extended
  <2> QED
    BY <2>1 DEF Parts
<1>7. /\ Len(r) = b + 1 + n
      /\ \A i \in 1..b : r[i] = l[i]
      /\ r[b + 1] = ":"
      /\ \A i \in 1..n : r[b + 1 + i] = w[i]
  <2>1. Parts(l, b, w, n, r)
    BY <1>1, <1>3, <1>5, Coloned, Zenon DEF Extended
  <2> QED
    BY <2>1 DEF Parts
<1>8. ~(a < b)
  <2> SUFFICES ASSUME a < b PROVE FALSE
    OBVIOUS
  <2>1. PICK i \in 1..m : i = b - a
    BY <1>6, <1>7
  <2>2. a + 1 + i = b + 1
    BY <2>1
  <2>3. v[i] # ":"
    BY <1>4, WordsTyped
  <2>4. r[a + 1 + i] = v[i]
    BY <1>6
  <2> QED
    BY <1>7, <2>2, <2>3, <2>4
<1>9. ~(b < a)
  <2> SUFFICES ASSUME b < a PROVE FALSE
    OBVIOUS
  <2>1. PICK i \in 1..n : i = a - b
    BY <1>6, <1>7
  <2>2. b + 1 + i = a + 1
    BY <2>1
  <2>3. w[i] # ":"
    BY <1>5, WordsTyped
  <2>4. r[b + 1 + i] = w[i]
    BY <1>7
  <2> QED
    BY <1>6, <2>2, <2>3, <2>4
<1>10. a = b /\ m = n
  BY <1>6, <1>7, <1>8, <1>9
<1>11. k = l
  BY <1>2, <1>3, <1>6, <1>7, <1>10, SeqEqual
<1>12. v = w
  BY <1>1, <1>4, <1>5, <1>6, <1>7, <1>10, SeqEqual
<1> QED
  BY <1>11, <1>12

(* Two paths have different keys. *)
LEMMA JoinedInjective ==
    ASSUME NEW p \in Seq(PlainWords), NEW q \in Seq(PlainWords), Joined(p) = Joined(q)
    PROVE  p = q
<1>1. ASSUME NEW s \in Seq(PlainWords), NEW w \in PlainWords PROVE Joined(Append(s, w)) # Joined(<<>>)
  <2>1. PICK k \in Seq(Chars) : k = Joined(s) /\ Len(k) >= 1
    BY JoinedTyped, WordsTyped
  <2>2. w \in Seq(Chars)
    BY WordsTyped
  <2>3. PICK m \in Nat : m = Len(k)
    OBVIOUS
  <2>4. PICK n \in Nat : n = Len(w)
    BY <2>2
  <2>5. PICK r : r = k \o <<":">> \o w
    OBVIOUS
  <2>6. Parts(k, m, w, n, r)
    BY <2>2, <2>3, <2>4, <2>5, Coloned, Zenon
  <2>7. Len(r) # 1
    BY <2>1, <2>3, <2>6 DEF Parts
  <2>8. r # Root
    BY <2>7, WordsTyped
  <2> QED
    BY <2>1, <2>5, <2>8, JoinedAppend, WordsTyped, Zenon
<1> DEFINE T == {s \in Seq(PlainWords) : \A t \in Seq(PlainWords) : Joined(s) = Joined(t) => s = t}
<1>2. <<>> \in T
  <2>1. ASSUME NEW t \in Seq(PlainWords), t # <<>> PROVE Joined(t) # Joined(<<>>)
    <3>1. PICK r \in Seq(PlainWords), e \in PlainWords : t = Append(r, e)
      BY <2>1, SequenceEmptyOrAppend
    <3> QED
      BY <1>1, <3>1, Zenon
  <2> QED
    BY <2>1
<1>3. ASSUME NEW s \in Seq(PlainWords), NEW w \in PlainWords, s \in T PROVE Append(s, w) \in T
  <2>1. ASSUME NEW t \in Seq(PlainWords), Joined(Append(s, w)) = Joined(t) PROVE Append(s, w) = t
    <3>1. t # <<>>
      BY <1>1, <2>1, Zenon
    <3>2. PICK r \in Seq(PlainWords), e \in PlainWords : t = Append(r, e)
      BY <3>1, SequenceEmptyOrAppend
    <3>3. PICK k \in Seq(Chars) : k = Joined(s)
      BY JoinedTyped, WordsTyped
    <3>4. PICK l \in Seq(Chars) : l = Joined(r)
      BY JoinedTyped, WordsTyped
    <3>5. PICK j : j = Joined(Append(s, w))
      OBVIOUS
    <3>6. j = Extended(k, w)
      BY <3>3, <3>5, JoinedAppend, WordsTyped, Zenon DEF Extended
    <3>7. j = Extended(l, e)
      BY <2>1, <3>2, <3>4, <3>5, JoinedAppend, WordsTyped, Zenon DEF Extended
    <3>8. k = l /\ w = e
      BY <3>6, <3>7, ColonedEqual
    <3>9. s = r
      BY <1>3, <3>3, <3>4, <3>8
    <3> QED
      BY <3>2, <3>8, <3>9
  <2>2. Append(s, w) \in Seq(PlainWords)
    BY AppendProperties
  <2> QED
    BY <2>1, <2>2
<1>4. Seq(PlainWords) \subseteq T
  <2> HIDE DEF T
  <2> QED
    BY <1>2, <1>3, SeqInduct
<1>5. p \in T
  BY <1>4
<1> QED
  BY <1>5

(* r begins with k, and k ends where r does or where it has a colon. *)
Cut(k, r) == Begins(k, r) /\ (Len(k) # Len(r) => r[Len(k) + 1] = ":")

(* So does a longer key. *)
LEMMA CutExtended ==
    ASSUME NEW k \in Seq(Chars), NEW l \in Seq(Chars), NEW w \in Seq(Chars), Cut(k, l)
    PROVE  Cut(k, Extended(l, w))
<1>1. PICK a \in Nat : a = Len(k)
  OBVIOUS
<1>2. PICK m \in Nat : m = Len(l)
  OBVIOUS
<1>3. PICK n \in Nat : n = Len(w)
  OBVIOUS
<1>4. PICK r : r = Extended(l, w)
  OBVIOUS
<1>5. Parts(l, m, w, n, r)
  BY <1>2, <1>3, <1>4, Coloned, Zenon DEF Extended
<1>6. /\ Len(r) = m + 1 + n /\ r[m + 1] = ":"
      /\ \A i \in 1..m : r[i] = l[i]
  BY <1>5 DEF Parts
<1>7. /\ a <= m /\ \A i \in 1..a : l[i] = k[i]
      /\ a # m => l[a + 1] = ":"
  BY <1>1, <1>2 DEF Cut, Begins
<1>8. \A i \in 1..a : i \in 1..m
  BY <1>7
<1>9. r[a + 1] = ":"
  <2>1. CASE a = m
    BY <1>6, <2>1
  <2>2. CASE a # m
    <3>1. a + 1 \in 1..m
      BY <1>7, <2>2
    <3> QED
      BY <1>6, <1>7, <2>2, <3>1
  <2> QED
    BY <2>1, <2>2
<1>10. a <= m + 1 + n /\ \A i \in 1..a : r[i] = k[i]
  BY <1>6, <1>7, <1>8
<1> QED
  BY <1>1, <1>4, <1>6, <1>9, <1>10 DEF Cut, Begins

(* A key of a mapping has no colon where another path could end. *)
LEMMA CutShorter ==
    ASSUME NEW k \in Seq(Chars), NEW l \in Seq(Chars), NEW w \in PlainWords,
           Cut(k, Extended(l, w))
    PROVE  k = Extended(l, w) \/ Cut(k, l)
<1>1. PICK a \in Nat : a = Len(k)
  OBVIOUS
<1>2. PICK m \in Nat : m = Len(l)
  OBVIOUS
<1>3. w \in Seq(Chars) /\ \A i \in 1..Len(w) : w[i] # ":"
  BY WordsTyped
<1>4. PICK n \in Nat : n = Len(w)
  BY <1>3
<1>5. PICK r : r = Extended(l, w)
  OBVIOUS
<1>6. Parts(l, m, w, n, r)
  BY <1>2, <1>3, <1>4, <1>5, Coloned, Zenon DEF Extended
<1>7. /\ r \in Seq(Chars) /\ Len(r) = m + 1 + n
      /\ \A i \in 1..m : r[i] = l[i]
      /\ \A i \in 1..n : r[m + 1 + i] = w[i]
  BY <1>6 DEF Parts
<1>8. /\ a <= m + 1 + n /\ \A i \in 1..a : r[i] = k[i]
      /\ a # m + 1 + n => r[a + 1] = ":"
  BY <1>1, <1>5, <1>7 DEF Cut, Begins
<1>9. CASE a = m + 1 + n
  BY <1>1, <1>5, <1>7, <1>8, <1>9, SeqEqual
<1>10. CASE a # m + 1 + n
  <2>1. a <= m
    <3> SUFFICES ASSUME ~(a <= m) PROVE FALSE
      OBVIOUS
    <3>1. PICK i \in 1..n : i = a - m
      BY <1>8, <1>10
    <3>2. m + 1 + i = a + 1
      BY <3>1
    <3>3. r[m + 1 + i] = w[i] /\ w[i] # ":"
      BY <1>3, <1>4, <1>7
    <3> QED
      BY <1>8, <1>10, <3>2, <3>3
  <2>2. \A i \in 1..a : i \in 1..m
    BY <2>1
  <2>3. \A i \in 1..a : l[i] = k[i]
    BY <1>7, <1>8, <2>2
  <2>4. a # m => l[a + 1] = ":"
    <3>1. a # m => a + 1 \in 1..m
      BY <2>1
    <3> QED
      BY <1>7, <1>8, <1>10, <3>1
  <2> QED
    BY <1>1, <1>2, <2>1, <2>3, <2>4 DEF Cut, Begins
<1> QED
  BY <1>9, <1>10

(* The key of a path begins with those of the paths before it. *)
LEMMA CutJoined ==
    ASSUME NEW e \in Seq(Names), NEW q \in Seq(Names), Begins(e, q)
    PROVE  Cut(Joined(e), Joined(q))
<1>1. Seq(Names) \subseteq Seq(Words) /\ Names \subseteq Words
  BY WordsTyped, SeqMonotonic
<1>2. PICK k \in Seq(Chars) : k = Joined(e)
  BY <1>1, JoinedTyped
<1>3. Cut(k, k)
  BY DEF Cut, Begins
<1> DEFINE T == {t \in Seq(Names) : Begins(e, t) => Cut(k, Joined(t))}
<1>4. <<>> \in T
  <2>1. <<>> \in Seq(Names)
    OBVIOUS
  <2>2. Begins(e, <<>>) => e = <<>>
    <3>1. PICK n \in Nat : n = Len(e)
      OBVIOUS
    <3>2. Begins(e, <<>>) => n = 0
      BY <3>1 DEF Begins
    <3> QED
      BY <3>1, <3>2
  <2> QED
    BY <1>2, <1>3, <2>1, <2>2
<1>5. ASSUME NEW s \in Seq(Names), NEW w \in Names, s \in T PROVE Append(s, w) \in T
  <2>1. PICK r \in Seq(Names) : r = Append(s, w)
    BY BeginsLaws
  <2>2. ASSUME Begins(e, r) PROVE Cut(k, Joined(r))
    <3>1. CASE e = r
      BY <1>2, <1>3, <3>1
    <3>2. CASE Begins(e, s)
      <4>1. PICK l \in Seq(Chars) : l = Joined(s)
        BY <1>1, JoinedTyped
      <4>2. w \in Seq(Chars)
        BY <1>1, WordsTyped
      <4>3. Cut(k, Extended(l, w))
        BY <1>5, <3>2, <4>1, <4>2, CutExtended
      <4>4. Joined(Append(s, w)) = Joined(s) \o <<":">> \o w
        BY <1>1, JoinedAppend
      <4>5. Joined(r) = Extended(l, w)
        BY <2>1, <4>1, <4>4, Zenon DEF Extended
      <4> QED
        BY <4>3, <4>5
    <3> QED
      BY <2>1, <2>2, <3>1, <3>2, BeginsLaws
  <2> QED
    BY <2>1, <2>2
<1>6. Seq(Names) \subseteq T
  <2> HIDE DEF T
  <2> QED
    BY <1>4, <1>5, SeqInduct
<1> QED
  BY <1>2, <1>6

(* And a path of keys begins with those whose keys its key begins with. *)
LEMMA CutBegins ==
    ASSUME NEW e \in Seq(Keys), NEW p \in Seq(Keys), Cut(Joined(e), Joined(p))
    PROVE  Begins(e, p)
<1>1. /\ Seq(Keys) \subseteq Seq(Names) /\ Keys \subseteq Names
      /\ Seq(Keys) \subseteq Seq(PlainWords) /\ Keys \subseteq PlainWords
      /\ Seq(PlainWords) \subseteq Seq(Words) /\ PlainWords \subseteq Words
  BY NamesAssumption, WordsTyped, SeqMonotonic
<1>2. PICK k \in Seq(Chars) : k = Joined(e)
  BY <1>1, JoinedTyped
<1> DEFINE T == {t \in Seq(Keys) : Cut(k, Joined(t)) => Begins(e, t)}
<1>3. <<>> \in T
  <2>1. <<>> \in Seq(Keys)
    OBVIOUS
  <2>2. ASSUME Cut(k, Joined(<<>>)) PROVE e = <<>>
    <3> SUFFICES ASSUME e # <<>> PROVE FALSE
      OBVIOUS
    <3>1. PICK r \in Seq(Keys), x \in Keys : e = Append(r, x)
      BY SequenceEmptyOrAppend
    <3>2. PICK l \in Seq(Chars) : l = Joined(r) /\ Len(l) >= 1
      BY <1>1, JoinedTyped
    <3>3. Joined(Append(r, x)) = Joined(r) \o <<":">> \o x
      BY <1>1, JoinedAppend
    <3>4. k = Extended(l, x) /\ x \in Seq(Chars)
      BY <1>1, <1>2, <3>1, <3>2, <3>3, WordsTyped, Zenon DEF Extended
    <3>5. PICK m \in Nat : m = Len(l)
      OBVIOUS
    <3>6. PICK n \in Nat : n = Len(x)
      BY <3>4
    <3>7. Parts(l, m, x, n, k)
      BY <3>4, <3>5, <3>6, Coloned, Zenon DEF Extended
    <3>8. Len(k) >= 2
      BY <3>2, <3>5, <3>7 DEF Parts
    <3>9. Len(Joined(<<>>)) = 1
      BY JoinedAppend, WordsTyped
    <3> QED
      BY <2>2, <3>8, <3>9 DEF Cut, Begins
  <2>3. Begins(<<>>, <<>>)
    BY DEF Begins
  <2> QED
    BY <2>1, <2>2, <2>3
<1>4. ASSUME NEW s \in Seq(Keys), NEW w \in Keys, s \in T PROVE Append(s, w) \in T
  <2>1. PICK r \in Seq(Keys) : r = Append(s, w)
    BY AppendProperties
  <2>2. ASSUME Cut(k, Joined(r)) PROVE Begins(e, r)
    <3>1. PICK l \in Seq(Chars) : l = Joined(s)
      BY <1>1, JoinedTyped
    <3>2. Joined(Append(s, w)) = Joined(s) \o <<":">> \o w
      BY <1>1, JoinedAppend
    <3>3. Joined(r) = Extended(l, w)
      BY <2>1, <3>1, <3>2, Zenon DEF Extended
    <3>4. k = Joined(r) \/ Cut(k, l)
      BY <1>1, <2>2, <3>3, CutShorter
    <3>5. CASE k = Joined(r)
      <4>1. e = r
        BY <1>1, <1>2, <3>5, JoinedInjective
      <4> QED
        BY <1>1, <4>1, BeginsLaws DEF Begins
    <3>6. CASE Cut(k, l)
      <4>1. Begins(e, s)
        BY <1>4, <3>1, <3>6
      <4> QED
        BY <1>1, <2>1, <4>1, BeginsLaws
    <3> QED
      BY <3>4, <3>5, <3>6
  <2> QED
    BY <2>1, <2>2
<1>5. Seq(Keys) \subseteq T
  <2> HIDE DEF T
  <2> QED
    BY <1>3, <1>4, SeqInduct
<1> QED
  BY <1>2, <1>5

(* The key of a node is that of its parent's path. *)
LEMMA KeyOfIs ==
    ASSUME TypeOK, NEW at, PathsInv(at)
    PROVE  /\ DOMAIN KeyOf = DOMAIN nodes
           /\ \A i \in DOMAIN nodes :
                KeyOf[i] = IF nodes[i].parent = 0 THEN <<>> ELSE Joined(at[nodes[i].parent])
<1>1. PICK n \in Nat : n = Len(nodes) /\ DOMAIN nodes = 1..n
  BY Typed
<1>2. /\ nodes[1].parent = 0 /\ nodes[1].data = Root /\ at[1] = <<>> /\ Len(at) = n
      /\ at \in Seq(Seq(Names))
      /\ \A i \in 1..n : i # 1 =>
            /\ nodes[i].parent \in 1..n /\ nodes[i].parent < i /\ nodes[i].data \in Names
            /\ at[i] = Append(at[nodes[i].parent], nodes[i].data)
  BY <1>1 DEF PathsInv, TypeOK
<1>3. \A i \in 1..n : at[i] \in Seq(Words)
  <2>1. ASSUME NEW i \in 1..n PROVE at[i] \in Seq(Words)
    <3>1. at[i] \in Seq(Names)
      BY <1>2, ElementOfSeq
    <3> QED
      BY <3>1, WordsTyped, SeqMonotonic
  <2> QED
    BY <2>1
<1> DEFINE step(f) == [i \in DOMAIN nodes |->
                          IF nodes[i].parent = 0 THEN nodes[i].data
                          ELSE f[nodes[i].parent] \o <<":">> \o nodes[i].data]
           under == CHOOSE f : f = step(f)
<1>4. PICK g : g = [i \in 1..n |-> Joined(at[i])]
  OBVIOUS
<1>5. ASSUME NEW i \in 1..n
      PROVE  g[i] = IF nodes[i].parent = 0 THEN nodes[i].data
                    ELSE g[nodes[i].parent] \o <<":">> \o nodes[i].data
  <2>1. CASE i = 1
    BY <1>2, <1>4, <2>1, JoinedAppend
  <2>2. CASE i # 1
    <3>1. PICK j \in 1..n : j = nodes[i].parent
      BY <1>2, <2>2
    <3>2. PICK w \in Words : w = nodes[i].data
      BY <1>2, <2>2, WordsTyped
    <3>3. PICK s \in Seq(Words) : s = at[j]
      BY <1>3
    <3>4. Joined(Append(s, w)) = Joined(s) \o <<":">> \o w
      BY JoinedAppend
    <3>5. at[i] = Append(s, w)
      BY <1>2, <2>2, <3>1, <3>2, <3>3
    <3>6. g[i] = Joined(at[i]) /\ g[j] = Joined(s)
      BY <1>4, <3>3
    <3>7. j # 0 /\ g[i] = g[j] \o <<":">> \o w
      BY <3>4, <3>5, <3>6
    <3> QED
      BY <3>1, <3>2, <3>7
  <2> QED
    BY <2>1, <2>2
<1>6. g = step(g)
  BY <1>1, <1>4, <1>5
<1>7. under = step(under)
  BY <1>6
<1>8. PICK u : u = under
  OBVIOUS
<1>9. /\ DOMAIN KeyOf = 1..n
      /\ \A i \in 1..n :
            KeyOf[i] = IF nodes[i].parent = 0 THEN <<>> ELSE u[nodes[i].parent]
  <2>1. KeyOf = [i \in DOMAIN nodes |->
                   IF nodes[i].parent = 0 THEN <<>> ELSE under[nodes[i].parent]]
    BY Zenon DEF KeyOf
  <2> HIDE DEF under
  <2> QED
    BY <1>1, <1>8, <2>1
<1>10. \A i \in 1..n : u[i] = IF nodes[i].parent = 0 THEN nodes[i].data
                              ELSE u[nodes[i].parent] \o <<":">> \o nodes[i].data
  <2> HIDE DEF under
  <2>1. u = [i \in 1..n |-> IF nodes[i].parent = 0 THEN nodes[i].data
                            ELSE u[nodes[i].parent] \o <<":">> \o nodes[i].data]
    BY <1>1, <1>7, <1>8
  <2> QED
    BY <2>1
<1>11. \A i \in 1..n : u[i] = g[i]
  <2> DEFINE S == {i \in 1..n : u[i] # g[i]}
  <2> SUFFICES ASSUME S # {} PROVE FALSE
    OBVIOUS
  <2>1. S \in SUBSET Nat
    OBVIOUS
  <2>2. PICK i \in S : \A j \in S : i <= j
    <3> HIDE DEF S
    <3> QED
      BY <2>1, Least
  <2>3. i \in 1..n /\ u[i] # g[i]
    OBVIOUS
  <2>4. i # 1
    BY <1>2, <1>5, <1>10, <2>3
  <2>5. PICK j \in 1..n : j = nodes[i].parent /\ j < i
    BY <1>2, <2>3, <2>4
  <2>6. u[j] = g[j]
    BY <2>2, <2>3, <2>5
  <2> QED
    BY <1>5, <1>10, <2>3, <2>5, <2>6
<1>12. ASSUME NEW i \in 1..n
       PROVE  KeyOf[i] = IF nodes[i].parent = 0 THEN <<>> ELSE Joined(at[nodes[i].parent])
  <2>1. CASE nodes[i].parent = 0
    BY <1>9, <2>1
  <2>2. CASE nodes[i].parent # 0
    <3>1. nodes[i].parent \in 1..n
      BY <1>2, <2>2
    <3> QED
      BY <1>4, <1>9, <1>11, <2>2, <3>1
  <2> QED
    BY <2>1, <2>2
<1> QED
  BY <1>1, <1>9, <1>12

-----------------------------------------------------------------------------
(* The table. *)

(* The paths of scalars and nodes are paths of names. *)
LEMMA PathsTyped ==
    ASSUME TypeOK
    PROVE  /\ \A p \in DOMAIN scalars \cup {<<TokenName>>} : p \in Seq(Words)
           /\ \A at : PathsInv(at) =>
                 \A i \in DOMAIN nodes : nodes[i].parent # 0 =>
                    at[nodes[i].parent] \in Seq(Words)
<1>1. ASSUME NEW p \in Seq(Names) PROVE p \in Seq(Words)
  BY WordsTyped, SeqMonotonic
<1>2. <<TokenName>> \in Seq(Words)
  BY WordsTyped
<1>3. ASSUME NEW at, PathsInv(at), NEW i \in DOMAIN nodes, nodes[i].parent # 0
      PROVE  at[nodes[i].parent] \in Seq(Words)
  <2>1. PICK n \in Nat : n = Len(nodes) /\ DOMAIN nodes = 1..n
    BY Typed
  <2>2. at \in Seq(Seq(Names)) /\ Len(at) = n /\ nodes[i].parent \in 1..n
    BY <1>3, <2>1 DEF PathsInv
  <2>3. at[nodes[i].parent] \in Seq(Names)
    BY <2>2, ElementOfSeq
  <2> QED
    BY <1>1, <2>3
<1> QED
  BY <1>1, <1>2, <1>3, Typed

(* Flattening puts the tree's scalars under their paths. *)
LEMMA TableFlattened ==
    ASSUME TypeOK, NEW at, Walked(at), Flatten
    PROVE  ScalarsInTable' /\ OnlyScalarsInTable'
<1>1. PathsInv(at) /\ FileInv /\ open = <<>>
  BY DEF Walked
<1>2. scalars' = scalars /\ shape' = shape
  BY DEF Flatten, fileVars
<1>3. \A i \in Leaves : i \in DOMAIN nodes /\ \A j \in DOMAIN nodes : nodes[j].parent # i
  BY DEF Leaves
<1>4. \A i \in DOMAIN nodes :
        KeyOf[i] = IF nodes[i].parent = 0 THEN <<>> ELSE Joined(at[nodes[i].parent])
  BY <1>1, KeyOfIs
<1>5. ASSUME ~shape.nested, NEW p \in DOMAIN scalars
      PROVE  Joined(p) \in (DOMAIN conf_hash)' /\ conf_hash'[Joined(p)] = scalars[p]
  <2>1. PICK v \in DOMAIN nodes : Holds(at, v, p)
    BY <1>5 DEF Walked, ScalarsInv
  <2>2. /\ nodes[v].parent # 0 /\ at[nodes[v].parent] = p /\ nodes[v].data = scalars[p]
        /\ \A j \in DOMAIN nodes : nodes[j].parent # v
        /\ \A j \in DOMAIN nodes : nodes[j].parent # 0 /\ at[nodes[j].parent] = p => j = v
    BY <2>1 DEF Holds
  <2>3. v \in Leaves /\ KeyOf[v] = Joined(p)
    BY <1>4, <2>2 DEF Leaves
  <2>4. p \in Seq(Words)
    BY PathsTyped
  <2>5. ASSUME NEW i \in Leaves, KeyOf[i] = KeyOf[v] PROVE i = v
    <3>1. CASE nodes[i].parent = 0
      <4>1. Joined(p) = <<>>
        BY <1>3, <1>4, <2>3, <2>5, <3>1
      <4> QED
        BY <2>4, <4>1, JoinedTyped
    <3>2. CASE nodes[i].parent # 0
      <4>1. PICK q \in Seq(Words) : q = at[nodes[i].parent]
        BY <1>1, <1>3, <3>2, PathsTyped
      <4>2. Joined(q) = Joined(p)
        BY <1>3, <1>4, <2>3, <2>5, <3>2, <4>1
      <4>3. ItemsAt(q)
        BY <1>3, <1>5, <3>2, <4>1 DEF Walked, ItemsInv
      <4>4. p \in Seq(Keys)
        BY <1>1 DEF FileInv, KeyedInv
      <4>5. CASE q \in Seq(Keys)
        <5>1. q = p
          BY <4>2, <4>4, <4>5, JoinedInjective, WordsTyped
        <5> QED
          BY <1>3, <2>2, <3>2, <4>1, <5>1
      <4>6. CASE \E e : Sequenced(e) /\ Begins(e, q)
        <5>1. PICK e \in Seq(Keys) : Begins(e, q) /\ ~Begins(e, p)
          BY <4>6 DEF Sequenced
        <5>2. e \in Seq(Names) /\ q \in Seq(Names)
          <6>1. Seq(Keys) \subseteq Seq(Names)
            BY NamesAssumption, SeqMonotonic
          <6> QED
            BY <1>1, <1>3, <3>2, <4>1, <6>1, NodesTyped
        <5>3. Cut(Joined(e), Joined(p))
          BY <4>2, <5>1, <5>2, CutJoined
        <5> QED
          BY <4>4, <5>1, <5>3, CutBegins
      <4> QED
        BY <4>3, <4>5, <4>6 DEF ItemsAt
    <3> QED
      BY <3>1, <3>2
  <2>6. PICK i \in Leaves : KeyOf[i] = KeyOf[v] /\ conf_hash'[KeyOf[v]] = nodes[i].data
    BY <2>3, Flattened
  <2>7. KeyOf[v] \in (DOMAIN conf_hash)'
    BY <2>3, Flattened
  <2> QED
    BY <2>2, <2>3, <2>5, <2>6, <2>7
<1>6. ASSUME shape.plain, NEW k \in (DOMAIN conf_hash)'
      PROVE  \/ k = <<>> /\ ~shape.begun
             \/ \E p \in DOMAIN scalars : k = Joined(p)
  <2>1. PICK i \in Leaves : k = KeyOf[i]
    BY Flattened
  <2>2. ~shape.nested
    BY <1>1, <1>6 DEF FileInv
  <2>3. \/ i = 1 /\ ~shape.begun
        \/ nodes[i].parent # 0 /\ at[nodes[i].parent] \in DOMAIN scalars
    BY <1>1, <1>3, <1>6, <2>2 DEF Walked, LeavesInv
  <2>4. nodes[1].parent = 0
    BY <1>1 DEF PathsInv
  <2> QED
    BY <1>3, <1>4, <2>1, <2>3, <2>4
<1>7. ScalarsInTable'
  BY <1>2, <1>5 DEF ScalarsInTable
<1>8. OnlyScalarsInTable'
  BY <1>2, <1>6 DEF OnlyScalarsInTable
<1> QED
  BY <1>7, <1>8

(* The default token is a new entry, or none. *)
LEMMA TableMerged ==
    ASSUME Merge, ScalarsInTable, OnlyScalarsInTable
    PROVE  ScalarsInTable' /\ OnlyScalarsInTable'
<1> DEFINE t == Joined(<<TokenName>>)
<1>1. scalars' = scalars /\ shape' = shape
  BY DEF Merge, fileVars
<1>2. \/ t \in DOMAIN conf_hash /\ conf_hash' = conf_hash
      \/ t \notin DOMAIN conf_hash /\ conf_hash' = With(conf_hash, t, Default)
  BY DEF Merge
<1> HIDE DEF t
<1>3. /\ \A k \in DOMAIN conf_hash : k \in (DOMAIN conf_hash)' /\ conf_hash'[k] = conf_hash[k]
      /\ \A k \in (DOMAIN conf_hash)' : k \in DOMAIN conf_hash \/ k = t
  BY <1>2 DEF With
<1>4. ScalarsInTable'
  BY <1>1, <1>3 DEF ScalarsInTable
<1>5. OnlyScalarsInTable'
  <2>1. ASSUME shape.plain, NEW k \in (DOMAIN conf_hash)'
        PROVE  \/ k = <<>> /\ ~shape.begun
               \/ \E p \in DOMAIN scalars \cup {<<TokenName>>} : k = Joined(p)
    <3>1. CASE k \in DOMAIN conf_hash
      BY <2>1, <3>1 DEF OnlyScalarsInTable
    <3>2. CASE k = t
      BY <3>2, Zenon DEF t
    <3> QED
      BY <1>3, <2>1, <3>1, <3>2
  <2> QED
    BY <1>1, <2>1 DEF OnlyScalarsInTable
<1> QED
  BY <1>4, <1>5

(* At first there is no table. *)
LEMMA TableInit == Init => TableInv
  BY DEF Init, TableInv

(* A step keeps the table as the file is. *)
LEMMA TableNext == TypeOK /\ TreeInv /\ TableInv /\ [Next]_vars => TableInv'
<1> SUFFICES ASSUME TypeOK, TreeInv, TableInv, [Next]_vars PROVE TableInv'
  OBVIOUS
<1>1. ASSUME phase = "parse", phase' \in {"parse", "flatten"}, UNCHANGED tableVars
      PROVE  TableInv'
  BY <1>1 DEF TableInv, tableVars
<1>2. ASSUME NEW s \in Names, Scalar(s) PROVE TableInv'
  BY <1>1, <1>2 DEF Scalar
<1>3. ASSUME SequenceStart \/ SequenceEnd \/ MappingStart \/ MappingEnd \/ StreamEnd
      PROVE  TableInv'
  BY <1>1, <1>3 DEF SequenceStart, SequenceEnd, MappingStart, MappingEnd, StreamEnd
<1>4. ASSUME SyntaxError PROVE TableInv'
  BY <1>4 DEF SyntaxError, TableInv, tableVars
<1>5. ASSUME NoFile PROVE TableInv'
  <2>1. /\ phase = "parse" /\ phase' = "merge" /\ ~shape.begun
        /\ conf_hash' = conf_hash /\ section' = section /\ scalars' = scalars
    BY <1>5 DEF NoFile, tableVars, fileVars
  <2>2. DOMAIN scalars = {}
    BY <2>1 DEF TreeInv, Parsed, FileInv
  <2>3. section = None /\ conf_hash = NoEntries
    BY <2>1 DEF TableInv
  <2>4. (DOMAIN conf_hash)' = {}
    BY <2>1, <2>3 DEF NoEntries
  <2>5. ScalarsInTable' /\ OnlyScalarsInTable'
    BY <2>1, <2>2, <2>4 DEF ScalarsInTable, OnlyScalarsInTable
  <2> QED
    BY <2>1, <2>3, <2>5 DEF TableInv
<1>6. ASSUME Flatten PROVE TableInv'
  <2>1. phase = "flatten" /\ phase' = "merge" /\ section' = section
    BY <1>6 DEF Flatten
  <2>2. PICK at : Walked(at)
    BY <2>1 DEF TreeInv
  <2>3. ScalarsInTable' /\ OnlyScalarsInTable'
    BY <1>6, <2>2, TableFlattened
  <2> QED
    BY <2>1, <2>3 DEF TableInv
<1>7. ASSUME Merge PROVE TableInv'
  <2>1. phase = "merge" /\ phase' = "ready"
    BY <1>7 DEF Merge
  <2>2. ScalarsInTable' /\ OnlyScalarsInTable'
    BY <1>7, <2>1, TableMerged DEF TableInv
  <2> QED
    BY <2>1, <2>2 DEF TableInv
<1>8. ASSUME NEW s \in Sections, GetCollection(s) PROVE TableInv'
  <2>1. /\ phase = "ready" /\ phase' = "ready" /\ conf_hash' = conf_hash
        /\ scalars' = scalars /\ shape' = shape
    BY <1>8 DEF GetCollection, fileVars
  <2> QED
    BY <2>1 DEF TableInv, ScalarsInTable, OnlyScalarsInTable
<1>9. ASSUME UNCHANGED vars PROVE TableInv'
  BY <1>9 DEF vars, tableVars, fileVars, TableInv, ScalarsInTable, OnlyScalarsInTable
<1> QED
  BY <1>2, <1>3, <1>4, <1>5, <1>6, <1>7, <1>8, <1>9 DEF Next

-----------------------------------------------------------------------------
(* Sections. *)

(* x is what the key of p has behind its first name. *)
Below(p, x) ==
    /\ x \in Seq(Chars)
    /\ Joined(p) = Joined(<<p[1]>>) \o x /\ Joined(Tail(p)) = Root \o x
    /\ Len(p) = 1 => x = <<>>
    /\ Len(p) # 1 => x # <<>> /\ x[1] = ":"

(* A longer key is longer behind what came before. *)
LEMMA ExtendedBehind ==
    ASSUME NEW k \in Seq(Chars), NEW x \in Seq(Chars), NEW w \in Seq(Chars)
    PROVE  Extended(k \o x, w) = k \o Extended(x, w)
<1>1. PICK c \in Seq(Chars) : c = <<":">>
  BY WordsTyped
<1>2. PICK y \in Seq(Chars) : y = x \o c
  BY ConcatProperties
<1>3. (k \o x) \o c = k \o y
  BY <1>2, ConcatAssociative
<1>4. (k \o y) \o w = k \o (y \o w)
  BY ConcatAssociative
<1> QED
  BY <1>1, <1>2, <1>3, <1>4, Zenon DEF Extended

(* Every path has a first name and something behind it. *)
LEMMA BelowExists ==
    ASSUME NEW p \in Seq(Words), p # <<>>
    PROVE  \E x : Below(p, x)
<1> DEFINE T == {s \in Seq(Words) : s # <<>> => \E x : Below(s, x)}
<1>1. <<>> \in T
  OBVIOUS
<1>2. ASSUME NEW s \in Seq(Words), NEW w \in Words, s \in T PROVE Append(s, w) \in T
  <2>1. PICK r \in Seq(Words) : r = Append(s, w)
    BY AppendProperties
  <2>2. PICK n \in Nat : n = Len(s)
    OBVIOUS
  <2>3. Len(r) = n + 1 /\ r[n + 1] = w /\ \A i \in 1..n : r[i] = s[i]
    BY <2>1, <2>2, AppendProperties
  <2>4. w \in Seq(Chars)
    BY WordsTyped
  <2>5. CASE s = <<>>
    <3>1. r = <<w>> /\ r[1] = w /\ Len(r) = 1
      BY <2>1, <2>2, <2>3, <2>5
    <3>2. Tail(r) = <<>>
      BY <3>1
    <3>3. PICK j \in Seq(Chars) : j = Joined(r)
      BY JoinedTyped
    <3>4. Joined(r) = Joined(<<r[1]>>) \o <<>>
      BY <3>1, <3>3, ConcatEmptySeq
    <3>5. Joined(Tail(r)) = Root \o <<>>
      BY <3>2, JoinedAppend, WordsTyped, ConcatEmptySeq
    <3>6. <<>> \in Seq(Chars)
      OBVIOUS
    <3>7. Below(r, <<>>)
      BY <3>1, <3>4, <3>5, <3>6 DEF Below
    <3> QED
      BY <2>1, <3>7
  <2>6. CASE s # <<>>
    <3>1. PICK x : Below(s, x)
      BY <1>2, <2>6
    <3>2. n # 0 /\ r[1] = s[1] /\ Len(r) # 1
      BY <2>2, <2>3, <2>6
    <3>3. PICK f \in Seq(Words) : f = <<s[1]>>
      <4>1. 1 \in 1..n
        BY <3>2
      <4>2. PICK v \in Words : v = s[1]
        BY <2>2, <4>1, ElementOfSeq
      <4>3. <<v>> \in Seq(Words)
        OBVIOUS
      <4> QED
        BY <4>2, <4>3
    <3>4. PICK k \in Seq(Chars) : k = Joined(f)
      BY JoinedTyped
    <3>5. x \in Seq(Chars) /\ Joined(s) = k \o x /\ Joined(Tail(s)) = Root \o x
      BY <3>1, <3>3, <3>4 DEF Below
    <3>6. Tail(s) \in Seq(Words)
      BY <2>6, HeadTailProperties
    <3>7. Tail(r) = Append(Tail(s), w)
      BY <2>1, <2>6, HeadTailAppend
    <3>8. PICK y : y = Extended(x, w)
      OBVIOUS
    <3>9. Joined(r) = Extended(Joined(s), w) /\ Joined(Tail(r)) = Extended(Joined(Tail(s)), w)
      BY <2>1, <3>6, <3>7, JoinedAppend, Zenon DEF Extended
    <3>10. Joined(r) = k \o y
      <4>1. Extended(k \o x, w) = k \o Extended(x, w)
        BY <2>4, <3>5, ExtendedBehind
      <4> QED
        BY <3>5, <3>8, <3>9, <4>1, Zenon
    <3>11. Joined(Tail(r)) = Root \o y
      <4>1. PICK root \in Seq(Chars) : root = Root
        BY WordsTyped
      <4>2. Extended(root \o x, w) = root \o Extended(x, w)
        BY <2>4, <3>5, ExtendedBehind
      <4> QED
        BY <3>5, <3>8, <3>9, <4>1, <4>2, Zenon
    <3>12. PICK a \in Nat : a = Len(x)
      BY <3>5
    <3>13. PICK b \in Nat : b = Len(w)
      BY <2>4
    <3>14. Parts(x, a, w, b, y)
      BY <2>4, <3>5, <3>8, <3>12, <3>13, Coloned, Zenon DEF Extended
    <3>15. y \in Seq(Chars) /\ y # <<>> /\ y[1] = ":"
      <4>1. y \in Seq(Chars) /\ Len(y) = a + 1 + b
        BY <3>14 DEF Parts
      <4>2. y # <<>>
        BY <4>1
      <4>3. CASE a = 0
        BY <3>14, <4>3 DEF Parts
      <4>4. CASE a # 0
        <5>1. 1 \in 1..a
          BY <4>4
        <5>2. y[1] = x[1]
          BY <3>14, <5>1 DEF Parts
        <5>3. x # <<>>
          BY <3>12, <4>4
        <5> QED
          BY <3>1, <4>1, <4>2, <5>2, <5>3 DEF Below
      <4> QED
        BY <4>1, <4>2, <4>3, <4>4
    <3>16. Joined(r) = Joined(<<r[1]>>) \o y
      BY <3>2, <3>3, <3>4, <3>10
    <3>17. Below(r, y)
      BY <3>2, <3>11, <3>15, <3>16 DEF Below
    <3> QED
      BY <2>1, <3>17
  <2> QED
    BY <2>5, <2>6
<1>3. Seq(Words) \subseteq T
  <2> HIDE DEF T
  <2> QED
    BY <1>1, <1>2, SeqInduct
<1> QED
  BY <1>3

(* A sequence is a prefix when the other one begins with it. *)
LEMMA PrefixBegins ==
    ASSUME NEW s \in Seq(Chars), NEW t \in Seq(Chars)
    PROVE  IsPrefix(s, t) <=> Begins(s, t)
<1>1. PICK m \in Nat : m = Len(s)
  OBVIOUS
<1>2. PICK n \in Nat : n = Len(t)
  OBVIOUS
<1>3. SubSeq(s, 1, m) = s
  BY <1>1, SubSeqFull
<1>4. ASSUME m <= n
      PROVE  s = SubSeq(t, 1, m) <=> \A i \in 1..m : t[i] = s[i]
  <2>1. \A i \in 1..m : t[i] \in Chars
    BY <1>2, <1>4
  <2>2. PICK u : u = SubSeq(t, 1, m)
    OBVIOUS
  <2>3. /\ u \in Seq(Chars) /\ Len(u) = m
        /\ \A i \in 1..m : u[i] = t[i]
    <3>1. /\ SubSeq(t, 1, m) \in Seq(Chars)
          /\ Len(SubSeq(t, 1, m)) = IF 1 <= m THEN m - 1 + 1 ELSE 0
          /\ \A i \in 1..(m - 1 + 1) : SubSeq(t, 1, m)[i] = t[1 + i - 1]
      BY <2>1, SubSeqProperties
    <3>2. m - 1 + 1 = m /\ (~(1 <= m) => m = 0) /\ \A i \in 1..m : 1 + i - 1 = i
      OBVIOUS
    <3> QED
      BY <2>2, <3>1, <3>2
  <2>4. (\A i \in 1..m : t[i] = s[i]) => u = s
    BY <1>1, <2>3, SeqEqual
  <2> QED
    BY <2>2, <2>3, <2>4
<1> QED
  BY <1>1, <1>2, <1>3, <1>4 DEF IsPrefix, Begins

(* What lies behind a prefix and the colon. *)
LEMMA Dropped ==
    ASSUME NEW k \in Seq(Chars), NEW x \in Seq(Chars)
    PROVE  SubSeq(k \o x, Len(k) + 2, Len(k \o x)) = SubSeq(x, 2, Len(x))
<1>1. PICK m \in Nat : m = Len(k)
  OBVIOUS
<1>2. PICK n \in Nat : n = Len(x)
  OBVIOUS
<1>3. PICK r : r = k \o x
  OBVIOUS
<1>4. /\ r \in Seq(Chars) /\ Len(r) = m + n
      /\ \A i \in 1..(m + n) : r[i] = IF i <= m THEN k[i] ELSE x[i - m]
  BY <1>1, <1>2, <1>3, ConcatProperties, Zenon
<1>5. /\ SubSeq(r, m + 2, m + n) \in Seq(Chars)
      /\ Len(SubSeq(r, m + 2, m + n)) = IF m + 2 <= m + n THEN m + n - (m + 2) + 1 ELSE 0
      /\ \A i \in 1..(m + n - (m + 2) + 1) : SubSeq(r, m + 2, m + n)[i] = r[m + 2 + i - 1]
  <2>1. \A i \in (m + 2)..(m + n) : r[i] \in Chars
    BY <1>4
  <2>2. m + 2 \in Int /\ m + n \in Int
    OBVIOUS
  <2> QED
    BY <2>1, <2>2, SubSeqProperties
<1>6. /\ SubSeq(x, 2, n) \in Seq(Chars)
      /\ Len(SubSeq(x, 2, n)) = IF 2 <= n THEN n - 2 + 1 ELSE 0
      /\ \A i \in 1..(n - 2 + 1) : SubSeq(x, 2, n)[i] = x[2 + i - 1]
  <2>1. \A i \in 2..n : x[i] \in Chars
    BY <1>2
  <2> QED
    BY <2>1, SubSeqProperties
<1>7. PICK u : u = SubSeq(r, m + 2, m + n)
  OBVIOUS
<1>8. PICK v : v = SubSeq(x, 2, n)
  OBVIOUS
<1>9. PICK l \in Nat : l = IF 2 <= n THEN n - 1 ELSE 0
  OBVIOUS
<1>10. u \in Seq(Chars) /\ Len(u) = l /\ \A i \in 1..l : u[i] = x[i + 1]
  <2>1. /\ m + n - (m + 2) + 1 = n - 1 /\ (m + 2 <= m + n <=> 2 <= n)
        /\ \A i \in 1..l : /\ i \in 1..(n - 1) /\ m + 2 + i - 1 \in 1..(m + n)
                           /\ ~(m + 2 + i - 1 <= m) /\ m + 2 + i - 1 - m = i + 1
    BY <1>9
  <2>2. u \in Seq(Chars) /\ Len(u) = l
    BY <1>5, <1>7, <1>9, <2>1
  <2>3. ASSUME NEW i \in 1..l PROVE u[i] = x[i + 1]
    <3>1. PICK j \in 1..(m + n) : j = m + 2 + i - 1 /\ ~(j <= m) /\ j - m = i + 1
      BY <2>1
    <3>2. i \in 1..(m + n - (m + 2) + 1)
      BY <2>1
    <3>3. SubSeq(r, m + 2, m + n)[i] = r[m + 2 + i - 1]
      BY <1>5, <3>2
    <3>4. u[i] = r[j]
      BY <1>7, <3>1, <3>3
    <3>5. r[j] = x[j - m]
      BY <1>4, <3>1
    <3> QED
      BY <3>1, <3>4, <3>5
  <2> QED
    BY <2>2, <2>3
<1>11. v \in Seq(Chars) /\ Len(v) = l /\ \A i \in 1..l : v[i] = x[i + 1]
  <2>1. n - 2 + 1 = n - 1 /\ \A i \in 1..l : i \in 1..(n - 1) /\ 2 + i - 1 = i + 1
    BY <1>9
  <2> QED
    BY <1>6, <1>8, <1>9, <2>1
<1>12. u = v
  BY <1>10, <1>11, SeqEqual
<1> QED
  BY <1>1, <1>2, <1>3, <1>4, <1>7, <1>8, <1>12

(* No name has a colon: a key that begins with that of s begins with a first
   name that begins with s. *)
LEMMA FirstName ==
    ASSUME NEW s \in PlainWords, NEW v \in Words, NEW x \in Seq(Chars), x # <<>> => x[1] = ":",
           Begins(Joined(<<s>>), Joined(<<v>>) \o x)
    PROVE  IsPrefix(s, v)
<1>1. s \in Seq(Chars) /\ v \in Seq(Chars) /\ s \in Words
  BY WordsTyped
<1>2. PICK m \in Nat : m = Len(s)
  BY <1>1
<1>3. PICK n \in Nat : n = Len(v)
  BY <1>1
<1>4. PICK l \in Nat : l = Len(x)
  OBVIOUS
<1>5. PICK root \in Seq(Chars) : root = Root /\ 1 = Len(root)
  BY WordsTyped
<1>6. Joined(<<s>>) = Extended(root, s) /\ Joined(<<v>>) = Extended(root, v)
  <2>1. <<>> \in Seq(Words) /\ Append(<<>>, s) = <<s>> /\ Append(<<>>, v) = <<v>>
    BY <1>1
  <2>2. Joined(Append(<<>>, s)) = root \o <<":">> \o s /\ Joined(Append(<<>>, v)) = root \o <<":">> \o v
    BY <1>1, <1>5, <2>1, JoinedAppend, Zenon
  <2> QED
    BY <2>1, <2>2 DEF Extended
<1>7. PICK k : k = Extended(root, s)
  OBVIOUS
<1>8. PICK h : h = Extended(root, v)
  OBVIOUS
<1>9. Parts(root, 1, s, m, k) /\ Parts(root, 1, v, n, h)
  BY <1>1, <1>2, <1>3, <1>5, <1>7, <1>8, Coloned, Zenon DEF Extended
<1>10. PICK r : r = h \o x
  OBVIOUS
<1>11. /\ Len(r) = 1 + 1 + n + l
       /\ \A i \in 1..(1 + 1 + n + l) : r[i] = IF i <= 1 + 1 + n THEN h[i] ELSE x[i - (1 + 1 + n)]
  <2>1. h \in Seq(Chars) /\ 1 + 1 + n = Len(h)
    BY <1>9 DEF Parts
  <2>2. /\ Len(h \o x) = Len(h) + Len(x)
        /\ \A i \in 1..(Len(h) + Len(x)) :
              (h \o x)[i] = IF i <= Len(h) THEN h[i] ELSE x[i - Len(h)]
    BY <2>1, ConcatProperties
  <2> QED
    BY <1>4, <1>10, <2>1, <2>2, Zenon
<1>12. /\ 1 + 1 + m <= 1 + 1 + n + l
       /\ \A i \in 1..(1 + 1 + m) : r[i] = k[i]
  <2>1. Len(k) = 1 + 1 + m
    BY <1>9 DEF Parts
  <2>2. Begins(k, r)
    BY <1>6, <1>7, <1>8, <1>10
  <2> QED
    BY <1>11, <2>1, <2>2 DEF Begins
<1>13. ASSUME NEW i \in 1..m PROVE i <= n /\ v[i] = s[i]
  <2>1. s[i] # ":"
    BY <1>2, WordsTyped
  <2>2. PICK j \in 1..(1 + 1 + m) : j = 1 + 1 + i
    OBVIOUS
  <2>3. k[j] = s[i] /\ r[j] = k[j] /\ j \in 1..(1 + 1 + n + l)
    BY <1>9, <1>12, <2>2 DEF Parts
  <2>4. CASE i <= n
    <3>1. i \in 1..n /\ j <= 1 + 1 + n
      BY <2>2, <2>4
    <3>2. h[j] = v[i]
      BY <1>9, <2>2, <3>1 DEF Parts
    <3> QED
      BY <1>11, <2>3, <2>4, <3>1, <3>2
  <2>5. CASE ~(i <= n)
    <3>1. PICK g \in 1..m : g = n + 1
      BY <2>5
    <3>2. PICK e \in 1..(1 + 1 + m) : e = 1 + 1 + g
      OBVIOUS
    <3>3. /\ e \in 1..(1 + 1 + n + l) /\ ~(e <= 1 + 1 + n) /\ e - (1 + 1 + n) = 1 /\ l # 0
      BY <1>12, <3>1, <3>2
    <3>4. r[e] = x[1]
      BY <1>11, <3>3
    <3>5. k[e] = s[g] /\ r[e] = k[e]
      BY <1>9, <1>12, <3>2 DEF Parts
    <3>6. x # <<>>
      BY <1>4, <3>3
    <3>7. s[g] # ":"
      BY <1>2, WordsTyped
    <3> QED
      BY <3>4, <3>5, <3>6, <3>7
  <2> QED
    BY <2>4, <2>5
<1>14. m <= n
  <2>1. CASE m = 0
    BY <2>1
  <2>2. CASE m # 0
    <3>1. m \in 1..m
      BY <2>2
    <3> QED
      BY <1>13, <3>1
  <2> QED
    BY <2>1, <2>2
<1>15. Begins(s, v)
  BY <1>2, <1>3, <1>13, <1>14 DEF Begins
<1> QED
  BY <1>1, <1>15, PrefixBegins

(* A sequence begins with what something is put behind. *)
LEMMA BeginsConcat ==
    ASSUME NEW k \in Seq(Chars), NEW x \in Seq(Chars)
    PROVE  Begins(k, k \o x) /\ k \o x \in Seq(Chars)
<1>1. PICK m \in Nat : m = Len(k)
  OBVIOUS
<1>2. PICK n \in Nat : n = Len(x)
  OBVIOUS
<1>3. /\ k \o x \in Seq(Chars) /\ Len(k \o x) = m + n
      /\ \A i \in 1..(m + n) : (k \o x)[i] = IF i <= m THEN k[i] ELSE x[i - m]
  BY <1>1, <1>2, ConcatProperties, Zenon
<1>4. \A i \in 1..m : i \in 1..(m + n) /\ i <= m
  OBVIOUS
<1>5. m <= m + n
  OBVIOUS
<1> QED
  BY <1>1, <1>3, <1>4, <1>5 DEF Begins

(* The paths of a section, and what is behind their first names. *)
Paths(s) == {p \in DOMAIN scalars : p[1] = s}
Behind(p) == SubSeq(Joined(Tail(p)), Len(Root) + 2, Len(Joined(Tail(p))))

(* Of a path of a section: its key begins with the section's, and the rest of it is
   what is behind its first name. *)
LEMMA BehindIs ==
    ASSUME NEW p \in Seq(Words), p # <<>>, NEW x, Below(p, x)
    PROVE  /\ <<p[1]>> \in Seq(Words) /\ p[1] \in Words
           /\ Behind(p) = SubSeq(x, 2, Len(x))
           /\ Rest(Joined(p), Joined(<<p[1]>>)) = SubSeq(x, 2, Len(x))
           /\ IsPrefix(Joined(<<p[1]>>), Joined(p))
<1>1. PICK v \in Words : v = p[1]
  <2>1. Len(p) \in Nat \ {0}
    BY EmptySeq
  <2>2. 1 \in 1..Len(p)
    BY <2>1
  <2> QED
    BY <2>2, ElementOfSeq
<1>2. <<v>> \in Seq(Words)
  OBVIOUS
<1>3. PICK k \in Seq(Chars) : k = Joined(<<v>>)
  BY <1>2, JoinedTyped
<1>4. PICK root \in Seq(Chars) : root = Root
  BY WordsTyped
<1>5. x \in Seq(Chars) /\ Joined(p) = k \o x /\ Joined(Tail(p)) = root \o x
  BY <1>1, <1>3, <1>4 DEF Below
<1>6. SubSeq(k \o x, Len(k) + 2, Len(k \o x)) = SubSeq(x, 2, Len(x))
  BY <1>5, Dropped
<1>7. SubSeq(root \o x, Len(root) + 2, Len(root \o x)) = SubSeq(x, 2, Len(x))
  BY <1>5, Dropped
<1>8. Behind(p) = SubSeq(x, 2, Len(x))
  BY <1>4, <1>5, <1>7, Zenon DEF Behind
<1>9. Rest(Joined(p), Joined(<<p[1]>>)) = SubSeq(x, 2, Len(x))
  BY <1>1, <1>3, <1>5, <1>6, Zenon DEF Rest
<1>10. IsPrefix(k, k \o x)
  BY <1>5, BeginsConcat, PrefixBegins
<1> QED
  BY <1>1, <1>2, <1>3, <1>5, <1>8, <1>9, <1>10

(* No other top-level key begins with the section's name, and the section is
   not a scalar. *)
Alone(s) ==
    /\ shape.plain /\ <<s>> \notin DOMAIN scalars
    /\ \A n \in shape.top \cup {TokenName} : IsPrefix(s, n) => n = s

(* What of the table begins with the section's name are its scalars. *)
LEMMA SectionHits ==
    ASSUME TypeOK, FileInv, ScalarsInTable, OnlyScalarsInTable, NEW s \in Sections, Alone(s)
    PROVE  /\ Hits(s) = {Joined(p) : p \in Paths(s)}
           /\ \A p \in Paths(s) :
                /\ p \in Seq(PlainWords) /\ p \in Seq(Words) /\ p # <<>>
                /\ Joined(p) # Joined(<<s>>)
                /\ conf_hash[Joined(p)] = scalars[p]
<1>1. /\ s \in PlainWords /\ s \in Words /\ s # TokenName
      /\ <<s>> \in Seq(PlainWords) /\ <<s>> \in Seq(Words)
  BY NamesAssumption DEF Words, PlainWords
<1>2. ASSUME NEW p \in DOMAIN scalars
      PROVE  /\ p \in Seq(PlainWords) /\ p \in Seq(Words) /\ p # <<>> /\ p[1] \in shape.top
             /\ Joined(p) \in DOMAIN conf_hash /\ conf_hash[Joined(p)] = scalars[p]
  <2>1. p \in Seq(PlainWords) /\ p \in Seq(Words)
    BY PathsTyped, WordsTyped DEF FileInv, KeyedInv
  <2>2. Len(p) >= 1 /\ p[1] \in shape.top /\ ~shape.nested
    BY DEF FileInv, Alone
  <2>3. p # <<>>
    BY <2>2
  <2> QED
    BY <2>1, <2>2, <2>3 DEF ScalarsInTable
<1>3. ASSUME NEW p \in Paths(s)
      PROVE  /\ p \in Seq(PlainWords) /\ p \in Seq(Words) /\ p # <<>>
             /\ Joined(p) # Joined(<<s>>)
             /\ conf_hash[Joined(p)] = scalars[p] /\ Joined(p) \in Hits(s)
  <2>1. p \in DOMAIN scalars /\ p[1] = s
    BY DEF Paths
  <2>2. p # <<s>>
    BY <2>1 DEF Alone
  <2>3. PICK x : Below(p, x)
    BY <1>2, <2>1, BelowExists
  <2>4. IsPrefix(Joined(<<s>>), Joined(p))
    BY <1>2, <2>1, <2>3, BehindIs
  <2>5. Joined(p) # Joined(<<s>>)
    BY <1>1, <1>2, <2>1, <2>2, JoinedInjective
  <2> QED
    BY <1>2, <2>1, <2>4, <2>5 DEF Hits
<1>4. ASSUME NEW k \in Hits(s) PROVE \E p \in Paths(s) : k = Joined(p)
  <2>1. k \in DOMAIN conf_hash /\ IsPrefix(Joined(<<s>>), k)
    BY DEF Hits
  <2>2. k # <<>>
    <3>1. PICK l \in Nat : l = Len(Joined(<<s>>)) /\ l >= 1
      BY <1>1, JoinedTyped
    <3>2. Len(Joined(<<s>>)) <= Len(k)
      BY <2>1 DEF IsPrefix
    <3> QED
      BY <3>1, <3>2
  <2>3. PICK p \in DOMAIN scalars \cup {<<TokenName>>} : k = Joined(p)
    BY <2>1, <2>2 DEF OnlyScalarsInTable, Alone
  <2>4. p \in Seq(Words) /\ p # <<>> /\ p[1] \in shape.top \cup {TokenName}
    BY <1>2, PathsTyped
  <2>5. PICK x : Below(p, x)
    BY <2>4, BelowExists
  <2>6. p[1] \in Words
    BY <2>4, <2>5, BehindIs
  <2>7. x \in Seq(Chars) /\ (x # <<>> => x[1] = ":") /\ Joined(p) = Joined(<<p[1]>>) \o x
    BY <2>5 DEF Below
  <2>8. Begins(Joined(<<s>>), Joined(p))
    <3>1. Joined(<<s>>) \in Seq(Chars) /\ Joined(p) \in Seq(Chars)
      BY <1>1, <2>4, JoinedTyped
    <3> QED
      BY <2>1, <2>3, <3>1, PrefixBegins
  <2>9. IsPrefix(s, p[1])
    BY <1>1, <2>6, <2>7, <2>8, FirstName
  <2>10. p[1] = s
    BY <2>4, <2>9 DEF Alone
  <2>11. p \in DOMAIN scalars
    BY <1>1, <2>10
  <2> QED
    BY <2>3, <2>10, <2>11 DEF Paths
<1> QED
  BY <1>3, <1>4

(* What is behind the first names of two scalars of a section differs. *)
LEMMA BehindInjective ==
    ASSUME NEW p \in Seq(PlainWords), NEW q \in Seq(PlainWords), p # <<>>, q # <<>>, p[1] = q[1],
           p # <<p[1]>>, q # <<q[1]>>, Behind(p) = Behind(q)
    PROVE  p = q
<1>1. ASSUME NEW r \in Seq(PlainWords), r # <<>>, r # <<r[1]>> PROVE Len(r) # 1
  BY <1>1
<1>2. PICK x : Below(p, x)
  BY BelowExists, WordsTyped
<1>3. PICK y : Below(q, y)
  BY BelowExists, WordsTyped
<1>4. x \in Seq(Chars) /\ x # <<>> /\ x[1] = ":" /\ Joined(p) = Joined(<<p[1]>>) \o x
  BY <1>1, <1>2 DEF Below
<1>5. y \in Seq(Chars) /\ y # <<>> /\ y[1] = ":" /\ Joined(q) = Joined(<<q[1]>>) \o y
  BY <1>1, <1>3 DEF Below
<1>6. SubSeq(x, 2, Len(x)) = SubSeq(y, 2, Len(y))
  BY <1>2, <1>3, BehindIs, WordsTyped
<1>7. Tail(x) = Tail(y)
  BY <1>4, <1>5, <1>6, TailIsSubSeq
<1>8. x = y
  <2>1. PICK m \in Nat : m = Len(x)
    BY <1>4, LenProperties
  <2>2. PICK n \in Nat : n = Len(y)
    BY <1>5, LenProperties
  <2>3. m # 0 /\ n # 0
    BY <1>4, <1>5, <2>1, <2>2
  <2>4. PICK u : u = Tail(x)
    OBVIOUS
  <2>5. Len(u) = m - 1 /\ \A i \in 1..(m - 1) : u[i] = x[i + 1]
    BY <1>4, <2>1, <2>4, HeadTailProperties
  <2>6. Len(u) = n - 1 /\ \A i \in 1..(n - 1) : u[i] = y[i + 1]
    BY <1>5, <1>7, <2>2, <2>4, HeadTailProperties
  <2>7. m = n
    BY <2>3, <2>5, <2>6
  <2>8. ASSUME NEW i \in 1..m PROVE x[i] = y[i]
    <3>1. CASE i = 1
      BY <1>4, <1>5, <3>1
    <3>2. CASE i # 1
      <4>1. i - 1 \in 1..(m - 1) /\ i = i - 1 + 1
        BY <3>2
      <4>2. PICK j \in 1..(m - 1) : i = j + 1
        BY <4>1
      <4> QED
        BY <2>5, <2>6, <2>7, <4>2
    <3> QED
      BY <3>1, <3>2
  <2> QED
    BY <1>4, <1>5, <2>1, <2>2, <2>7, <2>8, SeqEqual
<1>9. Joined(p) = Joined(q)
  BY <1>4, <1>5, <1>8
<1> QED
  BY <1>9, JoinedInjective

(* A collection is what its section has. *)
LEMMA SectionCollected ==
    ASSUME TypeOK, FileInv, ScalarsInTable, OnlyScalarsInTable, NEW s \in Sections, Alone(s),
           GetCollection(s)
    PROVE  /\ DOMAIN collection' = {Behind(p) : p \in Paths(s)}
           /\ \A p \in Paths(s) : collection'[Behind(p)] = scalars[p]
<1>1. /\ Hits(s) = {Joined(p) : p \in Paths(s)}
      /\ \A p \in Paths(s) :
            /\ p \in Seq(PlainWords) /\ p \in Seq(Words) /\ p # <<>>
            /\ Joined(p) # Joined(<<s>>)
            /\ conf_hash[Joined(p)] = scalars[p]
  BY SectionHits
<1>2. ASSUME NEW p \in Paths(s)
      PROVE  p[1] = s /\ p # <<s>> /\ Rest(Joined(p), Joined(<<s>>)) = Behind(p)
  <2>1. p[1] = s
    BY DEF Paths
  <2>2. PICK x : Below(p, x)
    BY <1>1, BelowExists
  <2>3. Rest(Joined(p), Joined(<<p[1]>>)) = Behind(p)
    BY <1>1, <2>2, BehindIs
  <2>4. p # <<s>>
    BY <1>1
  <2> QED
    BY <2>1, <2>3, <2>4
<1>3. PICK b :
         /\ collection' \in [{e[1] : e \in Entries(s, b)} -> {e[2] : e \in Entries(s, b)}]
         /\ \A n \in DOMAIN collection' : <<n, collection'[n]>> \in Entries(s, b)
  BY Collected
<1>4. PICK E : E = Entries(s, b)
  OBVIOUS
<1>5. /\ collection' \in [{e[1] : e \in E} -> {e[2] : e \in E}]
      /\ \A n \in DOMAIN collection' : <<n, collection'[n]>> \in E
  BY <1>3, <1>4
<1>6. E = {<<Behind(p), scalars[p]>> : p \in Paths(s)}
  <2>1. E = {<<IF k = Joined(<<s>>) THEN b ELSE Rest(k, Joined(<<s>>)), conf_hash[k]>> : k \in Hits(s)}
    BY <1>4 DEF Entries
  <2>2. ASSUME NEW p \in Paths(s)
        PROVE  <<IF Joined(p) = Joined(<<s>>) THEN b ELSE Rest(Joined(p), Joined(<<s>>)),
                 conf_hash[Joined(p)]>> = <<Behind(p), scalars[p]>>
    BY <1>1, <1>2
  <2>3. \A e \in E : \E p \in Paths(s) : e = <<Behind(p), scalars[p]>>
    BY <1>1, <2>1, <2>2
  <2>4. \A p \in Paths(s) : <<Behind(p), scalars[p]>> \in E
    BY <1>1, <2>1, <2>2
  <2> QED
    BY <2>3, <2>4
<1>7. {e[1] : e \in E} = {Behind(p) : p \in Paths(s)}
  <2>1. ASSUME NEW e \in E PROVE \E p \in Paths(s) : e[1] = Behind(p)
    <3>1. PICK p \in Paths(s) : e = <<Behind(p), scalars[p]>>
      BY <1>6
    <3> QED
      BY <3>1
  <2>2. ASSUME NEW p \in Paths(s) PROVE \E e \in E : e[1] = Behind(p)
    <3>1. PICK e \in E : e = <<Behind(p), scalars[p]>>
      BY <1>6
    <3> QED
      BY <3>1
  <2> QED
    BY <2>1, <2>2
<1>8. DOMAIN collection' = {Behind(p) : p \in Paths(s)}
  BY <1>5, <1>7
<1>9. ASSUME NEW p \in Paths(s) PROVE collection'[Behind(p)] = scalars[p]
  <2>1. PICK q \in Paths(s) : <<Behind(p), collection'[Behind(p)]>> = <<Behind(q), scalars[q]>>
    BY <1>5, <1>6, <1>8
  <2>2. Behind(p) = Behind(q) /\ collection'[Behind(p)] = scalars[q]
    BY <2>1
  <2>3. p = q
    BY <1>1, <1>2, <2>2, BehindInjective
  <2> QED
    BY <2>2, <2>3
<1> QED
  BY <1>8, <1>9

-----------------------------------------------------------------------------
(* The configuration manager as a whole. *)

(* At first nothing is read and no section is asked for. *)
LEMMA ConfigInit == Init => IInv
  BY TypesInit, TreeInit, TableInit DEF Init, IInv, CollectionIsSection

(* Asking for a section gives its scalars, and nothing else touches them. *)
LEMMA SectionNext == IInv /\ [Next]_vars => CollectionIsSection'
<1> SUFFICES ASSUME TypeOK, TreeInv, TableInv, CollectionIsSection, [Next]_vars
             PROVE  CollectionIsSection'
  BY DEF IInv
<1>1. ASSUME phase # "ready", section' = section PROVE CollectionIsSection'
  BY <1>1 DEF TableInv, CollectionIsSection
<1>2. ASSUME NEW s \in Names, Scalar(s) PROVE CollectionIsSection'
  BY <1>1, <1>2 DEF Scalar, tableVars
<1>3. ASSUME SequenceStart \/ SequenceEnd \/ MappingStart \/ MappingEnd PROVE CollectionIsSection'
  BY <1>1, <1>3 DEF SequenceStart, SequenceEnd, MappingStart, MappingEnd, tableVars
<1>4. ASSUME StreamEnd \/ SyntaxError \/ NoFile \/ Flatten \/ Merge PROVE CollectionIsSection'
  BY <1>1, <1>4 DEF StreamEnd, SyntaxError, NoFile, Flatten, Merge, tableVars
<1>5. ASSUME NEW s \in Sections, GetCollection(s) PROVE CollectionIsSection'
  <2>1. phase = "ready" /\ section' = s /\ scalars' = scalars /\ shape' = shape
    BY <1>5 DEF GetCollection, fileVars
  <2>2. FileInv /\ ScalarsInTable /\ OnlyScalarsInTable
    BY <2>1 DEF TreeInv, Walked, TableInv
  <2>3. ASSUME Alone(s)
        PROVE  /\ DOMAIN collection' = {Behind(p) : p \in Paths(s)}
               /\ \A p \in Paths(s) : collection'[Behind(p)] = scalars[p]
    BY <1>5, <2>2, <2>3, SectionCollected
  <2> QED
    BY <2>1, <2>3, Zenon DEF CollectionIsSection, Alone, Paths, Behind
<1>6. ASSUME UNCHANGED vars PROVE CollectionIsSection'
  BY <1>6 DEF vars, tableVars, fileVars, CollectionIsSection
<1> QED
  BY <1>2, <1>3, <1>4, <1>5, <1>6 DEF Next

(* Every step keeps the inductive invariant. *)
LEMMA ConfigNext == IInv /\ [Next]_vars => IInv'
  BY TypesNext, TreeNext, TableNext, SectionNext DEF IInv

(* The inductive invariant always holds. *)
THEOREM ConfigInvariant == Spec => []IInv
<1> QED
  BY ConfigInit, ConfigNext, PTL DEF Spec

(* Every scalar of the file that is not in a sequence is in the table under its path,
   as process_layer and to_hash put it there, for any file without a sequence directly in
   a sequence. *)
THEOREM ScalarsKeepTheirPath == Spec => []ScalarsAtTheirPath
<1>1. IInv => ScalarsAtTheirPath
  BY DEF IInv, TableInv, ScalarsInTable, ScalarsAtTheirPath
<1> QED
  BY <1>1, ConfigInvariant, PTL

(* The table has nothing that is not in the file but the default token, which
   ipcam_base_app_load_config adds, if the file has only mappings that are not empty. *)
THEOREM TableHasNothingElse == Spec => []NothingElseInTable
<1>1. ASSUME IInv, phase = "ready", shape.plain, scalars # NoEntries
      PROVE  DOMAIN conf_hash \subseteq {Joined(p) : p \in DOMAIN scalars \cup {<<TokenName>>}}
  <2>1. FileInv /\ OnlyScalarsInTable /\ TypeOK
    BY <1>1 DEF IInv, TreeInv, Walked, TableInv
  <2>2. DOMAIN scalars # {}
    <3>1. scalars \in [DOMAIN scalars -> Names]
      BY <2>1, Typed
    <3> QED
      BY <1>1, <3>1 DEF NoEntries
  <2>3. shape.begun
    BY <2>1, <2>2 DEF FileInv
  <2> QED
    BY <1>1, <2>1, <2>3 DEF OnlyScalarsInTable
<1>2. IInv => NothingElseInTable
  BY <1>1 DEF NothingElseInTable
<1> QED
  BY <1>2, ConfigInvariant, PTL

(* ipcam_config_manager_get_collection returns what stands under the section's name, and
   all of it, if no other top-level key begins with that name. *)
THEOREM CollectionsAreSections == Spec => []CollectionIsSection
<1>1. IInv => CollectionIsSection
  BY DEF IInv
<1> QED
  BY <1>1, ConfigInvariant, PTL
===============================================================================
