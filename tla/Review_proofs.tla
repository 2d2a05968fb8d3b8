---------------------------- MODULE Review_proofs ----------------------------
(***************************************************************************)
(* Theorems about WorkerPools, Integration and their composition in Review, *)
(* for any worker-pools.yml, worker-images.yml and Firefox CI.              *)
(***************************************************************************)
EXTENDS Review, SequenceTheorems, FiniteSetTheorems, WellFoundedInduction, TLAPS

(* Folds.  FoldLeft goes through the indices of a sequence as a set, the    *)
(* greatest last; what it comes to is found by induction on their number,   *)
(* which rests on strict inclusion of finite sets being well-founded.  No   *)
(* lemma can be about any operator, so each fold of the model has a lemma   *)
(* of its own, ...Steps, that it goes through its sequence step by step.    *)

\* A set of naturals has a least element.
LEMMA Least ==
  ASSUME NEW S, S \subseteq Nat, S # {}
  PROVE  \E i \in S : \A k \in S : i <= k
<1> DEFINE R == StrictSubsetOrdering(Nat)
           T == {1 .. i : i \in S}
<1>1. IsWellFoundedOn(R, FiniteSubsetsOf(Nat)) BY FS_StrictSubsetOrderingWellFounded
<1>2. T \subseteq FiniteSubsetsOf(Nat) BY FS_Interval DEF FiniteSubsetsOf
<1>3. T # {} OBVIOUS
<1>4. PICK t \in T : \A y \in T : ~(<<y, t>> \in R)
  <2> HIDE DEF R, T
  <2>1. QED BY <1>1, <1>2, <1>3, WFMin
<1>5. PICK i \in S : t = 1 .. i OBVIOUS
<1>6. ASSUME NEW k \in S PROVE i <= k
  <2> SUFFICES ASSUME k < i PROVE FALSE OBVIOUS
  <2>1. 1 .. k \subseteq 1 .. i /\ i \in 1 .. i /\ i \notin 1 .. k OBVIOUS
  <2>2. 1 .. k \in SUBSET Nat /\ 1 .. i \in SUBSET Nat OBVIOUS
  <2>3. <<1 .. k, 1 .. i>> \in R BY <2>1, <2>2 DEF StrictSubsetOrdering
  <2>4. QED BY <1>4, <1>5, <2>3
<1>7. QED BY <1>6

\* Induction up to n, over a set in place of a predicate.
LEMMA Induction ==
  ASSUME NEW n \in Nat, NEW S, 0 \in S, \A i \in 1 .. n : i - 1 \in S => i \in S
  PROVE  0 .. n \subseteq S
<1> SUFFICES ASSUME ~(0 .. n \subseteq S) PROVE FALSE OBVIOUS
<1> DEFINE T == (0 .. n) \ S
<1>1. T \subseteq Nat /\ T # {} OBVIOUS
<1>2. PICK i \in T : \A k \in T : i <= k
  <2> HIDE DEF T
  <2>1. QED BY <1>1, Least
<1>3. i \in 1 .. n /\ i - 1 \in 0 .. n /\ ~(i <= i - 1) OBVIOUS
<1>4. i - 1 \in S BY <1>2, <1>3
<1>5. QED BY <1>3, <1>4

\* Max is what it is meant to be.
LEMMA Greatest ==
  ASSUME NEW n \in Nat, NEW x \in SUBSET (1 .. n), x # {}
  PROVE  /\ Max(x) \in x /\ \A y \in x : Max(x) >= y
<1>1. \E m \in x : \A y \in x : m >= y
  <2> DEFINE S == {n - m : m \in x}
  <2>0. \A y \in x : y \in Int /\ n - y \in Nat OBVIOUS
  <2>1. S \subseteq Nat /\ S # {} BY <2>0
  <2>2. PICK i \in S : \A k \in S : i <= k
    <3> HIDE DEF S
    <3>1. QED BY <2>1, Least
  <2>3. PICK m \in x : i = n - m OBVIOUS
  <2>4. \A y \in x : n - m <= n - y BY <2>2, <2>3
  <2>5. \A y \in x : m >= y BY <2>0, <2>4
  <2>6. QED BY <2>5
<1>2. QED BY <1>1, Zenon DEF Max

LEMMA GreatestOfAll ==
  ASSUME NEW n \in Nat, NEW k \in 1 .. n, NEW x \in SUBSET (1 .. k), k \in x
  PROVE  Max(x) = k
<1>1. x \in SUBSET (1 .. n) /\ x # {} OBVIOUS
<1>2. Max(x) \in x /\ Max(x) >= k BY <1>1, Greatest
<1>3. Max(x) \in 1 .. k BY <1>2
<1> DEFINE m == Max(x)
<1>4. m >= k /\ m \in 1 .. k BY <1>2, <1>3
<1> HIDE DEF m
<1>5. m = k BY <1>4
<1>6. QED BY <1>5 DEF m

\* A fold as a function of the indices it has come to, for steps within a set V.
IsFold(f, n, V, base, turn) ==
  /\ f \in [SUBSET (1 .. n) -> V] /\ f[{}] = base
  /\ \A x \in SUBSET (1 .. n) : x # {} => f[x] = turn[Max(x)][f[x \ {Max(x)}]]

\* There is such a function.
LEMMA FoldExists ==
  ASSUME NEW n \in Nat, NEW V, NEW base \in V, NEW turn \in [1 .. n -> [V -> V]]
  PROVE  \E f : IsFold(f, n, V, base, turn)
<1> DEFINE Good(f, k) ==
             /\ f \in [SUBSET (1 .. k) -> V] /\ f[{}] = base
             /\ \A x \in SUBSET (1 .. k) : x # {} => f[x] = turn[Max(x)][f[x \ {Max(x)}]]
           S == {k \in 0 .. n : \E f : Good(f, k)}
<1>1. 0 \in S
  <2> DEFINE f == [x \in SUBSET (1 .. 0) |-> base]
  <2>1. SUBSET (1 .. 0) = {{}} OBVIOUS
  <2>2. f \in [SUBSET (1 .. 0) -> V] /\ f[{}] = base BY <2>1
  <2>3. Good(f, 0) BY <2>1, <2>2
  <2> HIDE DEF Good
  <2>4. QED BY <2>3
<1>2. ASSUME NEW k \in 1 .. n, k - 1 \in S PROVE k \in S
  <2> DEFINE j == k - 1
  <2>1. PICK f : Good(f, j) BY <1>2
  <2>2. j \in Nat /\ 1 .. j = (1 .. k) \ {k} /\ k \notin 1 .. j OBVIOUS
  <2>3. turn[k] \in [V -> V] OBVIOUS
  <2> DEFINE g == [x \in SUBSET (1 .. k) |-> IF k \in x THEN turn[k][f[x \ {k}]] ELSE f[x]]
  <2>4. \A x \in SUBSET (1 .. k) : /\ x \ {k} \in SUBSET (1 .. j)
                                   /\ k \notin x => x \in SUBSET (1 .. j)
    BY <2>2
  <2>5. g \in [SUBSET (1 .. k) -> V] BY <2>1, <2>3, <2>4
  <2>6. g[{}] = base BY <2>1
  <2>7. ASSUME NEW x \in SUBSET (1 .. k), x # {}
        PROVE  g[x] = turn[Max(x)][g[x \ {Max(x)}]]
    <3>1. CASE k \in x
      <4>1. Max(x) = k BY <3>1, GreatestOfAll
      <4>2. x \ {k} \in SUBSET (1 .. k) /\ k \notin x \ {k} OBVIOUS
      <4>3. g[x \ {k}] = f[x \ {k}] BY <4>2
      <4>4. QED BY <3>1, <4>1, <4>3
    <3>2. CASE k \notin x
      <4>1. x \in SUBSET (1 .. j) BY <2>4, <3>2
      <4>2. Max(x) \in x BY <4>1, <2>2, <2>7, Greatest
      <4>3. x \ {Max(x)} \in SUBSET (1 .. k) /\ k \notin x \ {Max(x)} BY <3>2
      <4>4. g[x \ {Max(x)}] = f[x \ {Max(x)}] BY <4>3
      <4>5. f[x] = turn[Max(x)][f[x \ {Max(x)}]] BY <2>1, <2>7, <4>1
      <4>6. g[x] = f[x] BY <3>2
      <4>7. QED BY <4>4, <4>5, <4>6
    <3>3. QED BY <3>1, <3>2
  <2>8. Good(g, k)
    <3> HIDE DEF g
    <3>1. QED BY <2>5, <2>6, <2>7
  <2> HIDE DEF Good
  <2>9. QED BY <2>8
<1>3. n \in S
  <2> HIDE DEF S
  <2>1. 0 .. n \subseteq S BY <1>1, <1>2, Induction
  <2>2. QED BY <2>1
<1>4. QED BY <1>3 DEF IsFold

\* Such a function goes through the indices one by one.
LEMMA FoldSteps ==
  ASSUME NEW n \in Nat, NEW f
  PROVE  \A i \in 1 .. n : /\ 1 .. i \in SUBSET (1 .. n) /\ 1 .. i # {}
                           /\ Max(1 .. i) = i /\ (1 .. i) \ {i} = 1 .. (i - 1)
<1> TAKE i \in 1 .. n
<1>1. 1 .. i \in SUBSET (1 .. n) /\ 1 .. i # {} /\ (1 .. i) \ {i} = 1 .. (i - 1) OBVIOUS
<1>2. Max(1 .. i) = i BY GreatestOfAll
<1>3. QED BY <1>1, <1>2

-----------------------------------------------------------------------------
(* The generated worker pools.                                             *)

\* The variants there are.
Variants == UNION {{<<i, v>> : v \in DOMAIN Pools[i].variants} : i \in DOMAIN Pools}

\* What an anchor names, once pools may have borrowed it: as it was written, or,
\* if its machine type is a template, filled in.
CellOf(cell, a) ==
  LET text == cell.machine.lit IN
  /\ IsType(cell)
  /\ cell.machine = Lit(text)
  /\ text = [stem |-> text.stem, hole |-> text.hole]
  /\ Extends(text.stem, Anchors[a].machine.lit.stem)
  /\ cell = Anchors[a] \/ (text.hole = NoHole /\ Anchors[a].machine.lit.hole # NoHole)
Cells(cells) == DOMAIN cells = DOMAIN Anchors /\ \A a \in DOMAIN Anchors : CellOf(cells[a], a)

\* The inductive invariant of WorkerPools. No pool can tell whether others have
\* borrowed a type before it: one that is no template is as it was.
PoolInv ==
  /\ images \in ImageFiles
  /\ Cells(anchors)
  /\ todo \in Seq(Variants) /\ DOMAIN made \subseteq Variants
  /\ OfItsOwnDefinition /\ LaunchesPlaced

LEMMA PoolVariants ==
  ASSUME NEW pv \in Variants
  PROVE  /\ pv[1] \in DOMAIN Pools /\ pv[2] \in DOMAIN Pools[pv[1]].variants
         /\ pv = <<pv[1], pv[2]>>
BY DEF Variants

LEMMA VariantFacts ==
  ASSUME NEW pv \in Variants, ~VariantRaises(PoolOf(pv), AttributesOf(pv))
  PROVE  /\ Borrows(PoolOf(pv), AttributesOf(pv)) =>
              ToSet(AttributesOf(pv).instance_types) \subseteq DOMAIN Anchors
         /\ \A j \in DOMAIN Machines(pv) : Machines(pv)[j] \in Text
         /\ \A j, k \in DOMAIN Machines(pv) :
              j # k => ~Extends(Machines(pv)[j].stem, Machines(pv)[k].stem)
         /\ \A j \in DOMAIN PoolOf(pv).types : IsType(PoolOf(pv).types[j])
<1> DEFINE i == pv[1]
           v == pv[2]
<1>1. i \in DOMAIN Pools /\ v \in DOMAIN Pools[i].variants /\ pv = <<i, v>> BY PoolVariants
<1> HIDE DEF i, v
<1>2. \A j \in DOMAIN PoolOf(pv).types : IsType(PoolOf(pv).types[j])
  BY <1>1, PoolsAssumption DEF PoolOf
<1>3. QED BY <1>1, <1>2, MachinesAssumption, Zenon

\* str.format puts one word after a text, or none.
LEMMA FilledExtends ==
  ASSUME NEW text \in Text, NEW attributes
  PROVE  Extends(Filled(text, attributes).stem, text.stem)
<1> DEFINE s == text.stem
           x == attributes[text.hole]
<1>1. s \in Seq(STRING) BY DEF Text
<1>2. Append(s, x) # <<>> /\ Last(Append(s, x)) = x
  <2> HIDE DEF s, x
  <2>1. s \in Seq(STRING \cup {x}) BY <1>1
  <2>2. /\ Append(s, x) \in Seq(STRING \cup {x}) /\ Len(Append(s, x)) = Len(s) + 1
        /\ Append(s, x)[Len(s) + 1] = x /\ Len(s) \in Nat
    BY <2>1
  <2>3. QED BY <2>2 DEF Last
<1>3. Filled(text, attributes).stem = s \/ Filled(text, attributes).stem = Append(s, x)
  BY DEF Filled, Text
<1>4. QED BY <1>2, <1>3 DEF Extends

\* What an anchor names is itself again, or has its template filled in.
LEMMA FilledCell ==
  ASSUME NEW a \in DOMAIN Anchors, NEW cell, CellOf(cell, a), NEW attributes
  PROVE  /\ CellOf(FilledType(cell, attributes), a)
         /\ FilledType(cell, attributes).machine = Lit(Filled(cell.machine.lit, attributes))
         /\ FilledType(cell, attributes).disks = cell.disks
         /\ Filled(cell.machine.lit, attributes).hole = NoHole
         /\ Extends(Filled(cell.machine.lit, attributes).stem, Anchors[a].machine.lit.stem)
         /\ cell.machine.lit.hole = NoHole => FilledType(cell, attributes) = cell
<1> DEFINE text == cell.machine.lit
           new == Filled(text, attributes)
<1>1. /\ IsType(cell) /\ cell.machine = Lit(text)
      /\ text = [stem |-> text.stem, hole |-> text.hole]
      /\ Extends(text.stem, Anchors[a].machine.lit.stem)
      /\ cell = Anchors[a] \/ (text.hole = NoHole /\ Anchors[a].machine.lit.hole # NoHole)
  BY DEF CellOf
<1>2. /\ new = [stem |-> new.stem, hole |-> new.hole] /\ new.hole = NoHole
      /\ text.hole = NoHole => new = text
      /\ new.stem = text.stem \/ new.stem = Append(text.stem, attributes[text.hole])
  BY <1>1 DEF Filled
<1>3. Extends(new.stem, Anchors[a].machine.lit.stem)
  <2>1. CASE text.hole = NoHole BY <1>1, <1>2, <2>1
  <2>2. CASE text.hole # NoHole
    <3>1. cell = Anchors[a] /\ text \in Text BY <1>1, <2>2, AnchorsAssumption
    <3>2. QED BY <3>1, FilledExtends
  <2>3. QED BY <2>1, <2>2
<1>4. FilledType(cell, attributes) = [cell EXCEPT !.machine = Lit(new)] BY <1>1 DEF FilledType, IsType
<1>5. cell = [machine |-> cell.machine, disks |-> cell.disks, capacity |-> cell.capacity,
              manager |-> cell.manager, config |-> cell.config, arm |-> cell.arm,
              launch |-> cell.launch]
  BY <1>1 DEF IsType
<1>6. FilledType(cell, attributes) =
        [machine |-> Lit(new), disks |-> cell.disks, capacity |-> cell.capacity,
         manager |-> cell.manager, config |-> cell.config, arm |-> cell.arm,
         launch |-> cell.launch]
  <2> HIDE DEF new
  <2>1. QED BY <1>4, <1>5
<1>7. IsType(FilledType(cell, attributes)) BY <1>1, <1>6 DEF IsType
<1>8. text.hole = NoHole => FilledType(cell, attributes) = cell BY <1>1, <1>2, <1>5, <1>6
<1>9. CellOf(FilledType(cell, attributes), a)
  <2>1. CASE text.hole = NoHole BY <1>8, <2>1
  <2>2. CASE text.hole # NoHole
    <3>1. Anchors[a].machine.lit.hole # NoHole BY <1>1, <2>2
    <3>2. FilledType(cell, attributes).machine = Lit(new) BY <1>6
    <3>3. FilledType(cell, attributes).machine.lit = new BY <3>2 DEF Lit
    <3>4. QED BY <1>2, <1>3, <1>7, <3>1, <3>2, <3>3 DEF CellOf
  <2>3. QED BY <2>1, <2>2
<1>10. QED BY <1>2, <1>3, <1>6, <1>8, <1>9

LEMMA CellsAtFirst == Cells(Anchors)
<1> SUFFICES ASSUME NEW a \in DOMAIN Anchors PROVE CellOf(Anchors[a], a) BY DEF Cells
<1>1. QED BY AnchorsAssumption DEF CellOf, Extends, Text

LEMMA CellsStay ==
  ASSUME NEW cells, Cells(cells), NEW pool, NEW attributes
  PROVE  Cells(Formatted(pool, attributes, cells))
<1> DEFINE new == Formatted(pool, attributes, cells)
<1>1. DOMAIN new = DOMAIN Anchors BY DEF Formatted, Cells
<1>2. ASSUME NEW a \in DOMAIN Anchors PROVE CellOf(new[a], a)
  <2>1. new[a] = FilledType(cells[a], attributes) \/ new[a] = cells[a] BY DEF Formatted, Cells
  <2>2. CellOf(cells[a], a) BY DEF Cells
  <2>3. QED BY <2>1, <2>2, FilledCell
<1>3. QED BY <1>1, <1>2 DEF Cells

LEMMA OwnTypesKept ==
  ASSUME NEW pv \in Variants, NEW cells, Cells(cells),
         ~VariantRaises(PoolOf(pv), AttributesOf(pv)), ~BorrowsTemplate(pv)
  PROVE  VariantOf(pv, cells) = VariantOf(pv, Anchors)
<1> DEFINE pool == PoolOf(pv)
           attributes == AttributesOf(pv)
           named(c) == [i \in DOMAIN attributes.instance_types |-> c[attributes.instance_types[i]]]
<1>1. Borrows(pool, attributes) => named(cells) = named(Anchors)
  <2> SUFFICES ASSUME Borrows(pool, attributes), NEW i \in DOMAIN attributes.instance_types
               PROVE  cells[attributes.instance_types[i]] = Anchors[attributes.instance_types[i]]
    OBVIOUS
  <2> DEFINE a == attributes.instance_types[i]
  <2>1. a \in ToSet(attributes.instance_types) BY DEF ToSet
  <2>2. a \in DOMAIN Anchors BY <2>1, VariantFacts
  <2>3. Anchors[a].machine.lit.hole = NoHole BY <2>1 DEF BorrowsTemplate
  <2>4. QED BY <2>2, <2>3 DEF Cells, CellOf
<1>2. TypesOf(pool, attributes, cells) = TypesOf(pool, attributes, Anchors)
  <2>1. CASE Borrows(pool, attributes) BY <1>1, <2>1, Zenon DEF TypesOf
  <2>2. CASE ~Borrows(pool, attributes) BY <2>2, Zenon DEF TypesOf
  <2>3. QED BY <2>1, <2>2
<1>3. QED BY <1>2, Zenon DEF VariantOf, Variant

LEMMA ExtendsOneOnly ==
  ASSUME NEW s \in Seq(STRING), NEW t \in Seq(STRING), NEW f, Extends(f, s), Extends(f, t)
  PROVE  Extends(s, t) \/ Extends(t, s)
<1> DEFINE x == Last(f)
<1>1. CASE f = s \/ f = t BY <1>1 DEF Extends
<1>2. CASE f # s /\ f # t
  <2>1. f = Append(s, x) /\ f = Append(t, x) BY <1>2 DEF Extends
  <2> HIDE DEF x
  <2>2. s \in Seq(STRING \cup {x}) /\ t \in Seq(STRING \cup {x}) OBVIOUS
  <2>3. s = t
    <3> DEFINE S == STRING \cup {x}
    <3>1. s \in Seq(S) /\ t \in Seq(S) /\ x \in S BY <2>2
    <3>2. Append(s, x) = Append(t, x) BY <2>1
    <3> HIDE DEF S
    <3>3. QED BY <3>1, <3>2, AppendInjective
  <2>4. QED BY <2>3 DEF Extends
<1>3. QED BY <1>1, <1>2

\* A type's disks are in no zone yet.
Unplaced(type) ==
  \A i \in DOMAIN type.disks :
    type.disks[i] = [object |-> type.disks[i].object, image |-> type.disks[i].image,
                     zones |-> <<>>]

\* The types of a variant, in the order of its machines: apart, and in no zone.
LEMMA TypesApart ==
  ASSUME NEW pv \in Variants, NEW cells, Cells(cells),
         ~VariantRaises(PoolOf(pv), AttributesOf(pv))
  PROVE  LET types == VariantOf(pv, cells).types
         IN /\ \A j, k \in DOMAIN types :
                  types[j].machine.lit.stem = types[k].machine.lit.stem => j = k
            /\ \A j \in DOMAIN types : Unplaced(types[j])
<1> DEFINE pool == PoolOf(pv)
           attributes == AttributesOf(pv)
           types == TypesOf(pool, attributes, cells)
           Told(type, text) ==
             Extends(type.machine.lit.stem, text.stem) /\ Unplaced(type)
           AllTold == /\ DOMAIN types = DOMAIN Machines(pv)
                      /\ \A j \in DOMAIN types : Told(types[j], Machines(pv)[j])
<1>1. VariantOf(pv, cells).types = types BY DEF VariantOf, Variant
<1>2. ASSUME Borrows(pool, attributes) PROVE AllTold
  <2> DEFINE name == attributes.instance_types
             named == [i \in DOMAIN name |-> cells[name[i]]]
  <2>1. types = IF pool.vmSizes THEN named
                ELSE [i \in DOMAIN named |-> FilledType(named[i], attributes)]
    BY <1>2, Zenon DEF TypesOf
  <2>2. DOMAIN Machines(pv) = DOMAIN name
        /\ \A j \in DOMAIN name : Machines(pv)[j] = Anchors[name[j]].machine.lit
    BY <1>2 DEF Machines
  <2>3. ASSUME NEW j \in DOMAIN name
        PROVE  Told(named[j], Machines(pv)[j]) /\ Told(FilledType(named[j], attributes), Machines(pv)[j])
    <3>1. name[j] \in DOMAIN Anchors BY <1>2, VariantFacts DEF ToSet
    <3>2. CellOf(named[j], name[j]) BY <3>1 DEF Cells
    <3>3. CellOf(FilledType(named[j], attributes), name[j]) BY <3>1, <3>2, FilledCell
    <3>4. QED BY <2>2, <3>2, <3>3 DEF CellOf, IsType, Unplaced
  <2> HIDE DEF Told, types
  <2>4. QED BY <2>1, <2>2, <2>3
<1>3. ASSUME ~Borrows(pool, attributes) PROVE AllTold
  <2> DEFINE own == OwnTypes(pool, attributes)
  <2>1. types = IF pool.vmSizes THEN own ELSE [i \in DOMAIN own |-> FilledType(own[i], attributes)]
    BY <1>3, Zenon DEF TypesOf
  <2>2. DOMAIN Machines(pv) = DOMAIN pool.types /\ DOMAIN own = DOMAIN pool.types
        /\ \A j \in DOMAIN own : Machines(pv)[j] = own[j].machine.lit
    BY <1>3 DEF Machines, OwnTypes
  <2>3. ASSUME NEW j \in DOMAIN own
        PROVE  Told(own[j], Machines(pv)[j]) /\ Told(FilledType(own[j], attributes), Machines(pv)[j])
    <3> DEFINE t == pool.types[j]
               m == EvaluateKeyedBy(t.machine, attributes)
               text == m.lit
               new == Filled(text, attributes)
    <3>1. /\ t = [machine |-> t.machine, disks |-> t.disks, capacity |-> t.capacity,
                   manager |-> t.manager, config |-> t.config, arm |-> t.arm, launch |-> t.launch]
          /\ Unplaced(t)
      BY <2>2, VariantFacts DEF IsType, Unplaced
    <3>2. own[j] = [t EXCEPT !.machine = m] BY <2>2 DEF OwnTypes
    <3>3. own[j] = [machine |-> m, disks |-> t.disks, capacity |-> t.capacity,
                    manager |-> t.manager, config |-> t.config, arm |-> t.arm, launch |-> t.launch]
      <4> HIDE DEF m, t
      <4>1. QED BY <3>1, <3>2
    <3>4. FilledType(own[j], attributes).disks = t.disks
          /\ FilledType(own[j], attributes).launch = t.launch
          /\ FilledType(own[j], attributes).machine.lit = new
      <4> HIDE DEF m, t
      <4>1. QED BY <3>3 DEF FilledType, Lit
    <3>5. Machines(pv)[j] = text /\ own[j].machine.lit = text
          /\ own[j].disks = t.disks /\ own[j].launch = t.launch
      <4> HIDE DEF m, t
      <4>1. QED BY <2>2, <3>3
    <3>6. text \in Text BY <2>2, <3>5, VariantFacts
    <3>7. Extends(new.stem, text.stem) BY <3>6, FilledExtends
    <3>8. Extends(text.stem, text.stem) BY DEF Extends
    <3> HIDE DEF m, t, text, new, own
    <3>9. QED BY <3>1, <3>4, <3>5, <3>7, <3>8 DEF Unplaced
  <2> HIDE DEF Told, types, own
  <2>4. QED BY <2>1, <2>2, <2>3
<1>4. AllTold BY <1>2, <1>3
<1>5. ASSUME NEW j \in DOMAIN types, NEW k \in DOMAIN types,
             types[j].machine.lit.stem = types[k].machine.lit.stem, j # k
      PROVE  FALSE
  <2>1. /\ Machines(pv)[j].stem \in Seq(STRING) /\ Machines(pv)[k].stem \in Seq(STRING)
        /\ ~Extends(Machines(pv)[j].stem, Machines(pv)[k].stem)
        /\ ~Extends(Machines(pv)[k].stem, Machines(pv)[j].stem)
    BY <1>4, <1>5, VariantFacts DEF Text
  <2>2. QED BY <1>4, <1>5, <2>1, ExtendsOneOnly
<1>6. QED BY <1>1, <1>4, <1>5

\* Without a template a launch config has the disks of its type, each in the zone
\* of the place.
LEMMA DisksPlaced ==
  ASSUME NEW v, NEW p, p[2] \in DOMAIN v.types, Unplaced(v.types[p[2]]), NEW image,
         NEW i \in DOMAIN PlainLaunch(v, p, image).disks
  PROVE  PlainLaunch(v, p, image).disks[i].zones = <<p[1]>>
<1> DEFINE disks == v.types[p[2]].disks
           zone == p[1]
<1>1. PlainLaunch(v, p, image).disks = Disks(disks, zone) BY DEF PlainLaunch
<1> DEFINE places(j) == {k \in DOMAIN disks : Copies(disks)[k] = Copies(disks)[j]}
<1>2. Disks(disks, zone) =
        [j \in DOMAIN disks |->
           [image |-> disks[j].image,
            zones |-> [n \in 1 .. Cardinality(places(j)) |-> zone] \o disks[j].zones]]
  BY DEF Disks
<1>3. i \in DOMAIN disks BY <1>1, <1>2
<1>4. disks[i].zones = <<>>
  <2> DEFINE d == disks[i]
  <2>1. d = [object |-> d.object, image |-> d.image, zones |-> <<>>] BY <1>3 DEF Unplaced
  <2> HIDE DEF d
  <2>2. d.zones = <<>> BY <2>1
  <2>3. QED BY <2>2 DEF d
<1> HIDE DEF disks, zone
<1>5. Cardinality(places(i)) = 1
  <2>1. places(i) = {i} BY <1>3 DEF Copies
  <2>2. QED BY <2>1, FS_Singleton
<1> DEFINE count == Cardinality(places(i))
           told  == [n \in 1 .. count |-> zone]
<1>6. Disks(disks, zone)[i].zones = told \o <<>>
  <2>1. Disks(disks, zone)[i] = [image |-> disks[i].image, zones |-> told \o disks[i].zones]
    BY <1>2, <1>3
  <2> HIDE DEF told
  <2>2. QED BY <2>1, <1>4
<1>7. told \o <<>> = <<zone>>
  <2>1. count = 1 BY <1>5
  <2> HIDE DEF count
  <2>2. told = [n \in 1 .. 1 |-> zone] BY <2>1
  <2>3. [n \in 1 .. 1 |-> zone] = <<zone>> OBVIOUS
  <2>4. <<zone>> \in Seq({zone}) OBVIOUS
  <2> HIDE DEF told
  <2>5. QED BY <2>2, <2>3, <2>4
<1> HIDE DEF told
<1>8. QED BY <1>1, <1>6, <1>7 DEF zone

\* Launch configs of one pool with one id are of one place, and start the machine
\* of one type; unless one of them starts another type's, they are one.
LEMMA LaunchesApart ==
  ASSUME NEW v, NEW file, NEW defaults,
         \A j, k \in DOMAIN v.types :
           v.types[j].machine.lit.stem = v.types[k].machine.lit.stem => j = k,
         \A j \in DOMAIN v.types : Unplaced(v.types[j])
  PROVE  IdsApart(WorkerPool(v, file, defaults)) /\ DisksInPlace(WorkerPool(v, file, defaults))
<1> DEFINE pool == WorkerPool(v, file, defaults)
           L(p) == Launch(v, p, file, defaults)
           image == ImageFor(file, v.image, v.provider)
<1>1. CASE v.provider \notin DOMAIN Providers
  <2>1. DOMAIN pool.launch = {} BY <1>1 DEF WorkerPool
  <2>2. QED BY <2>1 DEF IdsApart, DisksInPlace
<1>2. CASE v.provider \in DOMAIN Providers
  <2>1. /\ DOMAIN pool.launch = Placements(v)
        /\ \A p \in Placements(v) : /\ pool.launch[p].id = LaunchId(v.name, L(p))
                                    /\ pool.launch[p].is = L(p)
                                    /\ pool.launch[p].for = Machine(v, p)
    <3> DEFINE of == [p \in Placements(v) |->
                        LET launch == L(p)
                        IN [id |-> LaunchId(v.name, launch), is |-> launch, for |-> Machine(v, p)]]
    <3>1. pool.launch = of BY <1>2 DEF WorkerPool
    <3> HIDE DEF L, pool
    <3>2. QED BY <3>1
  <2>2. ASSUME NEW p \in Placements(v)
        PROVE  /\ p = <<p[1], p[2]>> /\ p[2] \in DOMAIN v.types
               /\ L(p).place = p[1]
               /\ L(p).starts = PlainLaunch(v, p, image) \/ L(p).starts = ArmLaunch(v, p, image)
    <3>1. p = <<p[1], p[2]>> /\ p[2] \in DOMAIN v.types BY DEF Placements
    <3>2. QED BY <3>1 DEF Launch
  <2> HIDE DEF pool, L, image
  <2>3. ASSUME NEW p \in Placements(v), NEW q \in Placements(v),
               LaunchId(v.name, L(p)) = LaunchId(v.name, L(q)),
               "launchConfigId" \notin DOMAIN L(p).manager
        PROVE  L(p) = L(q)
    <3>1. LaunchId(v.name, L(p)) = [pool |-> v.name, hash |-> L(p)] BY <2>3 DEF LaunchId
    <3>2. \A x : [given |-> x] # [pool |-> v.name, hash |-> L(p)]
      <4> SUFFICES ASSUME NEW x, [given |-> x] = [pool |-> v.name, hash |-> L(p)] PROVE FALSE
        OBVIOUS
      <4>1. DOMAIN [given |-> x] = {"given"} /\ "pool" \in DOMAIN [pool |-> v.name, hash |-> L(p)]
        OBVIOUS
      <4>2. QED BY <4>1
    <3>3. LaunchId(v.name, L(q)) = [pool |-> v.name, hash |-> L(q)] BY <2>3, <3>1, <3>2 DEF LaunchId
    <3>4. [pool |-> v.name, hash |-> L(p)].hash = L(p) /\ [pool |-> v.name, hash |-> L(q)].hash = L(q)
      OBVIOUS
    <3>5. QED BY <2>3, <3>1, <3>3, <3>4
  <2>4. IdsApart(pool)
    <3> SUFFICES ASSUME NEW p \in Placements(v), NEW q \in Placements(v),
                        pool.launch[p].id = pool.launch[q].id,
                        "launchConfigId" \notin DOMAIN pool.launch[p].is.manager
                 PROVE  p = q \/ (p[1] = q[1] /\ \E x \in {p, q} : Replaced(pool.launch[x]))
      BY <2>1 DEF IdsApart
    <3>1. L(p) = L(q) BY <2>1, <2>3
    <3>2. p[1] = q[1] BY <2>2, <3>1
    <3>3. ASSUME ~Replaced(pool.launch[p]), ~Replaced(pool.launch[q]) PROVE p = q
      <4>1. Machine(v, p) = MachineOf(L(p).starts) /\ Machine(v, q) = MachineOf(L(q).starts)
        BY <2>1, <3>3 DEF Replaced
      <4>2. Machine(v, p) = Machine(v, q) BY <3>1, <4>1
      <4>3. v.types[p[2]].machine.lit.stem = v.types[q[2]].machine.lit.stem BY <4>2 DEF Machine
      <4>4. p[2] = q[2] BY <2>2, <4>3
      <4>5. QED BY <2>2, <3>2, <4>4
    <3>4. QED BY <3>2, <3>3
  <2>5. ASSUME NEW p \in Placements(v), "disks" \in DOMAIN L(p).starts,
               NEW i \in DOMAIN L(p).starts.disks
        PROVE  L(p).starts.disks[i].zones = <<p[1]>>
    <3>1. L(p).starts # ArmLaunch(v, p, image)
      <4>1. "disks" \notin DOMAIN ArmLaunch(v, p, image) BY DEF ArmLaunch
      <4>2. QED BY <2>5, <4>1
    <3>2. L(p).starts = PlainLaunch(v, p, image) BY <2>2, <3>1
    <3>3. p[2] \in DOMAIN v.types /\ Unplaced(v.types[p[2]]) BY <2>2
    <3>4. QED BY <2>5, <3>2, <3>3, DisksPlaced
  <2>6. DisksInPlace(pool) BY <2>1, <2>5 DEF DisksInPlace
  <2>7. QED BY <2>4, <2>6 DEF pool
<1>3. QED BY <1>1, <1>2

UsedStep(used, image) ==
  IF image.alias = NoAlias \/ image.name \notin used THEN used ELSE used \cup {image.alias}
ReachedStep(seen, file) == seen \cup {Follow(file, n) : n \in seen}

\* The check goes from image to image.
LEMMA UsedSteps ==
  ASSUME NEW file, file \in Seq(ToSet(file)), NEW named
  PROVE  \E a : /\ a[0] = named /\ UsedImages(file, named) = a[Len(file)]
                /\ \A i \in 1 .. Len(file) : a[i] = UsedStep(a[i - 1], file[i])
<1> DEFINE n == Len(file)
           V == SUBSET (named \cup {file[j].alias : j \in DOMAIN file})
           turn == [i \in 1 .. n |-> [v \in V |-> UsedStep(v, file[i])]]
           P(f) == f = [x \in SUBSET (1 .. n) |->
                          IF x = {} THEN named ELSE UsedStep(f[x \ {Max(x)}], file[Max(x)])]
           it == CHOOSE f : P(f)
<1>1. n \in Nat /\ DOMAIN file = 1 .. n /\ named \in V OBVIOUS
<1>2. UsedImages(file, named) = it[1 .. n]
  BY <1>1, Zenon DEF UsedImages, UsedStep, FoldLeft, MapThenFoldSet
<1>3. turn \in [1 .. n -> [V -> V]]
  BY <1>1 DEF UsedStep
<1>4. PICK f : IsFold(f, n, V, named, turn)
  <2> HIDE DEF turn, V, n
  <2>1. QED BY <1>1, <1>3, FoldExists
<1>5. \A x \in SUBSET (1 .. n) : x # {} => f[x] = UsedStep(f[x \ {Max(x)}], file[Max(x)])
  <2> SUFFICES ASSUME NEW x \in SUBSET (1 .. n), x # {}
               PROVE  f[x] = UsedStep(f[x \ {Max(x)}], file[Max(x)])
    OBVIOUS
  <2> HIDE DEF V
  <2>1. Max(x) \in 1 .. n BY <1>1, Greatest
  <2>2. f[x \ {Max(x)}] \in V /\ f[x] = turn[Max(x)][f[x \ {Max(x)}]] BY <1>4 DEF IsFold
  <2>3. QED BY <2>1, <2>2
<1>6. P(f)
  <2> HIDE DEF turn, V
  <2>1. f \in [SUBSET (1 .. n) -> V] /\ f[{}] = named BY <1>4 DEF IsFold
  <2>2. QED BY <1>5, <2>1
<1>7. P(it) BY <1>6, Zenon
<1>8. /\ it[{}] = named
      /\ \A x \in SUBSET (1 .. n) : x # {} => it[x] = UsedStep(it[x \ {Max(x)}], file[Max(x)])
  <2> HIDE DEF it
  <2>1. {} \in SUBSET (1 .. n) OBVIOUS
  <2>2. QED BY <1>7, <2>1
<1> DEFINE a == [i \in 0 .. n |-> it[1 .. i]]
<1> HIDE DEF it
<1>9. a[0] = named /\ it[1 .. n] = a[n]
  <2>1. 1 .. 0 = {} /\ 0 \in 0 .. n /\ n \in 0 .. n BY <1>1
  <2>2. QED BY <1>8, <2>1
<1>10. \A i \in 1 .. n : a[i] = UsedStep(a[i - 1], file[i])
  <2> TAKE i \in 1 .. n
  <2>1. /\ 1 .. i \in SUBSET (1 .. n) /\ 1 .. i # {} /\ Max(1 .. i) = i
        /\ (1 .. i) \ {i} = 1 .. (i - 1)
    BY <1>1, FoldSteps
  <2>2. it[1 .. i] = UsedStep(it[1 .. (i - 1)], file[i]) BY <1>8, <2>1
  <2>3. i \in 0 .. n /\ i - 1 \in 0 .. n OBVIOUS
  <2>4. QED BY <2>2, <2>3
<1> HIDE DEF a
<1>11. QED BY <1>2, <1>9, <1>10

\* Following all aliases goes as many steps as there are images.
LEMMA ReachedSteps ==
  ASSUME NEW file, file \in Seq(ToSet(file)), NEW named
  PROVE  \E a : /\ a[0] = named /\ Reached(file, named) = a[Len(file)]
                /\ \A i \in 1 .. Len(file) : a[i] = ReachedStep(a[i - 1], file)
<1> DEFINE n == Len(file)
           V == SUBSET (named \cup {file[j].alias : j \in DOMAIN file})
           turn == [i \in 1 .. n |-> [v \in V |-> ReachedStep(v, file)]]
           P(f) == f = [x \in SUBSET (1 .. n) |->
                          IF x = {} THEN named ELSE ReachedStep(f[x \ {Max(x)}], file)]
           it == CHOOSE f : P(f)
<1>1. n \in Nat /\ DOMAIN file = 1 .. n /\ named \in V OBVIOUS
<1>2. Reached(file, named) = it[1 .. n]
  BY <1>1, Zenon DEF Reached, ReachedStep, FoldLeft, MapThenFoldSet
<1>3. turn \in [1 .. n -> [V -> V]]
  <2>1. \A v \in V : \A m \in v : Follow(file, m) \in named \cup {file[j].alias : j \in DOMAIN file}
    BY <1>1 DEF Follow, Aliased, Entry, Named
  <2>2. \A v \in V : ReachedStep(v, file) \in V
    <3> HIDE DEF n
    <3>1. QED BY <2>1 DEF ReachedStep
  <2> HIDE DEF V, n
  <2>3. QED BY <2>2
<1>4. PICK f : IsFold(f, n, V, named, turn)
  <2> HIDE DEF turn, V, n
  <2>1. QED BY <1>1, <1>3, FoldExists
<1>5. \A x \in SUBSET (1 .. n) : x # {} => f[x] = ReachedStep(f[x \ {Max(x)}], file)
  <2> SUFFICES ASSUME NEW x \in SUBSET (1 .. n), x # {}
               PROVE  f[x] = ReachedStep(f[x \ {Max(x)}], file)
    OBVIOUS
  <2> HIDE DEF V
  <2>1. Max(x) \in 1 .. n BY <1>1, Greatest
  <2>2. f[x \ {Max(x)}] \in V /\ f[x] = turn[Max(x)][f[x \ {Max(x)}]] BY <1>4 DEF IsFold
  <2>3. QED BY <2>1, <2>2
<1>6. P(f)
  <2> HIDE DEF turn, V
  <2>1. f \in [SUBSET (1 .. n) -> V] /\ f[{}] = named BY <1>4 DEF IsFold
  <2>2. QED BY <1>5, <2>1
<1>7. P(it) BY <1>6, Zenon
<1>8. /\ it[{}] = named
      /\ \A x \in SUBSET (1 .. n) : x # {} => it[x] = ReachedStep(it[x \ {Max(x)}], file)
  <2> HIDE DEF it
  <2>1. {} \in SUBSET (1 .. n) OBVIOUS
  <2>2. QED BY <1>7, <2>1
<1> DEFINE a == [i \in 0 .. n |-> it[1 .. i]]
<1> HIDE DEF it
<1>9. a[0] = named /\ it[1 .. n] = a[n]
  <2>1. 1 .. 0 = {} /\ 0 \in 0 .. n /\ n \in 0 .. n BY <1>1
  <2>2. QED BY <1>8, <2>1
<1>10. \A i \in 1 .. n : a[i] = ReachedStep(a[i - 1], file)
  <2> TAKE i \in 1 .. n
  <2>1. /\ 1 .. i \in SUBSET (1 .. n) /\ 1 .. i # {} /\ Max(1 .. i) = i
        /\ (1 .. i) \ {i} = 1 .. (i - 1)
    BY <1>1, FoldSteps
  <2>2. it[1 .. i] = ReachedStep(it[1 .. (i - 1)], file) BY <1>8, <2>1
  <2>3. i \in 0 .. n /\ i - 1 \in 0 .. n OBVIOUS
  <2>4. QED BY <2>2, <2>3
<1> HIDE DEF a
<1>11. QED BY <1>2, <1>9, <1>10

\* Whatever the check counts as used can be reached.
LEMMA UsedIsReached ==
  ASSUME NEW file \in ImageFiles, NEW named
  PROVE  UsedImages(file, named) \subseteq Reached(file, named)
<1> DEFINE n == Len(file)
<1>1. file \in Seq(ToSet(file)) /\ n \in Nat /\ DOMAIN file = 1 .. n
      /\ \A i, j \in DOMAIN file : file[i].name = file[j].name => i = j
  BY ImagesAssumption
<1>2. PICK u : /\ u[0] = named /\ UsedImages(file, named) = u[n]
               /\ \A i \in 1 .. n : u[i] = UsedStep(u[i - 1], file[i])
  BY <1>1, UsedSteps
<1>3. PICK r : /\ r[0] = named /\ Reached(file, named) = r[n]
               /\ \A i \in 1 .. n : r[i] = ReachedStep(r[i - 1], file)
  BY <1>1, ReachedSteps
<1> HIDE DEF n
<1> DEFINE S == {i \in 0 .. n : u[i] \subseteq r[i]}
<1>4. 0 \in S BY <1>1, <1>2, <1>3
<1>5. ASSUME NEW i \in 1 .. n, i - 1 \in S PROVE i \in S
  <2> DEFINE image == file[i]
  <2>1. u[i - 1] \subseteq r[i - 1] BY <1>5
  <2>2. image.alias # NoAlias => Follow(file, image.name) = image.alias
    <3>1. i \in DOMAIN file BY <1>1
    <3>2. Named(file, image.name) BY <3>1 DEF Named
    <3>3. (CHOOSE j \in DOMAIN file : file[j].name = image.name) = i BY <1>1, <3>1
    <3>4. Entry(file, image.name) = image BY <3>3 DEF Entry
    <3>5. QED BY <3>2, <3>4 DEF Follow, Aliased
  <2>3. u[i] = UsedStep(u[i - 1], image) /\ r[i] = ReachedStep(r[i - 1], file) BY <1>2, <1>3
  <2>4. u[i] \subseteq r[i] BY <2>1, <2>2, <2>3 DEF UsedStep, ReachedStep
  <2>5. QED BY <2>4
<1>6. 0 .. n \subseteq S
  <2> HIDE DEF S
  <2>1. QED BY <1>1, <1>4, <1>5, Induction
<1>7. n \in S BY <1>1, <1>6
<1>8. QED BY <1>2, <1>3, <1>7

\* Aliases are followed as many times as there are images.
LEMMA ResolvedSteps ==
  ASSUME NEW file, file \in Seq(ToSet(file)), NEW name
  PROVE  \E a : /\ a[0] = name /\ Resolved(file, name) = a[Len(file)]
                /\ \A i \in 1 .. Len(file) : a[i] = Follow(file, a[i - 1])
<1> DEFINE n == Len(file)
           V == {name} \cup {file[j].alias : j \in DOMAIN file}
           turn == [i \in 1 .. n |-> [v \in V |-> Follow(file, v)]]
           P(f) == f = [x \in SUBSET (1 .. n) |->
                          IF x = {} THEN name ELSE Follow(file, f[x \ {Max(x)}])]
           it == CHOOSE f : P(f)
<1>1. n \in Nat /\ DOMAIN file = 1 .. n /\ name \in V OBVIOUS
<1>2. Resolved(file, name) = it[1 .. n]
  BY <1>1, Zenon DEF Resolved, FoldLeft, MapThenFoldSet
<1>3. turn \in [1 .. n -> [V -> V]]
  <2>1. \A v \in V : Follow(file, v) \in V
    BY <1>1 DEF Follow, Aliased, Entry, Named
  <2> HIDE DEF V, n
  <2>2. QED BY <2>1
<1>4. PICK f : IsFold(f, n, V, name, turn)
  <2> HIDE DEF turn, V, n
  <2>1. QED BY <1>1, <1>3, FoldExists
<1>5. \A x \in SUBSET (1 .. n) : x # {} => f[x] = Follow(file, f[x \ {Max(x)}])
  <2> SUFFICES ASSUME NEW x \in SUBSET (1 .. n), x # {}
               PROVE  f[x] = Follow(file, f[x \ {Max(x)}])
    OBVIOUS
  <2> HIDE DEF V
  <2>1. Max(x) \in 1 .. n BY <1>1, Greatest
  <2>2. f[x \ {Max(x)}] \in V /\ f[x] = turn[Max(x)][f[x \ {Max(x)}]] BY <1>4 DEF IsFold
  <2>3. QED BY <2>1, <2>2
<1>6. P(f)
  <2> HIDE DEF turn, V
  <2>1. f \in [SUBSET (1 .. n) -> V] /\ f[{}] = name BY <1>4 DEF IsFold
  <2>2. QED BY <1>5, <2>1
<1>7. P(it) BY <1>6, Zenon
<1>8. /\ it[{}] = name
      /\ \A x \in SUBSET (1 .. n) : x # {} => it[x] = Follow(file, it[x \ {Max(x)}])
  <2> HIDE DEF it
  <2>1. {} \in SUBSET (1 .. n) OBVIOUS
  <2>2. QED BY <1>7, <2>1
<1> DEFINE a == [i \in 0 .. n |-> it[1 .. i]]
<1> HIDE DEF it
<1>9. a[0] = name /\ it[1 .. n] = a[n]
  <2>1. 1 .. 0 = {} /\ 0 \in 0 .. n /\ n \in 0 .. n BY <1>1
  <2>2. QED BY <1>8, <2>1
<1>10. \A i \in 1 .. n : a[i] = Follow(file, a[i - 1])
  <2> TAKE i \in 1 .. n
  <2>1. /\ 1 .. i \in SUBSET (1 .. n) /\ 1 .. i # {} /\ Max(1 .. i) = i
        /\ (1 .. i) \ {i} = 1 .. (i - 1)
    BY <1>1, FoldSteps
  <2>2. it[1 .. i] = Follow(file, it[1 .. (i - 1)]) BY <1>8, <2>1
  <2>3. i \in 0 .. n /\ i - 1 \in 0 .. n OBVIOUS
  <2>4. QED BY <2>2, <2>3
<1> HIDE DEF a
<1>11. QED BY <1>2, <1>9, <1>10

\* The name after i turns of __getitem__'s loop.
Turns(file, name, a) == a[0] = name /\ \A i \in Nat : a[i + 1] = Follow(file, a[i])

LEMMA ResolvedTurn ==
  ASSUME NEW file \in ImageFiles, NEW name, NEW a, Turns(file, name, a)
  PROVE  Resolved(file, name) = a[Len(file)]
<1> DEFINE n == Len(file)
<1>1. file \in Seq(ToSet(file)) /\ n \in Nat BY ImagesAssumption
<1>2. PICK r : /\ r[0] = name /\ Resolved(file, name) = r[n]
               /\ \A i \in 1 .. n : r[i] = Follow(file, r[i - 1])
  BY <1>1, ResolvedSteps
<1> HIDE DEF n
<1> DEFINE S == {i \in 0 .. n : r[i] = a[i]}
<1>3. 0 \in S
  <2>1. 0 \in 0 .. n BY <1>1
  <2>2. a[0] = name BY Zenon DEF Turns
  <2>3. r[0] = name BY <1>2
  <2>4. QED BY <2>1, <2>2, <2>3
<1>4. ASSUME NEW i \in 1 .. n, i - 1 \in S PROVE i \in S
  <2>1. i - 1 \in Nat /\ (i - 1) + 1 = i /\ i \in 0 .. n BY <1>1
  <2>2. \A j \in Nat : a[j + 1] = Follow(file, a[j]) BY DEF Turns
  <2> HIDE DEF S
  <2>3. a[(i - 1) + 1] = Follow(file, a[i - 1]) BY <2>1, <2>2
  <2>4. a[i] = Follow(file, a[i - 1]) BY <2>1, <2>3
  <2>5. r[i] = Follow(file, r[i - 1]) BY <1>2
  <2>6. r[i - 1] = a[i - 1] BY <1>4 DEF S
  <2>7. QED BY <2>1, <2>4, <2>5, <2>6 DEF S
<1>5. 0 .. n \subseteq S
  <2> HIDE DEF S
  <2>1. QED BY <1>1, <1>3, <1>4, Induction
<1>6. n \in S BY <1>1, <1>5
<1>7. QED BY <1>2, <1>6 DEF n

\* A name without an alias is the name from then on.
LEMMA NameStays ==
  ASSUME NEW file, NEW name, NEW a, Turns(file, name, a),
         NEW i \in Nat, ~Aliased(file, a[i]), NEW k \in Nat
  PROVE  a[i + k] = a[i]
<1> DEFINE S == {j \in 0 .. k : a[i + j] = a[i]}
<1>1. 0 \in S OBVIOUS
<1>2. ASSUME NEW j \in 1 .. k, j - 1 \in S PROVE j \in S
  <2>1. i + (j - 1) \in Nat /\ (i + (j - 1)) + 1 = i + j /\ j \in 0 .. k OBVIOUS
  <2>2. a[i + j] = Follow(file, a[i + (j - 1)]) BY <2>1 DEF Turns
  <2>3. a[i + (j - 1)] = a[i] BY <1>2
  <2>4. QED BY <2>1, <2>2, <2>3 DEF Follow
<1>3. 0 .. k \subseteq S
  <2> HIDE DEF S
  <2>1. QED BY <1>1, <1>2, Induction
<1>4. QED BY <1>3

\* Names that have come once come again as they did.
LEMMA NamesRepeat ==
  ASSUME NEW file, NEW name, NEW a, Turns(file, name, a),
         NEW i \in Nat, NEW j \in Nat, a[i] = a[j], NEW k \in Nat
  PROVE  a[i + k] = a[j + k]
<1> DEFINE S == {m \in 0 .. k : a[i + m] = a[j + m]}
<1>1. 0 \in S OBVIOUS
<1>2. ASSUME NEW m \in 1 .. k, m - 1 \in S PROVE m \in S
  <2>1. /\ i + (m - 1) \in Nat /\ (i + (m - 1)) + 1 = i + m
        /\ j + (m - 1) \in Nat /\ (j + (m - 1)) + 1 = j + m /\ m \in 0 .. k
    OBVIOUS
  <2>2. /\ a[i + m] = Follow(file, a[i + (m - 1)])
        /\ a[j + m] = Follow(file, a[j + (m - 1)])
    BY <2>1 DEF Turns
  <2>3. QED BY <1>2, <2>1, <2>2
<1>3. 0 .. k \subseteq S
  <2> HIDE DEF S
  <2>1. QED BY <1>1, <1>2, Induction
<1>4. QED BY <1>3

\* Among as many names as there are images, and one more, one comes twice.
LEMMA NameTwice ==
  ASSUME NEW file \in ImageFiles, NEW a, \A i \in 0 .. Len(file) : Aliased(file, a[i])
  PROVE  \E i, j \in 0 .. Len(file) : i < j /\ a[i] = a[j]
<1> DEFINE n == Len(file)
           f == [i \in 0 .. n |-> CHOOSE k \in 1 .. n : file[k].name = a[i]]
<1>1. n \in Nat /\ DOMAIN file = 1 .. n
  <2>1. file \in Seq(ToSet(file)) BY ImagesAssumption
  <2>2. QED BY <2>1
<1>2. \A i \in 0 .. n : f[i] \in 1 .. n /\ file[f[i]].name = a[i]
  BY <1>1 DEF Aliased, Named
<1>3. f \in [0 .. n -> 1 .. n] BY <1>2
<1> HIDE DEF n, f
<1>4. /\ IsFiniteSet(0 .. n) /\ Cardinality(0 .. n) = n + 1
      /\ IsFiniteSet(1 .. n) /\ Cardinality(1 .. n) = n
  <2>1. /\ IsFiniteSet(0 .. n) /\ Cardinality(0 .. n) = IF 0 > n THEN 0 ELSE n - 0 + 1
        /\ IsFiniteSet(1 .. n) /\ Cardinality(1 .. n) = IF 1 > n THEN 0 ELSE n - 1 + 1
    <3>1. 0 \in Int /\ 1 \in Int /\ n \in Int BY <1>1
    <3>2. QED BY <3>1, FS_Interval, Zenon
  <2>2. QED BY <1>1, <2>1
<1>5. PICK i, j \in 0 .. n : i # j /\ f[i] = f[j]
  <2>1. Cardinality(1 .. n) < Cardinality(0 .. n) BY <1>1, <1>4
  <2>2. QED BY <1>3, <1>4, <2>1, FS_PigeonHole
<1>6. a[i] = a[j] BY <1>2, <1>5
<1>7. i < j \/ j < i BY <1>1, <1>5
<1>8. QED BY <1>6, <1>7 DEF n

\* WorkerImages.__getitem__ ends at the image Resolved has, in as many turns as
\* there are images or less, or it is in a circle of aliases and never ends.
THEOREM AliasesFollowed ==
  ASSUME NEW file \in ImageFiles, NEW name, NEW a, Turns(file, name, a)
  PROVE  /\ InCircle(file, name) <=> \A i \in Nat : Aliased(file, a[i])
         /\ \A i \in Nat : ~Aliased(file, a[i]) => a[i] = Resolved(file, name)
<1> DEFINE n == Len(file)
<1>1. n \in Nat /\ Resolved(file, name) = a[n]
  <2>1. file \in Seq(ToSet(file)) BY ImagesAssumption
  <2>2. QED BY <2>1, ResolvedTurn
<1>2. \A i, j \in Nat : i <= j /\ ~Aliased(file, a[i]) => a[j] = a[i]
  <2> SUFFICES ASSUME NEW i \in Nat, NEW j \in Nat, i <= j, ~Aliased(file, a[i])
               PROVE  a[j] = a[i]
    OBVIOUS
  <2>1. j - i \in Nat /\ i + (j - i) = j OBVIOUS
  <2>2. a[i + (j - i)] = a[i] BY <2>1, NameStays
  <2>3. QED BY <2>1, <2>2
<1> HIDE DEF n
<1>3. ASSUME Aliased(file, a[n]), NEW l \in Nat, ~Aliased(file, a[l]) PROVE FALSE
  <2> DEFINE T == {i \in Nat : ~Aliased(file, a[i])}
  <2>1. PICK m \in T : \A i \in T : m <= i
    <3>1. T \subseteq Nat /\ T # {} BY <1>3
    <3> HIDE DEF T
    <3>2. QED BY <3>1, Least
  <2>2. m \in Nat /\ ~Aliased(file, a[m]) /\ n < m
    <3>1. m <= n => a[n] = a[m] BY <1>1, <1>2
    <3>2. QED BY <1>1, <1>3, <3>1
  <2>3. \A i \in 0 .. n : Aliased(file, a[i])
    <3> TAKE i \in 0 .. n
    <3>1. i \in Nat /\ ~(m <= i) BY <1>1, <2>2
    <3>2. QED BY <2>1, <3>1
  <2>4. PICK i, j \in 0 .. n : i < j /\ a[i] = a[j] BY <2>3, NameTwice DEF n
  <2> DEFINE k == m - j
  <2>5. k \in Nat /\ i \in Nat /\ j \in Nat /\ j + k = m /\ i + k \in Nat /\ ~(m <= i + k)
    BY <1>1, <2>2, <2>4
  <2> HIDE DEF k, T
  <2>6. a[i + k] = a[j + k] BY <2>4, <2>5, NamesRepeat
  <2>7. i + k \in T BY <2>2, <2>5, <2>6 DEF T
  <2>8. QED BY <2>1, <2>5, <2>7
<1>4. InCircle(file, name) <=> Aliased(file, a[n]) BY <1>1 DEF InCircle
<1>5. \A i \in Nat : ~Aliased(file, a[i]) => a[i] = a[n]
  <2> TAKE i \in Nat
  <2>1. CASE i <= n BY <1>1, <1>2, <2>1
  <2>2. CASE n <= i BY <1>1, <1>2, <1>3, <2>2
  <2>3. QED BY <1>1, <2>1, <2>2
<1>6. QED BY <1>1, <1>3, <1>4, <1>5

\* If an alias of an alias comes before it in worker-images.yml, the one pass of
\* check_worker_images_are_used reports no image that a pool leads to; with the
\* other order it may.
THEOREM UnusedImagesExact ==
  ASSUME NEW file \in ImageFiles, NEW named,
         \A i, j \in DOMAIN file :
           file[i].alias = file[j].name /\ file[j].alias # NoAlias => i < j
  PROVE  UsedImages(file, named) = Reached(file, named)
<1> DEFINE n == Len(file)
<1>1. file \in Seq(ToSet(file)) /\ n \in Nat /\ DOMAIN file = 1 .. n
      /\ \A i, j \in DOMAIN file : file[i].name = file[j].name => i = j
  BY ImagesAssumption
<1>2. PICK u : /\ u[0] = named /\ UsedImages(file, named) = u[n]
               /\ \A i \in 1 .. n : u[i] = UsedStep(u[i - 1], file[i])
  BY <1>1, UsedSteps
<1>3. PICK r : /\ r[0] = named /\ Reached(file, named) = r[n]
               /\ \A i \in 1 .. n : r[i] = ReachedStep(r[i - 1], file)
  BY <1>1, ReachedSteps
<1> HIDE DEF n
<1>4. \A i \in 0 .. n : \A k \in 0 .. i : u[k] \subseteq u[i]
  <2> DEFINE S == {i \in 0 .. n : \A k \in 0 .. i : u[k] \subseteq u[i]}
  <2>1. 0 \in S BY <1>1
  <2>2. ASSUME NEW i \in 1 .. n, i - 1 \in S PROVE i \in S
    <3>1. u[i - 1] \subseteq u[i] BY <1>2 DEF UsedStep
    <3>2. ASSUME NEW k \in 0 .. i PROVE u[k] \subseteq u[i]
      <4>1. k = i \/ k \in 0 .. (i - 1) OBVIOUS
      <4>2. QED BY <2>2, <3>1, <4>1
    <3>3. i \in 0 .. n OBVIOUS
    <3>4. QED BY <3>2, <3>3
  <2>3. 0 .. n \subseteq S
    <3> HIDE DEF S
    <3>1. QED BY <1>1, <2>1, <2>2, Induction
  <2>4. QED BY <2>3
\* An image that is used by the end was used when the check came to it.
<1>5. ASSUME NEW x \in u[n] PROVE Follow(file, x) \in u[n]
  <2>1. CASE ~Aliased(file, x) BY <2>1, <1>5 DEF Follow
  <2>2. CASE Aliased(file, x)
    <3>1. PICK i \in 1 .. n : file[i].name = x BY <1>1, <2>2 DEF Aliased, Named
    <3>2. Entry(file, x) = file[i]
      <4>1. (CHOOSE j \in DOMAIN file : file[j].name = x) = i BY <1>1, <3>1
      <4>2. QED BY <4>1 DEF Entry
    <3>3. file[i].alias # NoAlias /\ Follow(file, x) = file[i].alias
      BY <2>2, <3>2 DEF Aliased, Follow
    <3>4. x \in u[i - 1]
      <4>1. CASE x \in named
        <5>1. 0 \in 0 .. (i - 1) /\ i - 1 \in 0 .. n BY <1>1
        <5>2. u[0] \subseteq u[i - 1] BY <1>4, <5>1
        <5>3. QED BY <1>2, <4>1, <5>2
      <4>2. CASE x \notin named
        <5>1. SUFFICES ASSUME x \notin u[i - 1] PROVE FALSE OBVIOUS
        <5> DEFINE T == {k \in 0 .. n : x \in u[k]}
        <5>2. n \in T BY <1>1, <1>5
        <5>3. PICK m \in T : \A k \in T : m <= k
          <6>1. T \subseteq Nat /\ T # {} BY <5>2
          <6> HIDE DEF T
          <6>2. QED BY <6>1, Least
        <5>4. m # 0 BY <1>2, <4>2
        <5>5. m \in 1 .. n /\ m - 1 \in 0 .. n /\ ~(m <= m - 1) BY <1>1, <5>3, <5>4
        <5>6. x \in u[m] /\ x \notin u[m - 1] BY <5>3, <5>5
        <5>7. x = file[m].alias BY <1>2, <5>5, <5>6 DEF UsedStep
        <5>8. m < i BY <1>1, <3>1, <3>3, <5>5, <5>7
        <5>9. m \in 0 .. (i - 1) /\ i - 1 \in 0 .. n BY <1>1, <5>5, <5>8
        <5>10. u[m] \subseteq u[i - 1] BY <1>4, <5>9
        <5>11. QED BY <5>1, <5>6, <5>10
      <4>3. QED BY <4>1, <4>2
    <3>5. u[i] = UsedStep(u[i - 1], file[i]) BY <1>2
    <3>6. file[i].alias \in u[i] BY <3>1, <3>3, <3>4, <3>5 DEF UsedStep
    <3>7. i \in 0 .. n /\ n \in 0 .. n BY <1>1
    <3>8. u[i] \subseteq u[n] BY <1>4, <3>7
    <3>9. QED BY <3>3, <3>6, <3>8
  <2>3. QED BY <2>1, <2>2
<1> DEFINE R == {i \in 0 .. n : r[i] \subseteq u[n]}
<1>6. 0 \in R
  <2>1. 0 \in 0 .. n /\ n \in 0 .. n BY <1>1
  <2>2. u[0] \subseteq u[n] BY <1>4, <2>1
  <2>3. QED BY <1>2, <1>3, <2>1, <2>2
<1>7. ASSUME NEW i \in 1 .. n, i - 1 \in R PROVE i \in R
  <2>1. r[i] = ReachedStep(r[i - 1], file) BY <1>3
  <2>2. r[i] \subseteq u[n] BY <1>5, <1>7, <2>1 DEF ReachedStep
  <2>3. i \in 0 .. n OBVIOUS
  <2>4. QED BY <2>2, <2>3
<1>8. 0 .. n \subseteq R
  <2> HIDE DEF R
  <2>1. QED BY <1>1, <1>6, <1>7, Induction
<1>9. n \in R BY <1>1, <1>8
<1>10. Reached(file, named) \subseteq UsedImages(file, named) BY <1>2, <1>3, <1>9
<1>11. UsedImages(file, named) \subseteq Reached(file, named) BY UsedIsReached
<1>12. QED BY <1>10, <1>11

\* The variants a pass goes through are those of the file.
LEMMA PlanTypes ==
  FlattenSeq([i \in DOMAIN Pools |-> [v \in DOMAIN Pools[i].variants |-> <<i, v>>]])
    \in Seq(Variants)
<1> DEFINE n == Len(Pools)
           seqs == [i \in DOMAIN Pools |-> [v \in DOMAIN Pools[i].variants |-> <<i, v>>]]
           V == Seq(Variants)
<1>1. n \in Nat /\ DOMAIN Pools = 1 .. n BY PoolsAssumption
<1>2. ASSUME NEW i \in 1 .. n PROVE seqs[i] \in V
  <2> DEFINE vs == Pools[i].variants
             m == Len(vs)
  <2>1. m \in Nat /\ DOMAIN vs = 1 .. m BY <1>1, PoolsAssumption
  <2>2. seqs[i] = [v \in 1 .. m |-> <<i, v>>] BY <1>1, <2>1
  <2>3. \A v \in 1 .. m : <<i, v>> \in Variants BY <1>1, <2>1 DEF Variants
  <2> HIDE DEF m, seqs
  <2>4. [v \in 1 .. m |-> <<i, v>>] \in [1 .. m -> Variants] BY <2>3
  <2>5. [v \in 1 .. m |-> <<i, v>>] \in Seq(Variants) BY <2>1, <2>4
  <2>6. QED BY <2>2, <2>5
<1>3. seqs \in Seq(V) /\ Len(seqs) = n
  <2>1. seqs = [i \in 1 .. n |-> seqs[i]] BY <1>1
  <2> HIDE DEF seqs, V, n
  <2>2. [i \in 1 .. n |-> seqs[i]] \in [1 .. n -> V] BY <1>2
  <2>3. seqs \in [1 .. n -> V] BY <2>1, <2>2
  <2>4. QED BY <1>1, <2>3
<1> HIDE DEF seqs
<1> DEFINE P(f) == f = [i \in 1 .. Len(seqs) |-> IF i = 1 THEN seqs[i] ELSE f[i - 1] \o seqs[i]]
           flatten == CHOOSE f : P(f)
<1>4. CASE n = 0
  <2>1. seqs = <<>> BY <1>3, <1>4
  <2>2. FlattenSeq(seqs) = <<>> BY <1>3, <1>4, <2>1, Zenon DEF FlattenSeq
  <2>3. QED BY <2>2 DEF seqs
<1>5. CASE n # 0
  <2> DEFINE turn == [i \in 1 .. n |-> [v \in V |-> v \o seqs[i]]]
  <2>1. FlattenSeq(seqs) = flatten[n] BY <1>3, <1>5, Zenon DEF FlattenSeq
  <2>2. turn \in [1 .. n -> [V -> V]] BY <1>2
  <2>3. PICK f : IsFold(f, n, V, <<>>, turn)
    <3>1. <<>> \in V OBVIOUS
    <3> HIDE DEF turn, V, n
    <3>2. QED BY <1>1, <2>2, <3>1, FoldExists
  <2> DEFINE g == [i \in 1 .. n |-> f[1 .. i]]
  <2>4. ASSUME NEW i \in 1 .. n
        PROVE  f[1 .. (i - 1)] \in V /\ f[1 .. i] = f[1 .. (i - 1)] \o seqs[i]
    <3>1. /\ 1 .. i \in SUBSET (1 .. n) /\ 1 .. i # {} /\ Max(1 .. i) = i
          /\ (1 .. i) \ {i} = 1 .. (i - 1)
      BY <1>1, FoldSteps
    <3>2. 1 .. (i - 1) \in SUBSET (1 .. n) BY <1>1
    <3>3. f[1 .. (i - 1)] \in V /\ f[1 .. i] = turn[i][f[1 .. (i - 1)]]
      <4> HIDE DEF turn, V
      <4>1. QED BY <2>3, <3>1, <3>2 DEF IsFold
    <3> HIDE DEF V
    <3>4. QED BY <3>3
  <2>5. f[1 .. 1] = seqs[1]
    <3>1. 1 \in 1 .. n /\ 1 .. (1 - 1) = {} BY <1>1, <1>5
    <3>2. f[{}] = <<>> BY <2>3 DEF IsFold
    <3>3. seqs[1] \in Seq(Variants) BY <1>2, <3>1
    <3>4. <<>> \o seqs[1] = seqs[1] BY <3>3
    <3>5. QED BY <2>4, <3>1, <3>2, <3>4
  <2>6. P(g)
    <3>1. \A i \in 1 .. n : g[i] = IF i = 1 THEN seqs[i] ELSE g[i - 1] \o seqs[i]
      <4> TAKE i \in 1 .. n
      <4>1. CASE i = 1 BY <2>5, <4>1
      <4>2. CASE i # 1
        <5>1. i - 1 \in 1 .. n BY <1>1, <4>2
        <5>2. QED BY <2>4, <4>2, <5>1
      <4>3. QED BY <4>1, <4>2
    <3> DEFINE h == [i \in 1 .. n |-> IF i = 1 THEN seqs[i] ELSE g[i - 1] \o seqs[i]]
    <3>2. \A i \in 1 .. n : g[i] = h[i] BY <3>1
    <3>3. g = [i \in 1 .. n |-> g[i]] /\ h = [i \in 1 .. n |-> h[i]] OBVIOUS
    <3>4. g = h
      <4> HIDE DEF g, h
      <4>1. QED BY <3>2, <3>3
    <3> HIDE DEF g
    <3>5. QED BY <1>3, <3>4
  <2>7. P(flatten) BY <2>6, Zenon
  <2> HIDE DEF flatten
  <2>8. \A i \in 1 .. n : flatten[i] = IF i = 1 THEN seqs[i] ELSE flatten[i - 1] \o seqs[i]
    BY <1>3, <2>7
  <2> DEFINE S == {i \in 0 .. n : i = 0 \/ flatten[i] \in V}
  <2>9. 0 \in S BY <1>1
  <2>10. ASSUME NEW i \in 1 .. n, i - 1 \in S PROVE i \in S
    <3>1. seqs[i] \in Seq(Variants) /\ i \in 0 .. n BY <1>1, <1>2
    <3>2. CASE i = 1 BY <2>8, <3>1, <3>2
    <3>3. CASE i # 1
      <4>1. flatten[i - 1] \in Seq(Variants) BY <2>10, <3>3
      <4>2. flatten[i] = flatten[i - 1] \o seqs[i] BY <2>8, <3>3
      <4>3. flatten[i] \in Seq(Variants) BY <3>1, <4>1, <4>2
      <4>4. QED BY <3>1, <4>3
    <3>4. QED BY <3>2, <3>3
  <2>11. 0 .. n \subseteq S
    <3> HIDE DEF S, n
    <3>1. QED BY <1>1, <2>9, <2>10, Induction
  <2>12. flatten[n] \in V BY <1>1, <1>5, <2>11
  <2>13. QED BY <2>1, <2>12 DEF seqs
<1>6. QED BY <1>4, <1>5

LEMMA PoolInit == Init => PoolInv
<1> SUFFICES ASSUME Init PROVE PoolInv OBVIOUS
<1>1. Cells(anchors) BY CellsAtFirst DEF Init
<1>2. todo \in Seq(Variants) /\ DOMAIN made = {} BY DEF Init
<1>3. OfItsOwnDefinition /\ LaunchesPlaced BY DEF Init, OfItsOwnDefinition, LaunchesPlaced, Generated
<1>4. QED BY <1>1, <1>2, <1>3 DEF Init, PoolInv

\* The pools and all but a pass's own progress stay as they are.
LEMMA AdvanceKeeps ==
  ASSUME PoolInv, todo # <<>>, NEW result, Advance(result)
  PROVE  /\ images' \in ImageFiles /\ Cells(anchors)'
         /\ Head(todo) \in Variants
         /\ todo' \in Seq(Variants) /\ DOMAIN made' \subseteq Variants
         /\ DOMAIN made' = DOMAIN made \cup {Head(todo)}
         /\ \A pv \in DOMAIN made' :
              made'[pv] = IF pv = Head(todo) THEN result ELSE made[pv]
<1>1. Head(todo) \in Variants /\ Tail(todo) \in Seq(Variants)
  <2>1. todo \in Seq(Variants) BY DEF PoolInv
  <2>2. QED BY <2>1
<1>2. Cells(anchors)'
  <2>1. anchors' = Formatted(PoolOf(Head(todo)), AttributesOf(Head(todo)), anchors) BY DEF Advance
  <2>2. Cells(Formatted(PoolOf(Head(todo)), AttributesOf(Head(todo)), anchors))
    BY CellsStay DEF PoolInv
  <2>3. QED BY <2>1, <2>2 DEF Cells, CellOf
<1> DEFINE pv == Head(todo)
<1>3. made' = [x \in DOMAIN made \cup {pv} |-> IF x = pv THEN result ELSE made[x]]
  BY DEF Advance
<1> HIDE DEF pv
<1>4. DOMAIN made' = DOMAIN made \cup {pv}
      /\ \A x \in DOMAIN made' : made'[x] = IF x = pv THEN result ELSE made[x]
  BY <1>3
<1>5. QED BY <1>1, <1>2, <1>4 DEF PoolInv, Advance, pv

\* Whether a pool's launch configs are apart and in place is of the pool alone.
LEMMA PlacedAlways ==
  \A pool : (IdsApart(pool)' <=> IdsApart(pool)) /\ (DisksInPlace(pool)' <=> DisksInPlace(pool))
BY DEF IdsApart, DisksInPlace, Replaced, MachineOf

LEMMA GenerateKeeps == PoolInv /\ Generate => PoolInv'
<1> SUFFICES ASSUME PoolInv, Generate PROVE PoolInv' OBVIOUS
<1> DEFINE pv == Head(todo)
           result == WorkerPool(VariantOf(pv, anchors), images, Defaults)
<1>1. /\ todo # <<>> /\ ~VariantRaises(PoolOf(pv), AttributesOf(pv)) /\ pass = "generate"
      /\ Advance(result)
  BY DEF Generate, Yields
<1>2. /\ images' \in ImageFiles /\ Cells(anchors)' /\ pv \in Variants
      /\ todo' \in Seq(Variants) /\ DOMAIN made' \subseteq Variants
      /\ DOMAIN made' = DOMAIN made \cup {pv}
      /\ \A x \in DOMAIN made' : made'[x] = IF x = pv THEN result ELSE made[x]
  <2> HIDE DEF result
  <2>1. QED BY <1>1, AdvanceKeeps DEF pv
<1>3. images' = images /\ pass' = pass BY <1>1 DEF Advance
<1>4. BorrowsTemplate(pv) \/ result = WorkerPool(VariantOf(pv, Anchors), images, Defaults)
  <2>1. ASSUME ~BorrowsTemplate(pv) PROVE VariantOf(pv, anchors) = VariantOf(pv, Anchors)
    <3> HIDE DEF pv
    <3>1. QED BY <1>1, <1>2, <2>1, OwnTypesKept DEF PoolInv
  <2>2. QED BY <2>1
<1>5. IdsApart(result) /\ DisksInPlace(result)
  <2> DEFINE v == VariantOf(pv, anchors)
  <2>1. /\ \A j, k \in DOMAIN v.types :
             v.types[j].machine.lit.stem = v.types[k].machine.lit.stem => j = k
        /\ \A j \in DOMAIN v.types : Unplaced(v.types[j])
    <3> HIDE DEF pv
    <3>1. QED BY <1>1, <1>2, TypesApart DEF PoolInv
  <2> HIDE DEF v
  <2>2. IdsApart(WorkerPool(v, images, Defaults)) /\ DisksInPlace(WorkerPool(v, images, Defaults))
    BY <2>1, LaunchesApart
  <2>3. QED BY <2>2 DEF v
<1> HIDE DEF pv, result
<1>6. OfItsOwnDefinition'
  <2> SUFFICES ASSUME NEW x \in DOMAIN made'
               PROVE  BorrowsTemplate(x) \/ made'[x] = WorkerPool(VariantOf(x, Anchors), images', Defaults)
    BY DEF OfItsOwnDefinition, BorrowsTemplate
  <2>1. CASE x # pv
    <3>0. x \in DOMAIN made BY <1>2, <2>1
    <3>1. BorrowsTemplate(x) \/ made[x] = WorkerPool(VariantOf(x, Anchors), images, Defaults)
      BY <1>1, <3>0 DEF PoolInv, OfItsOwnDefinition
    <3>2. QED BY <1>2, <1>3, <2>1, <3>1
  <2>2. CASE x = pv BY <1>2, <1>3, <1>4, <2>2
  <2>3. QED BY <2>1, <2>2
<1>7. LaunchesPlaced'
  <2> SUFFICES ASSUME NEW x \in DOMAIN made' PROVE IdsApart(made'[x]) /\ DisksInPlace(made'[x])
    BY PlacedAlways DEF LaunchesPlaced, Generated
  <2>1. x \in DOMAIN made => IdsApart(made[x]) /\ DisksInPlace(made[x])
    BY <1>1 DEF PoolInv, LaunchesPlaced, Generated
  <2>2. QED BY <1>2, <1>5, <2>1
<1>8. QED BY <1>2, <1>6, <1>7 DEF PoolInv

LEMMA PoolNext == PoolInv /\ [Next]_poolVars => PoolInv'
<1> SUFFICES ASSUME PoolInv, [Next]_poolVars PROVE PoolInv' OBVIOUS
<1>1. ASSUME NEW k, StartPass(k) PROVE PoolInv'
  <2>1. todo' \in Seq(Variants) BY <1>1, PlanTypes DEF StartPass
  <2>2. DOMAIN made' = {} BY <1>1 DEF StartPass
  <2>3. Cells(anchors)' BY <1>1 DEF PoolInv, StartPass, Cells, CellOf
  <2>4. OfItsOwnDefinition' /\ LaunchesPlaced'
    BY <2>2 DEF OfItsOwnDefinition, LaunchesPlaced, Generated
  <2>5. QED BY <1>1, <2>1, <2>2, <2>3, <2>4 DEF PoolInv, StartPass
<1>2. ASSUME Generate PROVE PoolInv' BY <1>2, GenerateKeeps
<1>3. ASSUME Collect PROVE PoolInv'
  <2>1. /\ todo # <<>> /\ pass = "check" /\ Advance(VariantOf(Head(todo), anchors).image)
    BY <1>3 DEF Collect, Yields
  <2>2. pass' = "check" BY <2>1 DEF Advance
  <2>3. OfItsOwnDefinition' /\ LaunchesPlaced'
    BY <2>2 DEF OfItsOwnDefinition, LaunchesPlaced, Generated
  <2>4. QED BY <2>1, <2>3, AdvanceKeeps DEF PoolInv
<1>4. ASSUME Raise PROVE PoolInv'
  <2>1. todo' \in Seq(Variants) /\ DOMAIN made' = {} BY <1>4 DEF Raise
  <2>2. Cells(anchors)' BY <1>4 DEF PoolInv, Raise, Cells, CellOf
  <2>3. OfItsOwnDefinition' /\ LaunchesPlaced'
    BY <2>1 DEF OfItsOwnDefinition, LaunchesPlaced, Generated
  <2>4. QED BY <1>4, <2>1, <2>2, <2>3 DEF PoolInv, Raise
<1>5. ASSUME EndPass PROVE PoolInv'
  <2>1. Cells(anchors)' BY <1>5 DEF PoolInv, EndPass, Cells, CellOf
  <2>2. Generated' = Generated BY <1>5 DEF EndPass, Generated
  <2>3. OfItsOwnDefinition' /\ LaunchesPlaced'
    BY <1>5, <2>2, PlacedAlways DEF EndPass, PoolInv, OfItsOwnDefinition, LaunchesPlaced, BorrowsTemplate
  <2>4. QED BY <1>5, <2>1, <2>3 DEF PoolInv, EndPass
<1>6. ASSUME UNCHANGED poolVars PROVE PoolInv'
  <2>1. Cells(anchors)' BY <1>6 DEF PoolInv, poolVars, Cells, CellOf
  <2>2. Generated' = Generated BY <1>6 DEF poolVars, Generated
  <2>3. OfItsOwnDefinition' /\ LaunchesPlaced'
    BY <1>6, <2>2, PlacedAlways DEF poolVars, PoolInv, OfItsOwnDefinition, LaunchesPlaced, BorrowsTemplate
  <2>4. QED BY <1>6, <2>1, <2>3 DEF PoolInv, poolVars
<1>7. QED BY <1>1, <1>2, <1>3, <1>4, <1>5, <1>6 DEF Next

-----------------------------------------------------------------------------
(* The integration tests.                                                  *)

\* The tasks of a graph that are wanted, those upstream of them, and those for
\* which artifacts are to be fetched.
WantedOf(g) == {t \in ToSet(Graphs[g]) : Wanted(t)}
Upstream(g) == UNION {ToSet(Ancestors[t]) : t \in WantedOf(g)}
NamedIn(ids, k) == {t \in ids : Tasks[t].name \in IncludeDeps[k]}
Needed(g)   == WantedOf(g) \cup (NamedIn(Upstream(g), "firefoxci-artifact") \ Expired)
\* All that t needs is among the artifacts m.
Covers(m, t) ==
  /\ Tasks[t].image # NoTask => Tasks[t].image \in DOMAIN m
  /\ \A f \in ToSet(Tasks[t].fetches) : Mirrored(t, f) =>
       f.task \in DOMAIN m /\ f.artifact \in ToSet(m[f.task])

\* The inductive invariant of Integration: what is found for a kind grows towards
\* all that is needed of the graph it is made of, and the second kind finds there
\* what the first one did if their graphs are the same.
Kinds == {"firefoxci-artifact", "integration-test", "optimize", "done", "done for files", "failed"}
StepsOK ==
  /\ kind \in Kinds /\ step \in {"start", "scan", "ask"}
  /\ kind \notin DOMAIN IncludeDeps => step = "start"
  /\ latest \in DOMAIN Graphs /\ graph \in DOMAIN Graphs \cup {NoTask}
  /\ kind \in DOMAIN IncludeDeps => tests = <<>>
RootsOK ==
  kind \in DOMAIN IncludeDeps =>
    IF deployment = "staging" THEN IF step = "ask" THEN origRoot = "staging" ELSE root = "staging"
    ELSE step = "start" /\ root = deployment
SourcesOK ==
  /\ DOMAIN sources \subseteq DOMAIN IncludeDeps
  /\ \A k \in DOMAIN sources : sources[k] \in DOMAIN Graphs
  /\ deployment # "staging" => sources = <<>>
  /\ deployment = "staging" /\ kind \notin {"firefoxci-artifact", "failed"} =>
       "firefoxci-artifact" \in DOMAIN sources
ScanOK ==
  step # "start" =>
    /\ graph \in DOMAIN Graphs /\ kind \in DOMAIN sources /\ sources[kind] = graph
    /\ scan \in Seq(DOMAIN Tasks) /\ found \in Seq(DOMAIN Tasks) /\ upstream \in Seq(DOMAIN Tasks)
    /\ ToSet(scan) \subseteq ToSet(Graphs[graph])
    /\ ToSet(found) \subseteq WantedOf(graph)
    /\ WantedOf(graph) \subseteq ToSet(found) \cup ToSet(scan)
    /\ ToSet(upstream) \subseteq NamedIn(Upstream(graph), kind)
    /\ step = "ask" => found # <<>>
    /\ \A i \in 1 .. Len(found) :
         \/ step = "ask" /\ i = Len(found)
         \/ NamedIn(ToSet(Ancestors[found[i]]), kind) \subseteq ToSet(upstream)
ArtifactsOK ==
  kind \notin {"firefoxci-artifact", "failed"} /\ "firefoxci-artifact" \in DOMAIN sources =>
    \A t \in Needed(sources["firefoxci-artifact"]) : Covers(artifacts, t)
GraphInv ==
  StepsOK /\ RootsOK /\ SourcesOK /\ ScanOK /\ ArtifactsOK /\ GraphWhole /\ FetchesServed

LEMMA AppendSet ==
  ASSUME NEW S, NEW s \in Seq(S), NEW e \in S
  PROVE  /\ Append(s, e) \in Seq(S) /\ ToSet(Append(s, e)) = ToSet(s) \cup {e}
         /\ Len(Append(s, e)) = Len(s) + 1 /\ Append(s, e)[Len(s) + 1] = e
         /\ \A i \in 1 .. Len(s) : Append(s, e)[i] = s[i]
<1> DEFINE n == Len(s)
           r == Append(s, e)
<1>1. /\ n \in Nat /\ r \in Seq(S) /\ Len(r) = n + 1 /\ r[n + 1] = e
      /\ \A i \in 1 .. n : r[i] = s[i]
  BY AppendProperties
<1>2. DOMAIN r = 1 .. (n + 1) /\ DOMAIN s = 1 .. n BY <1>1
<1> HIDE DEF n, r
<1>3. 1 .. (n + 1) = (1 .. n) \cup {n + 1} BY <1>1
<1>4. ToSet(r) = ToSet(s) \cup {e} BY <1>1, <1>2, <1>3 DEF ToSet
<1>5. QED BY <1>1, <1>4 DEF n, r

MatchStep(all, t) == IF Tasks[t].name \in IncludeDeps[kind] THEN Append(all, t) ELSE all
FoundStep(ids, t) == IF t \in ToSet(ids) \cup Expired THEN ids ELSE Append(ids, t)
FirstStep(first, t) ==
  IF \E i \in DOMAIN first : Tasks[first[i]].name = Tasks[t].name THEN first ELSE Append(first, t)
FetchStep(m, t, f) == IF Mirrored(t, f) THEN WithArtifact(m, f.task, f.artifact) ELSE m

\* The tasks upstream are looked at one by one.
LEMMA MatchingSteps ==
  ASSUME NEW before \in Seq(DOMAIN Tasks), NEW ids \in Seq(DOMAIN Tasks)
  PROVE  \E a : /\ a[0] = before /\ Matching(before, ids) = a[Len(ids)]
                /\ \A i \in 1 .. Len(ids) : a[i] = MatchStep(a[i - 1], ids[i])
<1> DEFINE n == Len(ids)
           V == Seq(DOMAIN Tasks)
           turn == [i \in 1 .. n |-> [v \in V |-> MatchStep(v, ids[i])]]
           P(f) == f = [x \in SUBSET (1 .. n) |->
                          IF x = {} THEN before ELSE MatchStep(f[x \ {Max(x)}], ids[Max(x)])]
           it == CHOOSE f : P(f)
<1>1. n \in Nat /\ DOMAIN ids = 1 .. n /\ before \in V OBVIOUS
<1>2. Matching(before, ids) = it[1 .. n]
  BY <1>1, Zenon DEF Matching, MatchStep, FoldLeft, MapThenFoldSet
<1>3. turn \in [1 .. n -> [V -> V]]
  <2>1. \A v \in V, i \in 1 .. n : MatchStep(v, ids[i]) \in V
    <3> TAKE v \in V, i \in 1 .. n
    <3>1. ids[i] \in DOMAIN Tasks BY <1>1
    <3> HIDE DEF n
    <3>2. QED BY <3>1, AppendSet DEF MatchStep
  <2> HIDE DEF V, n
  <2>2. QED BY <2>1
<1>4. PICK f : IsFold(f, n, V, before, turn)
  <2> HIDE DEF turn, V, n
  <2>1. QED BY <1>1, <1>3, FoldExists
<1>5. \A x \in SUBSET (1 .. n) : x # {} => f[x] = MatchStep(f[x \ {Max(x)}], ids[Max(x)])
  <2> SUFFICES ASSUME NEW x \in SUBSET (1 .. n), x # {}
               PROVE  f[x] = MatchStep(f[x \ {Max(x)}], ids[Max(x)])
    OBVIOUS
  <2> HIDE DEF V
  <2>1. Max(x) \in 1 .. n BY <1>1, Greatest
  <2>2. f[x \ {Max(x)}] \in V /\ f[x] = turn[Max(x)][f[x \ {Max(x)}]] BY <1>4 DEF IsFold
  <2>3. QED BY <2>1, <2>2
<1>6. P(f)
  <2> HIDE DEF turn, V
  <2>1. f \in [SUBSET (1 .. n) -> V] /\ f[{}] = before BY <1>4 DEF IsFold
  <2>2. QED BY <1>5, <2>1
<1>7. P(it) BY <1>6, Zenon
<1>8. /\ it[{}] = before
      /\ \A x \in SUBSET (1 .. n) : x # {} => it[x] = MatchStep(it[x \ {Max(x)}], ids[Max(x)])
  <2> HIDE DEF it
  <2>1. {} \in SUBSET (1 .. n) OBVIOUS
  <2>2. QED BY <1>7, <2>1
<1> DEFINE a == [i \in 0 .. n |-> it[1 .. i]]
<1> HIDE DEF it
<1>9. a[0] = before /\ it[1 .. n] = a[n]
  <2>1. 1 .. 0 = {} /\ 0 \in 0 .. n /\ n \in 0 .. n BY <1>1
  <2>2. QED BY <1>8, <2>1
<1>10. \A i \in 1 .. n : a[i] = MatchStep(a[i - 1], ids[i])
  <2> TAKE i \in 1 .. n
  <2>1. /\ 1 .. i \in SUBSET (1 .. n) /\ 1 .. i # {} /\ Max(1 .. i) = i
        /\ (1 .. i) \ {i} = 1 .. (i - 1)
    BY <1>1, FoldSteps
  <2>2. it[1 .. i] = MatchStep(it[1 .. (i - 1)], ids[i]) BY <1>8, <2>1
  <2>3. i \in 0 .. n /\ i - 1 \in 0 .. n OBVIOUS
  <2>4. QED BY <2>2, <2>3
<1> HIDE DEF a
<1>11. QED BY <1>2, <1>9, <1>10

\* So are those found there, for their definitions.
LEMMA FoundSteps ==
  ASSUME found \in Seq(DOMAIN Tasks), upstream \in Seq(DOMAIN Tasks)
  PROVE  \E a : /\ a[0] = found /\ Found = a[Len(upstream)]
                /\ \A i \in 1 .. Len(upstream) : a[i] = FoundStep(a[i - 1], upstream[i])
<1> DEFINE n == Len(upstream)
           V == Seq(DOMAIN Tasks)
           turn == [i \in 1 .. n |-> [v \in V |-> FoundStep(v, upstream[i])]]
           P(f) == f = [x \in SUBSET (1 .. n) |->
                          IF x = {} THEN found ELSE FoundStep(f[x \ {Max(x)}], upstream[Max(x)])]
           it == CHOOSE f : P(f)
<1>1. n \in Nat /\ DOMAIN upstream = 1 .. n /\ found \in V OBVIOUS
<1>2. Found = it[1 .. n]
  BY <1>1, Zenon DEF Found, FoundStep, FoldLeft, MapThenFoldSet
<1>3. turn \in [1 .. n -> [V -> V]]
  <2>1. \A v \in V, i \in 1 .. n : FoundStep(v, upstream[i]) \in V
    <3> TAKE v \in V, i \in 1 .. n
    <3>1. upstream[i] \in DOMAIN Tasks BY <1>1
    <3> HIDE DEF n
    <3>2. QED BY <3>1, AppendSet DEF FoundStep
  <2> HIDE DEF V, n
  <2>2. QED BY <2>1
<1>4. PICK f : IsFold(f, n, V, found, turn)
  <2> HIDE DEF turn, V, n
  <2>1. QED BY <1>1, <1>3, FoldExists
<1>5. \A x \in SUBSET (1 .. n) : x # {} => f[x] = FoundStep(f[x \ {Max(x)}], upstream[Max(x)])
  <2> SUFFICES ASSUME NEW x \in SUBSET (1 .. n), x # {}
               PROVE  f[x] = FoundStep(f[x \ {Max(x)}], upstream[Max(x)])
    OBVIOUS
  <2> HIDE DEF V
  <2>1. Max(x) \in 1 .. n BY <1>1, Greatest
  <2>2. f[x \ {Max(x)}] \in V /\ f[x] = turn[Max(x)][f[x \ {Max(x)}]] BY <1>4 DEF IsFold
  <2>3. QED BY <2>1, <2>2
<1>6. P(f)
  <2> HIDE DEF turn, V
  <2>1. f \in [SUBSET (1 .. n) -> V] /\ f[{}] = found BY <1>4 DEF IsFold
  <2>2. QED BY <1>5, <2>1
<1>7. P(it) BY <1>6, Zenon
<1>8. /\ it[{}] = found
      /\ \A x \in SUBSET (1 .. n) : x # {} => it[x] = FoundStep(it[x \ {Max(x)}], upstream[Max(x)])
  <2> HIDE DEF it
  <2>1. {} \in SUBSET (1 .. n) OBVIOUS
  <2>2. QED BY <1>7, <2>1
<1> DEFINE a == [i \in 0 .. n |-> it[1 .. i]]
<1> HIDE DEF it
<1>9. a[0] = found /\ it[1 .. n] = a[n]
  <2>1. 1 .. 0 = {} /\ 0 \in 0 .. n /\ n \in 0 .. n BY <1>1
  <2>2. QED BY <1>8, <2>1
<1>10. \A i \in 1 .. n : a[i] = FoundStep(a[i - 1], upstream[i])
  <2> TAKE i \in 1 .. n
  <2>1. /\ 1 .. i \in SUBSET (1 .. n) /\ 1 .. i # {} /\ Max(1 .. i) = i
        /\ (1 .. i) \ {i} = 1 .. (i - 1)
    BY <1>1, FoldSteps
  <2>2. it[1 .. i] = FoundStep(it[1 .. (i - 1)], upstream[i]) BY <1>8, <2>1
  <2>3. i \in 0 .. n /\ i - 1 \in 0 .. n OBVIOUS
  <2>4. QED BY <2>2, <2>3
<1> HIDE DEF a
<1>11. QED BY <1>2, <1>9, <1>10

\* And the tasks that tests are made of, for their names.
LEMMA FirstSteps ==
  ASSUME NEW ids \in Seq(DOMAIN Tasks)
  PROVE  \E a : /\ a[0] = <<>> /\ FirstOfItsName(ids) = a[Len(ids)]
                /\ \A i \in 1 .. Len(ids) : a[i] = FirstStep(a[i - 1], ids[i])
<1> DEFINE n == Len(ids)
           V == Seq(DOMAIN Tasks)
           turn == [i \in 1 .. n |-> [v \in V |-> FirstStep(v, ids[i])]]
           P(f) == f = [x \in SUBSET (1 .. n) |->
                          IF x = {} THEN <<>> ELSE FirstStep(f[x \ {Max(x)}], ids[Max(x)])]
           it == CHOOSE f : P(f)
<1>1. n \in Nat /\ DOMAIN ids = 1 .. n /\ <<>> \in V OBVIOUS
<1>2. FirstOfItsName(ids) = it[1 .. n]
  BY <1>1, Zenon DEF FirstOfItsName, FirstStep, FoldLeft, MapThenFoldSet
<1>3. turn \in [1 .. n -> [V -> V]]
  <2>1. \A v \in V, i \in 1 .. n : FirstStep(v, ids[i]) \in V
    <3> TAKE v \in V, i \in 1 .. n
    <3>1. ids[i] \in DOMAIN Tasks BY <1>1
    <3> HIDE DEF n
    <3>2. QED BY <3>1, AppendSet DEF FirstStep
  <2> HIDE DEF V, n
  <2>2. QED BY <2>1
<1>4. PICK f : IsFold(f, n, V, <<>>, turn)
  <2> HIDE DEF turn, V, n
  <2>1. QED BY <1>1, <1>3, FoldExists
<1>5. \A x \in SUBSET (1 .. n) : x # {} => f[x] = FirstStep(f[x \ {Max(x)}], ids[Max(x)])
  <2> SUFFICES ASSUME NEW x \in SUBSET (1 .. n), x # {}
               PROVE  f[x] = FirstStep(f[x \ {Max(x)}], ids[Max(x)])
    OBVIOUS
  <2> HIDE DEF V
  <2>1. Max(x) \in 1 .. n BY <1>1, Greatest
  <2>2. f[x \ {Max(x)}] \in V /\ f[x] = turn[Max(x)][f[x \ {Max(x)}]] BY <1>4 DEF IsFold
  <2>3. QED BY <2>1, <2>2
<1>6. P(f)
  <2> HIDE DEF turn, V
  <2>1. f \in [SUBSET (1 .. n) -> V] /\ f[{}] = <<>> BY <1>4 DEF IsFold
  <2>2. QED BY <1>5, <2>1
<1>7. P(it) BY <1>6, Zenon
<1>8. /\ it[{}] = <<>>
      /\ \A x \in SUBSET (1 .. n) : x # {} => it[x] = FirstStep(it[x \ {Max(x)}], ids[Max(x)])
  <2> HIDE DEF it
  <2>1. {} \in SUBSET (1 .. n) OBVIOUS
  <2>2. QED BY <1>7, <2>1
<1> DEFINE a == [i \in 0 .. n |-> it[1 .. i]]
<1> HIDE DEF it
<1>9. a[0] = <<>> /\ it[1 .. n] = a[n]
  <2>1. 1 .. 0 = {} /\ 0 \in 0 .. n /\ n \in 0 .. n BY <1>1
  <2>2. QED BY <1>8, <2>1
<1>10. \A i \in 1 .. n : a[i] = FirstStep(a[i - 1], ids[i])
  <2> TAKE i \in 1 .. n
  <2>1. /\ 1 .. i \in SUBSET (1 .. n) /\ 1 .. i # {} /\ Max(1 .. i) = i
        /\ (1 .. i) \ {i} = 1 .. (i - 1)
    BY <1>1, FoldSteps
  <2>2. it[1 .. i] = FirstStep(it[1 .. (i - 1)], ids[i]) BY <1>8, <2>1
  <2>3. i \in 0 .. n /\ i - 1 \in 0 .. n OBVIOUS
  <2>4. QED BY <2>2, <2>3
<1> HIDE DEF a
<1>11. QED BY <1>2, <1>9, <1>10

\* The names artifacts may have.
Names == STRING \cup {"image.tar.zst"}

LEMMA FetchFacts ==
  ASSUME NEW t \in DOMAIN Tasks
  PROVE  /\ Tasks[t].image \in DOMAIN Tasks \cup {NoTask}
         /\ Tasks[t].fetches \in Seq(Fetch)
         /\ \A f \in Fetch : f.task \in DOMAIN Tasks /\ f.artifact \in Names
BY TasksAssumption DEF Fetch, Names

Mades == UNION {[ids -> Seq(Names)] : ids \in SUBSET DOMAIN Tasks}
Grows(m, new) ==
  DOMAIN m \subseteq DOMAIN new /\ \A i \in DOMAIN m : ToSet(m[i]) \subseteq ToSet(new[i])

LEMMA GrowsOn ==
  /\ \A m \in Mades : Grows(m, m)
  /\ \A l, m, n \in Mades : Grows(l, m) /\ Grows(m, n) => Grows(l, n)
  /\ \A m, n \in Mades : \A t \in DOMAIN Tasks : Grows(m, n) /\ Covers(m, t) => Covers(n, t)
BY DEF Grows, Covers

LEMMA WithArtifactAdds ==
  ASSUME NEW m \in Mades, NEW id \in DOMAIN Tasks, NEW artifact \in Names
  PROVE  /\ WithArtifact(m, id, artifact) \in Mades
         /\ Grows(m, WithArtifact(m, id, artifact))
         /\ id \in DOMAIN WithArtifact(m, id, artifact)
         /\ artifact \in ToSet(WithArtifact(m, id, artifact)[id])
<1> DEFINE new == WithArtifact(m, id, artifact)
<1>1. PICK ids \in SUBSET DOMAIN Tasks : m \in [ids -> Seq(Names)] BY DEF Mades
<1>2. /\ DOMAIN new = ids \cup {id}
      /\ \A i \in ids : i # id => new[i] = m[i]
      /\ new[id] = IF id \in ids THEN Append(m[id], artifact) ELSE <<artifact>>
  BY <1>1 DEF WithArtifact
<1>3. new = [i \in ids \cup {id} |-> new[i]] BY <1>1 DEF WithArtifact
<1>4. /\ new[id] \in Seq(Names) /\ artifact \in ToSet(new[id])
      /\ id \in ids => ToSet(m[id]) \subseteq ToSet(new[id])
  <2>1. CASE id \in ids
    <3>1. m[id] \in Seq(Names) BY <1>1, <2>1
    <3>2. QED BY <1>2, <2>1, <3>1, AppendSet
  <2>2. CASE id \notin ids
    <3> DEFINE s == <<artifact>>
    <3>1. s \in Seq(Names) /\ 1 \in DOMAIN s /\ s[1] = artifact OBVIOUS
    <3>2. new[id] = s BY <1>2, <2>2
    <3> HIDE DEF s
    <3>3. QED BY <2>2, <3>1, <3>2 DEF ToSet
  <2>3. QED BY <2>1, <2>2
<1> HIDE DEF new
<1>5. \A i \in ids \cup {id} : new[i] \in Seq(Names) BY <1>1, <1>2, <1>4
<1>6. new \in [ids \cup {id} -> Seq(Names)] BY <1>3, <1>5
<1>7. new \in Mades BY <1>6 DEF Mades
<1>8. Grows(m, new) BY <1>1, <1>2, <1>4 DEF Grows
<1>9. QED BY <1>2, <1>4, <1>7, <1>8 DEF new

ImageAdded(m, t) ==
  IF Tasks[t].image = NoTask \/ Tasks[t].image \in DOMAIN m THEN m
  ELSE WithArtifact(m, Tasks[t].image, "image.tar.zst")

LEMMA ImageAddedCovers ==
  ASSUME NEW m \in Mades, NEW t \in DOMAIN Tasks
  PROVE  /\ ImageAdded(m, t) \in Mades /\ Grows(m, ImageAdded(m, t))
         /\ Tasks[t].image # NoTask => Tasks[t].image \in DOMAIN ImageAdded(m, t)
<1>1. CASE Tasks[t].image = NoTask \/ Tasks[t].image \in DOMAIN m
  BY <1>1, GrowsOn DEF ImageAdded
<1>2. CASE ~(Tasks[t].image = NoTask \/ Tasks[t].image \in DOMAIN m)
  <2> DEFINE image == Tasks[t].image
  <2>1. image \in DOMAIN Tasks BY <1>2, FetchFacts
  <2>2. ImageAdded(m, t) = WithArtifact(m, image, "image.tar.zst") BY <1>2 DEF ImageAdded
  <2>3. "image.tar.zst" \in Names BY DEF Names
  <2> HIDE DEF image
  <2>4. /\ ImageAdded(m, t) \in Mades /\ Grows(m, ImageAdded(m, t))
        /\ image \in DOMAIN ImageAdded(m, t)
    BY <2>1, <2>2, <2>3, WithArtifactAdds
  <2>5. QED BY <2>4 DEF image
<1>3. QED BY <1>1, <1>2

LEMMA FetchStepAdds ==
  ASSUME NEW m \in Mades, NEW t \in DOMAIN Tasks, NEW f \in Fetch
  PROVE  /\ FetchStep(m, t, f) \in Mades /\ Grows(m, FetchStep(m, t, f))
         /\ Mirrored(t, f) => /\ f.task \in DOMAIN FetchStep(m, t, f)
                              /\ f.artifact \in ToSet(FetchStep(m, t, f)[f.task])
<1>1. f.task \in DOMAIN Tasks /\ f.artifact \in Names BY FetchFacts
<1>2. CASE Mirrored(t, f) BY <1>1, <1>2, WithArtifactAdds DEF FetchStep
<1>3. CASE ~Mirrored(t, f) BY <1>3, GrowsOn DEF FetchStep
<1>4. QED BY <1>2, <1>3

\* The fetches of a task are added one by one.
LEMMA FetchSteps ==
  ASSUME NEW m \in Mades, NEW t \in DOMAIN Tasks
  PROVE  \E a : /\ a[0] = ImageAdded(m, t) /\ AddArtifactsOf(m, t) = a[Len(Tasks[t].fetches)]
                /\ \A i \in 1 .. Len(Tasks[t].fetches) : a[i] = FetchStep(a[i - 1], t, Tasks[t].fetches[i])
<1> DEFINE n == Len(Tasks[t].fetches)
           V == Mades
           turn == [i \in 1 .. n |-> [v \in V |-> FetchStep(v, t, Tasks[t].fetches[i])]]
           P(f) == f = [x \in SUBSET (1 .. n) |->
                          IF x = {} THEN ImageAdded(m, t) ELSE FetchStep(f[x \ {Max(x)}], t, Tasks[t].fetches[Max(x)])]
           it == CHOOSE f : P(f)
<1>1. n \in Nat /\ DOMAIN Tasks[t].fetches = 1 .. n /\ ImageAdded(m, t) \in V BY FetchFacts, ImageAddedCovers
<1>2. AddArtifactsOf(m, t) = it[1 .. n]
  BY <1>1, Zenon DEF AddArtifactsOf, ImageAdded, FetchStep, FoldLeft, MapThenFoldSet
<1>3. turn \in [1 .. n -> [V -> V]]
  <2>1. \A v \in V, i \in 1 .. n : FetchStep(v, t, Tasks[t].fetches[i]) \in V
    <3> TAKE v \in V, i \in 1 .. n
    <3>1. Tasks[t].fetches[i] \in Fetch BY <1>1, FetchFacts
    <3> HIDE DEF n
    <3>2. QED BY <3>1, FetchStepAdds
  <2> HIDE DEF V, n
  <2>2. QED BY <2>1
<1>4. PICK f : IsFold(f, n, V, ImageAdded(m, t), turn)
  <2> HIDE DEF turn, V, n
  <2>1. QED BY <1>1, <1>3, FoldExists
<1>5. \A x \in SUBSET (1 .. n) : x # {} => f[x] = FetchStep(f[x \ {Max(x)}], t, Tasks[t].fetches[Max(x)])
  <2> SUFFICES ASSUME NEW x \in SUBSET (1 .. n), x # {}
               PROVE  f[x] = FetchStep(f[x \ {Max(x)}], t, Tasks[t].fetches[Max(x)])
    OBVIOUS
  <2> HIDE DEF V
  <2>1. Max(x) \in 1 .. n BY <1>1, Greatest
  <2>2. f[x \ {Max(x)}] \in V /\ f[x] = turn[Max(x)][f[x \ {Max(x)}]] BY <1>4 DEF IsFold
  <2>3. QED BY <2>1, <2>2
<1>6. P(f)
  <2> HIDE DEF turn, V
  <2>1. f \in [SUBSET (1 .. n) -> V] /\ f[{}] = ImageAdded(m, t) BY <1>4 DEF IsFold
  <2>2. QED BY <1>5, <2>1
<1>7. P(it) BY <1>6, Zenon
<1>8. /\ it[{}] = ImageAdded(m, t)
      /\ \A x \in SUBSET (1 .. n) : x # {} => it[x] = FetchStep(it[x \ {Max(x)}], t, Tasks[t].fetches[Max(x)])
  <2> HIDE DEF it
  <2>1. {} \in SUBSET (1 .. n) OBVIOUS
  <2>2. QED BY <1>7, <2>1
<1> DEFINE a == [i \in 0 .. n |-> it[1 .. i]]
<1> HIDE DEF it
<1>9. a[0] = ImageAdded(m, t) /\ it[1 .. n] = a[n]
  <2>1. 1 .. 0 = {} /\ 0 \in 0 .. n /\ n \in 0 .. n BY <1>1
  <2>2. QED BY <1>8, <2>1
<1>10. \A i \in 1 .. n : a[i] = FetchStep(a[i - 1], t, Tasks[t].fetches[i])
  <2> TAKE i \in 1 .. n
  <2>1. /\ 1 .. i \in SUBSET (1 .. n) /\ 1 .. i # {} /\ Max(1 .. i) = i
        /\ (1 .. i) \ {i} = 1 .. (i - 1)
    BY <1>1, FoldSteps
  <2>2. it[1 .. i] = FetchStep(it[1 .. (i - 1)], t, Tasks[t].fetches[i]) BY <1>8, <2>1
  <2>3. i \in 0 .. n /\ i - 1 \in 0 .. n OBVIOUS
  <2>4. QED BY <2>2, <2>3
<1> HIDE DEF a
<1>11. QED BY <1>2, <1>9, <1>10

LEMMA AddArtifactsCovers ==
  ASSUME NEW m \in Mades, NEW t \in DOMAIN Tasks
  PROVE  /\ AddArtifactsOf(m, t) \in Mades /\ Grows(m, AddArtifactsOf(m, t))
         /\ Covers(AddArtifactsOf(m, t), t)
<1> DEFINE s == Tasks[t].fetches
           n == Len(s)
           Has(l, f) == f.task \in DOMAIN l /\ f.artifact \in ToSet(l[f.task])
<1>1. n \in Nat /\ DOMAIN s = 1 .. n /\ \A i \in 1 .. n : s[i] \in Fetch BY FetchFacts
<1>2. PICK a : /\ a[0] = ImageAdded(m, t) /\ AddArtifactsOf(m, t) = a[n]
               /\ \A i \in 1 .. n : a[i] = FetchStep(a[i - 1], t, s[i])
  BY FetchSteps
<1> DEFINE Good(i) == /\ a[i] \in Mades /\ Grows(ImageAdded(m, t), a[i])
                      /\ \A k \in 1 .. i : Mirrored(t, s[k]) => Has(a[i], s[k])
           S == {i \in 0 .. n : Good(i)}
<1>3. 0 \in S
  <2>1. ImageAdded(m, t) \in Mades BY ImageAddedCovers
  <2>2. Good(0) BY <1>2, <2>1, GrowsOn
  <2>3. 0 \in 0 .. n BY <1>1
  <2>4. QED BY <2>2, <2>3
<1> HIDE DEF n, s
<1>4. ASSUME NEW i \in 1 .. n, i - 1 \in S PROVE i \in S
  <2>1. Good(i - 1) BY <1>4
  <2>2. a[i] = FetchStep(a[i - 1], t, s[i]) /\ s[i] \in Fetch BY <1>1, <1>2
  <2>3. /\ a[i] \in Mades /\ Grows(a[i - 1], a[i])
        /\ Mirrored(t, s[i]) => Has(a[i], s[i])
    BY <2>1, <2>2, FetchStepAdds
  <2>4. Grows(ImageAdded(m, t), a[i])
    <3>1. ImageAdded(m, t) \in Mades BY ImageAddedCovers
    <3>2. QED BY <2>1, <2>3, <3>1, GrowsOn
  <2>5. \A k \in 1 .. (i - 1) : Mirrored(t, s[k]) => Has(a[i], s[k])
    BY <2>1, <2>3 DEF Grows
  <2>6. \A k \in 1 .. i : k = i \/ k \in 1 .. (i - 1) OBVIOUS
  <2>7. \A k \in 1 .. i : Mirrored(t, s[k]) => Has(a[i], s[k])
    <3> HIDE DEF Has
    <3>1. QED BY <2>3, <2>5, <2>6
  <2>8. i \in 0 .. n OBVIOUS
  <2>9. QED BY <2>3, <2>4, <2>7, <2>8
<1>5. 0 .. n \subseteq S
  <2> HIDE DEF S
  <2>1. QED BY <1>1, <1>3, <1>4, Induction
<1>6. Good(n) BY <1>1, <1>5
<1>7. Grows(m, a[n])
  <2>1. ImageAdded(m, t) \in Mades /\ Grows(m, ImageAdded(m, t)) BY ImageAddedCovers
  <2>2. QED BY <1>6, <2>1, GrowsOn
<1>8. Covers(a[n], t)
  <2>1. Tasks[t].image # NoTask => Tasks[t].image \in DOMAIN a[n]
    BY <1>6, ImageAddedCovers DEF Grows
  <2>2. \A f \in ToSet(s) : Mirrored(t, f) => Has(a[n], f) BY <1>1, <1>6 DEF ToSet
  <2>3. QED BY <2>1, <2>2 DEF Covers, s
<1>9. QED BY <1>2, <1>6, <1>7, <1>8

LEMMA NoneMade == <<>> \in Mades
<1>1. <<>> = [i \in {} |-> <<>>] OBVIOUS
<1>2. [i \in {} |-> <<>>] \in [{} -> Seq(Names)] OBVIOUS
<1>3. QED BY <1>1, <1>2 DEF Mades

\* The tasks are gone through one by one.
LEMMA TaskSteps ==
  ASSUME NEW ids \in Seq(DOMAIN Tasks)
  PROVE  \E a : /\ a[0] = <<>> /\ ArtifactTasks(ids) = a[Len(ids)]
                /\ \A i \in 1 .. Len(ids) : a[i] = AddArtifactsOf(a[i - 1], ids[i])
<1> DEFINE n == Len(ids)
           V == Mades
           turn == [i \in 1 .. n |-> [v \in V |-> AddArtifactsOf(v, ids[i])]]
           P(f) == f = [x \in SUBSET (1 .. n) |->
                          IF x = {} THEN <<>> ELSE AddArtifactsOf(f[x \ {Max(x)}], ids[Max(x)])]
           it == CHOOSE f : P(f)
<1>1. n \in Nat /\ DOMAIN ids = 1 .. n /\ <<>> \in V BY NoneMade
<1>2. ArtifactTasks(ids) = it[1 .. n]
  BY <1>1, Zenon DEF ArtifactTasks, FoldLeft, MapThenFoldSet
<1>3. turn \in [1 .. n -> [V -> V]]
  <2>1. \A v \in V, i \in 1 .. n : AddArtifactsOf(v, ids[i]) \in V
    <3> TAKE v \in V, i \in 1 .. n
    <3>1. ids[i] \in DOMAIN Tasks BY <1>1
    <3> HIDE DEF n
    <3>2. QED BY <3>1, AddArtifactsCovers
  <2> HIDE DEF V, n
  <2>2. QED BY <2>1
<1>4. PICK f : IsFold(f, n, V, <<>>, turn)
  <2> HIDE DEF turn, V, n
  <2>1. QED BY <1>1, <1>3, FoldExists
<1>5. \A x \in SUBSET (1 .. n) : x # {} => f[x] = AddArtifactsOf(f[x \ {Max(x)}], ids[Max(x)])
  <2> SUFFICES ASSUME NEW x \in SUBSET (1 .. n), x # {}
               PROVE  f[x] = AddArtifactsOf(f[x \ {Max(x)}], ids[Max(x)])
    OBVIOUS
  <2> HIDE DEF V
  <2>1. Max(x) \in 1 .. n BY <1>1, Greatest
  <2>2. f[x \ {Max(x)}] \in V /\ f[x] = turn[Max(x)][f[x \ {Max(x)}]] BY <1>4 DEF IsFold
  <2>3. QED BY <2>1, <2>2
<1>6. P(f)
  <2> HIDE DEF turn, V
  <2>1. f \in [SUBSET (1 .. n) -> V] /\ f[{}] = <<>> BY <1>4 DEF IsFold
  <2>2. QED BY <1>5, <2>1
<1>7. P(it) BY <1>6, Zenon
<1>8. /\ it[{}] = <<>>
      /\ \A x \in SUBSET (1 .. n) : x # {} => it[x] = AddArtifactsOf(it[x \ {Max(x)}], ids[Max(x)])
  <2> HIDE DEF it
  <2>1. {} \in SUBSET (1 .. n) OBVIOUS
  <2>2. QED BY <1>7, <2>1
<1> DEFINE a == [i \in 0 .. n |-> it[1 .. i]]
<1> HIDE DEF it
<1>9. a[0] = <<>> /\ it[1 .. n] = a[n]
  <2>1. 1 .. 0 = {} /\ 0 \in 0 .. n /\ n \in 0 .. n BY <1>1
  <2>2. QED BY <1>8, <2>1
<1>10. \A i \in 1 .. n : a[i] = AddArtifactsOf(a[i - 1], ids[i])
  <2> TAKE i \in 1 .. n
  <2>1. /\ 1 .. i \in SUBSET (1 .. n) /\ 1 .. i # {} /\ Max(1 .. i) = i
        /\ (1 .. i) \ {i} = 1 .. (i - 1)
    BY <1>1, FoldSteps
  <2>2. it[1 .. i] = AddArtifactsOf(it[1 .. (i - 1)], ids[i]) BY <1>8, <2>1
  <2>3. i \in 0 .. n /\ i - 1 \in 0 .. n OBVIOUS
  <2>4. QED BY <2>2, <2>3
<1> HIDE DEF a
<1>11. QED BY <1>2, <1>9, <1>10

\* All that the tasks need is fetched.
LEMMA ArtifactTasksCover ==
  ASSUME NEW ids \in Seq(DOMAIN Tasks)
  PROVE  \A t \in ToSet(ids) : Covers(ArtifactTasks(ids), t)
<1> DEFINE n == Len(ids)
<1>1. n \in Nat /\ DOMAIN ids = 1 .. n /\ \A i \in 1 .. n : ids[i] \in DOMAIN Tasks OBVIOUS
<1>2. PICK a : /\ a[0] = <<>> /\ ArtifactTasks(ids) = a[n]
               /\ \A i \in 1 .. n : a[i] = AddArtifactsOf(a[i - 1], ids[i])
  BY TaskSteps
<1> HIDE DEF n
<1> DEFINE Good(i) == a[i] \in Mades /\ \A k \in 1 .. i : Covers(a[i], ids[k])
           S == {i \in 0 .. n : Good(i)}
<1>3. 0 \in S BY <1>1, <1>2, NoneMade
<1>4. ASSUME NEW i \in 1 .. n, i - 1 \in S PROVE i \in S
  <2>1. Good(i - 1) BY <1>4
  <2>2. a[i] \in Mades /\ Grows(a[i - 1], a[i]) /\ Covers(a[i], ids[i])
    BY <1>1, <1>2, <2>1, AddArtifactsCovers
  <2>3. \A k \in 1 .. i : k = i \/ k \in 1 .. (i - 1) OBVIOUS
  <2>4. \A k \in 1 .. i : ids[k] \in DOMAIN Tasks BY <1>1
  <2>5. \A k \in 1 .. i : Covers(a[i], ids[k]) BY <2>1, <2>2, <2>3, <2>4, GrowsOn
  <2>6. i \in 0 .. n OBVIOUS
  <2>7. QED BY <2>2, <2>5, <2>6
<1>5. 0 .. n \subseteq S
  <2> HIDE DEF S
  <2>1. QED BY <1>1, <1>3, <1>4, Induction
<1>6. Good(n) BY <1>1, <1>5
<1>7. QED BY <1>1, <1>2, <1>6 DEF ToSet

LEMMA MatchingFinds ==
  ASSUME NEW before \in Seq(DOMAIN Tasks), NEW ids \in Seq(DOMAIN Tasks)
  PROVE  /\ Matching(before, ids) \in Seq(DOMAIN Tasks)
         /\ ToSet(Matching(before, ids)) = ToSet(before) \cup NamedIn(ToSet(ids), kind)
<1> DEFINE n == Len(ids)
<1>1. n \in Nat /\ DOMAIN ids = 1 .. n /\ \A i \in 1 .. n : ids[i] \in DOMAIN Tasks OBVIOUS
<1>2. PICK a : /\ a[0] = before /\ Matching(before, ids) = a[n]
               /\ \A i \in 1 .. n : a[i] = MatchStep(a[i - 1], ids[i])
  BY MatchingSteps
<1> HIDE DEF n
<1> DEFINE Good(i) == /\ a[i] \in Seq(DOMAIN Tasks)
                      /\ ToSet(a[i]) = ToSet(before) \cup NamedIn({ids[k] : k \in 1 .. i}, kind)
           S == {i \in 0 .. n : Good(i)}
<1>3. 0 \in S BY <1>1, <1>2 DEF NamedIn
<1>4. ASSUME NEW i \in 1 .. n, i - 1 \in S PROVE i \in S
  <2>1. Good(i - 1) BY <1>4
  <2> DEFINE old == {ids[k] : k \in 1 .. (i - 1)}
  <2>2. {ids[k] : k \in 1 .. i} = old \cup {ids[i]}
    <3>1. 1 .. i = (1 .. (i - 1)) \cup {i} OBVIOUS
    <3>2. QED BY <3>1
  <2>3. a[i] = MatchStep(a[i - 1], ids[i]) /\ ids[i] \in DOMAIN Tasks BY <1>1, <1>2
  <2> HIDE DEF old
  <2>4. a[i] \in Seq(DOMAIN Tasks)
        /\ ToSet(a[i]) = ToSet(a[i - 1]) \cup NamedIn({ids[i]}, kind)
    <3>1. CASE Tasks[ids[i]].name \in IncludeDeps[kind]
      BY <2>1, <2>3, <3>1, AppendSet DEF MatchStep, NamedIn
    <3>2. CASE Tasks[ids[i]].name \notin IncludeDeps[kind]
      BY <2>1, <2>3, <3>2 DEF MatchStep, NamedIn
    <3>3. QED BY <3>1, <3>2
  <2>5. NamedIn(old \cup {ids[i]}, kind) = NamedIn(old, kind) \cup NamedIn({ids[i]}, kind)
    BY DEF NamedIn
  <2>6. ToSet(a[i - 1]) = ToSet(before) \cup NamedIn(old, kind) BY <2>1 DEF old
  <2>7. Good(i) BY <2>2, <2>4, <2>5, <2>6
  <2>8. i \in 0 .. n OBVIOUS
  <2>9. QED BY <2>7, <2>8
<1>5. 0 .. n \subseteq S
  <2> HIDE DEF S
  <2>1. QED BY <1>1, <1>3, <1>4, Induction
<1>6. Good(n) BY <1>1, <1>5
<1>7. {ids[k] : k \in 1 .. n} = ToSet(ids) BY <1>1 DEF ToSet
<1>8. QED BY <1>2, <1>6, <1>7

LEMMA FoundFinds ==
  ASSUME found \in Seq(DOMAIN Tasks), upstream \in Seq(DOMAIN Tasks)
  PROVE  /\ Found \in Seq(DOMAIN Tasks)
         /\ ToSet(Found) = ToSet(found) \cup (ToSet(upstream) \ Expired)
<1> DEFINE n == Len(upstream)
<1>1. n \in Nat /\ DOMAIN upstream = 1 .. n /\ \A i \in 1 .. n : upstream[i] \in DOMAIN Tasks
  OBVIOUS
<1>2. PICK a : /\ a[0] = found /\ Found = a[n]
               /\ \A i \in 1 .. n : a[i] = FoundStep(a[i - 1], upstream[i])
  BY FoundSteps
<1> HIDE DEF n
<1> DEFINE Good(i) == /\ a[i] \in Seq(DOMAIN Tasks)
                      /\ ToSet(a[i]) = ToSet(found) \cup ({upstream[k] : k \in 1 .. i} \ Expired)
           S == {i \in 0 .. n : Good(i)}
<1>3. 0 \in S BY <1>1, <1>2
<1>4. ASSUME NEW i \in 1 .. n, i - 1 \in S PROVE i \in S
  <2>1. Good(i - 1) BY <1>4
  <2> DEFINE old == {upstream[k] : k \in 1 .. (i - 1)}
  <2>2. {upstream[k] : k \in 1 .. i} = old \cup {upstream[i]}
    <3>1. 1 .. i = (1 .. (i - 1)) \cup {i} OBVIOUS
    <3>2. QED BY <3>1
  <2>3. a[i] = FoundStep(a[i - 1], upstream[i]) /\ upstream[i] \in DOMAIN Tasks BY <1>1, <1>2
  <2> HIDE DEF old
  <2>4. a[i] \in Seq(DOMAIN Tasks)
        /\ ToSet(a[i]) = ToSet(a[i - 1]) \cup ({upstream[i]} \ Expired)
    <3>1. CASE upstream[i] \in ToSet(a[i - 1]) \cup Expired BY <2>1, <2>3, <3>1 DEF FoundStep
    <3>2. CASE upstream[i] \notin ToSet(a[i - 1]) \cup Expired
      BY <2>1, <2>3, <3>2, AppendSet DEF FoundStep
    <3>3. QED BY <3>1, <3>2
  <2>5. ToSet(a[i - 1]) = ToSet(found) \cup (old \ Expired) BY <2>1 DEF old
  <2>6. Good(i) BY <2>2, <2>4, <2>5
  <2>7. i \in 0 .. n OBVIOUS
  <2>8. QED BY <2>6, <2>7
<1>5. 0 .. n \subseteq S
  <2> HIDE DEF S
  <2>1. QED BY <1>1, <1>3, <1>4, Induction
<1>6. Good(n) BY <1>1, <1>5
<1>7. {upstream[k] : k \in 1 .. n} = ToSet(upstream) BY <1>1 DEF ToSet
<1>8. QED BY <1>2, <1>6, <1>7

\* Of each name there is one task.
LEMMA FirstNames ==
  ASSUME NEW ids \in Seq(DOMAIN Tasks)
  PROVE  LET first == FirstOfItsName(ids)
         IN /\ first \in Seq(DOMAIN Tasks) /\ ToSet(first) \subseteq ToSet(ids)
            /\ \A i, j \in DOMAIN first : Tasks[first[i]].name = Tasks[first[j]].name => i = j
            /\ \A t \in ToSet(ids) : \E i \in DOMAIN first : Tasks[first[i]].name = Tasks[t].name
<1> DEFINE n == Len(ids)
<1>1. n \in Nat /\ DOMAIN ids = 1 .. n /\ \A i \in 1 .. n : ids[i] \in DOMAIN Tasks OBVIOUS
<1>2. PICK a : /\ a[0] = <<>> /\ FirstOfItsName(ids) = a[n]
               /\ \A i \in 1 .. n : a[i] = FirstStep(a[i - 1], ids[i])
  BY FirstSteps
<1> HIDE DEF n
<1> DEFINE Apart(s) ==
             \A i, j \in DOMAIN s : Tasks[s[i]].name = Tasks[s[j]].name => i = j
           Holds(s, t) == \E i \in DOMAIN s : Tasks[s[i]].name = Tasks[t].name
           Good(i) == /\ a[i] \in Seq(DOMAIN Tasks) /\ ToSet(a[i]) \subseteq ToSet(ids)
                      /\ Apart(a[i]) /\ \A k \in 1 .. i : Holds(a[i], ids[k])
           S == {i \in 0 .. n : Good(i)}
<1>3. 0 \in S
  <2>1. /\ a[0] \in Seq(DOMAIN Tasks) /\ DOMAIN a[0] = {} /\ 0 \in 0 .. n
    BY <1>1, <1>2
  <2>2. ToSet(a[0]) = {} BY <2>1 DEF ToSet
  <2>3. 1 .. 0 = {} OBVIOUS
  <2>4. QED BY <2>1, <2>2, <2>3
<1>4. ASSUME NEW i \in 1 .. n, i - 1 \in S PROVE i \in S
  <2> DEFINE s == a[i - 1]
             t == ids[i]
             r == a[i]
  <2>1. Good(i - 1) BY <1>4
  <2>2. r = FirstStep(s, t) /\ t \in DOMAIN Tasks /\ t \in ToSet(ids) BY <1>1, <1>2 DEF ToSet
  <2>3. CASE Holds(s, t)
    <3>1. r = s BY <2>2, <2>3 DEF FirstStep
    <3>2. \A k \in 1 .. i : Holds(r, ids[k])
      <4> TAKE k \in 1 .. i
      <4>1. k = i \/ k \in 1 .. (i - 1) OBVIOUS
      <4>2. QED BY <2>1, <2>3, <3>1, <4>1
    <3>3. Good(i)
      <4> HIDE DEF Apart, Holds
      <4>1. QED BY <2>1, <3>1, <3>2
    <3>4. i \in 0 .. n OBVIOUS
    <3>5. QED BY <3>3, <3>4
  <2>4. CASE ~Holds(s, t)
    <3>1. r = Append(s, t) BY <2>2, <2>4 DEF FirstStep
    <3>2. s \in Seq(DOMAIN Tasks) BY <2>1
    <3>3. /\ r \in Seq(DOMAIN Tasks) /\ ToSet(r) = ToSet(s) \cup {t} /\ Len(r) = Len(s) + 1
          /\ r[Len(s) + 1] = t /\ \A k \in 1 .. Len(s) : r[k] = s[k]
      BY <2>2, <3>1, <3>2, AppendSet
    <3>4. /\ Len(s) \in Nat /\ DOMAIN s = 1 .. Len(s)
          /\ DOMAIN r = DOMAIN s \cup {Len(s) + 1}
      <4>1. Len(s) \in Nat /\ DOMAIN s = 1 .. Len(s) BY <3>2
      <4>2. DOMAIN r = 1 .. (Len(s) + 1) BY <3>3
      <4> HIDE DEF s, r
      <4>3. QED BY <4>1, <4>2
    <3> HIDE DEF s, t, r
    <3>5. \A k \in DOMAIN s : Tasks[r[k]].name # Tasks[t].name BY <2>4, <3>3, <3>4
    <3>6. Apart(r)
      <4>1. Apart(s) BY <2>1 DEF s
      <4>2. SUFFICES ASSUME NEW j \in DOMAIN r, NEW k \in DOMAIN r,
                            Tasks[r[j]].name = Tasks[r[k]].name
                     PROVE  j = k
        OBVIOUS
      <4>3. CASE j \in DOMAIN s /\ k \in DOMAIN s BY <3>3, <3>4, <4>1, <4>2, <4>3
      <4>4. CASE j \notin DOMAIN s \/ k \notin DOMAIN s BY <3>3, <3>4, <3>5, <4>2, <4>4
      <4>5. QED BY <4>3, <4>4
    <3>7. \A k \in 1 .. i : Holds(r, ids[k])
      <4> TAKE k \in 1 .. i
      <4>1. k = i \/ k \in 1 .. (i - 1) OBVIOUS
      <4>2. CASE k = i
        <5>1. r[Len(s) + 1] = ids[k] BY <3>3, <4>2 DEF t
        <5>2. QED BY <3>4, <5>1
      <4>3. CASE k \in 1 .. (i - 1)
        <5>1. PICK j \in DOMAIN s : Tasks[s[j]].name = Tasks[ids[k]].name BY <2>1, <4>3 DEF s
        <5>2. r[j] = s[j] /\ j \in DOMAIN r BY <3>3, <3>4
        <5>3. QED BY <5>1, <5>2
      <4>4. QED BY <4>1, <4>2, <4>3
    <3>8. ToSet(r) \subseteq ToSet(ids) BY <2>1, <2>2, <3>3 DEF s
    <3>9. Good(i)
      <4> HIDE DEF Apart, Holds
      <4>1. QED BY <3>3, <3>6, <3>7, <3>8 DEF r
    <3>10. i \in 0 .. n OBVIOUS
    <3>11. QED BY <3>9, <3>10
  <2>5. QED BY <2>3, <2>4
<1>5. 0 .. n \subseteq S
  <2> HIDE DEF S
  <2>1. QED BY <1>1, <1>3, <1>4, Induction
<1>6. Good(n) BY <1>1, <1>5
<1>7. \A t \in ToSet(ids) : Holds(a[n], t)
  <2> SUFFICES ASSUME NEW t \in ToSet(ids) PROVE Holds(a[n], t) OBVIOUS
  <2>1. PICK k \in 1 .. n : t = ids[k] BY <1>1 DEF ToSet
  <2> HIDE DEF Holds
  <2>2. QED BY <1>6, <2>1
<1>8. QED BY <1>2, <1>6, <1>7

LEMMA NoneLoaded ==
  ASSUME GraphInv, tests' = tests, ~Loaded'
  PROVE  GraphWhole' /\ FetchesServed'
BY DEF GraphInv, GraphWhole, FetchesServed

LEMMA StillLoaded ==
  ASSUME GraphInv, Loaded, UNCHANGED <<deployment, sources, artifacts, tests>>
  PROVE  GraphWhole' /\ FetchesServed'
<1>1. /\ \A label : Made(label)' <=> Made(label)
      /\ \A label : OfTheOtherGraph(label)' <=> OfTheOtherGraph(label)
      /\ \A t : TestsOf(Tasks[t].name)' = TestsOf(Tasks[t].name)
  BY DEF Made, TestsOf, OfTheOtherGraph, SameGraph
<1>2. GraphWhole' BY <1>1, Zenon DEF GraphInv, GraphWhole
<1>3. \A fetch : HereIs(fetch)' <=> HereIs(fetch) BY DEF HereIs, TestsOf
<1>4. \A test, fetch : MirroredElsewhere(test, fetch)' <=> MirroredElsewhere(test, fetch)
  BY DEF MirroredElsewhere
<1>5. FetchesServed' BY <1>1, <1>3, <1>4, Zenon DEF GraphInv, FetchesServed
<1>6. QED BY <1>2, <1>5

LEMMA LoadingKinds ==
  ASSUME GraphInv, kind \in DOMAIN IncludeDeps
  PROVE  /\ kind \in {"firefoxci-artifact", "integration-test"} /\ tests = <<>>
         /\ ~Loaded
BY KindsAssumption DEF GraphInv, StepsOK, Loaded

\* A worker is forked of the decision task's process.
LEMMA WorkerKeeps == GraphInv /\ AnotherWorker => GraphInv'
<1> SUFFICES ASSUME GraphInv, AnotherWorker PROVE GraphInv' OBVIOUS
<1>1. /\ step = "start" /\ kind \in DOMAIN IncludeDeps
      /\ root' = deployment /\ graph' = NoTask
      /\ UNCHANGED <<deployment, origRoot, latest, sources, kind, step, scan, found,
                     upstream, artifacts, tests, kept, moves, faults>>
  BY DEF AnotherWorker
<1>2. StepsOK' BY <1>1 DEF GraphInv, StepsOK
<1>3. RootsOK' BY <1>1 DEF RootsOK
<1>4. SourcesOK' BY <1>1 DEF GraphInv, SourcesOK
<1>5. ScanOK' BY <1>1 DEF ScanOK
<1>6. ArtifactsOK' BY <1>1 DEF GraphInv, ArtifactsOK, Covers
<1>7. ~Loaded' BY <1>1, LoadingKinds DEF Loaded
<1>8. GraphWhole' /\ FetchesServed' BY <1>1, <1>7, NoneLoaded
<1>9. QED BY <1>2, <1>3, <1>4, <1>5, <1>6, <1>8 DEF GraphInv

\* No kind is loaded in staging without looking through a graph for it.
LEMMA SkipKeeps == GraphInv /\ SkipKind => GraphInv'
<1> SUFFICES ASSUME GraphInv, SkipKind PROVE GraphInv' OBVIOUS
<1>1. /\ step = "start" /\ kind \in DOMAIN IncludeDeps /\ root # "staging" /\ kind' = NextKind
      /\ UNCHANGED <<deployment, root, origRoot, latest, graph, sources, step, scan, found,
                     upstream, artifacts, tests, kept, moves, faults>>
  BY DEF SkipKind
<1>2. deployment # "staging" /\ root = deployment BY <1>1 DEF GraphInv, RootsOK
<1>3. kind' \in {"integration-test", "optimize"} /\ tests = <<>>
  BY <1>1, LoadingKinds DEF NextKind
<1>4. StepsOK' BY <1>1, <1>3 DEF GraphInv, StepsOK, Kinds
<1>5. RootsOK' BY <1>1, <1>2 DEF RootsOK
<1>6. SourcesOK' BY <1>1, <1>2 DEF GraphInv, SourcesOK
<1>7. ScanOK' BY <1>1 DEF ScanOK
<1>8. ArtifactsOK'
  <2>1. DOMAIN sources = {}
    <3>1. sources = <<>> BY <1>2 DEF GraphInv, SourcesOK
    <3>2. QED BY <3>1
  <2>2. QED BY <1>1, <2>1 DEF ArtifactsOK
<1>9. GraphWhole' /\ FetchesServed' BY <1>1, <1>2, <1>3 DEF GraphWhole, FetchesServed
<1>10. QED BY <1>4, <1>5, <1>6, <1>7, <1>8, <1>9 DEF GraphInv

LEMMA StartKeeps == GraphInv /\ StartKind => GraphInv'
<1> SUFFICES ASSUME GraphInv, StartKind PROVE GraphInv' OBVIOUS
<1>1. /\ step = "start" /\ kind \in DOMAIN IncludeDeps /\ root = "staging"
      /\ graph' = Fetched /\ scan' = Graphs[Fetched]
      /\ sources' = [k \in DOMAIN sources \cup {kind} |-> IF k = kind THEN Fetched ELSE sources[k]]
      /\ step' = "scan" /\ found' = <<>> /\ upstream' = <<>>
      /\ UNCHANGED <<deployment, root, origRoot, latest, kind, artifacts, tests, kept, moves, faults>>
  BY DEF StartKind
<1>2. graph' \in DOMAIN Graphs /\ scan' = Graphs[graph'] /\ deployment = "staging"
  BY <1>1 DEF GraphInv, StepsOK, RootsOK, Fetched
<1>3. StepsOK' BY <1>1, <1>2 DEF GraphInv, StepsOK
<1>4. RootsOK' BY <1>1, <1>2 DEF RootsOK
<1>5. /\ DOMAIN sources' = DOMAIN sources \cup {kind} /\ sources'[kind] = graph'
      /\ \A k \in DOMAIN sources \ {kind} : sources'[k] = sources[k]
  BY <1>1
<1>6. SourcesOK'
  <2>1. \A k \in DOMAIN sources' : sources'[k] \in DOMAIN Graphs
    BY <1>2, <1>5 DEF GraphInv, SourcesOK
  <2>2. QED BY <1>1, <1>2, <1>5, <2>1 DEF GraphInv, SourcesOK
<1>7. ScanOK'
  <2>1. scan' \in Seq(DOMAIN Tasks) BY <1>2, GraphsAssumption
  <2>2. ToSet(found') = {} /\ ToSet(upstream') = {} /\ Len(found') = 0
    BY <1>1 DEF ToSet
  <2>3. WantedOf(graph') \subseteq ToSet(scan') BY <1>2 DEF WantedOf
  <2>4. <<>> \in Seq(DOMAIN Tasks) /\ 1 .. 0 = {} OBVIOUS
  <2>5. QED BY <1>1, <1>2, <1>5, <2>1, <2>2, <2>3, <2>4 DEF ScanOK
<1>8. ArtifactsOK'
  <2>1. CASE kind = "firefoxci-artifact" BY <1>1, <2>1 DEF ArtifactsOK
  <2>2. CASE kind # "firefoxci-artifact"
    <3>1. ArtifactsOK /\ kind \notin {"firefoxci-artifact", "failed"}
      BY <1>1, <2>2, LoadingKinds DEF GraphInv
    <3>2. "firefoxci-artifact" \in DOMAIN sources' =>
            /\ "firefoxci-artifact" \in DOMAIN sources
            /\ sources'["firefoxci-artifact"] = sources["firefoxci-artifact"]
      BY <1>5, <2>2
    <3>3. QED BY <1>1, <3>1, <3>2 DEF ArtifactsOK, Covers
  <2>3. QED BY <2>1, <2>2
<1>9. GraphWhole' /\ FetchesServed'
  <2>1. ~Loaded' BY <1>1, LoadingKinds DEF Loaded
  <2>2. QED BY <1>1, <2>1, NoneLoaded
<1>10. QED BY <1>3, <1>4, <1>6, <1>7, <1>8, <1>9 DEF GraphInv

\* While the graph is looked through, only what is found changes.
LEMMA ScanKeeps ==
  ASSUME GraphInv, step \in {"scan", "ask"}, step' \in {"scan", "ask"}, ScanOK', RootsOK',
         UNCHANGED <<deployment, latest, graph, sources, kind, artifacts, tests>>
  PROVE  GraphInv'
<1>1. kind \in DOMAIN IncludeDeps BY DEF GraphInv, StepsOK
<1>2. StepsOK' BY <1>1 DEF GraphInv, StepsOK
<1>3. ArtifactsOK' BY DEF GraphInv, ArtifactsOK, Covers
<1>4. ~Loaded' BY <1>1, LoadingKinds DEF Loaded
<1>5. GraphWhole' /\ FetchesServed' BY <1>4, NoneLoaded
<1>6. SourcesOK' BY DEF GraphInv, SourcesOK
<1>7. QED BY <1>2, <1>3, <1>5, <1>6 DEF GraphInv

LEMMA ScanFacts ==
  ASSUME GraphInv, step \in {"scan", "ask"}
  PROVE  /\ graph \in DOMAIN Graphs /\ kind \in DOMAIN sources /\ sources[kind] = graph
         /\ kind \in DOMAIN IncludeDeps /\ deployment = "staging"
         /\ step = "ask" => origRoot = "staging"
         /\ step = "scan" => root = "staging"
         /\ scan \in Seq(DOMAIN Tasks) /\ found \in Seq(DOMAIN Tasks) /\ upstream \in Seq(DOMAIN Tasks)
         /\ ToSet(scan) \subseteq ToSet(Graphs[graph])
         /\ ToSet(found) \subseteq WantedOf(graph)
         /\ WantedOf(graph) \subseteq ToSet(found) \cup ToSet(scan)
         /\ ToSet(upstream) \subseteq NamedIn(Upstream(graph), kind)
         /\ step = "ask" => found # <<>>
         /\ \A i \in 1 .. Len(found) :
              \/ step = "ask" /\ i = Len(found)
              \/ NamedIn(ToSet(Ancestors[found[i]]), kind) \subseteq ToSet(upstream)
<1>1. kind \in DOMAIN IncludeDeps BY DEF GraphInv, StepsOK
<1>2. deployment = "staging" BY <1>1 DEF GraphInv, RootsOK
<1>3. /\ step = "ask" => origRoot = "staging"
      /\ step = "scan" => root = "staging"
  BY <1>1, <1>2 DEF GraphInv, RootsOK
<1>4. ScanOK /\ step # "start" BY DEF GraphInv
<1>5. QED BY <1>1, <1>2, <1>3, <1>4 DEF ScanOK

LEMMA NextTask ==
  ASSUME NEW s \in Seq(DOMAIN Tasks), s # <<>>
  PROVE  /\ Head(s) \in ToSet(s) /\ Tail(s) \in Seq(DOMAIN Tasks)
         /\ ToSet(s) = {Head(s)} \cup ToSet(Tail(s))
<1> DEFINE n == Len(s)
           r == Tail(s)
<1>1. /\ n \in Nat /\ n >= 1 /\ DOMAIN s = 1 .. n /\ Head(s) = s[1]
      /\ r \in Seq(DOMAIN Tasks) /\ Len(r) = n - 1 /\ DOMAIN r = 1 .. (n - 1)
      /\ \A i \in 1 .. (n - 1) : r[i] = s[i + 1]
  OBVIOUS
<1> HIDE DEF n, r
<1>2. Head(s) \in ToSet(s) BY <1>1 DEF ToSet
<1>3. ToSet(r) \subseteq ToSet(s)
  <2> SUFFICES ASSUME NEW i \in 1 .. (n - 1) PROVE r[i] \in ToSet(s) BY <1>1 DEF ToSet
  <2>1. i + 1 \in 1 .. n BY <1>1
  <2>2. QED BY <1>1, <2>1 DEF ToSet
<1>4. ToSet(s) \subseteq {Head(s)} \cup ToSet(r)
  <2> SUFFICES ASSUME NEW i \in 1 .. n, i # 1 PROVE s[i] \in ToSet(r) BY <1>1 DEF ToSet
  <2>1. i - 1 \in 1 .. (n - 1) /\ (i - 1) + 1 = i BY <1>1
  <2>2. s[i] = r[i - 1] BY <1>1, <2>1
  <2>3. QED BY <1>1, <2>1, <2>2 DEF ToSet
<1>5. QED BY <1>1, <1>2, <1>3, <1>4 DEF r

LEMMA PassOverKeeps == GraphInv /\ PassOver => GraphInv'
<1> SUFFICES ASSUME GraphInv, PassOver PROVE GraphInv' OBVIOUS
<1>1. /\ step = "scan" /\ scan # <<>> /\ ~Wanted(Head(scan)) /\ scan' = Tail(scan)
      /\ UNCHANGED <<deployment, root, origRoot, latest, graph, sources, kind, step, found,
                     upstream, artifacts, tests, kept, moves, faults>>
  BY DEF PassOver
<1>2. /\ Tail(scan) \in Seq(DOMAIN Tasks) /\ ToSet(scan) = {Head(scan)} \cup ToSet(Tail(scan))
  BY <1>1, ScanFacts, NextTask
<1>3. Head(scan) \notin WantedOf(graph) BY <1>1 DEF WantedOf
<1>4. ScanOK' BY <1>1, <1>2, <1>3, ScanFacts DEF ScanOK
<1>5. RootsOK' BY <1>1 DEF GraphInv, RootsOK
<1>6. QED BY <1>1, <1>4, <1>5, ScanKeeps

LEMMA FindKeeps == GraphInv /\ Find => GraphInv'
<1> SUFFICES ASSUME GraphInv, Find PROVE GraphInv' OBVIOUS
<1> DEFINE t == Head(scan)
<1>1. /\ step = "scan" /\ scan # <<>> /\ Wanted(t) /\ scan' = Tail(scan)
      /\ found' = Append(found, t)
      /\ UNCHANGED <<deployment, latest, graph, sources, kind, upstream, artifacts, tests, kept,
                     moves, faults>>
      /\ \/ IncludeDeps[kind] = {} /\ UNCHANGED <<root, origRoot, step>>
         \/ step' = "ask" /\ origRoot' = root /\ root' = "firefoxci"
  BY DEF Find
<1>2. /\ Tail(scan) \in Seq(DOMAIN Tasks) /\ ToSet(scan) = {t} \cup ToSet(Tail(scan))
  BY <1>1, ScanFacts, NextTask
<1>3. t \in WantedOf(graph) /\ t \in DOMAIN Tasks
  <2>1. t \in ToSet(Graphs[graph]) BY <1>1, <1>2, ScanFacts
  <2>2. Graphs[graph] \in Seq(DOMAIN Tasks) BY <1>1, ScanFacts, GraphsAssumption
  <2>3. QED BY <1>1, <2>1, <2>2 DEF WantedOf, ToSet
<1> HIDE DEF t
<1>4. /\ found' \in Seq(DOMAIN Tasks) /\ ToSet(found') = ToSet(found) \cup {t}
      /\ Len(found') = Len(found) + 1 /\ found'[Len(found) + 1] = t
      /\ \A i \in 1 .. Len(found) : found'[i] = found[i]
  BY <1>1, <1>3, ScanFacts, AppendSet
<1>5. ASSUME NEW i \in 1 .. Len(found')
      PROVE  \/ step' = "ask" /\ i = Len(found')
             \/ NamedIn(ToSet(Ancestors[found'[i]]), kind) \subseteq ToSet(upstream)
  <2>0. Len(found) \in Nat BY <1>1, ScanFacts
  <2>1. i \in 1 .. Len(found) \/ i = Len(found') BY <1>4, <2>0
  <2>2. CASE i \in 1 .. Len(found)
    <3>1. NamedIn(ToSet(Ancestors[found[i]]), kind) \subseteq ToSet(upstream)
      BY <1>1, <2>2, ScanFacts
    <3>2. QED BY <1>4, <2>2, <3>1
  <2>3. CASE i = Len(found')
    <3>1. IncludeDeps[kind] = {} => NamedIn(ToSet(Ancestors[found'[i]]), kind) = {} BY DEF NamedIn
    <3>2. QED BY <1>1, <2>3, <3>1
  <2>4. QED BY <2>1, <2>2, <2>3
<1>6. found' # <<>>
  <2>1. found' = Append(found, t) /\ found \in Seq(DOMAIN Tasks) BY <1>1, ScanFacts DEF t
  <2>2. QED BY <1>3, <2>1, AppendProperties
<1>7. ScanOK'
  <2>1. scan' \in Seq(DOMAIN Tasks) /\ ToSet(scan) = {t} \cup ToSet(scan') BY <1>1, <1>2
  <2>2. /\ ToSet(scan) \subseteq ToSet(Graphs[graph]) /\ ToSet(found) \subseteq WantedOf(graph)
        /\ WantedOf(graph) \subseteq ToSet(found) \cup ToSet(scan)
        /\ ToSet(upstream) \subseteq NamedIn(Upstream(graph), kind)
        /\ upstream \in Seq(DOMAIN Tasks)
        /\ graph \in DOMAIN Graphs /\ kind \in DOMAIN sources /\ sources[kind] = graph
    BY <1>1, ScanFacts
  <2>3. QED BY <1>1, <1>3, <1>4, <1>5, <1>6, <2>1, <2>2 DEF ScanOK
<1>8. RootsOK' BY <1>1, ScanFacts DEF RootsOK
<1>9. step' \in {"scan", "ask"} BY <1>1
<1>10. QED BY <1>1, <1>7, <1>8, <1>9, ScanKeeps

LEMMA AnswerKeeps == GraphInv /\ Answer => GraphInv'
<1> SUFFICES ASSUME GraphInv, Answer PROVE GraphInv' OBVIOUS
<1> DEFINE n == Len(found)
           up == Ancestors[found[n]]
<1>1. /\ step = "ask" /\ upstream' = Matching(upstream, Ancestors[Last(found)])
      /\ root' = origRoot /\ step' = "scan"
      /\ UNCHANGED <<deployment, origRoot, latest, graph, sources, kind, scan, found, artifacts,
                     tests, kept, moves, faults>>
  BY DEF Answer
<1>2. n \in Nat /\ n \in 1 .. n /\ found[n] \in ToSet(found) /\ Last(found) = found[n]
  <2>1. found \in Seq(DOMAIN Tasks) /\ found # <<>> BY <1>1, ScanFacts
  <2>2. n \in Nat /\ n \in 1 .. n /\ DOMAIN found = 1 .. n BY <2>1
  <2>3. QED BY <2>2 DEF ToSet, Last
<1>3. up \in Seq(DOMAIN Tasks) /\ ToSet(up) \subseteq Upstream(graph)
  <2>1. found[n] \in WantedOf(graph) /\ graph \in DOMAIN Graphs BY <1>1, <1>2, ScanFacts
  <2>2. found[n] \in ToSet(Graphs[graph]) /\ Wanted(found[n]) BY <2>1 DEF WantedOf
  <2>3. up \in Seq(DOMAIN Tasks) BY <2>1, <2>2, AncestorsAssumption
  <2>4. QED BY <2>1, <2>3 DEF Upstream
<1>4. /\ upstream' \in Seq(DOMAIN Tasks)
      /\ ToSet(upstream') = ToSet(upstream) \cup NamedIn(ToSet(up), kind)
  BY <1>1, <1>2, <1>3, ScanFacts, MatchingFinds
<1> HIDE DEF n
<1>5. ASSUME NEW i \in 1 .. n
      PROVE  NamedIn(ToSet(Ancestors[found[i]]), kind) \subseteq ToSet(upstream')
  <2>1. CASE i = n BY <1>4, <2>1
  <2>2. CASE i # n BY <1>1, <1>4, <2>2, ScanFacts DEF n
  <2>3. QED BY <2>1, <2>2
<1> HIDE DEF up
<1>6. ToSet(upstream') \subseteq NamedIn(Upstream(graph), kind)
  <2>1. ToSet(upstream) \subseteq NamedIn(Upstream(graph), kind) BY <1>1, ScanFacts
  <2>2. NamedIn(ToSet(up), kind) \subseteq NamedIn(Upstream(graph), kind) BY <1>3 DEF NamedIn
  <2>3. QED BY <1>4, <2>1, <2>2
<1>7. ScanOK'
  <2>1. /\ scan \in Seq(DOMAIN Tasks) /\ found \in Seq(DOMAIN Tasks)
        /\ ToSet(scan) \subseteq ToSet(Graphs[graph])
        /\ ToSet(found) \subseteq WantedOf(graph)
        /\ WantedOf(graph) \subseteq ToSet(found) \cup ToSet(scan)
        /\ graph \in DOMAIN Graphs /\ kind \in DOMAIN sources /\ sources[kind] = graph
    BY <1>1, ScanFacts
  <2>2. QED BY <1>1, <1>4, <1>5, <1>6, <2>1 DEF ScanOK, n
<1>8. RootsOK' BY <1>1, ScanFacts DEF RootsOK
<1>9. QED BY <1>1, <1>7, <1>8, ScanKeeps

\* What ends the decision task leaves the tests there are.
LEMMA FailedKeeps ==
  ASSUME GraphInv, kind' = "failed", step' = "start",
         UNCHANGED <<deployment, latest, graph, sources, tests>>
  PROVE  GraphInv'
<1>1. ~Loaded' BY DEF Loaded
<1>2. GraphWhole' /\ FetchesServed' BY <1>1, NoneLoaded
<1>3. StepsOK' BY KindsAssumption DEF GraphInv, StepsOK, Kinds
<1>4. RootsOK' /\ ScanOK' /\ ArtifactsOK' BY KindsAssumption DEF RootsOK, ScanOK, ArtifactsOK
<1>5. SourcesOK' BY DEF GraphInv, SourcesOK
<1>6. QED BY <1>2, <1>3, <1>4, <1>5 DEF GraphInv

LEMMA MoveKeeps == GraphInv /\ IndexMoves => GraphInv'
<1> SUFFICES ASSUME GraphInv, IndexMoves PROVE GraphInv' OBVIOUS
<1>1. /\ kind \in DOMAIN IncludeDeps /\ latest' \in DOMAIN Graphs
      /\ UNCHANGED <<deployment, root, origRoot, graph, sources, kind, step, scan, found,
                     upstream, artifacts, tests, kept, faults>>
  BY DEF IndexMoves
<1>2. StepsOK' BY <1>1 DEF GraphInv, StepsOK
<1>3. RootsOK' BY <1>1 DEF GraphInv, RootsOK
<1>4. ScanOK' BY <1>1 DEF GraphInv, ScanOK
<1>5. ArtifactsOK' BY <1>1 DEF GraphInv, ArtifactsOK, Covers
<1>6. ~Loaded' BY <1>1, LoadingKinds DEF Loaded
<1>7. GraphWhole' /\ FetchesServed' BY <1>1, <1>6, NoneLoaded
<1>8. SourcesOK' BY <1>1 DEF GraphInv, SourcesOK
<1>9. QED BY <1>2, <1>3, <1>4, <1>5, <1>7, <1>8 DEF GraphInv

LEMMA FailKeeps == GraphInv /\ (RequestFails \/ RefuseTests) => GraphInv'
<1> SUFFICES ASSUME GraphInv, RequestFails \/ RefuseTests PROVE GraphInv' OBVIOUS
<1>1. kind' = "failed" /\ step' = "start" /\ UNCHANGED <<deployment, latest, graph, sources, tests>>
  BY DEF RequestFails, RefuseTests, EndScan
<1>2. QED BY <1>1, FailedKeeps

\* When the graph has been looked through, found are the tasks that are wanted
\* and those upstream of them that match and can still be defined.
LEMMA AllFound ==
  ASSUME GraphInv, step = "scan", scan = <<>>
  PROVE  /\ Found \in Seq(DOMAIN Tasks) /\ kind \in DOMAIN IncludeDeps
         /\ graph \in DOMAIN Graphs /\ root = "staging" /\ deployment = "staging"
         /\ kind \in DOMAIN sources /\ sources[kind] = graph
         /\ ToSet(Found) = WantedOf(graph) \cup (NamedIn(Upstream(graph), kind) \ Expired)
<1>1. /\ found \in Seq(DOMAIN Tasks) /\ upstream \in Seq(DOMAIN Tasks)
      /\ ToSet(found) \subseteq WantedOf(graph)
      /\ WantedOf(graph) \subseteq ToSet(found) \cup ToSet(scan)
      /\ ToSet(upstream) \subseteq NamedIn(Upstream(graph), kind)
      /\ \A i \in 1 .. Len(found) :
           NamedIn(ToSet(Ancestors[found[i]]), kind) \subseteq ToSet(upstream)
  BY ScanFacts
<1>2. ToSet(scan) = {} BY DEF ToSet
<1>3. ToSet(found) = WantedOf(graph) BY <1>1, <1>2
<1>4. NamedIn(Upstream(graph), kind) \subseteq ToSet(upstream)
  <2> SUFFICES ASSUME NEW t \in NamedIn(Upstream(graph), kind) PROVE t \in ToSet(upstream)
    OBVIOUS
  <2>1. PICK w \in WantedOf(graph) : t \in ToSet(Ancestors[w]) BY DEF NamedIn, Upstream
  <2>2. t \in NamedIn(ToSet(Ancestors[w]), kind) BY <2>1 DEF NamedIn
  <2>3. PICK i \in 1 .. Len(found) : found[i] = w
    <3>1. w \in ToSet(found) /\ DOMAIN found = 1 .. Len(found) BY <1>1, <1>3
    <3>2. QED BY <3>1 DEF ToSet
  <2>4. QED BY <1>1, <2>2, <2>3
<1>5. ToSet(upstream) = NamedIn(Upstream(graph), kind) BY <1>1, <1>4
<1>6. QED BY <1>1, <1>3, <1>5, ScanFacts, FoundFinds

LEMMA MakeArtifactsKeeps == GraphInv /\ MakeArtifactTasks => GraphInv'
<1> SUFFICES ASSUME GraphInv, MakeArtifactTasks PROVE GraphInv' OBVIOUS
<1>1. /\ step = "scan" /\ scan = <<>> /\ kind = "firefoxci-artifact" /\ step' = "start"
      /\ artifacts' = ArtifactTasks(Found) /\ kind' = "integration-test"
      /\ UNCHANGED <<deployment, root, origRoot, latest, graph, sources, scan, found, upstream, tests>>
  BY DEF MakeArtifactTasks, EndScan, NextKind
<1>2. /\ Found \in Seq(DOMAIN Tasks) /\ root = "staging" /\ deployment = "staging"
      /\ "firefoxci-artifact" \in DOMAIN sources /\ sources["firefoxci-artifact"] = graph
      /\ ToSet(Found) = Needed(graph)
  BY <1>1, AllFound DEF Needed
<1>3. tests = <<>> BY <1>1, KindsAssumption, LoadingKinds
<1>4. StepsOK' BY <1>1, <1>3 DEF GraphInv, StepsOK, Kinds
<1>5. RootsOK' BY <1>1, <1>2 DEF RootsOK
<1>6. ScanOK' BY <1>1 DEF ScanOK
<1>7. ArtifactsOK'
  <2>1. \A t \in Needed(graph) : Covers(artifacts', t) BY <1>1, <1>2, ArtifactTasksCover
  <2>2. QED BY <1>1, <1>2, <2>1 DEF ArtifactsOK
<1>8. ~Loaded' BY <1>1 DEF Loaded
<1>9. GraphWhole' /\ FetchesServed' BY <1>1, <1>8, NoneLoaded
<1>10. SourcesOK' BY <1>1, <1>2 DEF GraphInv, SourcesOK
<1>11. QED BY <1>4, <1>5, <1>6, <1>7, <1>9, <1>10 DEF GraphInv

LEMMA Labels ==
  ASSUME NEW x
  PROVE  /\ Test(x).test = x /\ DOMAIN Test(x) = {"test"}
         /\ Artifact(x).artifact = x /\ DOMAIN Artifact(x) = {"artifact"}
         /\ DOMAIN FirefoxCI(x) = {"firefoxci"}
BY DEF Test, Artifact, FirefoxCI

LEMMA RedirectedTo ==
  ASSUME NEW t \in DOMAIN Tasks, NEW f \in Fetch, NEW ids
  PROVE  /\ ~f.public => Redirected(t, f, ids) = Artifact(f.task)
         /\ \/ /\ Redirected(t, f, ids) = Artifact(f.task)
               /\ f.public => f.task \in DOMAIN artifacts
            \/ Redirected(t, f, ids) = Test(Tasks[f.task].name) /\ f.task \in ToSet(ids)
            \/ Redirected(t, f, ids) = FirefoxCI(f.task)
<1>1. f.public \in BOOLEAN BY DEF Fetch
<1>2. CASE ~f.public
  <2>1. Redirected(t, f, ids) = Artifact(f.task) BY <1>2 DEF Redirected, Public
  <2>2. QED BY <1>2, <2>1
<1>3. CASE f.public
  <2> DEFINE A == Private(t) = {} /\ f.task \in ArtifactDeps(t)
             T == Private(t) = {} /\ f.task \in MirroredDeps(t, ids) \ ArtifactDeps(t)
  <2>1. A => Redirected(t, f, ids) = Artifact(f.task) BY <1>3 DEF Redirected, Public
  <2>2. T => Redirected(t, f, ids) = Test(Tasks[f.task].name) BY <1>3 DEF Redirected, Public
  <2>3. ~A /\ ~T => Redirected(t, f, ids) = FirefoxCI(f.task) BY <1>3 DEF Redirected, Public
  <2>4. A => f.task \in DOMAIN artifacts BY DEF ArtifactDeps
  <2>5. T => f.task \in ToSet(ids) BY DEF MirroredDeps
  <2> HIDE DEF A, T
  <2>6. QED BY <1>3, <2>1, <2>2, <2>3, <2>4, <2>5
<1>4. QED BY <1>1, <1>2, <1>3

LEMMA MakeTestsKeeps == GraphInv /\ MakeTests => GraphInv'
<1> SUFFICES ASSUME GraphInv, MakeTests PROVE GraphInv' OBVIOUS
<1> DEFINE ids == Found
           first == FirstOfItsName(ids)
<1>1. /\ step = "scan" /\ scan = <<>> /\ kind = "integration-test" /\ step' = "start"
      /\ kind' = "optimize" /\ ~Unrunnable
      /\ tests' = [i \in DOMAIN first |-> Description(first[i], ids)]
      /\ UNCHANGED <<deployment, root, origRoot, latest, graph, sources, scan, found, upstream,
                     artifacts>>
  BY DEF MakeTests, EndScan, NextKind
<1>2. /\ ids \in Seq(DOMAIN Tasks) /\ root = "staging" /\ deployment = "staging"
      /\ "integration-test" \in DOMAIN sources /\ sources["integration-test"] = graph
      /\ WantedOf(graph) \subseteq ToSet(ids) /\ ToSet(ids) \subseteq Needed(graph)
  <2>1. NamedIn(Upstream(graph), kind) \subseteq NamedIn(Upstream(graph), "firefoxci-artifact")
    BY <1>1, KindsAssumption DEF NamedIn
  <2>2. QED BY <1>1, <2>1, AllFound DEF Needed
<1>3. /\ DOMAIN sources = {"firefoxci-artifact", "integration-test"}
      /\ SameGraph => \A t \in ToSet(ids) : Covers(artifacts, t)
  <2>1. /\ DOMAIN sources = {"firefoxci-artifact", "integration-test"}
        /\ \A t \in Needed(sources["firefoxci-artifact"]) : Covers(artifacts, t)
    BY <1>1, <1>2, KindsAssumption DEF GraphInv, SourcesOK, ArtifactsOK
  <2>2. SameGraph => sources["firefoxci-artifact"] = graph BY <1>2, <2>1 DEF SameGraph
  <2>3. QED BY <1>2, <2>1, <2>2
<1>0. SameGraph' = SameGraph BY <1>1 DEF SameGraph
<1>4. \A t \in ToSet(first) : ~Mixed(t, ids) BY <1>1 DEF Unrunnable
<1> HIDE DEF ids
<1>5. /\ first \in Seq(DOMAIN Tasks) /\ ToSet(first) \subseteq ToSet(ids)
      /\ \A i, j \in DOMAIN first : Tasks[first[i]].name = Tasks[first[j]].name => i = j
      /\ \A t \in ToSet(ids) : \E i \in DOMAIN first : Tasks[first[i]].name = Tasks[t].name
  BY <1>2, FirstNames
<1> HIDE DEF first
<1>6. \A i \in DOMAIN first : /\ first[i] \in DOMAIN Tasks /\ first[i] \in ToSet(ids)
                              /\ first[i] \in ToSet(first)
  <2> TAKE i \in DOMAIN first
  <2>1. first[i] \in ToSet(first) BY Zenon DEF ToSet
  <2>2. first[i] \in ToSet(ids) BY <1>5, <2>1
  <2>3. first[i] \in DOMAIN Tasks BY <1>5
  <2>4. QED BY <2>1, <2>2, <2>3
<1>7. /\ DOMAIN tests' = DOMAIN first
      /\ \A i \in DOMAIN first : tests'[i] = Description(first[i], ids)
  BY <1>1
<1>8. \A i \in DOMAIN first : tests'[i].name = Tasks[first[i]].name BY <1>7 DEF Description
<1>9. \A t \in ToSet(ids) : TestsOf(Tasks[t].name)' # {} BY <1>5, <1>7, <1>8 DEF TestsOf
<1>10. ASSUME NEW i \in DOMAIN first, NEW label \in tests'[i].dependencies
       PROVE  Made(label)' \/ OfTheOtherGraph(label)'
  <2> DEFINE t == first[i]
  <2>1. /\ t \in DOMAIN Tasks /\ t \in ToSet(ids) /\ (SameGraph => Covers(artifacts, t))
        /\ Tasks[t].fetches \in Seq(Fetch)
    BY <1>3, <1>6, FetchFacts
  <2>2. label \in OwnDependencies(t) \cup {Test(Tasks[d].name) : d \in MirroredDeps(t, ids)}
                    \cup {Artifact(d) : d \in ArtifactDeps(t)}
    BY <1>7 DEF Description
  <2> HIDE DEF t
  <2>3. ASSUME NEW d \in DOMAIN artifacts PROVE Made(Artifact(d))' BY <1>1, Labels DEF Made
  <2>4. ASSUME NEW d \in ToSet(ids) PROVE Made(Test(Tasks[d].name))'
    <3>1. TestsOf(Tasks[d].name)' # {} BY <1>9
    <3>2. QED BY <3>1, Labels DEF Made
  <2>5. CASE label = Apply BY <2>5 DEF Made
  <2>6. CASE label \in ImageDependency(t)
    <3>1. CASE SameGraph BY <2>1, <2>3, <2>6, <3>1 DEF ImageDependency, Covers
    <3>2. CASE ~SameGraph
      BY <1>0, <2>6, <3>2, Labels DEF ImageDependency, OfTheOtherGraph
    <3>3. QED BY <3>1, <3>2
  <2>7. ASSUME NEW f \in Private(t), label = Artifact(f.task)
        PROVE  Made(label)' \/ OfTheOtherGraph(label)'
    <3>1. f \in ToSet(Tasks[t].fetches) /\ ~Public(f) BY DEF Private
    <3>2. CASE SameGraph
      <4>1. f.task \in DOMAIN artifacts BY <2>1, <3>1, <3>2 DEF Covers, Mirrored
      <4>2. QED BY <2>3, <2>7, <4>1
    <3>3. CASE ~SameGraph BY <1>0, <2>7, <3>3, Labels DEF OfTheOtherGraph
    <3>4. QED BY <3>2, <3>3
  <2>8. ASSUME NEW d \in MirroredDeps(t, ids), label = Test(Tasks[d].name) PROVE Made(label)'
    <3>1. d \in ToSet(ids) BY DEF MirroredDeps
    <3>2. QED BY <2>4, <2>8, <3>1
  <2>9. ASSUME NEW d \in ArtifactDeps(t), label = Artifact(d) PROVE Made(label)'
    <3>1. d \in DOMAIN artifacts BY DEF ArtifactDeps
    <3>2. QED BY <2>3, <2>9, <3>1
  <2>10. QED BY <2>2, <2>5, <2>6, <2>7, <2>8, <2>9 DEF OwnDependencies
<1>11. GraphWhole'
  <2>1. \A i, j \in DOMAIN tests' : tests'[i].name = tests'[j].name => i = j BY <1>5, <1>7, <1>8
  <2>2. \A i \in DOMAIN tests' : \A label \in tests'[i].dependencies :
          Made(label)' \/ OfTheOtherGraph(label)'
    BY <1>7, <1>10
  <2>3. \A t \in ToSet(Graphs[sources'["integration-test"]]) :
          Wanted(t) => TestsOf(Tasks[t].name)' # {}
    BY <1>1, <1>2, <1>9 DEF WantedOf
  <2>4. DOMAIN sources' = DOMAIN IncludeDeps BY <1>1, <1>3, KindsAssumption
  <2>5. QED BY <2>1, <2>2, <2>3, <2>4 DEF GraphWhole
<1>12. ASSUME NEW i \in DOMAIN first, NEW fetch \in tests'[i].fetches
       PROVE  CASE fetch.public /\ tests'[i].patched -> "firefoxci" \in DOMAIN fetch.task
                [] OTHER -> \/ HereIs(fetch)' \/ MirroredElsewhere(tests[i], fetch)'
                            \/ OfTheOtherGraph(fetch.task)'
  <2> DEFINE t == first[i]
  <2>1. /\ t \in DOMAIN Tasks /\ (SameGraph => Covers(artifacts, t)) /\ ~Mixed(t, ids)
        /\ Tasks[t].fetches \in Seq(Fetch)
    BY <1>3, <1>4, <1>6, FetchFacts
  <2>2. /\ tests'[i].fetches =
             {[artifact |-> f.artifact, public |-> f.public, from |-> f.task,
               task |-> Redirected(t, f, ids)] : f \in ToSet(Tasks[t].fetches)}
        /\ tests'[i].patched <=> \E f \in ToSet(Tasks[t].fetches) : ~InStaging(t, f, ids)
        /\ tests'[i].name = Tasks[t].name
    BY <1>7 DEF Description
  <2> HIDE DEF t
  <2>3. PICK f \in ToSet(Tasks[t].fetches) :
          fetch = [artifact |-> f.artifact, public |-> f.public, from |-> f.task,
                   task |-> Redirected(t, f, ids)]
    BY <2>2
  <2>4. f \in Fetch BY <2>1 DEF ToSet
  <2>5. /\ fetch.artifact = f.artifact /\ fetch.public = f.public /\ fetch.from = f.task
        /\ fetch.task = Redirected(t, f, ids)
    BY <2>3
  <2>6. CASE fetch.public /\ tests'[i].patched
    <3>1. ~InStaging(t, f, ids) BY <2>1, <2>2, <2>6 DEF Mixed
    <3>2. "firefoxci" \in DOMAIN fetch.task BY <2>5, <2>6, <3>1 DEF InStaging, Public
    <3>3. QED BY <2>6, <3>2
  <2>7. CASE ~(fetch.public /\ tests'[i].patched)
    <3>1. Mirrored(t, f) /\ SameGraph =>
            f.task \in DOMAIN artifacts /\ f.artifact \in ToSet(artifacts[f.task])
      BY <2>1 DEF Covers
    <3>2. ASSUME fetch.task = Artifact(f.task), Mirrored(t, f)
          PROVE  HereIs(fetch)' \/ OfTheOtherGraph(fetch.task)'
      <4>1. "artifact" \in DOMAIN fetch.task BY <3>2, Labels
      <4>2. CASE SameGraph BY <1>1, <2>5, <3>1, <3>2, <4>1, <4>2 DEF HereIs
      <4>3. CASE ~SameGraph BY <1>0, <4>1, <4>3 DEF OfTheOtherGraph
      <4>4. QED BY <4>2, <4>3
    <3>3. ASSUME fetch.task = Artifact(f.task), ~Mirrored(t, f), f.task \in DOMAIN artifacts
          PROVE  MirroredElsewhere(tests[i], fetch)'
      BY <1>1, <2>2, <2>5, <3>3 DEF Mirrored, Public, MirroredElsewhere
    <3>4. ASSUME fetch.task = Test(Tasks[f.task].name), f.task \in ToSet(ids)
          PROVE  HereIs(fetch)'
      <4>1. TestsOf(Tasks[f.task].name)' # {} BY <1>9, <3>4
      <4>2. "test" \in DOMAIN fetch.task /\ fetch.task.test = Tasks[f.task].name BY <3>4, Labels
      <4>3. QED BY <4>1, <4>2 DEF HereIs
    <3>5. ASSUME fetch.task = FirefoxCI(f.task), f.public PROVE FALSE
      <4>1. InStaging(t, f, ids) BY <2>2, <2>5, <2>7, <3>5
      <4>2. "firefoxci" \in DOMAIN fetch.task BY <3>5, Labels
      <4>3. QED BY <2>5, <4>1, <4>2 DEF InStaging
    <3>6. \/ HereIs(fetch)' \/ MirroredElsewhere(tests[i], fetch)'
          \/ OfTheOtherGraph(fetch.task)'
      <4>1. f.public \in BOOLEAN BY <2>4 DEF Fetch
      <4>2. CASE ~f.public
        <5>1. fetch.task = Artifact(f.task) BY <2>1, <2>4, <2>5, <4>2, RedirectedTo
        <5>2. Mirrored(t, f) BY <4>2 DEF Mirrored, Public
        <5>3. QED BY <3>2, <5>1, <5>2
      <4>3. CASE f.public
        <5>1. \/ fetch.task = Artifact(f.task) /\ f.task \in DOMAIN artifacts
              \/ fetch.task = Test(Tasks[f.task].name) /\ f.task \in ToSet(ids)
              \/ fetch.task = FirefoxCI(f.task)
          BY <2>1, <2>4, <2>5, <4>3, RedirectedTo
        <5>2. QED BY <3>2, <3>3, <3>4, <3>5, <4>3, <5>1
      <4>4. QED BY <4>1, <4>2, <4>3
    <3>7. QED BY <2>7, <3>6
  <2>8. QED BY <2>6, <2>7
<1>13. FetchesServed' BY <1>7, <1>12 DEF FetchesServed
<1>14. StepsOK' BY <1>1, KindsAssumption DEF GraphInv, StepsOK, Kinds
<1>15. RootsOK' BY <1>1, KindsAssumption DEF RootsOK
<1>16. ScanOK' BY <1>1 DEF ScanOK
<1>17. ArtifactsOK' BY <1>1, KindsAssumption DEF GraphInv, ArtifactsOK, Covers
<1>18. SourcesOK' BY <1>1, <1>3 DEF GraphInv, SourcesOK
<1>19. QED BY <1>11, <1>13, <1>14, <1>15, <1>16, <1>17, <1>18 DEF GraphInv

LEMMA LoadKeeps == GraphInv /\ LoadKinds => GraphInv'
BY WorkerKeeps, SkipKeeps, StartKeeps, PassOverKeeps, FindKeeps, AnswerKeeps, FailKeeps,
   MakeArtifactsKeeps, MakeTestsKeeps, MoveKeeps
   DEF LoadKinds

\* Which tests are kept is of no matter for the graph.
LEMMA OptimizeKeeps ==
  ASSUME GraphInv, NEW modified, NEW filesChanged, Optimize(modified, filesChanged)
  PROVE  GraphInv'
<1>1. /\ kind = "optimize" /\ kind' \in {"done", "done for files"}
      /\ UNCHANGED <<deployment, root, origRoot, latest, graph, sources, step, scan, found,
                     upstream, artifacts, tests>>
  BY DEF Optimize
<1>2. step = "start" BY <1>1, KindsAssumption DEF GraphInv, StepsOK
<1>3. StepsOK' BY <1>1, <1>2, KindsAssumption DEF GraphInv, StepsOK, Kinds
<1>4. RootsOK' /\ SourcesOK' BY <1>1, KindsAssumption DEF GraphInv, RootsOK, SourcesOK
<1>5. ScanOK' BY <1>1, <1>2 DEF ScanOK
<1>6. ArtifactsOK' BY <1>1 DEF GraphInv, ArtifactsOK, Covers
<1>7. Loaded BY <1>1 DEF Loaded
<1>8. GraphWhole' /\ FetchesServed' BY <1>1, <1>7, StillLoaded
<1>9. QED BY <1>3, <1>4, <1>5, <1>6, <1>8 DEF GraphInv

LEMMA GraphStays == GraphInv /\ UNCHANGED graphVars => GraphInv'
<1> SUFFICES ASSUME GraphInv, UNCHANGED graphVars PROVE GraphInv' OBVIOUS
<1> USE DEF graphVars
<1>1. StepsOK' BY DEF GraphInv, StepsOK
<1>2. RootsOK' /\ SourcesOK' BY DEF GraphInv, RootsOK, SourcesOK
<1>3. ScanOK' BY DEF GraphInv, ScanOK
<1>4. ArtifactsOK' BY DEF GraphInv, ArtifactsOK, Covers
<1>5. GraphWhole' /\ FetchesServed'
  <2>1. CASE Loaded BY <2>1, StillLoaded
  <2>2. CASE ~Loaded
    <3>1. ~Loaded' BY <2>2 DEF Loaded
    <3>2. QED BY <3>1, NoneLoaded
  <2>3. QED BY <2>1, <2>2
<1>6. QED BY <1>1, <1>2, <1>3, <1>4, <1>5 DEF GraphInv

LEMMA GraphStarts == GraphInit => GraphInv
<1> SUFFICES ASSUME GraphInit PROVE GraphInv OBVIOUS
<1> USE DEF GraphInit
<1>1. StepsOK BY DEF StepsOK, Kinds
<1>2. RootsOK /\ SourcesOK BY DEF RootsOK, SourcesOK
<1>3. ScanOK BY DEF ScanOK
<1>4. ArtifactsOK BY DEF ArtifactsOK
<1>5. DOMAIN tests = {}
  <2>1. DOMAIN <<>> = {} OBVIOUS
  <2>2. QED BY <2>1, Zenon
<1>6. GraphWhole /\ FetchesServed BY <1>5 DEF GraphWhole, FetchesServed, Loaded
<1>7. QED BY <1>1, <1>2, <1>3, <1>4, <1>6 DEF GraphInv

-----------------------------------------------------------------------------
(* The review.                                                             *)

\* The inductive invariant of the review.
ReviewInv == PoolInv /\ GraphInv /\ TestsOfChangedPoolsKept

\* A pool that the review has generated is made of its own definition and of
\* the changed images.
LEMMA MadeOfItsDefinition ==
  ASSUME PoolInv, pass = "generated", NEW pv \in DOMAIN made
  PROVE  made[pv] = WorkerPool(VariantOf(pv, Anchors), images, Defaults)
<1> DEFINE i == pv[1]
           v == pv[2]
<1>1. /\ pv \in Variants
      /\ BorrowsTemplate(pv) \/ made[pv] = WorkerPool(VariantOf(pv, Anchors), images, Defaults)
  BY DEF PoolInv, OfItsOwnDefinition
<1>2. i \in DOMAIN Pools /\ v \in DOMAIN Pools[i].variants /\ pv = <<i, v>>
  BY <1>1, PoolVariants
<1> HIDE DEF i, v
<1>3. ~BorrowsTemplate(pv) BY <1>2, TemplatesAssumption
<1>4. QED BY <1>1, <1>3

\* Two pools made of one definition and of two files of images differ if a worker
\* of theirs starts of another image, and only if their images are others.
Makes(pv, file) == WorkerPool(VariantOf(pv, Anchors), file, Defaults)
StartsAnother(pv, file, other) ==
  \E p \in Placements(VariantOf(pv, Anchors)) :
    ImageOf(Launch(VariantOf(pv, Anchors), p, file, Defaults).starts)
      # ImageOf(Launch(VariantOf(pv, Anchors), p, other, Defaults).starts)
LEMMA PoolsDiffer ==
  ASSUME NEW pv, NEW file, NEW other
  PROVE  /\ Makes(pv, other).name = Makes(pv, file).name
         /\ Starts(pv) /\ StartsAnother(pv, file, other) => Makes(pv, other) # Makes(pv, file)
         /\ Makes(pv, other) # Makes(pv, file) => Starts(pv) /\ Imaged(pv, file) # Imaged(pv, other)
<1> DEFINE pool == Makes(pv, file)
           old == Makes(pv, other)
           v == VariantOf(pv, Anchors)
           L(f) == [p \in Placements(v) |->
                      LET launch == Launch(v, p, f, Defaults)
                      IN [id |-> LaunchId(v.name, launch), is |-> launch, for |-> Machine(v, p)]]
           Known == v.provider \in DOMAIN Providers
<1>1. /\ pool = [name |-> v.name, provider |-> v.provider,
                 launch |-> IF Known THEN L(file) ELSE <<>>]
      /\ old = [name |-> v.name, provider |-> v.provider,
                launch |-> IF Known THEN L(other) ELSE <<>>]
  BY DEF WorkerPool, Makes
<1>2. /\ Starts(pv) <=> Known /\ Placements(v) # {}
      /\ \A f : Imaged(pv, f) = ImageFor(f, v.image, v.provider)
  BY DEF Starts, Imaged
<1> HIDE DEF pool, old
<1>3. old.name = pool.name BY <1>1
<1>4. ASSUME Starts(pv), NEW p \in Placements(v),
             ImageOf(Launch(v, p, file, Defaults).starts) # ImageOf(Launch(v, p, other, Defaults).starts)
      PROVE  old # pool
  <2>1. \A f : L(f)[p].is = Launch(v, p, f, Defaults) OBVIOUS
  <2> HIDE DEF L
  <2>2. L(file) # L(other) BY <1>4, <2>1
  <2>3. QED BY <1>1, <1>2, <1>4, <2>2
<1>5. ASSUME ~Starts(pv) PROVE old = pool
  <2>1. CASE ~Known BY <1>1, <2>1
  <2>2. CASE Placements(v) = {}
    <3>1. L(file) = L(other) BY <2>2
    <3>2. QED BY <1>1, <3>1
  <2>3. QED BY <1>2, <1>5, <2>1, <2>2
<1>6. ASSUME Imaged(pv, file) = Imaged(pv, other) PROVE old = pool
  <2>1. \A p \in Placements(v) : Launch(v, p, file, Defaults) = Launch(v, p, other, Defaults)
    BY <1>2, <1>6 DEF Launch
  <2>2. L(file) = L(other) BY <2>1
  <2>3. QED BY <1>1, <2>2
<1>7. QED BY <1>3, <1>4, <1>5, <1>6 DEF StartsAnother, pool, old

LEMMA DecideKeeps == ReviewInv /\ Decide => TestsOfChangedPoolsKept'
<1> SUFFICES ASSUME ReviewInv, Decide PROVE TestsOfChangedPoolsKept' OBVIOUS
<1>1. /\ pass = "generated" \/ tests = <<>>
      /\ UNCHANGED <<anchors, images, pass, todo, made, passes>>
      /\ tests' = tests
  BY DEF Decide, poolVars, Optimize
<1>2. PICK filesChanged \in BOOLEAN :
        /\ kept' = {test \in ToSet(tests) : filesChanged \/ test.queue \in ModifiedWorkerPools}
        /\ kind' = IF filesChanged THEN "done for files" ELSE "done"
  BY DEF Decide, Optimize
<1>3. kind' = "done for files" => kept' = ToSet(tests)' BY <1>1, <1>2
<1>4. CASE tests = <<>>
  <2>1. ToSet(tests) = {} BY <1>4 DEF ToSet
  <2>2. kept' = {} /\ ToSet(tests)' = {} BY <1>1, <1>2, <2>1
  <2>3. QED BY <1>3, <2>2 DEF TestsOfChangedPoolsKept, TestsIn
<1>5. CASE pass = "generated"
  <2> SUFFICES ASSUME kind' = "done"
               PROVE  /\ TestsIn({pv \in DOMAIN made : StartsOthers(pv)}) \subseteq kept'
                      /\ kept' \subseteq TestsIn({pv \in DOMAIN made :
                            Starts(pv) /\ Imaged(pv, images) # Imaged(pv, DeployedImages)})
    BY <1>1, <1>3 DEF TestsOfChangedPoolsKept, TestsIn, StartsOthers
  <2>1. kept' = {test \in ToSet(tests) : test.queue \in ModifiedWorkerPools} BY <1>2
  <2>2. ASSUME NEW pv \in DOMAIN made
        PROVE  /\ Deployed(pv).name = made[pv].name
               /\ StartsOthers(pv) => Deployed(pv) # made[pv]
               /\ Deployed(pv) # made[pv]
                    => Starts(pv) /\ Imaged(pv, images) # Imaged(pv, DeployedImages)
    <3>1. made[pv] = Makes(pv, images) BY <1>5, MadeOfItsDefinition DEF ReviewInv, Makes
    <3>2. Deployed(pv) = Makes(pv, DeployedImages) BY DEF Deployed, Makes
    <3>3. StartsOthers(pv) => Starts(pv) /\ StartsAnother(pv, images, DeployedImages)
      BY DEF StartsOthers, StartsAnother
    <3>4. QED BY <3>1, <3>2, <3>3, PoolsDiffer
  <2>3. \A queue : queue \in ModifiedWorkerPools <=>
          \E pv \in DOMAIN made : made[pv].name = queue /\ Deployed(pv) # made[pv]
    BY <2>2 DEF ModifiedWorkerPools
  <2>4. ASSUME NEW test \in TestsIn({pv \in DOMAIN made : StartsOthers(pv)}) PROVE test \in kept'
    <3>1. /\ test \in ToSet(tests)
          /\ \E pv \in DOMAIN made : StartsOthers(pv) /\ made[pv].name = test.queue
      BY <2>4 DEF TestsIn
    <3>2. QED BY <3>1, <2>1, <2>2, <2>3
  <2>5. ASSUME NEW test \in kept'
        PROVE  test \in TestsIn({pv \in DOMAIN made :
                            Starts(pv) /\ Imaged(pv, images) # Imaged(pv, DeployedImages)})
    <3>1. /\ test \in ToSet(tests)
          /\ \E pv \in DOMAIN made : made[pv].name = test.queue /\ Deployed(pv) # made[pv]
      BY <2>5, <2>1, <2>3
    <3>2. QED BY <3>1, <2>2 DEF TestsIn
  <2>6. QED BY <2>4, <2>5
<1>6. QED BY <1>1, <1>4, <1>5

\* The kinds are loaded before it is decided what to keep.
LEMMA LoadingUndecided ==
  ASSUME GraphInv, LoadKinds
  PROVE  kind' \notin {"done", "done for files"}
<1>1. step # "start" => kind \in DOMAIN IncludeDeps BY DEF GraphInv, StepsOK
<1>2. kind \in DOMAIN IncludeDeps => kind \notin {"done", "done for files"} BY KindsAssumption
<1>3. kind \in DOMAIN IncludeDeps
  BY <1>1 DEF LoadKinds, AnotherWorker, SkipKind, StartKind, PassOver, Find, Answer, RequestFails,
              MakeArtifactTasks, MakeTests, RefuseTests, EndScan, IndexMoves
<1>4. kind' \in {kind, "integration-test", "optimize", "failed"}
  BY DEF LoadKinds, AnotherWorker, SkipKind, StartKind, PassOver, Find, Answer, RequestFails,
         MakeArtifactTasks, MakeTests, RefuseTests, EndScan, IndexMoves, NextKind
<1>5. QED BY <1>2, <1>3, <1>4

LEMMA ReviewStep == ReviewInv /\ [ReviewNext]_reviewVars => ReviewInv'
<1> SUFFICES ASSUME ReviewInv, [ReviewNext]_reviewVars PROVE ReviewInv' OBVIOUS
<1>0. PoolInv /\ GraphInv BY DEF ReviewInv
<1>1. CASE Load
  <2>1. PoolInv' BY <1>0, <1>1, PoolNext DEF Load
  <2>2. GraphInv' BY <1>0, <1>1, LoadKeeps DEF Load
  <2>3. kind' \notin {"done", "done for files"} BY <1>0, <1>1, LoadingUndecided DEF Load
  <2>4. QED BY <2>1, <2>2, <2>3 DEF ReviewInv, TestsOfChangedPoolsKept
<1>2. CASE MakePools
  <2>1. PoolInv' BY <1>0, <1>2, PoolNext DEF MakePools
  <2>2. GraphInv' BY <1>0, <1>2, GraphStays DEF MakePools
  <2>3. kind' = "optimize" BY <1>2 DEF MakePools, graphVars
  <2>4. QED BY <2>1, <2>2, <2>3 DEF ReviewInv, TestsOfChangedPoolsKept
<1>3. CASE Decide
  <2>1. PoolInv' BY <1>0, <1>3, PoolNext DEF Decide
  <2>2. GraphInv' BY <1>0, <1>3, OptimizeKeeps DEF Decide
  <2>3. TestsOfChangedPoolsKept' BY <1>3, DecideKeeps
  <2>4. QED BY <2>1, <2>2, <2>3 DEF ReviewInv
<1>4. CASE DiffFails
  <2>1. PoolInv' BY <1>0, <1>4, PoolNext DEF DiffFails
  <2>2. kind = "optimize" /\ kind' = "failed" /\ UNCHANGED <<deployment, latest, graph, sources, step, tests>>
    BY <1>4 DEF DiffFails
  <2>3. step = "start" BY <1>0, <2>2, KindsAssumption DEF GraphInv, StepsOK
  <2>4. GraphInv' BY <1>0, <2>2, <2>3, FailedKeeps
  <2>5. QED BY <2>1, <2>2, <2>4 DEF ReviewInv, TestsOfChangedPoolsKept
<1>5. CASE UNCHANGED reviewVars
  <2>1. PoolInv' BY <1>0, <1>5, PoolNext DEF reviewVars
  <2>2. GraphInv' BY <1>0, <1>5, GraphStays DEF reviewVars
  <2>3. UNCHANGED <<images, made, tests, kept, kind>>
    BY <1>5 DEF reviewVars, poolVars, graphVars
  <2>4. \A pv : StartsOthers(pv)' <=> StartsOthers(pv) BY <2>3 DEF StartsOthers
  <2>5. TestsOfChangedPoolsKept' BY <2>3, <2>4 DEF ReviewInv, TestsOfChangedPoolsKept, TestsIn
  <2>6. QED BY <2>1, <2>2, <2>5 DEF ReviewInv
<1>6. QED BY <1>1, <1>2, <1>3, <1>4, <1>5 DEF ReviewNext

-----------------------------------------------------------------------------
\* In every state of a process that generates worker pools or checks their images
\* the objects of worker-pools.yml are as they were read, but for templates that
\* generate_pool_variants has filled in, and what is made so far is right.
THEOREM PoolsInvariant == Spec => []PoolInv
<1>1. Init => PoolInv BY PoolInit
<1>2. PoolInv /\ [Next]_poolVars => PoolInv' BY PoolNext
<1>3. QED BY <1>1, <1>2, PTL DEF Spec

\* What make_worker_pool makes of a variant does not depend on the pools, variants
\* and passes that came before and used the same objects.
THEOREM PoolsOfTheirOwnDefinition == Spec => []OfItsOwnDefinition
<1>1. PoolInv => OfItsOwnDefinition BY DEF PoolInv
<1>2. QED BY <1>1, PoolsInvariant, PTL

\* No two launch configs of a generated pool have one launchConfigId that
\* _populate_launch_config_id has hashed, but for two of one place of which one
\* starts the machine of another type, as an ARM template's parameters or a
\* launchConfig may have it. Each disk has the zone of its worker.
THEOREM LaunchConfigsPlaced == Spec => []LaunchesPlaced
<1>1. PoolInv => LaunchesPlaced BY DEF PoolInv
<1>2. QED BY <1>1, PoolsInvariant, PTL

\* check_worker_images_are_used goes through worker-images.yml once, in whatever
\* order the file is; when it passes, each image can be reached from a pool.
THEOREM NoUnusedImageMissed == Spec => []UnusedImagesFound
<1>1. PoolInv => UnusedImagesFound
  <2> SUFFICES ASSUME PoolInv PROVE UnusedImagesFound OBVIOUS
  <2> DEFINE named == {made[pv] : pv \in DOMAIN made}
  <2>1. UsedImages(images, named) \subseteq Reached(images, named)
    <3> HIDE DEF named
    <3>1. QED BY UsedIsReached DEF PoolInv
  <2>2. UnusedImages(images, named) = {} =>
          {images[i].name : i \in DOMAIN images} \subseteq UsedImages(images, named)
    BY DEF UnusedImages
  <2>3. QED BY <2>1, <2>2 DEF UnusedImagesFound
<1>2. QED BY <1>1, PoolsInvariant, PTL

\* The pools that a review compares are generated as WorkerPools has it: the
\* decision task does nothing to them, so its theorems hold there too.
THEOREM ReviewGeneratesPools == ReviewSpec => Spec
<1>1. ReviewInit => Init BY DEF ReviewInit
<1>2. [ReviewNext]_reviewVars => [Next]_poolVars
  BY DEF ReviewNext, reviewVars, Load, MakePools, Decide, DiffFails, poolVars
<1>3. QED BY <1>1, <1>2, PTL DEF ReviewSpec, Spec

\* In every state of a decision task what find_tasks has found and what the
\* transforms have made of it are on the way to a whole graph.
THEOREM ReviewInvariant == ReviewSpec => []ReviewInv
<1>1. ReviewInit => ReviewInv
  <2> SUFFICES ASSUME ReviewInit PROVE ReviewInv OBVIOUS
  <2>1. PoolInv /\ GraphInv BY PoolInit, GraphStarts DEF ReviewInit
  <2>2. kind = "firefoxci-artifact" BY DEF ReviewInit, GraphInit
  <2>3. QED BY <2>1, <2>2 DEF ReviewInv, TestsOfChangedPoolsKept
<1>2. ReviewInv /\ [ReviewNext]_reviewVars => ReviewInv' BY ReviewStep
<1>3. QED BY <1>1, <1>2, PTL DEF ReviewSpec

\* A decision task that loads its kinds has one test for each wanted task of the
\* Firefox CI graph they were made of, in whatever workers they were loaded and
\* whenever the index moved, and all they depend on, unless the artifacts were
\* made of another graph.
THEOREM GraphsAreWhole == ReviewSpec => []GraphWhole
<1>1. ReviewInv => GraphWhole BY DEF ReviewInv, GraphInv
<1>2. QED BY <1>1, ReviewInvariant, PTL

\* Every fetch of a test is looked for where its artifact is, or, for public ones
\* of patched tests, asked of Firefox CI, unless it is an artifact and artifacts
\* were made of another graph.
THEOREM FetchesAreServed == ReviewSpec => []FetchesServed
<1>1. ReviewInv => FetchesServed BY DEF ReviewInv, GraphInv
<1>2. QED BY <1>1, ReviewInvariant, PTL

\* IntegrationTestStrategy keeps the tests of pools that start workers of another
\* image after the change, and no test of a pool whose image stays.
THEOREM ChangedPoolsTested == ReviewSpec => []TestsOfChangedPoolsKept
<1>1. ReviewInv => TestsOfChangedPoolsKept BY DEF ReviewInv
<1>2. QED BY <1>1, ReviewInvariant, PTL
=============================================================================
