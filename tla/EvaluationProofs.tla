-------------------------- MODULE EvaluationProofs --------------------------
(***************************************************************************)
(* Proofs about the engine, for every catalog, policy, scale and grid:     *)
(* dominance and the frontier (Frontier), the proximity of an offering     *)
(* (Proximity), the search for a transition (GridSearch), and the          *)
(* behaviours that evaluate them (MCEvaluation).                           *)
(***************************************************************************)
EXTENDS MCEvaluation, FiniteSetTheorems, WellFoundedInduction, TLAPS

\* An offering that a policy may compare.
Comparable(o, p) ==
    \A axis \in Axes : o.axes[axis] \in Estimates /\ Usable(o.axes[axis], p)

----------------------------------------------------------------------------
LEMMA CostsAreIntegers ==
    ASSUME NEW p \in Policies, NEW axis \in Axes, NEW o, o.axes[axis] \in Estimates
    PROVE  /\ CandidateCost(o, axis, p) \in Int
           /\ OtherCost(o, axis, p) \in Int
BY DEF CandidateCost, OtherCost, Cost, WorstCost, BestCost, Estimates

LEMMA ToleranceIsSymmetric ==
    ASSUME NEW p \in Policies, NEW axis \in Axes, NEW x \in Int, NEW y \in Int
    PROVE  /\ Tolerance(axis, p, x, y) \in Int
           /\ Tolerance(axis, p, x, y) >= 0
           /\ Tolerance(axis, p, x, y) = Tolerance(axis, p, y, x)
<1> DEFINE m == Larger(Abs(x), Abs(y))
           a == p.absolute[axis]
           r == p.relative[axis]
<1>1. m \in Nat /\ m = Larger(Abs(y), Abs(x))
  BY DEF Larger, Abs
<1>2. a \in Nat /\ r \in Nat /\ Scale \in Nat
  BY ScaleIsPositive DEF Policies
<1> HIDE DEF m, a, r
<1>3. ASSUME NEW k \in Nat, NEW n \in Nat PROVE k * n \in Nat
  BY <1>3
<1>4. Scale * a \in Nat /\ r * m \in Nat
  BY <1>1, <1>2, <1>3
<1>5. Tolerance(axis, p, x, y) = Scale * a + r * m
  BY DEF Tolerance, m, a, r
<1>6. Tolerance(axis, p, y, x) = Scale * a + r * m
  BY <1>1 DEF Tolerance, m, a, r
<1> QED BY <1>4, <1>5, <1>6

(***************************************************************************)
(* How far a cost x is behind a cost y, beyond the relative tolerance,     *)
(* only grows with x and with -y, as long as that tolerance is at most 1.  *)
(***************************************************************************)
Behind(x, y, r) == Scale * x - Scale * y - r * Larger(Abs(x), Abs(y))

LEMMA BehindIsMonotone ==
    ASSUME NEW r \in Nat, r <= Scale,
           NEW x \in Int, NEW v \in Int, v <= x,
           NEW y \in Int, NEW w \in Int, y <= w
    PROVE  Behind(v, w, r) <= Behind(x, y, r)
<1> DEFINE m == Larger(Abs(x), Abs(y))
           n == Larger(Abs(v), Abs(w))
           d == (x - v) + (w - y)
<1>1. m \in Nat /\ n \in Nat /\ d \in Nat /\ m - n <= d
  BY DEF Larger, Abs
<1>2. Scale \in Nat
  BY ScaleIsPositive
<1>3. ASSUME NEW M \in Nat, NEW N \in Nat, NEW D \in Nat, M - N <= D
      PROVE  r * M - r * N <= Scale * D
  <2>1. r * (D - (M - N)) >= 0
    BY <1>3
  <2>2. (Scale - r) * D >= 0
    BY <1>2
  <2> QED BY <2>1, <2>2, <1>2
<1>4. r * m - r * n <= Scale * d
  BY <1>1, <1>3
<1>5. Scale * d = (Scale * x - Scale * v) + (Scale * w - Scale * y)
  BY <1>2
<1> HIDE DEF m, n, d
<1>6. Behind(x, y, r) = Scale * x - Scale * y - r * m
  BY DEF Behind, m
<1>7. Behind(v, w, r) = Scale * v - Scale * w - r * n
  BY DEF Behind, n
<1>8. /\ Scale * x \in Int /\ Scale * y \in Int /\ Scale * v \in Int /\ Scale * w \in Int
      /\ r * m \in Int /\ r * n \in Int /\ Scale * d \in Int
  BY <1>1, <1>2
<1> QED BY <1>4, <1>5, <1>6, <1>7, <1>8

----------------------------------------------------------------------------
(***************************************************************************)
(* The two components of dominance_axis_relation are one comparison: to be *)
(* better is that the other, seen from its side, is not "no worse".        *)
(***************************************************************************)
LEMMA NoWorseIsBehind ==
    ASSUME NEW p \in Policies, NEW axis \in Axes,
           NEW c, c.axes[axis] \in Estimates, NEW o, o.axes[axis] \in Estimates
    PROVE  LET x == CandidateCost(c, axis, p)
               y == OtherCost(o, axis, p)
               r == p.relative[axis]
               a == p.absolute[axis]
           IN  /\ NoWorse(c, o, axis, p) <=> Behind(x, y, r) <= Scale * a
               /\ Better(c, o, axis, p) <=> Behind(y, x, r) > Scale * a
<1> DEFINE x == CandidateCost(c, axis, p)
           y == OtherCost(o, axis, p)
           r == p.relative[axis]
           a == p.absolute[axis]
           m == Larger(Abs(x), Abs(y))
<1>1. x \in Int /\ y \in Int
  BY CostsAreIntegers
<1>2. a \in Nat /\ r \in Nat /\ Scale \in Nat
  BY ScaleIsPositive DEF Policies
<1>3. NoWorse(c, o, axis, p) <=> Scale * x <= Scale * y + Tolerance(axis, p, x, y)
  BY DEF NoWorse
<1>4. Better(c, o, axis, p) <=> Scale * x < Scale * y - Tolerance(axis, p, x, y)
  BY DEF Better
<1> HIDE DEF x, y, a, r
<1>5. m \in Nat /\ m = Larger(Abs(y), Abs(x))
  BY <1>1 DEF Larger, Abs
<1>6. Tolerance(axis, p, x, y) = Scale * a + r * m
  BY DEF Tolerance, a, r
<1>7. Behind(x, y, r) = Scale * x - Scale * y - r * m
  BY DEF Behind
<1>8. Behind(y, x, r) = Scale * y - Scale * x - r * m
  BY <1>5 DEF Behind
<1> HIDE DEF m
<1>9. /\ Scale * x \in Int /\ Scale * y \in Int /\ Scale * a \in Int /\ r * m \in Int
  BY <1>1, <1>2, <1>5
<1>10. /\ NoWorse(c, o, axis, p) <=> Behind(x, y, r) <= Scale * a
       /\ Better(c, o, axis, p) <=> Behind(y, x, r) > Scale * a
  BY <1>3, <1>4, <1>6, <1>7, <1>8, <1>9
<1> QED BY <1>10 DEF x, y, a, r

\* An offering counts for more as a candidate than as the other.
LEMMA OtherCostIsLower ==
    ASSUME NEW p \in Policies, NEW axis \in Axes, NEW o, Comparable(o, p)
    PROVE  OtherCost(o, axis, p) <= CandidateCost(o, axis, p)
BY DEF Comparable, Usable, OtherCost, CandidateCost, Cost, WorstCost, BestCost,
       Estimates

(***************************************************************************)
(* Two offerings never dominate each other, in point or in robust mode,    *)
(* however wide the tolerances up to a relative one of 1.                  *)
(***************************************************************************)
THEOREM DominanceIsAsymmetric ==
    ASSUME NEW p \in Policies, Moderate(p), NEW c, Comparable(c, p),
           NEW o, Comparable(o, p), Dominates(c, o, p)
    PROVE  ~Dominates(o, c, p)
<1>1. PICK axis \in Axes : Better(c, o, axis, p)
  BY DEF Dominates
<1> DEFINE r == p.relative[axis]
           a == p.absolute[axis]
           wc == CandidateCost(c, axis, p)
           bc == OtherCost(c, axis, p)
           wo == CandidateCost(o, axis, p)
           bo == OtherCost(o, axis, p)
<1>2. c.axes[axis] \in Estimates /\ o.axes[axis] \in Estimates
  BY DEF Comparable
<1>3. wc \in Int /\ bc \in Int /\ wo \in Int /\ bo \in Int
  BY <1>2, CostsAreIntegers
<1>4. bc <= wc /\ bo <= wo
  BY OtherCostIsLower
<1>5. r \in Nat /\ r <= Scale /\ a \in Nat /\ Scale \in Nat
  BY ScaleIsPositive DEF Policies, Moderate
<1>6. Behind(bo, wc, r) > Scale * a
  BY <1>1, <1>2, NoWorseIsBehind
<1>7. NoWorse(o, c, axis, p) <=> Behind(wo, bc, r) <= Scale * a
  BY <1>2, NoWorseIsBehind
<1> HIDE DEF r, a, wc, bc, wo, bo
<1>8. Behind(bo, wc, r) <= Behind(wo, bc, r)
  BY <1>3, <1>4, <1>5, BehindIsMonotone
<1>9. /\ Behind(bo, wc, r) \in Int /\ Behind(wo, bc, r) \in Int /\ Scale * a \in Int
  BY <1>3, <1>5 DEF Behind, Larger, Abs
<1>10. ~NoWorse(o, c, axis, p)
  BY <1>6, <1>7, <1>8, <1>9
<1> QED BY <1>10 DEF Dominates

----------------------------------------------------------------------------
PointPolicy(p) == [p EXCEPT !.mode = "point"]

LEMMA PointPolicyType ==
    ASSUME NEW p \in Policies
    PROVE  /\ PointPolicy(p) \in Policies
           /\ PointPolicy(p).goal = p.goal
           /\ PointPolicy(p).absolute = p.absolute
           /\ PointPolicy(p).relative = p.relative
           /\ PointPolicy(p).axisRange = p.axisRange
           /\ PointPolicy(p).gateRange = p.gateRange
           /\ PointPolicy(p).mode = "point"
BY DEF PointPolicy, Policies, Modes

(***************************************************************************)
(* What dominates at its worst against the other's best dominates at its   *)
(* point: robust mode only ever takes dominance away.                      *)
(***************************************************************************)
THEOREM RobustDominanceIsPointDominance ==
    ASSUME NEW p \in Policies, Moderate(p), p.mode = "robust",
           NEW c, Comparable(c, p), NEW o, Comparable(o, p), Dominates(c, o, p)
    PROVE  Dominates(c, o, PointPolicy(p))
<1> DEFINE q == PointPolicy(p)
<1>0. /\ q \in Policies /\ q.mode = "point" /\ q.goal = p.goal
      /\ q.relative = p.relative /\ q.absolute = p.absolute
  BY PointPolicyType
<1> HIDE DEF q
<1>1. ASSUME NEW axis \in Axes
      PROVE  /\ NoWorse(c, o, axis, p) => NoWorse(c, o, axis, q)
             /\ Better(c, o, axis, p) => Better(c, o, axis, q)
  <2> DEFINE r == p.relative[axis]
             a == p.absolute[axis]
             w == CandidateCost(c, axis, p)
             b == OtherCost(o, axis, p)
             v == CandidateCost(c, axis, q)
             u == OtherCost(o, axis, q)
  <2>1. c.axes[axis] \in Estimates /\ o.axes[axis] \in Estimates
    BY DEF Comparable
  <2>2. w \in Int /\ b \in Int /\ v \in Int /\ u \in Int
    BY <1>0, <2>1, CostsAreIntegers
  <2>3. v <= w /\ b <= u
    BY <1>0 DEF Comparable, Usable, CandidateCost, OtherCost, Cost, WorstCost, BestCost,
                Estimates
  <2>4. r \in Nat /\ r <= Scale /\ a \in Nat /\ Scale \in Nat
    BY ScaleIsPositive DEF Policies, Moderate
  <2>5. /\ NoWorse(c, o, axis, p) <=> Behind(w, b, r) <= Scale * a
        /\ Better(c, o, axis, p) <=> Behind(b, w, r) > Scale * a
    BY <2>1, NoWorseIsBehind
  <2>6. /\ NoWorse(c, o, axis, q) <=> Behind(v, u, r) <= Scale * a
        /\ Better(c, o, axis, q) <=> Behind(u, v, r) > Scale * a
    BY <1>0, <2>1, NoWorseIsBehind
  <2> HIDE DEF r, a, w, b, v, u
  <2>7. Behind(v, u, r) <= Behind(w, b, r) /\ Behind(b, w, r) <= Behind(u, v, r)
    BY <2>2, <2>3, <2>4, BehindIsMonotone
  <2>8. /\ Behind(v, u, r) \in Int /\ Behind(w, b, r) \in Int
        /\ Behind(b, w, r) \in Int /\ Behind(u, v, r) \in Int /\ Scale * a \in Int
    BY <2>2, <2>4 DEF Behind, Larger, Abs
  <2> QED BY <2>5, <2>6, <2>7, <2>8
<1> QED BY <1>1 DEF Dominates, q

(***************************************************************************)
(* For every catalog, robust mode admits no offering that point mode       *)
(* refuses, and of those it admits keeps every member of the point         *)
(* frontier.                                                               *)
(***************************************************************************)
THEOREM RobustFrontierIsConservative ==
    ASSUME NEW p \in Policies, Moderate(p), p.mode = "robust",
           NEW catalog, \A id \in DOMAIN catalog : catalog[id] \in Offerings
    PROVE  /\ Accepted(catalog, p) \subseteq Accepted(catalog, PointPolicy(p))
           /\ Members(catalog, PointPolicy(p)) \cap Accepted(catalog, p)
                 \subseteq Members(catalog, p)
<1> DEFINE q == PointPolicy(p)
<1>0. /\ q \in Policies /\ q.mode = "point"
      /\ q.axisRange = p.axisRange /\ q.gateRange = p.gateRange
  BY PointPolicyType
<1> HIDE DEF q
<1>1. ASSUME NEW id \in Accepted(catalog, p)
      PROVE  /\ Comparable(catalog[id], p)
             /\ Accepts(catalog[id], q)
  <2> DEFINE o == catalog[id]
  <2>1. o \in Offerings /\ Accepts(o, p)
    BY DEF Accepted
  <2> HIDE DEF o
  <2>2. Comparable(o, p)
    BY <2>1 DEF Comparable, Accepts, Offerings, Usable
  <2>3. o.gate \in Estimates /\ o.gate.bounded
    BY <2>1 DEF Accepts, Offerings, Usable
  <2>4. /\ p.gateRange.minimum \in Int /\ p.gateRange.maximum \in Int
    BY DEF Policies, Ranges
  <2>5. GateInRange(o.gate, q.gateRange, q.mode)
    BY <1>0, <2>1, <2>3, <2>4 DEF Accepts, GateInRange, Estimates
  <2>6. Accepts(o, q)
    BY <1>0, <2>1, <2>5 DEF Accepts, Usable
  <2> QED BY <2>2, <2>6 DEF o
<1>2. Accepted(catalog, p) \subseteq Accepted(catalog, q)
  BY <1>1 DEF Accepted
<1>3. ASSUME NEW id \in Accepted(catalog, p)
      PROVE  DominatedBy(catalog, p, id) \subseteq DominatedBy(catalog, q, id)
  BY <1>1, <1>2, RobustDominanceIsPointDominance DEF DominatedBy, q
<1>4. Members(catalog, q) \cap Accepted(catalog, p) \subseteq Members(catalog, p)
  BY <1>3 DEF Members
<1> QED BY <1>2, <1>4 DEF q

----------------------------------------------------------------------------
(***************************************************************************)
(* A finite set has an element of least cost.  The elements are numbered,  *)
(* and the least number up to which there is none leads to a contradiction.*)
(***************************************************************************)
LEMMA FiniteSetHasCheapest ==
    ASSUME NEW S, IsFiniteSet(S), S # {}, NEW f \in [S -> Int]
    PROVE  \E x \in S : \A y \in S : f[x] <= f[y]
<1> DEFINE n == Cardinality(S)
<1>1. n \in Nat /\ ExistsBijection(1 .. n, S)
  BY FS_CardinalityType
<1>2. PICK e \in [1 .. n -> S] : \A y \in S : \E k \in 1 .. n : e[k] = y
  BY <1>1 DEF ExistsBijection, Bijection, Surjection
<1> HIDE DEF n
<1> DEFINE cost == [k \in 1 .. n |-> f[e[k]]]
           Cheapest(i, k) == \A j \in 1 .. k : cost[i] <= cost[j]
           bad == {k \in 1 .. n : ~\E i \in 1 .. k : Cheapest(i, k)}
<1>3. cost \in [1 .. n -> Int]
  BY <1>2
<1>4. \A k \in 1 .. n : cost[k] = f[e[k]]
  OBVIOUS
<1> HIDE DEF cost
<1>5. bad = {}
  <2> SUFFICES ASSUME bad # {} PROVE FALSE
    OBVIOUS
  <2>1. bad \subseteq Nat
    BY <1>1
  <2>2. PICK k \in bad : \A y \in bad : ~(<<y, k>> \in OpToRel(<, Nat))
    BY <2>1, NatLessThanWellFounded, WFMin
  <2>3. \A y \in bad : ~(y < k)
    BY <2>1, <2>2 DEF OpToRel
  <2>4. k \in 1 .. n /\ k \in Nat /\ ~\E i \in 1 .. k : Cheapest(i, k)
    BY <1>1
  <2> HIDE DEF Cheapest
  <2>5. k # 1
    <3> SUFFICES ASSUME k = 1 PROVE FALSE
      OBVIOUS
    <3>1. cost[1] \in Int
      BY <1>3, <2>4
    <3>2. Cheapest(1, 1)
      BY <3>1 DEF Cheapest
    <3> QED BY <2>4, <3>2
  <2>6. k - 1 \in 1 .. n /\ k - 1 < k
    BY <1>1, <2>4, <2>5
  <2>7. k - 1 \notin bad
    BY <2>3, <2>6
  <2>8. PICK i \in 1 .. (k - 1) : Cheapest(i, k - 1)
    BY <2>6, <2>7
  <2>9. i \in 1 .. k /\ k \in 1 .. k
    BY <2>4, <2>8
  <2>10. \A j \in 1 .. k : cost[j] \in Int /\ (j = k \/ j \in 1 .. (k - 1))
    BY <1>1, <1>3, <2>4
  <2>11. cost[i] \in Int /\ cost[k] \in Int
    BY <2>9, <2>10
  <2>12. CASE cost[i] <= cost[k]
    <3>1. Cheapest(i, k)
      BY <2>8, <2>10, <2>12 DEF Cheapest
    <3> QED BY <2>4, <2>9, <3>1
  <2>13. CASE cost[k] < cost[i]
    <3>1. ASSUME NEW j \in 1 .. k PROVE cost[k] <= cost[j]
      <4>1. CASE j = k
        BY <2>11, <4>1
      <4>2. CASE j \in 1 .. (k - 1)
        <5>1. cost[i] <= cost[j]
          BY <2>8, <4>2 DEF Cheapest
        <5> QED BY <2>10, <2>11, <2>13, <5>1
      <4> QED BY <2>10, <4>1, <4>2
    <3>2. Cheapest(k, k)
      BY <3>1 DEF Cheapest
    <3> QED BY <2>4, <2>9, <3>2
  <2> QED BY <2>11, <2>12, <2>13
<1>6. n \in 1 .. n
  BY <1>1, <1>2
<1>7. PICK i \in 1 .. n : Cheapest(i, n)
  BY <1>5, <1>6
<1>8. \A y \in S : f[e[i]] <= f[y]
  BY <1>2, <1>4, <1>7
<1> QED BY <1>2, <1>8

----------------------------------------------------------------------------
(***************************************************************************)
(* The comparison of two costs: u is better than v, beyond both            *)
(* tolerances.  It is strict, and stays true when u falls or v rises.      *)
(***************************************************************************)
Ahead(u, v, r, abs) == Behind(v, u, r) > Scale * abs

LEMMA BehindIsInteger ==
    ASSUME NEW r \in Nat, NEW u \in Int, NEW v \in Int
    PROVE  Behind(u, v, r) \in Int
<1>1. Larger(Abs(u), Abs(v)) \in Nat /\ Scale \in Nat
  BY ScaleIsPositive DEF Larger, Abs
<1> QED BY <1>1 DEF Behind

LEMMA AheadIsMonotone ==
    ASSUME NEW r \in Nat, r <= Scale, NEW abs \in Nat,
           NEW u \in Int, NEW x \in Int, x <= u,
           NEW v \in Int, NEW y \in Int, v <= y, Ahead(u, v, r, abs)
    PROVE  Ahead(x, y, r, abs)
<1>1. Behind(v, u, r) <= Behind(y, x, r)
  BY BehindIsMonotone
<1>2. Behind(v, u, r) \in Int /\ Behind(y, x, r) \in Int
  BY BehindIsInteger
<1>3. Scale * abs \in Int
  BY ScaleIsPositive
<1> QED BY <1>1, <1>2, <1>3 DEF Ahead

LEMMA AheadIsLess ==
    ASSUME NEW r \in Nat, r <= Scale, NEW abs \in Nat,
           NEW u \in Int, NEW v \in Int, Ahead(u, v, r, abs)
    PROVE  u < v
<1> SUFFICES ASSUME v <= u PROVE FALSE
  OBVIOUS
<1>1. Ahead(u, u, r, abs)
  BY AheadIsMonotone
<1> DEFINE m == Larger(Abs(u), Abs(u))
<1>2. m \in Nat /\ Scale \in Nat
  BY ScaleIsPositive DEF Larger, Abs
<1>3. Behind(u, u, r) = Scale * u - Scale * u - r * m
  BY DEF Behind
<1> HIDE DEF m
<1>4. ASSUME NEW k \in Nat, NEW l \in Nat PROVE k * l \in Nat
  BY <1>4
<1>5. r * m \in Nat /\ Scale * abs \in Nat /\ Scale * u \in Int
  BY <1>2, <1>4
<1>6. Behind(u, u, r) > Scale * abs
  BY <1>1 DEF Ahead
<1> QED BY <1>3, <1>5, <1>6

(***************************************************************************)
(* The heart of the argument, on two cost functions f and g: c beats o if  *)
(* it is ahead on one of them and o is ahead on neither.  Of what is beaten*)
(* by nothing that is ahead of it on f, one of least g is beaten by        *)
(* nothing.                                                                *)
(***************************************************************************)
Beats(c, o, f, g, r, s, abs, bbs) ==
    /\ ~Ahead(f[o], f[c], r, abs) /\ ~Ahead(g[o], g[c], s, bbs)
    /\ Ahead(f[c], f[o], r, abs) \/ Ahead(g[c], g[o], s, bbs)

LEMMA UnbeatenExists ==
    ASSUME NEW S, IsFiniteSet(S), S # {}, NEW f \in [S -> Int], NEW g \in [S -> Int],
           NEW r \in Nat, r <= Scale, NEW s \in Nat, s <= Scale,
           NEW abs \in Nat, NEW bbs \in Nat
    PROVE  \E m \in S : \A c \in S : ~Beats(c, m, f, g, r, s, abs, bbs)
<1> DEFINE F(c, o) == Ahead(f[c], f[o], r, abs)
           G(c, o) == Ahead(g[c], g[o], s, bbs)
           U == {m \in S : \A c \in S : F(c, m) => G(m, c)}
<1>0. \A c \in S : f[c] \in Int /\ g[c] \in Int
  OBVIOUS
<1>1. ASSUME NEW c \in S, NEW o \in S
      PROVE  /\ F(c, o) => f[c] < f[o]
             /\ G(c, o) => g[c] < g[o]
  BY <1>0, AheadIsLess
<1>2. ASSUME NEW c \in S, NEW o \in S, NEW d \in S, NEW e \in S,
             f[d] <= f[c], f[o] <= f[e], F(c, o)
      PROVE  F(d, e)
  BY <1>0, <1>2, AheadIsMonotone
<1>3. ASSUME NEW c \in S, NEW o \in S, NEW d \in S, NEW e \in S,
             g[d] <= g[c], g[o] <= g[e], G(c, o)
      PROVE  G(d, e)
  BY <1>0, <1>3, AheadIsMonotone
<1>4. ASSUME NEW T, T \subseteq S, T # {}, NEW h \in [S -> Int]
      PROVE  \E m \in T : \A c \in T : h[m] <= h[c]
  <2>1. IsFiniteSet(T) /\ [c \in T |-> h[c]] \in [T -> Int]
    BY <1>4, FS_Subset
  <2>2. PICK m \in T : \A c \in T : [o \in T |-> h[o]][m] <= [o \in T |-> h[o]][c]
    BY <1>4, <2>1, FiniteSetHasCheapest
  <2> QED BY <2>2
<1> HIDE DEF F, G
<1>5. U \subseteq S /\ U # {}
  <2>1. PICK m \in S : \A c \in S : f[m] <= f[c]
    BY <1>4
  <2>2. \A c \in S : ~F(c, m)
    BY <1>0, <1>1, <2>1
  <2> QED BY <2>2
<1>6. PICK m \in U : \A c \in U : g[m] <= g[c]
  BY <1>4, <1>5
<1>7. ASSUME NEW c \in S, ~F(m, c), ~G(m, c), F(c, m) \/ G(c, m) PROVE FALSE
  <2>1. m \in S /\ ~F(c, m) /\ G(c, m)
    BY <1>5, <1>7
  <2> DEFINE T == {o \in S : ~F(m, o)}
  <2>2. T \subseteq S /\ c \in T
    BY <1>7
  <2>3. PICK e \in T : \A o \in T : g[e] <= g[o]
    BY <1>4, <2>2
  <2>4. e \in S /\ ~F(m, e) /\ g[e] <= g[c]
    BY <2>2, <2>3
  <2>5. g[e] < g[m]
    BY <1>0, <1>1, <2>1, <2>4
  <2>6. e \in U
    <3> SUFFICES ASSUME NEW d \in S, F(d, e), ~G(e, d) PROVE FALSE
      BY <2>4
    <3>1. f[d] < f[m]
      <4> SUFFICES ASSUME f[m] <= f[d] PROVE FALSE
        BY <1>0, <2>1
      <4>1. F(m, e)
        BY <1>0, <1>2, <2>1, <2>4
      <4> QED BY <2>4, <4>1
    <3>2. g[d] < g[m]
      <4> SUFFICES ASSUME g[m] <= g[d] PROVE FALSE
        BY <1>0, <2>1
      <4>1. G(c, d)
        BY <1>0, <1>3, <2>1
      <4>2. G(e, d)
        BY <1>0, <1>3, <2>4, <4>1
      <4> QED BY <4>2
    <3> DEFINE L == {o \in S : g[o] < g[m]}
    <3>3. L \subseteq S /\ d \in L
      BY <3>2
    <3>4. PICK l \in L : \A o \in L : f[l] <= f[o]
      BY <1>4, <3>3
    <3>5. l \in S /\ g[l] < g[m]
      BY <3>4
    <3>6. l \in U
      <4> SUFFICES ASSUME NEW o \in S, F(o, l), ~G(l, o) PROVE FALSE
        BY <3>5
      <4>1. f[o] < f[l]
        BY <1>1, <3>5
      <4>2. o \notin L
        BY <1>0, <3>4, <3>5, <4>1
      <4>3. g[m] <= g[o]
        BY <1>0, <2>1, <4>2
      <4>4. f[l] <= f[d]
        BY <3>3, <3>4
      <4>5. F(o, m)
        BY <1>0, <1>2, <2>1, <3>1, <3>5, <4>4
      <4>6. G(m, o)
        BY <1>6, <4>5
      <4>7. G(l, o)
        BY <1>0, <1>3, <2>1, <3>5, <4>6
      <4> QED BY <4>7
    <3> QED BY <1>0, <1>6, <2>1, <3>5, <3>6
  <2> QED BY <1>0, <1>6, <2>1, <2>4, <2>5, <2>6
<1>8. m \in S
  BY <1>5
<1>9. \A c \in S : ~Beats(c, m, f, g, r, s, abs, bbs)
  BY <1>7 DEF Beats, F, G
<1> QED BY <1>8, <1>9

----------------------------------------------------------------------------
LEMMA AcceptedIsComparable ==
    ASSUME NEW p, NEW catalog, \A id \in DOMAIN catalog : catalog[id] \in Offerings,
           NEW id \in Accepted(catalog, p)
    PROVE  Comparable(catalog[id], p)
BY DEF Accepted, Accepts, Comparable, Offerings, Usable

(***************************************************************************)
(* Dominance by worst against best is dominance by the worst costs of both.*)
(***************************************************************************)
LEMMA DominanceOnWorst ==
    ASSUME NEW p \in Policies, Moderate(p), NEW c, Comparable(c, p),
           NEW o, Comparable(o, p), NEW axis \in Axes
    PROVE  LET x == CandidateCost(c, axis, p)
               y == CandidateCost(o, axis, p)
               r == p.relative[axis]
               abs == p.absolute[axis]
           IN  /\ NoWorse(c, o, axis, p) => ~Ahead(y, x, r, abs)
               /\ Better(c, o, axis, p) => Ahead(x, y, r, abs)
<1> DEFINE x == CandidateCost(c, axis, p)
           y == CandidateCost(o, axis, p)
           z == OtherCost(o, axis, p)
           r == p.relative[axis]
           abs == p.absolute[axis]
<1>1. c.axes[axis] \in Estimates /\ o.axes[axis] \in Estimates
  BY DEF Comparable
<1>2. x \in Int /\ y \in Int /\ z \in Int /\ z <= y
  BY <1>1, CostsAreIntegers, OtherCostIsLower
<1>3. abs \in Nat /\ r \in Nat /\ r <= Scale /\ Scale * abs \in Int
  BY ScaleIsPositive DEF Policies, Moderate
<1>4. /\ NoWorse(c, o, axis, p) <=> Behind(x, z, r) <= Scale * abs
      /\ Better(c, o, axis, p) <=> Behind(z, x, r) > Scale * abs
  BY <1>1, NoWorseIsBehind
<1> HIDE DEF x, y, z, r, abs
<1>5. Behind(x, y, r) <= Behind(x, z, r) /\ Behind(z, x, r) <= Behind(y, x, r)
  BY <1>2, <1>3, BehindIsMonotone
<1>6. /\ Behind(x, y, r) \in Int /\ Behind(x, z, r) \in Int
      /\ Behind(z, x, r) \in Int /\ Behind(y, x, r) \in Int
  BY <1>2, <1>3, BehindIsInteger
<1>7. /\ NoWorse(c, o, axis, p) => ~Ahead(y, x, r, abs)
      /\ Better(c, o, axis, p) => Ahead(x, y, r, abs)
  BY <1>3, <1>4, <1>5, <1>6 DEF Ahead
<1> QED BY <1>7 DEF x, y, r, abs

(***************************************************************************)
(* With relative tolerances up to 1, in point and in robust mode, a        *)
(* catalog of any size in which anything is accepted has a frontier,       *)
(* although tolerances make dominance intransitive.                        *)
(***************************************************************************)
THEOREM FrontierIsNotEmpty ==
    ASSUME NEW x, NEW y, Axes = {x, y}, NEW p \in Policies, Moderate(p),
           NEW catalog, \A id \in DOMAIN catalog : catalog[id] \in Offerings,
           IsFiniteSet(Accepted(catalog, p)), Accepted(catalog, p) # {}
    PROVE  Members(catalog, p) # {}
<1> DEFINE A == Accepted(catalog, p)
           f == [id \in A |-> CandidateCost(catalog[id], x, p)]
           g == [id \in A |-> CandidateCost(catalog[id], y, p)]
           r == p.relative[x]
           s == p.relative[y]
           abs == p.absolute[x]
           bbs == p.absolute[y]
<1>1. \A id \in A : Comparable(catalog[id], p)
  BY AcceptedIsComparable
<1>2. f \in [A -> Int] /\ g \in [A -> Int]
  BY <1>1, CostsAreIntegers DEF Comparable
<1>3. r \in Nat /\ r <= Scale /\ s \in Nat /\ s <= Scale /\ abs \in Nat /\ bbs \in Nat
  BY DEF Policies, Moderate
<1>4. ASSUME NEW c \in A, NEW o \in A, Dominates(catalog[c], catalog[o], p)
      PROVE  Beats(c, o, f, g, r, s, abs, bbs)
  <2>1. Comparable(catalog[c], p) /\ Comparable(catalog[o], p)
    BY <1>1
  <2>2. ~Ahead(f[o], f[c], r, abs) /\ ~Ahead(g[o], g[c], s, bbs)
    BY <1>4, <2>1, DominanceOnWorst DEF Dominates
  <2>3. Ahead(f[c], f[o], r, abs) \/ Ahead(g[c], g[o], s, bbs)
    BY <1>4, <2>1, DominanceOnWorst DEF Dominates
  <2> QED BY <2>2, <2>3 DEF Beats
<1> HIDE DEF f, g, r, s, abs, bbs
<1>5. PICK m \in A : \A c \in A : ~Beats(c, m, f, g, r, s, abs, bbs)
  BY <1>2, <1>3, UnbeatenExists
<1>6. DominatedBy(catalog, p, m) = {}
  BY <1>4, <1>5 DEF DominatedBy
<1> QED BY <1>5, <1>6 DEF Members

----------------------------------------------------------------------------
(***************************************************************************)
(* Without tolerances "no worse" and "better" compare the worst cost of    *)
(* the candidate with the best of the other.                               *)
(***************************************************************************)
LEMMA ExactComparison ==
    ASSUME NEW p \in Policies, Exactly(p), NEW axis \in Axes, NEW c, Comparable(c, p),
           NEW o, Comparable(o, p)
    PROVE  LET x == CandidateCost(c, axis, p)
               y == OtherCost(o, axis, p)
           IN  (NoWorse(c, o, axis, p) <=> x <= y) /\ (Better(c, o, axis, p) <=> x < y)
<1> DEFINE x == CandidateCost(c, axis, p)
           y == OtherCost(o, axis, p)
           m == Larger(Abs(x), Abs(y))
<1>1. x \in Int /\ y \in Int
  BY CostsAreIntegers DEF Comparable
<1>2. Scale \in Nat \ {0} /\ p.absolute[axis] = 0 /\ p.relative[axis] = 0
  BY ScaleIsPositive DEF Exactly
<1>3. m \in Nat
  BY <1>1 DEF Larger, Abs
<1>4. Tolerance(axis, p, x, y) = Scale * 0 + 0 * m
  BY <1>2 DEF Tolerance
<1>5. /\ NoWorse(c, o, axis, p) <=> Scale * x <= Scale * y + Tolerance(axis, p, x, y)
      /\ Better(c, o, axis, p) <=> Scale * x < Scale * y - Tolerance(axis, p, x, y)
  BY DEF NoWorse, Better
<1> HIDE DEF x, y, m
<1>6. Tolerance(axis, p, x, y) = 0
  BY <1>2, <1>3, <1>4
<1>7. ASSUME NEW v \in Int, NEW w \in Int, v < w PROVE Scale * v < Scale * w
  <2>1. Scale * (w - v) > 0
    BY <1>2, <1>7
  <2> QED BY <1>2, <2>1
<1>8. /\ Scale * x <= Scale * y <=> x <= y
      /\ Scale * x < Scale * y <=> x < y
  BY <1>1, <1>2, <1>7
<1>9. (NoWorse(c, o, axis, p) <=> x <= y) /\ (Better(c, o, axis, p) <=> x < y)
  BY <1>1, <1>2, <1>5, <1>6, <1>8
<1> QED BY <1>9 DEF x, y

\* Without tolerances dominance is transitive, in robust mode too.
LEMMA ExactDominanceIsTransitive ==
    ASSUME NEW p \in Policies, Exactly(p), NEW c, Comparable(c, p), NEW o, Comparable(o, p),
           NEW e, Comparable(e, p), Dominates(c, o, p), Dominates(o, e, p)
    PROVE  Dominates(c, e, p)
<1>1. ASSUME NEW axis \in Axes
      PROVE  /\ NoWorse(c, e, axis, p)
             /\ Better(c, o, axis, p) => Better(c, e, axis, p)
  <2>1. /\ CandidateCost(c, axis, p) \in Int /\ OtherCost(o, axis, p) \in Int
        /\ CandidateCost(o, axis, p) \in Int /\ OtherCost(e, axis, p) \in Int
    BY CostsAreIntegers DEF Comparable
  <2>2. OtherCost(o, axis, p) <= CandidateCost(o, axis, p)
    BY OtherCostIsLower
  <2>3. /\ CandidateCost(c, axis, p) <= OtherCost(o, axis, p)
        /\ CandidateCost(o, axis, p) <= OtherCost(e, axis, p)
    BY ExactComparison DEF Dominates
  <2>4. Better(c, o, axis, p) => CandidateCost(c, axis, p) < OtherCost(o, axis, p)
    BY ExactComparison
  <2>5. CandidateCost(c, axis, p) <= OtherCost(e, axis, p)
    BY <2>1, <2>2, <2>3
  <2>6. Better(c, o, axis, p) => CandidateCost(c, axis, p) < OtherCost(e, axis, p)
    BY <2>1, <2>2, <2>3, <2>4
  <2> QED BY <2>5, <2>6, ExactComparison
<1> QED BY <1>1 DEF Dominates

(***************************************************************************)
(* Without tolerances the frontier covers the catalog: whatever is accepted*)
(* and not a member is dominated by a member, so nothing is lost to an     *)
(* offering that is itself not on the frontier.                            *)
(***************************************************************************)
THEOREM ExactFrontierCoversCatalog ==
    ASSUME NEW v, NEW w, Axes = {v, w}, NEW p \in Policies, Exactly(p),
           NEW catalog, \A id \in DOMAIN catalog : catalog[id] \in Offerings,
           IsFiniteSet(Accepted(catalog, p)),
           NEW id \in Accepted(catalog, p), id \notin Members(catalog, p)
    PROVE  \E m \in Members(catalog, p) : Dominates(catalog[m], catalog[id], p)
<1> DEFINE A == Accepted(catalog, p)
           D == {c \in A : Dominates(catalog[c], catalog[id], p)}
           x(c) == CandidateCost(catalog[c], v, p)
           y(c) == CandidateCost(catalog[c], w, p)
           cost == [c \in D |-> x(c) + y(c)]
<1>1. \A c \in A : Comparable(catalog[c], p)
  BY AcceptedIsComparable
<1>2. \A c \in A : x(c) \in Int /\ y(c) \in Int
  BY <1>1, CostsAreIntegers DEF Comparable
<1>3. D # {} /\ IsFiniteSet(D)
  BY FS_Subset DEF Members, DominatedBy
<1>4. cost \in [D -> Int]
  BY <1>2
<1>5. PICK m \in D : \A c \in D : cost[m] <= cost[c]
  <2> HIDE DEF cost, D
  <2> QED BY <1>3, <1>4, FiniteSetHasCheapest
<1>6. ASSUME NEW c \in A, Dominates(catalog[c], catalog[m], p) PROVE FALSE
  <2>1. c \in D
    BY <1>1, <1>6, ExactDominanceIsTransitive
  <2>2. x(m) + y(m) <= x(c) + y(c)
    BY <1>5, <2>1
  <2>3. ASSUME NEW axis \in Axes
        PROVE  LET k == CandidateCost(catalog[c], axis, p)
                   l == CandidateCost(catalog[m], axis, p)
               IN  k <= l /\ (Better(catalog[c], catalog[m], axis, p) => k < l)
    <3>1. Comparable(catalog[c], p) /\ Comparable(catalog[m], p)
      BY <1>1
    <3>2. /\ CandidateCost(catalog[c], axis, p) \in Int
          /\ CandidateCost(catalog[m], axis, p) \in Int
          /\ OtherCost(catalog[m], axis, p) \in Int
      BY <3>1, CostsAreIntegers DEF Comparable
    <3>3. OtherCost(catalog[m], axis, p) <= CandidateCost(catalog[m], axis, p)
      BY <3>1, OtherCostIsLower
    <3>4. /\ CandidateCost(catalog[c], axis, p) <= OtherCost(catalog[m], axis, p)
          /\ Better(catalog[c], catalog[m], axis, p)
                => CandidateCost(catalog[c], axis, p) < OtherCost(catalog[m], axis, p)
      BY <1>6, <3>1, ExactComparison DEF Dominates
    <3> QED BY <3>2, <3>3, <3>4
  <2>4. x(c) <= x(m) /\ y(c) <= y(m) /\ (x(c) < x(m) \/ y(c) < y(m))
    BY <1>6, <2>3 DEF Dominates
  <2> QED BY <1>2, <2>2, <2>4
<1>7. m \in Members(catalog, p)
  BY <1>6 DEF Members, DominatedBy
<1> QED BY <1>7

----------------------------------------------------------------------------
(***************************************************************************)
(* The proximity of an offering (Proximity).  On each axis the comparison  *)
(* with the target flips once as the tolerance grows, and has flipped at   *)
(* the end of the grid: a tolerance of 2 is wider than any two costs are   *)
(* apart.                                                                  *)
(***************************************************************************)
Within(x, y, abs) == {i \in Grid : Behind(x, y, i) <= Scale * abs}

LEMMA WithinIsUpward ==
    ASSUME NEW x \in Int, NEW y \in Int, NEW abs \in Nat
    PROVE  /\ 2 * Scale \in Within(x, y, abs)
           /\ \A i \in Within(x, y, abs) : \A j \in Grid : i <= j => j \in Within(x, y, abs)
<1> DEFINE m == Larger(Abs(x), Abs(y))
<1>1. m \in Nat /\ x - y <= 2 * m /\ Scale \in Nat
  BY ScaleIsPositive DEF Larger, Abs
<1>2. \A i \in Grid : i \in Nat /\ Behind(x, y, i) = Scale * x - Scale * y - i * m
  BY <1>1 DEF Behind, Grid
<1> HIDE DEF m
<1>3. 2 * Scale \in Within(x, y, abs)
  <2>1. 2 * Scale \in Grid
    BY <1>1 DEF Grid
  <2>2. Scale * (2 * m - (x - y)) >= 0 /\ Scale * abs \in Nat
    BY <1>1
  <2>3. Scale * (2 * m - (x - y)) = (2 * Scale) * m - Scale * x + Scale * y
    BY <1>1
  <2>4. (2 * Scale) * m \in Int /\ Scale * x \in Int /\ Scale * y \in Int
    BY <1>1
  <2> HIDE DEF Grid
  <2>5. Behind(x, y, 2 * Scale) <= Scale * abs
    BY <1>2, <2>1, <2>2, <2>3, <2>4
  <2> QED BY <2>1, <2>5 DEF Within
<1>4. ASSUME NEW i \in Within(x, y, abs), NEW j \in Grid, i <= j
      PROVE  j \in Within(x, y, abs)
  <2>1. i \in Nat /\ j \in Nat /\ i \in Grid /\ Behind(x, y, i) <= Scale * abs
    BY <1>2 DEF Within
  <2>2. (j - i) * m >= 0 /\ (j - i) * m = j * m - i * m
    BY <1>1, <1>4, <2>1
  <2>3. /\ i * m \in Int /\ j * m \in Int /\ Scale * x \in Int /\ Scale * y \in Int
        /\ Scale * abs \in Int
    BY <1>1, <2>1
  <2>4. Behind(x, y, j) <= Scale * abs
    BY <1>2, <2>1, <2>2, <2>3
  <2> QED BY <2>4 DEF Within
<1> QED BY <1>3, <1>4

\* The first index of a set that reaches up to the end of the grid.
LEMMA FirstOfUpward ==
    ASSUME NEW S \in SUBSET Grid, S # {}, \A i \in S : \A j \in Grid : i <= j => j \in S
    PROVE  FirstOf(S) \in Grid /\ \A i \in Grid : i \in S <=> FirstOf(S) <= i
<1>1. S \subseteq Nat /\ Grid \subseteq Nat
  BY ScaleIsPositive DEF Grid
<1>2. PICK k \in S : \A i \in S : ~(<<i, k>> \in OpToRel(<, Nat))
  BY <1>1, NatLessThanWellFounded, WFMin
<1>3. \A i \in S : k <= i
  <2>1. \A i \in S : ~(i < k)
    BY <1>1, <1>2 DEF OpToRel
  <2>2. \A i \in S : i \in Nat
    BY <1>1
  <2> QED BY <2>1, <2>2
<1>4. Min(S) \in S /\ \A i \in S : Min(S) <= i
  BY <1>3 DEF Min
<1> QED BY <1>1, <1>4 DEF FirstOf

\* Subsets of the grid are finite, and have a greatest element.
LEMMA MaxOnGrid ==
    ASSUME NEW S \in SUBSET Grid, S # {}
    PROVE  Max(S) \in S /\ \A i \in S : i <= Max(S)
<1>1. IsFiniteSet(S) /\ \A i \in S : i \in Nat
  <2>1. IsFiniteSet(0 .. 2 * Scale)
    BY ScaleIsPositive, FS_Interval
  <2>2. IsFiniteSet(S)
    BY <2>1, FS_Subset DEF Grid
  <2> QED BY <2>2, ScaleIsPositive DEF Grid
<1>2. [i \in S |-> -i] \in [S -> Int]
  BY <1>1
<1>3. PICK k \in S : \A i \in S : [j \in S |-> -j][k] <= [j \in S |-> -j][i]
  BY <1>1, <1>2, FiniteSetHasCheapest
<1>4. \A i \in S : k >= i
  BY <1>1, <1>3
<1>5. Max(S) \in S /\ \A i \in S : Max(S) >= i
  BY <1>4 DEF Max
<1> QED BY <1>1, <1>5

\* What calculate_frontier_proximity is called with.
InputIsEvaluated ==
    /\ policy \in Policies
    /\ target \in DOMAIN evaluated
    /\ \A id \in DOMAIN evaluated :
          evaluated[id] \in Offerings /\ Accepts(evaluated[id], policy)

LEMMA AtIsPolicy ==
    ASSUME policy \in Policies, NEW i \in Nat
    PROVE  /\ At(i) \in Policies
           /\ At(i).relative = [axis \in Axes |-> i]
           /\ At(i).mode = policy.mode /\ At(i).goal = policy.goal
           /\ At(i).absolute = policy.absolute
BY DEF At, Policies

(***************************************************************************)
(* On each axis a candidate is no worse than the target from its entry on, *)
(* and better until its exit; both are on the grid.                        *)
(***************************************************************************)
LEMMA AxisFlipsOnce ==
    ASSUME InputIsEvaluated, NEW c \in DOMAIN evaluated, NEW axis \in Axes
    PROVE  /\ AxisEntry(c, axis) \in Grid /\ AxisExit(c, axis) \in Grid
           /\ \A i \in Grid :
                 /\ NoWorse(evaluated[c], evaluated[target], axis, At(i))
                       <=> AxisEntry(c, axis) <= i
                 /\ Better(evaluated[c], evaluated[target], axis, At(i))
                       <=> ~(AxisExit(c, axis) <= i)
<1> DEFINE x == CandidateCost(evaluated[c], axis, policy)
           y == OtherCost(evaluated[target], axis, policy)
           abs == policy.absolute[axis]
<1>1. /\ evaluated[c].axes[axis] \in Estimates
      /\ evaluated[target].axes[axis] \in Estimates
  BY DEF InputIsEvaluated, Accepts, Offerings, Usable
<1>2. x \in Int /\ y \in Int /\ abs \in Nat
  BY <1>1, CostsAreIntegers DEF InputIsEvaluated, Policies
<1>3. \A i \in Grid : i \in Nat
  BY ScaleIsPositive DEF Grid
<1>4. ASSUME NEW i \in Grid
      PROVE  /\ NoWorse(evaluated[c], evaluated[target], axis, At(i)) <=> i \in Within(x, y, abs)
             /\ ~Better(evaluated[c], evaluated[target], axis, At(i)) <=> i \in Within(y, x, abs)
  <2>1. /\ At(i) \in Policies /\ At(i).relative[axis] = i /\ At(i).absolute[axis] = abs
        /\ At(i).mode = policy.mode /\ At(i).goal = policy.goal
    BY <1>3, AtIsPolicy DEF InputIsEvaluated
  <2>2. /\ CandidateCost(evaluated[c], axis, At(i)) = x
        /\ OtherCost(evaluated[target], axis, At(i)) = y
    BY <2>1 DEF CandidateCost, OtherCost
  <2> HIDE DEF x, y, abs
  <2>3. /\ NoWorse(evaluated[c], evaluated[target], axis, At(i))
              <=> Behind(x, y, i) <= Scale * abs
        /\ Better(evaluated[c], evaluated[target], axis, At(i))
              <=> Behind(y, x, i) > Scale * abs
    BY <1>1, <2>1, <2>2, NoWorseIsBehind
  <2>4. Behind(y, x, i) \in Int /\ Scale * abs \in Int
    <3>1. i \in Nat
      BY <1>3
    <3> QED BY <1>2, <3>1, BehindIsInteger, ScaleIsPositive
  <2> HIDE DEF Grid
  <2> QED BY <2>3, <2>4 DEF Within
<1> HIDE DEF x, y, abs
<1>5. /\ AxisEntry(c, axis) = FirstOf(Within(x, y, abs))
      /\ AxisExit(c, axis) = FirstOf(Within(y, x, abs))
  <2>1. {i \in Grid : NoWorse(evaluated[c], evaluated[target], axis, At(i))} = Within(x, y, abs)
    BY <1>4 DEF Within
  <2>2. {i \in Grid : ~Better(evaluated[c], evaluated[target], axis, At(i))} = Within(y, x, abs)
    BY <1>4 DEF Within
  <2> QED BY <2>1, <2>2 DEF AxisEntry, AxisExit
<1>6. /\ Within(x, y, abs) \in SUBSET Grid /\ Within(x, y, abs) # {}
      /\ Within(y, x, abs) \in SUBSET Grid /\ Within(y, x, abs) # {}
  BY <1>2, WithinIsUpward DEF Within
<1>7. /\ AxisEntry(c, axis) \in Grid
      /\ \A i \in Grid : i \in Within(x, y, abs) <=> AxisEntry(c, axis) <= i
  BY <1>2, <1>5, <1>6, WithinIsUpward, FirstOfUpward
<1>8. /\ AxisExit(c, axis) \in Grid
      /\ \A i \in Grid : i \in Within(y, x, abs) <=> AxisExit(c, axis) <= i
  BY <1>2, <1>5, <1>6, WithinIsUpward, FirstOfUpward
<1> QED BY <1>4, <1>7, <1>8

(***************************************************************************)
(* A candidate dominates the target exactly at the tolerances from where   *)
(* it enters until it exits; the last of its axes to exit says where.      *)
(***************************************************************************)
LEMMA DominanceIsInterval ==
    ASSUME InputIsEvaluated, NEW c \in DOMAIN evaluated
    PROVE  /\ Enters(c) \in Grid /\ Exits(c) \in Grid
           /\ \A axis \in Axes : AxisExit(c, axis) <= Exits(c)
           /\ \E axis \in Axes : AxisExit(c, axis) = Exits(c)
           /\ \A i \in Grid :
                 Dominates(evaluated[c], evaluated[target], At(i))
                    <=> Enters(c) <= i /\ i < Exits(c)
<1>1. \A axis \in Axes : AxisEntry(c, axis) \in Grid /\ AxisExit(c, axis) \in Grid
  BY AxisFlipsOnce
<1>2. Axes # {}
  BY AxesArePair
<1> DEFINE entries == {AxisEntry(c, axis) : axis \in Axes}
           exits == {AxisExit(c, axis) : axis \in Axes}
<1>3. entries \in SUBSET Grid /\ entries # {} /\ exits \in SUBSET Grid /\ exits # {}
  BY <1>1, <1>2
<1>4. /\ Enters(c) \in entries /\ \A e \in entries : e <= Enters(c)
      /\ Exits(c) \in exits /\ \A e \in exits : e <= Exits(c)
  <2> HIDE DEF entries, exits
  <2>1. Max(entries) \in entries /\ \A e \in entries : e <= Max(entries)
    BY <1>3, MaxOnGrid
  <2>2. Max(exits) \in exits /\ \A e \in exits : e <= Max(exits)
    BY <1>3, MaxOnGrid
  <2> QED BY <2>1, <2>2 DEF Enters, Exits, entries, exits
<1>5. Enters(c) \in Grid /\ Exits(c) \in Grid
  BY <1>3, <1>4
<1>6. /\ \A axis \in Axes : AxisEntry(c, axis) <= Enters(c) /\ AxisExit(c, axis) <= Exits(c)
      /\ \E axis \in Axes : AxisEntry(c, axis) = Enters(c)
      /\ \E axis \in Axes : AxisExit(c, axis) = Exits(c)
  BY <1>4
<1>7. \A i \in Grid : i \in Int
  BY ScaleIsPositive DEF Grid
<1>8. ASSUME NEW i \in Grid
      PROVE  Dominates(evaluated[c], evaluated[target], At(i))
                <=> Enters(c) <= i /\ i < Exits(c)
  <2>0. /\ \A axis \in Axes : AxisEntry(c, axis) \in Int /\ AxisExit(c, axis) \in Int
        /\ Enters(c) \in Int /\ Exits(c) \in Int /\ i \in Int
    BY <1>1, <1>5, <1>7
  <2>1. (\A axis \in Axes : AxisEntry(c, axis) <= i) <=> Enters(c) <= i
    BY <2>0, <1>6
  <2>2. (\E axis \in Axes : ~(AxisExit(c, axis) <= i)) <=> i < Exits(c)
    BY <2>0, <1>6
  <2> QED BY <2>1, <2>2, AxisFlipsOnce DEF Dominates
<1> QED BY <1>5, <1>6, <1>8

(***************************************************************************)
(* The inductive invariant: the chain of followed intervals covers what is *)
(* below the cursor and ends at it.                                        *)
(***************************************************************************)
ProximityInv ==
    /\ InputIsEvaluated
    /\ rest \cup blockers = DOMAIN evaluated \ {target}
    /\ cursor \in Grid
    /\ \A c \in blockers : Exits(c) <= cursor
    /\ cursor # 0 => \E c \in blockers : Exits(c) = cursor
    /\ \A i \in 0 .. cursor - 1 : Dominated(i)
    /\ status = "done" => ~Dominated(cursor)
    /\ status # "error"

LEMMA InitIsProximityInv == ProximityInit => ProximityInv
<1> SUFFICES ASSUME ProximityInit PROVE ProximityInv
  OBVIOUS
<1>1. InputIsEvaluated
  BY ProximityInputsAreEvaluated DEF ProximityInit, InputIsEvaluated
<1>2. cursor \in Grid /\ 0 .. cursor - 1 = {}
  BY ScaleIsPositive DEF ProximityInit, Grid
<1> QED BY <1>1, <1>2 DEF ProximityInit, ProximityInv

LEMMA IntervalsStay ==
    ASSUME UNCHANGED <<evaluated, policy, target>>
    PROVE  /\ InputIsEvaluated' = InputIsEvaluated
           /\ \A c : Exits(c)' = Exits(c)
           /\ \A i : Dominated(i)' = Dominated(i)
<1>1. \A i : At(i)' = At(i)
  BY DEF At
<1>2. \A i : Dominated(i)' = Dominated(i)
  BY <1>1 DEF Dominated
<1>3. \A c, axis : AxisExit(c, axis)' = AxisExit(c, axis)
  BY <1>1 DEF AxisExit
<1>4. \A c : Exits(c)' = Exits(c)
  BY <1>3 DEF Exits
<1> QED BY <1>2, <1>4 DEF InputIsEvaluated

LEMMA StopIsRight ==
    ASSUME ProximityInv, Stop
    PROVE  status' = "done" /\ ~Dominated(cursor)
<1>1. \A c \in rest \cup blockers : c \in DOMAIN evaluated
  BY DEF ProximityInv
<1>2. ~Raises
  BY <1>1, DominanceIsInterval DEF Raises, ProximityInv
<1>3. (\A i \in Grid : i \in Nat) /\ 0 \in Grid
  BY ScaleIsPositive DEF Grid
<1>4. ~Dominated(cursor)
  <2> SUFFICES ASSUME NEW c \in rest \cup blockers,
                      Dominates(evaluated[c], evaluated[target], At(cursor))
               PROVE  FALSE
    BY DEF Dominated, ProximityInv
  <2>1. /\ Enters(c) \in Nat /\ Exits(c) \in Nat /\ cursor \in Nat /\ Enters(c) \in Grid
        /\ Enters(c) <= cursor /\ cursor < Exits(c)
    BY <1>1, <1>3, DominanceIsInterval DEF ProximityInv
  <2>2. c \notin blockers
    BY <2>1 DEF ProximityInv
  <2>3. c \in Intervals
    BY <2>1, <2>2 DEF Intervals
  <2> QED BY <1>2, <2>1, <2>3 DEF Stop
<1>5. ASSUME NEW axis \in Axes
      PROVE  /\ AxisSlack(axis) \in Grid /\ AxisSlack(axis) <= cursor
             /\ \A c \in blockers : AxisExit(c, axis) <= AxisSlack(axis)
             /\ 0 <= AxisSlack(axis)
  <2> DEFINE S == {0} \cup {AxisExit(c, axis) : c \in blockers}
  <2>1. S \in SUBSET Grid /\ S # {}
    BY <1>1, <1>3, AxisFlipsOnce DEF ProximityInv
  <2>2. \A e \in S : e <= cursor
    <3>1. \A c \in blockers : AxisExit(c, axis) \in Nat /\ Exits(c) \in Nat
      BY <1>1, <1>3, AxisFlipsOnce, DominanceIsInterval DEF ProximityInv
    <3>2. \A c \in blockers : AxisExit(c, axis) <= Exits(c) /\ Exits(c) <= cursor
      BY <1>1, DominanceIsInterval DEF ProximityInv
    <3> QED BY <1>3, <3>1, <3>2 DEF ProximityInv
  <2>3. AxisSlack(axis) = Max(S)
    BY DEF AxisSlack
  <2>4. \A c \in blockers : AxisExit(c, axis) \in S
    OBVIOUS
  <2>5. 0 \in S
    OBVIOUS
  <2> HIDE DEF S
  <2>6. Max(S) \in S /\ \A e \in S : e <= Max(S)
    BY <2>1, MaxOnGrid
  <2> QED BY <2>1, <2>2, <2>3, <2>4, <2>5, <2>6
<1>6. \E axis \in Axes : AxisSlack(axis) = cursor
  <2>1. CASE cursor = 0
    <3>1. PICK axis \in Axes : TRUE
      BY AxesArePair
    <3>2. AxisSlack(axis) \in Nat /\ AxisSlack(axis) <= 0 /\ 0 <= AxisSlack(axis)
      BY <1>3, <1>5, <2>1
    <3> QED BY <2>1, <3>2
  <2>2. CASE cursor # 0
    <3>1. PICK c \in blockers : Exits(c) = cursor
      BY <2>2 DEF ProximityInv
    <3>2. PICK axis \in Axes : AxisExit(c, axis) = Exits(c)
      BY <1>1, <3>1, DominanceIsInterval DEF ProximityInv
    <3>3. AxisSlack(axis) <= cursor /\ cursor <= AxisSlack(axis)
      BY <1>5, <3>1, <3>2
    <3>4. AxisSlack(axis) \in Nat /\ cursor \in Nat
      BY <1>3, <1>5 DEF ProximityInv
    <3> QED BY <3>3, <3>4
  <2> QED BY <2>1, <2>2
<1>7. Max({AxisSlack(axis) : axis \in Axes}) = cursor
  <2> DEFINE S == {AxisSlack(axis) : axis \in Axes}
  <2>1. S \in SUBSET Grid /\ cursor \in S /\ \A e \in S : e <= cursor
    BY <1>5, <1>6
  <2> HIDE DEF S
  <2>2. Max(S) \in S /\ cursor <= Max(S)
    BY <2>1, MaxOnGrid
  <2>3. Max(S) \in Nat /\ cursor \in Nat /\ Max(S) <= cursor
    BY <1>3, <2>1, <2>2
  <2>4. Max(S) = cursor
    BY <2>2, <2>3
  <2> QED BY <2>4 DEF S
<1> QED BY <1>2, <1>4, <1>7 DEF Stop

LEMMA StepKeepsProximityInv == ProximityInv /\ [ProximityNext]_proximityVars => ProximityInv'
<1> SUFFICES ASSUME ProximityInv, [ProximityNext]_proximityVars PROVE ProximityInv'
  OBVIOUS
<1>1. ASSUME NEW c \in rest, Follow(c) PROVE ProximityInv'
  <2>1. UNCHANGED <<evaluated, policy, target, status>> /\ status = "following"
    BY <1>1 DEF Follow
  <2>2. /\ InputIsEvaluated' = InputIsEvaluated
        /\ \A d : Exits(d)' = Exits(d)
        /\ \A i : Dominated(i)' = Dominated(i)
    BY <2>1, IntervalsStay
  <2>3. c \in DOMAIN evaluated \ {target}
    BY DEF ProximityInv
  <2>4. \A i \in Grid : i \in Nat
    BY ScaleIsPositive DEF Grid
  <2>5. /\ Enters(c) \in Nat /\ Exits(c) \in Nat /\ Exits(c) \in Grid
        /\ cursor \in Nat /\ cursor \in Grid /\ Enters(c) <= cursor
    BY <1>1, <2>3, <2>4, DominanceIsInterval DEF ProximityInv, Follow
  <2>6. /\ cursor' = Larger(cursor, Exits(c))
        /\ blockers' = blockers \cup {c} /\ rest' = rest \ {c}
    BY <1>1 DEF Follow
  <2>7. /\ cursor' \in Grid /\ cursor <= cursor' /\ Exits(c) <= cursor'
        /\ cursor' = cursor \/ cursor' = Exits(c)
    BY <2>5, <2>6 DEF Larger
  <2>8. (\A d \in blockers : Exits(d) <= cursor)'
    <3>1. ASSUME NEW d \in blockers PROVE Exits(d) <= cursor'
      <4>1. d \in DOMAIN evaluated /\ Exits(d) <= cursor
        BY DEF ProximityInv
      <4>2. Exits(d) \in Nat
        BY <2>4, <4>1, DominanceIsInterval DEF ProximityInv
      <4> QED BY <2>4, <2>5, <2>7, <4>1, <4>2
    <3> QED BY <2>2, <2>6, <2>7, <3>1
  <2>9. (cursor # 0 => \E d \in blockers : Exits(d) = cursor)'
    BY <2>2, <2>6, <2>7 DEF ProximityInv
  <2>10. ASSUME NEW i \in 0 .. cursor' - 1 PROVE Dominated(i)
    <3>1. i \in Nat /\ i < cursor' /\ cursor' \in Nat
      <4>1. cursor' \in Nat
        BY <2>4, <2>7
      <4>2. ASSUME NEW n \in Nat, NEW j \in 0 .. n - 1 PROVE j \in Nat /\ j < n
        OBVIOUS
      <4> QED BY <4>1, <4>2
    <3>2. CASE i < cursor
      <4>1. i \in 0 .. cursor - 1
        BY <2>5, <3>1, <3>2
      <4> QED BY <4>1 DEF ProximityInv
    <3>3. CASE ~(i < cursor)
      <4>1. Enters(c) <= i /\ i < Exits(c)
        BY <2>5, <2>7, <3>1, <3>3
      <4>2. i \in Grid
        <5>1. cursor' \in 0 .. 2 * Scale
          BY <2>7 DEF Grid
        <5> QED BY <3>1, <5>1, ScaleIsPositive DEF Grid
      <4>3. Dominates(evaluated[c], evaluated[target], At(i))
        BY <2>3, <4>1, <4>2, DominanceIsInterval DEF ProximityInv
      <4> QED BY <2>3, <4>3 DEF Dominated
    <3> QED BY <3>2, <3>3
  <2>11. (rest \cup blockers = DOMAIN evaluated \ {target})'
    BY <2>1, <2>6 DEF ProximityInv
  <2> QED BY <2>1, <2>2, <2>7, <2>8, <2>9, <2>10, <2>11 DEF ProximityInv
<1>2. CASE Stop
  <2>1. UNCHANGED <<evaluated, policy, target, rest, cursor, blockers>>
    BY <1>2 DEF Stop
  <2>2. /\ InputIsEvaluated' = InputIsEvaluated
        /\ \A d : Exits(d)' = Exits(d)
        /\ \A i : Dominated(i)' = Dominated(i)
    BY <2>1, IntervalsStay
  <2>3. status' = "done" /\ ~Dominated(cursor)
    BY <1>2, StopIsRight
  <2> QED BY <2>1, <2>2, <2>3 DEF ProximityInv
<1>3. CASE UNCHANGED proximityVars
  <2>1. UNCHANGED <<evaluated, policy, target, rest, cursor, blockers, status>>
    BY <1>3 DEF proximityVars
  <2>2. /\ InputIsEvaluated' = InputIsEvaluated
        /\ \A d : Exits(d)' = Exits(d)
        /\ \A i : Dominated(i)' = Dominated(i)
    BY <2>1, IntervalsStay
  <2> QED BY <2>1, <2>2 DEF ProximityInv
<1> QED BY <1>1, <1>2, <1>3 DEF ProximityNext

LEMMA InvIsExact ==
    ASSUME ProximityInv
    PROVE  DistanceIsFirstUndominated /\ NeverRaises /\ MembersAreAtZero
<1>1. cursor \in Nat
  BY ScaleIsPositive DEF ProximityInv, Grid
<1>2. DistanceIsFirstUndominated /\ NeverRaises
  BY DEF ProximityInv, DistanceIsFirstUndominated, NeverRaises
<1>3. ASSUME status = "done", \A axis \in Axes : policy.relative[axis] = 0
      PROVE  (cursor = 0) <=> (target \in Members(evaluated, policy))
  <2>1. At(0) = policy
    BY <1>3 DEF At, Policies, ProximityInv, InputIsEvaluated
  <2>2. Accepted(evaluated, policy) = DOMAIN evaluated /\ target \in DOMAIN evaluated
    BY DEF Accepted, ProximityInv, InputIsEvaluated
  <2>3. target \in Members(evaluated, policy) <=> ~Dominated(0)
    BY <2>1, <2>2 DEF Members, DominatedBy, Dominated
  <2>4. cursor # 0 => 0 \in 0 .. cursor - 1
    BY <1>1
  <2> QED BY <1>3, <2>3, <2>4 DEF ProximityInv
<1>4. MembersAreAtZero
  BY <1>3 DEF MembersAreAtZero
<1> QED BY <1>2, <1>4

----------------------------------------------------------------------------
(***************************************************************************)
(* The search for a transition (GridSearch).                               *)
(***************************************************************************)
\* The inductive invariant: the bracket, and the found once it is there.
SearchInv == SearchTypeOK /\ Bracket /\ ResultIsTransition

LEMMA InitIsSearchInv == SearchInit => SearchInv
BY MaxIsPositive DEF SearchInit, SearchInv, SearchTypeOK, Bracket, ResultIsTransition

\* A bracket of more than one index has an index strictly inside.
LEMMA MiddleIsInside ==
    ASSUME NEW l \in Nat, NEW h \in Nat, h - l > 1
    PROVE  (l + h) \div 2 \in Nat /\ l < (l + h) \div 2 /\ (l + h) \div 2 < h
OBVIOUS

LEMMA StepKeepsSearchInv == SearchInv /\ [SearchNext]_searchVars => SearchInv'
<1> SUFFICES ASSUME SearchInv, [SearchNext]_searchVars PROVE SearchInv'
    OBVIOUS
<1> USE MaxIsPositive, NoResultIsNoIndex
        DEF SearchInv, SearchTypeOK, Bracket, ResultIsTransition, Reached
<1>1. CASE Begin
    <2>1. CASE Reached(0)
        BY <1>1, <2>1 DEF Begin, Return
    <2>2. CASE ~Reached(0) /\ Reached(start)
        BY <1>1, <2>2 DEF Begin, AtLeast0
    <2>3. CASE ~Reached(0) /\ ~Reached(start)
        BY <1>1, <2>3 DEF Begin, AtMostMax
    <2> QED
        BY <2>1, <2>2, <2>3
<1>2. CASE GallopDown
    <2>1. CASE low > 0 /\ Reached(low)
        BY <1>2, <2>1 DEF GallopDown, AtLeast0
    <2>2. CASE ~(low > 0 /\ Reached(low))
        BY <1>2, <2>2 DEF GallopDown
    <2> QED
        BY <2>1, <2>2
<1>3. CASE GallopUp
    <2>1. CASE high < MaxIndex /\ ~Reached(high)
        BY <1>3, <2>1 DEF GallopUp, AtMostMax
    <2>2. CASE ~(high < MaxIndex /\ ~Reached(high)) /\ Reached(high)
        BY <1>3, <2>2 DEF GallopUp
    <2>3. CASE ~(high < MaxIndex /\ ~Reached(high)) /\ ~Reached(high)
        BY <1>3, <2>3 DEF GallopUp, Return
    <2> QED
        BY <2>1, <2>2, <2>3
<1>4. CASE Bisect
    <2>1. CASE high - low > 1
        <3>1. (low + high) \div 2 \in Nat /\ low < (low + high) \div 2 /\ (low + high) \div 2 < high
            BY <2>1, MiddleIsInside
        <3> QED
            BY <1>4, <2>1, <3>1 DEF Bisect
    <2>2. CASE ~(high - low > 1)
        BY <1>4, <2>2 DEF Bisect, Return
    <2> QED
        BY <2>1, <2>2
<1>5. CASE UNCHANGED searchVars
    BY <1>5 DEF searchVars
<1> QED
    BY <1>1, <1>2, <1>3, <1>4, <1>5 DEF SearchNext

----------------------------------------------------------------------------
(***************************************************************************)
(* The scan of a selection.  For every set of providers, no permitted      *)
(* selection has more of the members that were looked at than were chosen  *)
(* of them: said of all sets of providers at once it is inductive, since   *)
(* passing over a member of an exhausted provider compares what is left of *)
(* the set without that provider.                                          *)
(***************************************************************************)
Permitted == {S \in SUBSET DOMAIN members : IsPermitted(S)}
Providers == {Provider(m) : m \in DOMAIN members}
Among(S, P) == {m \in S : Provider(m) \in P}

MembersArePossible ==
    /\ IsFiniteSet(DOMAIN members) /\ DOMAIN members \subseteq Int
    /\ \A m \in DOMAIN members, axis \in {1, 2} : members[m].cost[axis] \in Int
    /\ definition \in Definitions(Nat \ {0}, (Nat \ {0}) \cup {NoLimit})

ChosenInOrder ==
    /\ chosen \in Seq(DOMAIN members \ left)
    /\ \A i, j \in DOMAIN chosen : i < j => Precedes(chosen[i], chosen[j])
    /\ Cardinality(Chosen) = Len(chosen)

IsGreedy ==
    Len(chosen) < definition.count =>
        \A S \in Permitted, P \in SUBSET Providers :
            Cardinality(Among(S \ left, P)) <= Cardinality(Among(Chosen, P))

SelectionInv ==
    /\ MembersArePossible
    /\ left \subseteq DOMAIN members
    /\ \A m \in DOMAIN members \ left, n \in left : Precedes(m, n)
    /\ ChosenInOrder
    /\ Len(chosen) <= definition.count
    /\ definition.limit # NoLimit =>
          \A p \in Providers : Cardinality(OfProvider(Chosen, p)) <= definition.limit
    /\ IsGreedy
    /\ \A S \in Permitted, m \in DOMAIN members \ left :
          Cardinality(UpTo(S, m)) <= Cardinality(UpTo(Chosen, m))
    /\ outcome = "none" \/ ScanIsOver
    /\ outcome = "error" <=> outcome # "none" /\ Len(chosen) < Needed

LEMMA SelectionOrder ==
    ASSUME MembersArePossible
    PROVE  /\ \A m \in DOMAIN members : ~Precedes(m, m)
           /\ \A m, n, k \in DOMAIN members : Precedes(m, n) /\ Precedes(n, k) => Precedes(m, k)
<1> DEFINE c(m) == members[m].cost[definition.order]
           e(m) == members[m].cost[3 - definition.order]
<1>1. \A m \in DOMAIN members : c(m) \in Int /\ e(m) \in Int /\ m \in Int
  <2>1. definition.order \in {1, 2} /\ 3 - definition.order \in {1, 2}
    BY DEF MembersArePossible, Definitions
  <2> QED BY <2>1 DEF MembersArePossible
<1>2. \A m, n : Precedes(m, n) <=> c(m) < c(n) \/ (c(m) = c(n) /\ (e(m) < e(n) \/ (e(m) = e(n) /\ m < n)))
  BY DEF Precedes
<1> HIDE DEF c, e
<1> QED BY <1>1, <1>2

\* What is selected from is finite.
LEMMA PartsAreFinite ==
    ASSUME MembersArePossible, NEW S \in SUBSET DOMAIN members
    PROVE  IsFiniteSet(S) /\ Cardinality(S) \in Nat
BY FS_Subset, FS_CardinalityType DEF MembersArePossible

LEMMA PartsAreMonotone ==
    ASSUME MembersArePossible, NEW S \in SUBSET DOMAIN members, NEW T \in SUBSET S
    PROVE  Cardinality(T) <= Cardinality(S) /\ Cardinality(T) \in Nat /\ Cardinality(S) \in Nat
<1>1. IsFiniteSet(S) /\ Cardinality(S) \in Nat /\ Cardinality(T) \in Nat
  BY PartsAreFinite
<1> QED BY <1>1, FS_Subset

\* A set and what it has of one provider.
LEMMA SplitByProvider ==
    ASSUME MembersArePossible, NEW S \in SUBSET DOMAIN members, NEW P, NEW p \in P
    PROVE  Cardinality(Among(S, P)) = Cardinality(OfProvider(S, p)) + Cardinality(Among(S, P \ {p}))
<1>1. /\ Among(S, P) = OfProvider(S, p) \cup Among(S, P \ {p})
      /\ OfProvider(S, p) \cap Among(S, P \ {p}) = {}
  BY DEF Among, OfProvider
<1>2. OfProvider(S, p) \in SUBSET DOMAIN members /\ Among(S, P \ {p}) \in SUBSET DOMAIN members
  BY DEF Among, OfProvider
<1>3. /\ IsFiniteSet(OfProvider(S, p)) /\ Cardinality(OfProvider(S, p)) \in Nat
      /\ IsFiniteSet(Among(S, P \ {p})) /\ Cardinality(Among(S, P \ {p})) \in Nat
  BY <1>2, PartsAreFinite
<1>4. Cardinality(OfProvider(S, p) \cup Among(S, P \ {p}))
         = Cardinality(OfProvider(S, p)) + Cardinality(Among(S, P \ {p}))
              - Cardinality(OfProvider(S, p) \cap Among(S, P \ {p}))
  BY <1>3, FS_Union
<1>5. Cardinality(OfProvider(S, p) \cap Among(S, P \ {p})) = 0
  BY <1>1, FS_EmptySet
<1>6. \A x, y, z \in Int : z = 0 => x + y - z = x + y
  OBVIOUS
<1> QED BY <1>1, <1>3, <1>4, <1>5, <1>6

\* A permitted set has no more of a provider than it may.
LEMMA PermittedIsLimited ==
    ASSUME MembersArePossible, definition.limit # NoLimit, NEW S \in Permitted, NEW p
    PROVE  Cardinality(OfProvider(S, p)) <= definition.limit
<1>1. S \in SUBSET DOMAIN members /\ IsPermitted(S) /\ definition.limit \in Nat
  BY DEF Permitted, MembersArePossible, Definitions
<1>2. CASE OfProvider(S, p) = {}
  BY <1>1, <1>2, FS_EmptySet
<1>3. CASE OfProvider(S, p) # {}
  BY <1>1, <1>3 DEF IsPermitted, OfProvider
<1> QED BY <1>2, <1>3

LEMMA InitIsSelectionInv == SelectionInit => SelectionInv
<1> SUFFICES ASSUME SelectionInit PROVE SelectionInv
  OBVIOUS
<1>1. MembersArePossible
  BY SelectionsArePossible DEF SelectionInit, MembersArePossible
<1>2. /\ left = DOMAIN members /\ DOMAIN members \ left = {} /\ chosen = << >> /\ outcome = "none"
      /\ Len(chosen) = 0 /\ DOMAIN chosen = {}
  BY DEF SelectionInit
<1>3. Chosen = {} /\ Cardinality(Chosen) = 0
  BY <1>2, FS_EmptySet DEF Chosen
<1>4. definition.count \in Nat \ {0}
  BY <1>1 DEF MembersArePossible, Definitions
<1>5. ChosenInOrder
  BY <1>2, <1>3 DEF ChosenInOrder
<1>6. \A p : Cardinality(OfProvider(Chosen, p)) = 0
  <2>1. \A p : OfProvider(Chosen, p) = {}
    BY <1>3 DEF OfProvider
  <2> QED BY <2>1, FS_EmptySet
<1>7. definition.limit # NoLimit => definition.limit \in Nat
  BY <1>1 DEF MembersArePossible, Definitions
<1>8. IsGreedy
  <2> SUFFICES ASSUME NEW S \in Permitted, NEW P
               PROVE  Cardinality(Among(S \ left, P)) <= Cardinality(Among(Chosen, P))
    BY DEF IsGreedy
  <2>1. Among(S \ left, P) = {} /\ Among(Chosen, P) = {}
    BY <1>2, <1>3 DEF Among, Permitted
  <2> QED BY <2>1, FS_EmptySet
<1> QED BY <1>1, <1>2, <1>4, <1>5, <1>6, <1>7, <1>8 DEF SelectionInv

\* What one step of the scan keeps.
LEMMA SelectionStays ==
    ASSUME UNCHANGED <<members, definition>>
    PROVE  /\ MembersArePossible' = MembersArePossible
           /\ Permitted' = Permitted /\ Providers' = Providers
           /\ \A m : Provider(m)' = Provider(m)
           /\ \A m, n : Precedes(m, n)' = Precedes(m, n)
           /\ \A S, P : Among(S, P)' = Among(S, P)
           /\ \A S, p : OfProvider(S, p)' = OfProvider(S, p)
           /\ \A S, m : UpTo(S, m)' = UpTo(S, m)
BY DEF MembersArePossible, Permitted, Providers, Provider, Precedes, Among, OfProvider, UpTo,
       IsPermitted


(***************************************************************************)
(* A step that looks at m, of which it is known what it chooses and that   *)
(* it stays greedy.                                                        *)
(***************************************************************************)
LEMMA LookingKeepsSelectionInv ==
    ASSUME SelectionInv, NEW m \in left, IsNext(m), outcome = "none", ~ScanIsOver,
           UNCHANGED <<members, definition, outcome>>, left' = left \ {m},
           ChosenInOrder', Chosen \subseteq Chosen', Chosen' \subseteq Chosen \cup {m},
           Len(chosen') <= definition.count,
           definition.limit # NoLimit =>
              \A p \in Providers : Cardinality(OfProvider(Chosen', p)) <= definition.limit,
           \A S \in Permitted, P \in SUBSET Providers :
               Cardinality(Among(S \ left', P)) <= Cardinality(Among(Chosen', P))
    PROVE  SelectionInv'
<1>1. /\ MembersArePossible /\ left \subseteq DOMAIN members /\ m \in DOMAIN members
      /\ \A k \in DOMAIN members \ left, n \in left : Precedes(k, n)
      /\ \A S \in Permitted, k \in DOMAIN members \ left :
            Cardinality(UpTo(S, k)) <= Cardinality(UpTo(Chosen, k))
      /\ outcome # "error"
  BY DEF SelectionInv
<1>2. \A n \in left \ {m} : Precedes(m, n)
  BY DEF IsNext
<1>3. /\ DOMAIN members \ left' = (DOMAIN members \ left) \cup {m}
      /\ left' \subseteq DOMAIN members
  BY <1>1
<1>4. Chosen' \subseteq DOMAIN members \ left'
  BY DEF ChosenInOrder, Chosen
<1>5. \A k \in DOMAIN members \ left', n \in left' : Precedes(k, n)
  BY <1>1, <1>2, <1>3
<1>6. ASSUME NEW S \in Permitted, NEW k \in DOMAIN members \ left'
      PROVE  Cardinality(UpTo(S, k)) <= Cardinality(UpTo(Chosen', k))
  <2>0. S \in SUBSET DOMAIN members /\ Chosen' \in SUBSET DOMAIN members
    BY <1>4 DEF Permitted
  <2>1. CASE k # m
    <3>1. Cardinality(UpTo(S, k)) <= Cardinality(UpTo(Chosen, k))
      BY <1>1, <1>3, <2>1
    <3>2. UpTo(Chosen, k) \subseteq UpTo(Chosen', k)
      BY DEF UpTo
    <3>3. /\ UpTo(S, k) \in SUBSET DOMAIN members
          /\ UpTo(Chosen', k) \in SUBSET DOMAIN members
      BY <2>0 DEF UpTo
    <3>4. /\ Cardinality(UpTo(Chosen, k)) <= Cardinality(UpTo(Chosen', k))
          /\ Cardinality(UpTo(Chosen, k)) \in Nat /\ Cardinality(UpTo(Chosen', k)) \in Nat
      BY <1>1, <3>2, <3>3, PartsAreMonotone
    <3>5. Cardinality(UpTo(S, k)) \in Nat
      BY <1>1, <3>3, PartsAreFinite
    <3> QED BY <3>1, <3>4, <3>5
  <2>2. CASE k = m
    <3>1. UpTo(S, m) \subseteq Among(S \ left', Providers)
      <4> SUFFICES ASSUME NEW n \in UpTo(S, m) PROVE n \in Among(S \ left', Providers)
        OBVIOUS
      <4>1. n \in S /\ n \in DOMAIN members /\ (n = m \/ Precedes(n, m))
        BY <2>0 DEF UpTo
      <4>2. n \notin left'
        BY <1>1, <1>2, <4>1, SelectionOrder
      <4> QED BY <4>1, <4>2 DEF Among, Providers
    <3>2. Among(Chosen', Providers) \subseteq UpTo(Chosen', m)
      BY <1>1, <1>3, <1>4 DEF Among, UpTo
    <3>3. Cardinality(Among(S \ left', Providers)) <= Cardinality(Among(Chosen', Providers))
      OBVIOUS
    <3>4. /\ Among(S \ left', Providers) \in SUBSET DOMAIN members
          /\ UpTo(Chosen', m) \in SUBSET DOMAIN members
      BY <2>0 DEF Among, UpTo
    <3>5. /\ Cardinality(UpTo(S, m)) <= Cardinality(Among(S \ left', Providers))
          /\ Cardinality(UpTo(S, m)) \in Nat
          /\ Cardinality(Among(S \ left', Providers)) \in Nat
      BY <1>1, <3>1, <3>4, PartsAreMonotone
    <3>6. /\ Cardinality(Among(Chosen', Providers)) <= Cardinality(UpTo(Chosen', m))
          /\ Cardinality(Among(Chosen', Providers)) \in Nat
          /\ Cardinality(UpTo(Chosen', m)) \in Nat
      BY <1>1, <3>2, <3>4, PartsAreMonotone
    <3> QED BY <2>2, <3>3, <3>5, <3>6
  <2> QED BY <2>1, <2>2
<1>7. /\ MembersArePossible' /\ left' \subseteq DOMAIN members'
      /\ \A k \in DOMAIN members' \ left', n \in left' : Precedes(k, n)'
  BY <1>1, <1>3, <1>5, SelectionStays
<1>8. /\ \A p : OfProvider(Chosen, p)' = OfProvider(Chosen', p)
      /\ \A S, P : Among(S \ left, P)' = Among(S \ left', P) /\ Among(Chosen, P)' = Among(Chosen', P)
      /\ \A S, k : UpTo(S, k)' = UpTo(S, k) /\ UpTo(Chosen, k)' = UpTo(Chosen', k)
  BY DEF OfProvider, Among, UpTo, Provider, Precedes
<1>9. /\ definition'.limit # NoLimit =>
            \A p \in Providers' : Cardinality(OfProvider(Chosen, p)') <= definition'.limit
      /\ Len(chosen') <= definition'.count
  BY <1>8, SelectionStays
<1>10. IsGreedy' /\ \A S \in Permitted', k \in DOMAIN members' \ left' :
          Cardinality(UpTo(S, k)') <= Cardinality(UpTo(Chosen, k)')
  BY <1>6, <1>8, SelectionStays DEF IsGreedy
<1>11. outcome' = "none" /\ outcome' # "error"
  OBVIOUS
<1> QED BY <1>7, <1>9, <1>10, <1>11 DEF SelectionInv


LEMMA ScanStays ==
    ASSUME UNCHANGED <<members, definition, left, chosen>>
    PROVE  /\ ScanIsOver' = ScanIsOver /\ Needed' = Needed /\ IsGreedy' = IsGreedy
           /\ ChosenInOrder' = ChosenInOrder /\ Chosen' = Chosen
           /\ \A p : OfProvider(Chosen, p)' = OfProvider(Chosen, p)
           /\ \A S, k : UpTo(S, k)' = UpTo(S, k) /\ UpTo(Chosen, k)' = UpTo(Chosen, k)
<1>1. Chosen' = Chosen /\ ScanIsOver' = ScanIsOver /\ Needed' = Needed
  BY DEF Chosen, ScanIsOver, Needed
<1>2. /\ \A p : OfProvider(Chosen, p)' = OfProvider(Chosen, p)
      /\ \A S, P : Among(S \ left, P)' = Among(S \ left, P) /\ Among(Chosen, P)' = Among(Chosen, P)
      /\ \A S, k : UpTo(S, k)' = UpTo(S, k) /\ UpTo(Chosen, k)' = UpTo(Chosen, k)
  BY <1>1 DEF OfProvider, Among, UpTo, Provider, Precedes
<1>3. IsGreedy' = IsGreedy
  BY <1>2, SelectionStays DEF IsGreedy
<1>4. ChosenInOrder' = ChosenInOrder
  BY <1>1 DEF ChosenInOrder, Precedes
<1> QED BY <1>1, <1>2, <1>3, <1>4

LEMMA StepKeepsSelectionInv == SelectionInv /\ [SelectionNext]_selectionVars => SelectionInv'
<1> SUFFICES ASSUME SelectionInv, [SelectionNext]_selectionVars PROVE SelectionInv'
  OBVIOUS
<1>0. /\ MembersArePossible /\ left \subseteq DOMAIN members /\ ChosenInOrder
      /\ Len(chosen) \in Nat /\ Len(chosen) <= definition.count /\ definition.count \in Nat \ {0}
      /\ definition.limit # NoLimit => definition.limit \in Nat
      /\ Chosen \in SUBSET (DOMAIN members \ left)
  BY DEF SelectionInv, ChosenInOrder, Chosen, MembersArePossible, Definitions
<1>1. ASSUME NEW m \in left, Continue(m) PROVE SelectionInv'
  <2>1. /\ IsNext(m) /\ IsExhausted(Provider(m)) /\ outcome = "none" /\ ~ScanIsOver
        /\ left' = left \ {m} /\ UNCHANGED <<members, definition, chosen, outcome>>
    BY <1>1 DEF Continue
  <2>2. Chosen' = Chosen
    BY <2>1 DEF Chosen
  <2>3. ChosenInOrder'
    <3>1. chosen' \in Seq(DOMAIN members' \ left')
      BY <1>0, <2>1 DEF ChosenInOrder
    <3>2. \A i, j \in DOMAIN chosen' : i < j => Precedes(chosen[i], chosen[j])'
      BY <1>0, <2>1 DEF ChosenInOrder, Precedes
    <3> QED BY <1>0, <2>1, <2>2, <3>1, <3>2 DEF ChosenInOrder
  <2>4. ASSUME NEW S \in Permitted, NEW P \in SUBSET Providers
        PROVE  Cardinality(Among(S \ left', P)) <= Cardinality(Among(Chosen, P))
    <3> DEFINE p == Provider(m)
    <3>1. /\ S \in SUBSET DOMAIN members /\ S \ left' \in SUBSET DOMAIN members
          /\ Chosen \in SUBSET DOMAIN members
      BY <1>0 DEF Permitted
    <3>2. \A Q \in SUBSET Providers :
             Cardinality(Among(S \ left, Q)) <= Cardinality(Among(Chosen, Q))
      BY <1>0, <2>1 DEF SelectionInv, IsGreedy, ScanIsOver
    <3>3. CASE p \notin P
      <4>1. Among(S \ left', P) = Among(S \ left, P)
        BY <2>1, <3>1, <3>3 DEF Among
      <4> QED BY <3>2, <4>1
    <3>4. CASE p \in P
      <4>1. Among(S \ left', P \ {p}) = Among(S \ left, P \ {p})
        BY <2>1, <3>1 DEF Among
      <4>2. Cardinality(Among(S \ left', P \ {p})) <= Cardinality(Among(Chosen, P \ {p}))
        BY <3>2, <4>1
      <4>3. Cardinality(OfProvider(S \ left', p)) <= Cardinality(OfProvider(Chosen, p))
        <5>1. definition.limit # NoLimit /\ Cardinality(OfProvider(Chosen, p)) >= definition.limit
          BY <2>1 DEF IsExhausted
        <5>2. Cardinality(OfProvider(S, p)) <= definition.limit
          BY <1>0, <5>1, PermittedIsLimited
        <5>3. OfProvider(S, p) \in SUBSET DOMAIN members
              /\ OfProvider(S \ left', p) \in SUBSET OfProvider(S, p)
              /\ OfProvider(Chosen, p) \in SUBSET DOMAIN members
          BY <3>1 DEF OfProvider
        <5>4. /\ Cardinality(OfProvider(S \ left', p)) <= Cardinality(OfProvider(S, p))
              /\ Cardinality(OfProvider(S \ left', p)) \in Nat
              /\ Cardinality(OfProvider(S, p)) \in Nat
          BY <1>0, <5>3, PartsAreMonotone
        <5>5. Cardinality(OfProvider(Chosen, p)) \in Nat
          BY <1>0, <5>3, PartsAreFinite
        <5> HIDE DEF p
        <5> QED BY <1>0, <5>1, <5>2, <5>4, <5>5
      <4>4. /\ Cardinality(Among(S \ left', P))
                  = Cardinality(OfProvider(S \ left', p)) + Cardinality(Among(S \ left', P \ {p}))
            /\ Cardinality(Among(Chosen, P))
                  = Cardinality(OfProvider(Chosen, p)) + Cardinality(Among(Chosen, P \ {p}))
        BY <1>0, <3>1, <3>4, SplitByProvider
      <4>5. /\ OfProvider(S \ left', p) \in SUBSET DOMAIN members
            /\ OfProvider(Chosen, p) \in SUBSET DOMAIN members
            /\ Among(S \ left', P \ {p}) \in SUBSET DOMAIN members
            /\ Among(Chosen, P \ {p}) \in SUBSET DOMAIN members
        BY <3>1 DEF OfProvider, Among
      <4>6. /\ Cardinality(OfProvider(S \ left', p)) \in Nat
            /\ Cardinality(OfProvider(Chosen, p)) \in Nat
            /\ Cardinality(Among(S \ left', P \ {p})) \in Nat
            /\ Cardinality(Among(Chosen, P \ {p})) \in Nat
        BY <1>0, <4>5, PartsAreFinite
      <4> HIDE DEF p
      <4> QED BY <4>2, <4>3, <4>4, <4>6
    <3> QED BY <3>3, <3>4
  <2>5. definition.limit # NoLimit =>
           \A p \in Providers : Cardinality(OfProvider(Chosen', p)) <= definition.limit
    BY <2>2 DEF SelectionInv
  <2> QED BY <1>0, <2>1, <2>2, <2>3, <2>4, <2>5, LookingKeepsSelectionInv
<1>2. ASSUME NEW m \in left, Take(m) PROVE SelectionInv'
  <2>1. /\ IsNext(m) /\ ~IsExhausted(Provider(m)) /\ outcome = "none" /\ ~ScanIsOver
        /\ left' = left \ {m} /\ chosen' = Append(chosen, m)
        /\ UNCHANGED <<members, definition, outcome>>
    BY <1>2 DEF Take
  <2>2. /\ chosen \in Seq(DOMAIN members \ left) /\ m \in DOMAIN members
        /\ chosen' \in Seq(DOMAIN members' \ left')
        /\ Len(chosen') = Len(chosen) + 1 /\ chosen'[Len(chosen) + 1] = m
        /\ \A i \in 1 .. Len(chosen) : chosen'[i] = chosen[i]
    <3>1. chosen \in Seq(DOMAIN members \ left)
      BY <1>0 DEF ChosenInOrder
    <3>2. chosen \in Seq(DOMAIN members' \ left') /\ m \in DOMAIN members' \ left'
      <4>1. (DOMAIN members \ left) \subseteq (DOMAIN members' \ left')
        BY <1>0, <2>1
      <4>2. chosen \in Seq(DOMAIN members' \ left')
        BY <3>1, <4>1
      <4> QED BY <1>0, <2>1, <4>2
    <3> QED BY <1>0, <2>1, <3>1, <3>2
  <2>3. Chosen' = Chosen \cup {m} /\ m \notin Chosen
    <3>1. DOMAIN chosen = 1 .. Len(chosen) /\ DOMAIN chosen' = 1 .. Len(chosen) + 1
      BY <2>2
    <3> QED BY <1>0, <2>2, <3>1 DEF Chosen
  <2>4. IsFiniteSet(Chosen) /\ Cardinality(Chosen') = Cardinality(Chosen) + 1
    <3>1. IsFiniteSet(Chosen)
      BY <1>0, PartsAreFinite
    <3> QED BY <2>3, <3>1, FS_AddElement
  <2>5. ChosenInOrder'
    <3>1. ASSUME NEW i \in DOMAIN chosen', NEW j \in DOMAIN chosen', i < j
          PROVE  Precedes(chosen'[i], chosen'[j])
      <4>1. i \in 1 .. Len(chosen) /\ DOMAIN chosen = 1 .. Len(chosen)
            /\ chosen'[i] = chosen[i] /\ chosen[i] \in DOMAIN members \ left
        BY <2>2, <3>1
      <4>2. CASE j \in 1 .. Len(chosen)
        BY <1>0, <2>2, <3>1, <4>1, <4>2 DEF ChosenInOrder
      <4>3. CASE j = Len(chosen) + 1
        BY <2>2, <4>1, <4>3 DEF SelectionInv
      <4> QED BY <2>2, <4>2, <4>3
    <3>2. \A i, j \in DOMAIN chosen' : i < j => Precedes(chosen[i], chosen[j])'
      BY <2>1, <3>1 DEF Precedes
    <3> QED BY <1>0, <2>2, <2>4, <3>2 DEF ChosenInOrder
  <2>6. Len(chosen') <= definition.count
    BY <1>0, <2>1, <2>2 DEF ScanIsOver
  <2>7. ASSUME definition.limit # NoLimit, NEW p \in Providers
        PROVE  Cardinality(OfProvider(Chosen', p)) <= definition.limit
    <3>1. OfProvider(Chosen, p) \in SUBSET DOMAIN members
      BY <1>0 DEF OfProvider
    <3>2. IsFiniteSet(OfProvider(Chosen, p)) /\ Cardinality(OfProvider(Chosen, p)) \in Nat
          /\ Cardinality(OfProvider(Chosen, p)) <= definition.limit
      BY <1>0, <2>7, <3>1, PartsAreFinite DEF SelectionInv
    <3>3. CASE Provider(m) = p
      <4>1. OfProvider(Chosen', p) = OfProvider(Chosen, p) \cup {m}
        BY <2>3, <3>3 DEF OfProvider
      <4>2. Cardinality(OfProvider(Chosen', p)) <= Cardinality(OfProvider(Chosen, p)) + 1
        BY <3>2, <4>1, FS_AddElement
      <4>3. Cardinality(OfProvider(Chosen, p)) < definition.limit
        BY <1>0, <2>1, <2>7, <3>2, <3>3 DEF IsExhausted
      <4>4. IsFiniteSet(OfProvider(Chosen', p)) /\ Cardinality(OfProvider(Chosen', p)) \in Nat
        BY <3>2, <4>1, FS_AddElement, FS_CardinalityType
      <4> QED BY <1>0, <2>7, <3>2, <4>2, <4>3, <4>4
    <3>4. CASE Provider(m) # p
      <4>1. OfProvider(Chosen', p) = OfProvider(Chosen, p)
        BY <2>3, <3>4 DEF OfProvider
      <4> QED BY <3>2, <4>1
    <3> QED BY <3>3, <3>4
  <2>8. ASSUME NEW S \in Permitted, NEW P \in SUBSET Providers
        PROVE  Cardinality(Among(S \ left', P)) <= Cardinality(Among(Chosen', P))
    <3>1. S \in SUBSET DOMAIN members
      BY DEF Permitted
    <3>2. Cardinality(Among(S \ left, P)) <= Cardinality(Among(Chosen, P))
      BY <1>0, <2>1 DEF SelectionInv, IsGreedy, ScanIsOver
    <3>3. Among(S \ left, P) \in SUBSET DOMAIN members /\ Among(Chosen, P) \in SUBSET DOMAIN members
          /\ Among(S \ left', P) \in SUBSET DOMAIN members
      BY <1>0, <3>1 DEF Among
    <3>4. /\ IsFiniteSet(Among(S \ left, P)) /\ Cardinality(Among(S \ left, P)) \in Nat
          /\ IsFiniteSet(Among(Chosen, P)) /\ Cardinality(Among(Chosen, P)) \in Nat
          /\ Cardinality(Among(S \ left', P)) \in Nat
      BY <1>0, <3>3, PartsAreFinite
    <3>5. CASE Provider(m) \notin P
      <4>1. Among(S \ left', P) = Among(S \ left, P) /\ Among(Chosen', P) = Among(Chosen, P)
        BY <2>1, <2>3, <3>5 DEF Among
      <4> QED BY <3>2, <4>1
    <3>6. CASE Provider(m) \in P
      <4>1. /\ Among(Chosen', P) = Among(Chosen, P) \cup {m} /\ m \notin Among(Chosen, P)
            /\ Among(S \ left', P) \in SUBSET (Among(S \ left, P) \cup {m})
        BY <2>1, <2>3, <3>6 DEF Among
      <4>2. Cardinality(Among(Chosen', P)) = Cardinality(Among(Chosen, P)) + 1
        BY <3>4, <4>1, FS_AddElement
      <4>3. /\ IsFiniteSet(Among(S \ left, P) \cup {m})
            /\ Cardinality(Among(S \ left, P) \cup {m}) <= Cardinality(Among(S \ left, P)) + 1
        <5> DEFINE A == Among(S \ left, P)
        <5>1. IsFiniteSet(A) /\ Cardinality(A) \in Nat
          BY <3>4
        <5> HIDE DEF A
        <5>2. /\ IsFiniteSet(A \cup {m})
              /\ Cardinality(A \cup {m}) = IF m \in A THEN Cardinality(A) ELSE Cardinality(A) + 1
          BY <5>1, FS_AddElement
        <5>3. Cardinality(A \cup {m}) <= Cardinality(A) + 1
          BY <5>1, <5>2
        <5> QED BY <5>2, <5>3 DEF A
      <4>4. /\ Cardinality(Among(S \ left', P)) <= Cardinality(Among(S \ left, P) \cup {m})
            /\ Cardinality(Among(S \ left, P) \cup {m}) \in Nat
        BY <4>1, <4>3, FS_Subset, FS_CardinalityType
      <4> QED BY <3>2, <3>4, <4>2, <4>3, <4>4
    <3> QED BY <3>5, <3>6
  <2>9. Chosen \subseteq Chosen' /\ Chosen' \subseteq Chosen \cup {m}
    BY <2>3
  <2> QED BY <2>1, <2>5, <2>6, <2>7, <2>8, <2>9, LookingKeepsSelectionInv
<1>3. ASSUME Conclude PROVE SelectionInv'
  <2>1. /\ outcome = "none" /\ ScanIsOver
        /\ outcome' \in {"selected", "error"}
        /\ outcome' = "error" <=> chosen = << >> \/ (definition.strict /\ Len(chosen) < definition.count)
        /\ UNCHANGED <<members, definition, left, chosen>>
    BY <1>3 DEF Conclude
  <2>2. outcome' = "error" <=> Len(chosen) < Needed
    <3>1. chosen = << >> <=> Len(chosen) = 0
      BY <1>0 DEF ChosenInOrder
    <3>2. definition.strict \in BOOLEAN
      BY <1>0 DEF MembersArePossible, Definitions
    <3> QED BY <1>0, <2>1, <3>1, <3>2 DEF Needed
  <2> QED BY <2>1, <2>2, SelectionStays, ScanStays DEF SelectionInv
<1>4. CASE UNCHANGED selectionVars
  BY <1>4, SelectionStays, ScanStays DEF selectionVars, SelectionInv
<1> QED BY <1>1, <1>2, <1>3, <1>4 DEF SelectionNext

(***************************************************************************)
(* What the scan has chosen when it is over.                               *)
(***************************************************************************)
LEMMA GreedyIsBest ==
    ASSUME SelectionInv, ScanIsOver
    PROVE  /\ IsPermitted(Chosen)
           /\ \A S \in Permitted : NoWorseThan(S) /\ Cardinality(S) <= Len(chosen)
<1>1. /\ MembersArePossible /\ left \subseteq DOMAIN members
      /\ Chosen \in SUBSET (DOMAIN members \ left)
      /\ Cardinality(Chosen) = Len(chosen) /\ Len(chosen) \in Nat
      /\ Len(chosen) <= definition.count /\ definition.count \in Nat
  BY DEF SelectionInv, ChosenInOrder, Chosen, MembersArePossible, Definitions
<1>2. IsPermitted(Chosen)
  BY <1>1 DEF IsPermitted, SelectionInv, Providers
<1>3. ASSUME NEW S \in Permitted PROVE Cardinality(S) <= Len(chosen)
  <2>1. S \in SUBSET DOMAIN members /\ Cardinality(S) <= definition.count
    BY DEF Permitted, IsPermitted
  <2>2. Cardinality(S) \in Nat
    BY <1>1, <2>1, PartsAreFinite
  <2>3. CASE Len(chosen) = definition.count
    BY <2>1, <2>3
  <2>4. CASE Len(chosen) < definition.count
    <3>1. left = {}
      BY <1>1, <2>4 DEF ScanIsOver
    <3>2. Among(S \ left, Providers) = S /\ Among(Chosen, Providers) = Chosen
      BY <1>1, <2>1, <3>1 DEF Among, Providers
    <3>3. Cardinality(Among(S \ left, Providers)) <= Cardinality(Among(Chosen, Providers))
      BY <2>4 DEF SelectionInv, IsGreedy
    <3> QED BY <1>1, <3>2, <3>3
  <2> QED BY <1>1, <2>3, <2>4
<1>4. ASSUME NEW S \in Permitted, NEW m \in DOMAIN members
      PROVE  Cardinality(UpTo(S, m)) <= Cardinality(UpTo(Chosen, m))
  <2>1. CASE m \notin left
    BY <2>1 DEF SelectionInv
  <2>2. CASE m \in left
    <3>1. Len(chosen) = definition.count
      BY <2>2 DEF ScanIsOver
    <3>2. UpTo(Chosen, m) = Chosen
      BY <1>1, <2>2 DEF UpTo, SelectionInv
    <3>3. S \in SUBSET DOMAIN members /\ UpTo(S, m) \in SUBSET S
      BY DEF Permitted, UpTo
    <3>4. /\ Cardinality(UpTo(S, m)) <= Cardinality(S)
          /\ Cardinality(UpTo(S, m)) \in Nat /\ Cardinality(S) \in Nat
      BY <1>1, <3>3, PartsAreMonotone
    <3> QED BY <1>1, <1>3, <3>2, <3>4
  <2> QED BY <2>1, <2>2
<1> QED BY <1>2, <1>3, <1>4 DEF NoWorseThan

LEMMA SelectionInvIsBest == SelectionInv => SelectionIsBest
<1> SUFFICES ASSUME SelectionInv, SelectionDone PROVE SelectionIsBest
  BY DEF SelectionIsBest
<1>1. /\ ScanIsOver
      /\ outcome = "error" <=> Len(chosen) < Needed
  BY DEF SelectionInv, SelectionDone
<1>2. /\ IsPermitted(Chosen) /\ Chosen \in SUBSET DOMAIN members
      /\ \A S \in Permitted : NoWorseThan(S) /\ Cardinality(S) <= Len(chosen)
  BY <1>1, GreedyIsBest DEF IsPermitted
<1>3. Cardinality(Chosen) = Len(chosen) /\ Len(chosen) \in Nat /\ Needed \in Nat
      /\ \A S \in SUBSET DOMAIN members : IsPermitted(S) => Cardinality(S) \in Nat
  BY PartsAreFinite DEF SelectionInv, ChosenInOrder, MembersArePossible, Definitions, Needed
<1>4. \A i, j \in DOMAIN chosen : i < j => Precedes(chosen[i], chosen[j])
  BY DEF SelectionInv, ChosenInOrder
<1>5. \A S \in SUBSET DOMAIN members : IsPermitted(S) => S \in Permitted
  BY DEF Permitted
<1>6. outcome = "error" <=>
         \A S \in SUBSET DOMAIN members : IsPermitted(S) => Cardinality(S) < Needed
  BY <1>1, <1>2, <1>3, <1>5
<1> QED BY <1>2, <1>4, <1>5, <1>6 DEF SelectionIsBest

----------------------------------------------------------------------------
(***************************************************************************)
(* The behaviours of MCEvaluation: what is calculated is of the input, and *)
(* what is not of the behaviour's kind does not move.                      *)
(***************************************************************************)
EvaluationInv ==
    /\ kind = FrontierInput =>
          /\ input \in [catalog : Catalogs, policy : FrontierPolicies]
          /\ result \in {NoResult, Members(input.catalog, input.policy)}
    /\ kind = SelectionInput => SelectionInv
    /\ kind = ProximityInput => ProximityInv
    /\ IF kind = SearchInput THEN SearchInv ELSE pc = "idle"
    /\ kind # SelectionInput => outcome = "none"

LEMMA InitIsEvaluationInv == Init => EvaluationInv
BY KindsDiffer, InitIsSelectionInv, InitIsProximityInv, InitIsSearchInv
   DEF Init, EvaluationInit, EvaluationIdle, SelectionIdle, SearchIdle, EvaluationInv

LEMMA StepKeepsEvaluationInv == EvaluationInv /\ [Next]_vars => EvaluationInv'
<1> SUFFICES ASSUME EvaluationInv, [Next]_vars PROVE EvaluationInv'
  OBVIOUS
<1>1. CASE CalculateFrontier
  BY <1>1, KindsDiffer DEF CalculateFrontier, EvaluationInv, selectionVars, searchVars
<1>2. CASE SelectModels
  <2>1. SelectionInv'
    BY <1>2, StepKeepsSelectionInv DEF SelectModels, EvaluationInv
  <2>2. kind = SelectionInput /\ kind' = kind /\ UNCHANGED <<evaluationVars, proximityVars, searchVars>>
    BY <1>2 DEF SelectModels
  <2> QED BY <2>1, <2>2, KindsDiffer DEF EvaluationInv, searchVars
<1>3. CASE CalculateProximity
  <2>1. ProximityInv'
    BY <1>3, StepKeepsProximityInv DEF CalculateProximity, EvaluationInv
  <2>2. kind = ProximityInput /\ kind' = kind /\ UNCHANGED <<evaluationVars, selectionVars, searchVars>>
    BY <1>3 DEF CalculateProximity
  <2> QED BY <2>1, <2>2, KindsDiffer DEF EvaluationInv, selectionVars, searchVars
<1>4. CASE Search
  <2>1. SearchInv'
    BY <1>4, StepKeepsSearchInv DEF Search, EvaluationInv
  <2>2. kind = SearchInput /\ kind' = kind /\ UNCHANGED <<evaluationVars, selectionVars, proximityVars>>
    BY <1>4 DEF Search
  <2> QED BY <2>1, <2>2, KindsDiffer DEF EvaluationInv, selectionVars
<1>5. CASE UNCHANGED vars
  <2>1. UNCHANGED <<kind, input, result>> /\ UNCHANGED proximityVars /\ UNCHANGED searchVars
        /\ UNCHANGED selectionVars
    BY <1>5 DEF vars, evaluationVars
  <2>2. kind = ProximityInput => ProximityInv'
    BY <2>1, StepKeepsProximityInv DEF EvaluationInv
  <2>3. kind = SearchInput => SearchInv'
    BY <2>1, StepKeepsSearchInv DEF EvaluationInv
  <2>4. kind = SelectionInput => SelectionInv'
    BY <2>1, StepKeepsSelectionInv DEF EvaluationInv
  <2> QED BY <2>1, <2>2, <2>3, <2>4 DEF EvaluationInv, selectionVars, searchVars
<1> QED BY <1>1, <1>2, <1>3, <1>4, <1>5 DEF Next

LEMMA EvaluationInvHolds == Spec => []EvaluationInv
BY InitIsEvaluationInv, StepKeepsEvaluationInv, PTL DEF Spec

\* What a calculated frontier is of.
LEMMA FrontierIsOfInput ==
    ASSUME EvaluationInv, FrontierDone
    PROVE  /\ input.policy \in Policies
           /\ IsFiniteSet(Accepted(input.catalog, input.policy))
           /\ \A id \in DOMAIN input.catalog : input.catalog[id] \in Offerings
           /\ result = Members(input.catalog, input.policy)
<1>1. /\ input.catalog \in Catalogs /\ input.policy \in FrontierPolicies
      /\ result = Members(input.catalog, input.policy)
  BY DEF EvaluationInv, FrontierDone
<1>2. Accepted(input.catalog, input.policy) \subseteq DOMAIN input.catalog
  BY DEF Accepted
<1> QED BY <1>1, <1>2, CatalogsArePossible, PoliciesArePossible, FS_Subset

(***************************************************************************)
(* Every catalog in which anything is accepted has a frontier to select    *)
(* from, whatever the tolerances up to a relative one of 1.                *)
(***************************************************************************)
THEOREM FrontierIsNeverEmptyHolds == Spec => []FrontierIsNeverEmpty
<1>1. EvaluationInv => FrontierIsNeverEmpty
  BY AxesArePair, FrontierIsOfInput, FrontierIsNotEmpty DEF FrontierIsNeverEmpty
<1> QED BY <1>1, EvaluationInvHolds, PTL

(***************************************************************************)
(* Without tolerances a calculated frontier covers its catalog.            *)
(***************************************************************************)
THEOREM ExactFrontierCoversHolds == Spec => []ExactFrontierCovers
<1>1. ASSUME EvaluationInv, FrontierDone, Exactly(input.policy),
             NEW id \in Accepted(input.catalog, input.policy)
      PROVE  id \notin result <=>
                \E m \in result :
                    Dominates(input.catalog[m], input.catalog[id], input.policy)
  <2> DEFINE catalog == input.catalog
             p == input.policy
  <2>1. /\ p \in Policies /\ IsFiniteSet(Accepted(catalog, p))
        /\ \A o \in DOMAIN catalog : catalog[o] \in Offerings
        /\ result = Members(catalog, p)
    BY <1>1, FrontierIsOfInput
  <2> HIDE DEF catalog, p
  <2>2. PICK v, w \in Axes : Axes = {v, w}
    BY AxesArePair
  <2>3. ASSUME id \notin result
        PROVE  \E m \in result : Dominates(catalog[m], catalog[id], p)
    BY <1>1, <2>1, <2>2, <2>3, ExactFrontierCoversCatalog DEF catalog, p
  <2>4. ASSUME NEW m \in result, Dominates(catalog[m], catalog[id], p), id \in result
        PROVE  FALSE
    <3>1. Comparable(catalog[id], p) /\ m \in Accepted(catalog, p)
      BY <1>1, <2>1, AcceptedIsComparable DEF Members, catalog, p
    <3>2. CASE m = id
      <4>1. PICK axis \in Axes : Better(catalog[id], catalog[id], axis, p)
        BY <2>4, <3>2 DEF Dominates
      <4>2. /\ CandidateCost(catalog[id], axis, p) \in Int
            /\ OtherCost(catalog[id], axis, p) \in Int
        BY <2>1, <3>1, CostsAreIntegers DEF Comparable
      <4>3. OtherCost(catalog[id], axis, p) <= CandidateCost(catalog[id], axis, p)
        BY <2>1, <3>1, OtherCostIsLower
      <4>4. CandidateCost(catalog[id], axis, p) < OtherCost(catalog[id], axis, p)
        BY <1>1, <2>1, <3>1, <4>1, ExactComparison DEF p
      <4> QED BY <4>2, <4>3, <4>4
    <3>3. CASE m # id
      BY <2>1, <2>4, <3>1, <3>3 DEF Members, DominatedBy
    <3> QED BY <3>2, <3>3
  <2> QED BY <2>3, <2>4 DEF catalog, p
<1>2. EvaluationInv => ExactFrontierCovers
  BY <1>1 DEF ExactFrontierCovers
<1> QED BY <1>2, EvaluationInvHolds, PTL

(***************************************************************************)
(* Robust comparisons only ever weigh the evidence more cautiously.        *)
(***************************************************************************)
THEOREM RobustIsConservativeHolds == Spec => []RobustIsConservative
<1>1. EvaluationInv => RobustIsConservative
  BY FrontierIsOfInput, RobustFrontierIsConservative DEF RobustIsConservative, PointPolicy
<1> QED BY <1>1, EvaluationInvHolds, PTL

(***************************************************************************)
(* Whatever the number of members, providers and choices: the scan chooses *)
(* as many as are permitted, none of them worse than in any other choice,  *)
(* and raises only where no permitted choice would do.                     *)
(***************************************************************************)
THEOREM SelectionIsBestHolds == Spec => []SelectionIsBest
<1>1. EvaluationInv => SelectionIsBest
  BY SelectionInvIsBest DEF EvaluationInv, SelectionIsBest, SelectionDone
<1> QED BY <1>1, EvaluationInvHolds, PTL

(***************************************************************************)
(* The distance of an offering from the frontier is the smallest tolerance *)
(* of the grid at which nothing dominates it, for any number of candidates *)
(* and any scale of the grid; the errors treated as impossible are.        *)
(***************************************************************************)
THEOREM ProximityIsExactHolds == Spec => []ProximityIsExact
<1>1. EvaluationInv => ProximityIsExact
  BY InvIsExact DEF EvaluationInv, ProximityIsExact
<1> QED BY <1>1, EvaluationInvHolds, PTL

(***************************************************************************)
(* The search keeps its types: every index tried is on the grid.           *)
(***************************************************************************)
THEOREM SearchTypeCorrect == Spec => [](kind = SearchInput => SearchTypeOK)
<1>1. EvaluationInv => (kind = SearchInput => SearchTypeOK)
  BY DEF EvaluationInv, SearchInv
<1> QED BY <1>1, EvaluationInvHolds, PTL

(***************************************************************************)
(* What _first_grid_transition returns is the first index at which the     *)
(* comparison has flipped, whatever the guess it starts from.              *)
(***************************************************************************)
THEOREM SearchIsCorrect == Spec => []ResultIsTransition
<1>1. EvaluationInv => ResultIsTransition
  BY DEF EvaluationInv, SearchInv, ResultIsTransition
<1> QED BY <1>1, EvaluationInvHolds, PTL
=============================================================================
