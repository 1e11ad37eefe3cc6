-------------------------- MODULE PropagationProofs --------------------------
(***************************************************************************)
(* Proofs about Propagation, for every graph, every pair of runs and every *)
(* horizon.                                                                *)
(***************************************************************************)
EXTENDS Propagation, FiniteSetTheorems, SequenceTheorems, WellFoundedInduction, TLAPS

(* Facts about numbers *)

\* Every nonempty set of naturals has a least element: what the inductions over steps,
\* distances and cardinalities below rest on.
LEMMA Least ==
    ASSUME NEW S, S \subseteq Nat, S # {}
    PROVE  \E m \in S : \A n \in S : m <= n
<1>1. PICK m \in S : \A n \in S : ~ (<<n, m>> \in OpToRel(<, Nat))
  BY NatLessThanWellFounded, WFMin
<1>2. \A n \in S : ~ (n < m)
  BY <1>1 DEF OpToRel
<1>3. QED
  BY <1>2

\* Max is the greatest element of a set of integers bounded from above.
LEMMA Greatest ==
    ASSUME NEW S, NEW b \in Int, S \subseteq Int, S # {}, \A n \in S : n <= b
    PROVE  Max(S) \in S /\ \A n \in S : n <= Max(S)
<1> DEFINE T == {b - n : n \in S}
<1>1. T \subseteq Nat
  <2>1. \A n \in S : b - n \in Nat
    OBVIOUS
  <2>2. QED
    BY <2>1, Zenon
<1>2. T # {}
  OBVIOUS
<1>3. PICK t \in T : \A n \in T : t <= n
  BY <1>1, <1>2, Least
<1>4. PICK m \in S : t = b - m
  OBVIOUS
<1>5. \A n \in S : n <= m
  BY <1>3, <1>4
<1>6. QED
  BY <1>5 DEF Max

\* Min is the least element of a set of naturals.
LEMMA MinIsLeast ==
    ASSUME NEW S, S \subseteq Nat, S # {}
    PROVE  Min(S) \in S /\ \A n \in S : Min(S) <= n
BY Least DEF Min

\* Rounding down keeps the order.
LEMMA DivMonotone ==
    ASSUME NEW x \in Nat, NEW y \in Nat, x <= y, NEW u \in Nat \ {0}
    PROVE  x \div u \in Nat /\ x \div u <= y \div u
BY Z3

\* So do products.
LEMMA ProductMonotone ==
    ASSUME NEW a \in Nat, NEW b \in Nat, NEW c \in Nat, NEW d \in Nat, a <= c, b <= d
    PROVE  a * b \in Nat /\ a * b <= c * d
BY Z3

\* A part of a number is at most the number.
LEMMA DivBound ==
    ASSUME NEW a \in Nat, NEW b \in Nat, NEW u \in Nat \ {0}, b <= u
    PROVE  (a * b) \div u \in Nat /\ (a * b) \div u <= a
BY Z3
-------------------------------------------------------------------------------
(* Facts about fractions *)

\* A product of fractions is a fraction, at most each of them.
LEMMA TimesType ==
    ASSUME NEW a \in Fractions, NEW b \in Fractions
    PROVE  Times(a, b) \in Fractions /\ Times(a, b) <= a
<1>1. Unit \in Nat \ {0} /\ a \in Nat /\ b \in Nat /\ b <= Unit /\ a <= Unit
  BY GraphAssumption DEF Fractions
<1>2. (a * b) \div Unit \in Nat /\ (a * b) \div Unit <= a
  BY <1>1, DivBound
<1>3. QED
  BY <1>1, <1>2 DEF Times, Fractions

\* It keeps the order of its factors.
LEMMA TimesMonotone ==
    ASSUME NEW a \in Fractions, NEW b \in Fractions, NEW c \in Fractions, NEW d \in Fractions,
           a <= c, b <= d
    PROVE  Times(a, b) <= Times(c, d)
<1>1. Unit \in Nat \ {0} /\ a \in Nat /\ b \in Nat /\ c \in Nat /\ d \in Nat
  BY GraphAssumption DEF Fractions
<1>2. a * b \in Nat /\ c * d \in Nat /\ a * b <= c * d
  BY <1>1, ProductMonotone
<1>3. QED
  BY <1>1, <1>2, DivMonotone DEF Times

\* The largest of some fractions is a fraction, bounds all of them, and is one of them
\* unless it is zero.
LEMMA MostType ==
    ASSUME NEW S, S \subseteq Fractions
    PROVE  /\ Most(S) \in Fractions /\ \A x \in S : x <= Most(S)
           /\ Most(S) > 0 => Most(S) \in S
<1> DEFINE T == S \cup {0}
<1>1. Unit \in Nat /\ T \subseteq Fractions /\ T # {}
  BY GraphAssumption DEF Fractions
<1>2. T \subseteq Int /\ \A n \in T : n <= Unit
  BY <1>1 DEF Fractions
<1>3. Max(T) \in T /\ \A n \in T : n <= Max(T)
  BY <1>1, <1>2, Greatest
<1>4. Most(S) = Max(T)
  BY DEF Most
<1>5. Most(S) \in Fractions /\ \A x \in S : x <= Most(S)
  BY <1>1, <1>3, <1>4
<1>6. Most(S) \in S \/ Most(S) = 0
  BY <1>3, <1>4
<1>7. QED
  BY <1>5, <1>6

\* Larger fractions have a larger maximum.
LEMMA MostMonotone ==
    ASSUME NEW S, S \subseteq Fractions, NEW T, T \subseteq Fractions,
           \A x \in S : \E y \in T : x <= y
    PROVE  Most(S) <= Most(T)
<1>1. Most(S) \in Fractions /\ Most(T) \in Fractions
  BY MostType
<1>2. CASE Most(S) > 0
  <2>1. PICK y \in T : Most(S) <= y
    BY <1>2, MostType
  <2>2. y <= Most(T) /\ y \in Fractions
    BY MostType
  <2>3. QED
    BY <1>1, <2>1, <2>2 DEF Fractions
<1>3. QED
  BY <1>1, <1>2 DEF Fractions
-------------------------------------------------------------------------------
(* Facts about a step *)

\* What a component does to its node at a minute is a fraction; it does something only
\* between its start and the end of the recovery.
LEMMA DirectType ==
    ASSUME NEW c \in Components, NEW t \in Nat
    PROVE  /\ DirectOf(c, t) \in Fractions
           /\ DirectOf(c, t) > 0 => c.start <= t /\ t < c.end + Recovery[c.target]
<1> DEFINE left == c.end + Recovery[c.target] - t
<1>1. /\ c.target \in Nodes /\ c.severity \in Nat /\ c.severity <= Unit /\ Unit \in Nat
      /\ c.start \in Nat /\ c.end \in Nat /\ Recovery[c.target] \in Nat
  BY PropagationAssumption, GraphAssumption DEF Fractions
<1>2. CASE t < c.start
  BY <1>1, <1>2 DEF DirectOf, Fractions
<1>3. CASE c.start <= t /\ t < c.end
  BY <1>1, <1>3 DEF DirectOf, Fractions
<1>4. CASE c.start <= t /\ c.end <= t /\ left > 0
  <2>1. left \in Nat /\ left <= Recovery[c.target] /\ Recovery[c.target] \in Nat \ {0}
    BY <1>1, <1>4
  <2>2. DirectOf(c, t) = (c.severity * left) \div Recovery[c.target]
    BY <1>1, <1>4 DEF DirectOf
  <2>3. DirectOf(c, t) \in Nat /\ DirectOf(c, t) <= c.severity
    BY <1>1, <2>1, <2>2, DivBound
  <2>4. QED
    BY <1>1, <1>4, <2>3 DEF Fractions
<1>5. CASE c.start <= t /\ c.end <= t /\ left <= 0
  BY <1>1, <1>5 DEF DirectOf, Fractions
<1>6. QED
  BY <1>1, <1>2, <1>3, <1>4, <1>5

\* A component that is as bad does as much.
LEMMA DirectMonotone ==
    ASSUME NEW c \in Components, NEW d \in Components, AsBad(d, c), NEW t \in Nat
    PROVE  DirectOf(c, t) <= DirectOf(d, t)
<1> DEFINE R == Recovery[c.target]
           left(x) == x.end + R - t
<1>1. /\ c.severity \in Nat /\ d.severity \in Nat /\ c.severity <= d.severity
      /\ c.start \in Nat /\ d.start \in Nat /\ d.start <= c.start
      /\ c.end \in Nat /\ d.end \in Nat /\ c.end <= d.end
      /\ d.target = c.target /\ R \in Nat
  BY PropagationAssumption DEF Fractions, AsBad
<1>2. DirectOf(c, t) \in Nat /\ DirectOf(d, t) \in Nat
  BY DirectType DEF Fractions
<1>3. CASE t < c.start
  BY <1>1, <1>2, <1>3 DEF DirectOf
<1>4. CASE c.start <= t /\ t < c.end
  BY <1>1, <1>4 DEF DirectOf
<1>5. CASE c.start <= t /\ c.end <= t /\ left(c) > 0
  <2>1. left(c) \in Nat /\ left(c) <= R /\ R \in Nat \ {0}
    BY <1>1, <1>5
  <2>2. DirectOf(c, t) = (c.severity * left(c)) \div R
    BY <1>1, <1>5 DEF DirectOf
  <2>3. CASE t < d.end
    <3>1. DirectOf(d, t) = d.severity
      BY <1>1, <1>5, <2>3 DEF DirectOf
    <3>2. DirectOf(c, t) <= c.severity
      BY <1>1, <2>1, <2>2, DivBound
    <3>3. QED
      BY <1>1, <1>2, <3>1, <3>2
  <2>4. CASE d.end <= t
    <3>1. left(d) \in Nat /\ left(c) <= left(d) /\ left(d) > 0
      BY <1>1, <1>5
    <3>2. DirectOf(d, t) = (d.severity * left(d)) \div R
      BY <1>1, <1>5, <2>4, <3>1 DEF DirectOf
    <3>3. /\ c.severity * left(c) \in Nat /\ d.severity * left(d) \in Nat
          /\ c.severity * left(c) <= d.severity * left(d)
      BY <1>1, <2>1, <3>1, ProductMonotone
    <3>4. QED
      BY <2>1, <2>2, <3>2, <3>3, DivMonotone
  <2>5. QED
    BY <1>1, <2>3, <2>4
<1>6. CASE c.start <= t /\ c.end <= t /\ left(c) <= 0
  BY <1>1, <1>2, <1>6 DEF DirectOf
<1>7. QED
  BY <1>1, <1>3, <1>4, <1>5, <1>6

\* The runs of a state: their inputs, their graph, and as many columns as steps are done.
LEMMA RunFacts ==
    ASSUME TypeOK, NEW r \in Runs
    PROVE  /\ input[r] \in RunInputs /\ Visible(r) \subseteq Edges
           /\ Len(history["base"]) \in Nat /\ Len(history[r]) = Len(history["base"])
           /\ history[r] \in Seq([Nodes -> Fractions])
           /\ \A i \in 1 .. Len(history["base"]) : history[r][i] \in [Nodes -> Fractions]
<1>1. input \in [Runs -> RunInputs] /\ net \subseteq Edges
  BY PropagationAssumption DEF TypeOK
<1>2. history[r] \in Seq([Nodes -> Fractions]) /\ history["base"] \in Seq([Nodes -> Fractions])
  BY DEF TypeOK, Runs
<1>3. Len(history[r]) = Len(history["base"]) /\ Len(history["base"]) \in Nat
  BY <1>2 DEF TypeOK, Runs
<1>4. QED
  BY <1>1, <1>2, <1>3 DEF Visible

\* Edges and minutes.
LEMMA EdgeFacts ==
    ASSUME NEW e \in Edges
    PROVE  /\ e.id \in Nat /\ e.from \in Nodes /\ e.to \in Nodes /\ e.weight \in Fractions
           /\ e.lag \in Nat /\ e.subs \subseteq Nodes
BY PropagationAssumption DEF EdgeOf

\* Minutes are naturals.
LEMMA MinuteType ==
    ASSUME NEW k \in Nat \ {0}
    PROVE  Minute(k) \in Nat
<1>1. Step \in Nat /\ k - 1 \in Nat
  BY PropagationAssumption
<1>2. QED
  BY <1>1, ProductMonotone DEF Minute

\* What an edge reads is a fraction; it is positive only if the source was damaged at the
\* step it reads.
LEMMA DelayedType ==
    ASSUME TypeOK, NEW r \in Runs, NEW e \in Edges,
           NEW k \in 1 .. Len(history["base"]) + 1
    PROVE  /\ Delayed(r, e, k) \in Fractions
           /\ Delayed(r, e, k) > 0 =>
                \E i \in 1 .. k - 1 : Delayed(r, e, k) = history[r][i][e.to]
<1> DEFINE source == (Minute(k) - e.lag) \div Step + 1
           last   == k - 1
<1>1. Len(history["base"]) \in Nat /\ \A i \in 1 .. Len(history["base"]) :
                                         history[r][i] \in [Nodes -> Fractions]
  BY RunFacts
<1>2. e.lag \in Nat /\ e.to \in Nodes /\ Step \in Nat \ {0} /\ 0 \in Fractions
  BY EdgeFacts, PropagationAssumption, GraphAssumption DEF Fractions
<1>3. Minute(k) \in Nat /\ k \in Nat /\ k >= 1
  BY <1>1, MinuteType
<1>4. source \in Int
  BY <1>2, <1>3
<1>5. \A i \in 1 .. k - 1 : history[r][i][e.to] \in Fractions
  BY <1>1, <1>2, <1>3
<1>6. CASE source < 1
  BY <1>2, <1>4, <1>6 DEF Delayed
<1>7. CASE source \in 1 .. k - 1
  <2>1. Delayed(r, e, k) = history[r][source][e.to]
    BY <1>3, <1>4, <1>7 DEF Delayed
  <2>2. QED
    BY <1>5, <1>7, <2>1
<1>8. CASE source >= 1 /\ source >= k
  <2>1. Delayed(r, e, k) = IF k = 1 THEN 0 ELSE history[r][last][e.to]
    BY <1>3, <1>4, <1>8 DEF Delayed
  <2>2. CASE k = 1
    BY <1>2, <2>1, <2>2
  <2>3. CASE k # 1
    <3>1. last \in 1 .. k - 1
      BY <1>3, <2>3
    <3>2. QED
      BY <1>5, <2>1, <2>3, <3>1
  <2>4. QED
    BY <2>2, <2>3
<1>9. QED
  BY <1>3, <1>4, <1>6, <1>7, <1>8

\* How much of every node is available is a fraction.
LEMMA AvailableType ==
    ASSUME TypeOK, NEW r \in Runs, NEW k \in 1 .. Len(history["base"]) + 1
    PROVE  Available(r, k) \in [Nodes -> Fractions]
<1> DEFINE last == k - 1
<1>1. Len(history["base"]) \in Nat /\ \A i \in 1 .. Len(history["base"]) :
                                         history[r][i] \in [Nodes -> Fractions]
  BY RunFacts
<1>2. Unit \in Nat
  BY GraphAssumption
<1>3. CASE k = 1
  BY <1>2, <1>3 DEF Available, Fractions
<1>4. CASE k # 1
  <2>1. last \in 1 .. Len(history["base"])
    BY <1>1, <1>4
  <2>2. \A n \in Nodes : history[r][last][n] \in Fractions
    BY <1>1, <2>1
  <2>3. \A n \in Nodes : Unit - history[r][last][n] \in Fractions
    BY <1>2, <2>2 DEF Fractions
  <2>4. QED
    BY <1>4, <2>3 DEF Available
<1>5. QED
  BY <1>3, <1>4

\* So is what substitutes stand in for.
LEMMA RedundancyType ==
    ASSUME NEW e \in Edges, NEW spare \in [Nodes -> Fractions],
           NEW available \in [Nodes -> Fractions]
    PROVE  /\ {Times(spare[s], available[s]) : s \in e.subs} \subseteq Fractions
           /\ Redundancy(e, spare, available) \in Fractions
           /\ Unit - Redundancy(e, spare, available) \in Fractions
<1>1. \A s \in e.subs : Times(spare[s], available[s]) \in Fractions
  BY EdgeFacts, TimesType
<1>2. {Times(spare[s], available[s]) : s \in e.subs} \subseteq Fractions
  BY <1>1
<1>3. Redundancy(e, spare, available) \in Fractions
  BY <1>2, MostType DEF Redundancy
<1>4. QED
  BY <1>2, <1>3, GraphAssumption DEF Fractions

\* What an edge passes on is a fraction, at most what it reads.
LEMMA ImpactType ==
    ASSUME TypeOK, NEW r \in Runs, NEW e \in Edges,
           NEW k \in 1 .. Len(history["base"]) + 1
    PROVE  Impact(r, e, k) \in Fractions /\ Impact(r, e, k) <= Delayed(r, e, k)
<1> DEFINE passed == Times(e.weight, Delayed(r, e, k))
           rest   == Unit - Redundancy(e, input[r].spare, Available(r, k))
<1>1. Delayed(r, e, k) \in Fractions /\ e.weight \in Fractions
  BY DelayedType, EdgeFacts
<1>2. input[r].spare \in [Nodes -> Fractions]
  BY RunFacts DEF RunInputs
<1>3. rest \in Fractions
  BY <1>2, AvailableType, RedundancyType
<1>4. passed \in Fractions /\ passed <= Delayed(r, e, k)
  <2>1. passed = Times(Delayed(r, e, k), e.weight)
    BY <1>1 DEF Times, Fractions
  <2>2. QED
    BY <1>1, <2>1, TimesType
<1>5. Times(passed, rest) \in Fractions /\ Times(passed, rest) <= passed
  BY <1>3, <1>4, TimesType
<1>6. Impact(r, e, k) = Times(passed, rest)
  BY DEF Impact
<1> HIDE DEF passed, rest
<1>7. QED
  BY <1>1, <1>4, <1>5, <1>6 DEF Fractions

\* What hits a node directly, over its edges and in all are fractions; what is left after
\* actions is at most that.
LEMMA DegradationType ==
    ASSUME TypeOK, NEW r \in Runs, NEW n \in Nodes,
           NEW k \in 1 .. Len(history["base"]) + 1
    PROVE  /\ {DirectOf(c, Minute(k)) : c \in {d \in input[r].components : d.target = n}}
                \subseteq Fractions
           /\ {Impact(r, e, k) : e \in Dependencies(Visible(r), n)} \subseteq Fractions
           /\ Direct(r, n, k) \in Fractions /\ Propagated(r, n, k) \in Fractions
           /\ Raw(r, n, k) \in Fractions
           /\ Direct(r, n, k) <= Raw(r, n, k) /\ Propagated(r, n, k) <= Raw(r, n, k)
           /\ Raw(r, n, k) = Direct(r, n, k) \/ Raw(r, n, k) = Propagated(r, n, k)
           /\ Remaining[Effective(r, k)][n] \in Fractions
           /\ Degradation(r, n, k) \in Fractions /\ Degradation(r, n, k) <= Raw(r, n, k)
<1> DEFINE hits  == {DirectOf(c, Minute(k)) : c \in {d \in input[r].components : d.target = n}}
           edges == {Impact(r, e, k) : e \in Dependencies(Visible(r), n)}
           both  == {Direct(r, n, k), Propagated(r, n, k)}
<1>1. k \in Nat \ {0} /\ Minute(k) \in Nat
  BY RunFacts, MinuteType
<1>2. input[r] \in RunInputs /\ Visible(r) \subseteq Edges
  BY RunFacts
<1>3. hits \subseteq Fractions
  <2>1. \A c \in input[r].components : DirectOf(c, Minute(k)) \in Fractions
    BY <1>1, <1>2, DirectType DEF RunInputs
  <2>2. QED
    BY <2>1
<1>4. edges \subseteq Fractions
  BY <1>2, ImpactType DEF Dependencies
<1>5. Direct(r, n, k) \in Fractions /\ Propagated(r, n, k) \in Fractions
  BY <1>3, <1>4, MostType DEF Direct, Propagated
<1>6. Most(both) \in Fractions /\ \A x \in both : x <= Most(both)
  BY <1>5, MostType
<1>7. Most(both) \in both
  BY <1>5, <1>6, MostType DEF Fractions
<1>8. Effective(r, k) \in SUBSET Actions
  BY <1>2 DEF Effective, RunInputs
<1>9. Remaining[Effective(r, k)][n] \in Fractions
  <2>1. Remaining \in [SUBSET Actions -> [Nodes -> Fractions]]
    BY PropagationAssumption
  <2>2. QED
    BY <1>8, <2>1
<1>10. Raw(r, n, k) = Most(both)
  BY DEF Raw
<1>11. Degradation(r, n, k) \in Fractions /\ Degradation(r, n, k) <= Raw(r, n, k)
  BY <1>6, <1>9, <1>10, TimesType DEF Degradation
<1>12. QED
  BY <1>3, <1>4, <1>5, <1>6, <1>7, <1>9, <1>10, <1>11
-------------------------------------------------------------------------------
(* Types and the report *)

\* A report says what the run did, at the horizon.
Reported ==
    \/ report = [r \in Runs |-> NoReport]
    \/ /\ Len(history["base"]) = Steps
       /\ \A r \in Runs :
             /\ report[r].events = ImpactEvents(r)
             /\ report[r].pathways \in Strongest(Pathways(r))
             /\ report[r].metrics = [c \in Capabilities |-> Metrics(r, c)]

\* What an advance does to one run.
LEMMA AdvanceFacts ==
    ASSUME TypeOK, Advance, NEW r \in Runs
    PROVE  LET k == Len(history["base"]) + 1 IN
           /\ k \in 1 .. Len(history["base"]) + 1 /\ k \in Nat /\ k <= Steps
           /\ Len(history["base"]') = k /\ Len(history'[r]) = k
           /\ history'[r] \in Seq([Nodes -> Fractions])
           /\ \A i \in 1 .. k - 1 : history'[r][i] = history[r][i]
           /\ \A n \in Nodes : history'[r][k][n] = Degradation(r, n, k)
           /\ \A n \in Nodes : first'[r][n] =
                IF first[r][n] = 0 /\ Degradation(r, n, k) > Threshold THEN k ELSE first[r][n]
           /\ \A n \in Nodes : cause'[r][n] = Attribution(r, n, k)
           /\ net' = net /\ input' = input /\ report' = report
<1> DEFINE k == Len(history["base"]) + 1
           column(q) == [n \in Nodes |-> Degradation(q, n, k)]
<1>1. /\ k \in 1 .. Len(history["base"]) + 1 /\ k \in Nat
      /\ \A q \in Runs : /\ history[q] \in Seq([Nodes -> Fractions]) /\ Len(history[q]) = k - 1
                         /\ column(q) \in [Nodes -> Fractions]
  <2>1. Len(history["base"]) \in Nat
    BY RunFacts
  <2>2. k \in 1 .. Len(history["base"]) + 1 /\ k \in Nat /\ k - 1 = Len(history["base"])
    BY <2>1
  <2>3. \A q \in Runs, n \in Nodes : Degradation(q, n, k) \in Fractions
    BY <2>2, DegradationType
  <2>4. QED
    BY <2>2, <2>3, RunFacts
<1>2. \A q \in Runs : history'[q] = Append(history[q], column(q))
  BY DEF Advance
<1>3. /\ k <= Steps /\ net' = net /\ input' = input /\ report' = report
      /\ \A n \in Nodes : first'[r][n] =
            IF first[r][n] = 0 /\ Degradation(r, n, k) > Threshold THEN k ELSE first[r][n]
      /\ \A n \in Nodes : cause'[r][n] = Attribution(r, n, k)
  BY DEF Advance
<1> HIDE DEF column
<1>4. \A q \in Runs : /\ history'[q] \in Seq([Nodes -> Fractions]) /\ Len(history'[q]) = k
                      /\ \A i \in 1 .. k - 1 : history'[q][i] = history[q][i]
                      /\ history'[q][k] = column(q)
  <2> TAKE q \in Runs
  <2>1. /\ history[q] \in Seq([Nodes -> Fractions]) /\ Len(history[q]) = k - 1
        /\ column(q) \in [Nodes -> Fractions] /\ k \in Nat
    BY <1>1
  <2>2. history'[q] = Append(history[q], column(q))
    BY <1>2
  <2> HIDE DEF k
  <2>3. QED
    BY <2>1, <2>2, AppendProperties
<1>5. \A n \in Nodes : column(r)[n] = Degradation(r, n, k)
  BY DEF column
<1>6. QED
  BY <1>1, <1>3, <1>4, <1>5 DEF Runs

\* The strongest edges into a node that damage reaches are edges of the graph the run
\* sees, and the first by id exists.
LEMMA DominantType ==
    ASSUME TypeOK, NEW r \in Runs, NEW n \in Nodes,
           NEW k \in 1 .. Len(history["base"]) + 1, Propagated(r, n, k) > 0
    PROVE  /\ Dominant(r, n, k) \in Dependencies(Visible(r), n)
           /\ Impact(r, Dominant(r, n, k), k) = Propagated(r, n, k)
<1> DEFINE impacts   == {Impact(r, e, k) : e \in Dependencies(Visible(r), n)}
           strongest == {e \in Dependencies(Visible(r), n) :
                            Impact(r, e, k) = Propagated(r, n, k)}
           ids       == {e.id : e \in strongest}
<1>1. Propagated(r, n, k) \in impacts
  BY DegradationType, MostType DEF Propagated
<1>2. strongest # {}
  BY <1>1
<1>3. strongest \subseteq Edges
  BY RunFacts DEF Dependencies
<1>4. ids \subseteq Nat /\ ids # {}
  BY <1>2, <1>3, EdgeFacts
<1>5. PICK i \in ids : \A j \in ids : i <= j
  BY <1>4, Least
<1>6. PICK e \in strongest : e.id = i
  OBVIOUS
<1>7. \A f \in strongest : e.id <= f.id
  BY <1>5, <1>6
<1>8. Dominant(r, n, k) \in strongest
  BY <1>7 DEF Dominant
<1>9. QED
  BY <1>8

\* A report rests on what no later step changes.
LEMMA ReportIsStable ==
    ASSUME UNCHANGED <<net, input, history, first, cause>>, NEW r \in Runs
    PROVE  /\ ImpactEvents(r)' = ImpactEvents(r)
           /\ \A c : Metrics(r, c)' = Metrics(r, c)
           /\ Pathways(r)' = Pathways(r)
           /\ Strongest(Pathways(r))' = Strongest(Pathways(r))
<1>1. ImpactEvents(r)' = ImpactEvents(r)
  BY DEF ImpactEvents, Affected
<1>2. \A c : Metrics(r, c)' = Metrics(r, c)
  BY DEF Metrics, ServiceLevel, RecoveredAt, BelowTarget, MapThenSumSet, MapThenFoldSet
<1>3. Pathways(r)' = Pathways(r)
  BY DEF Pathways, Walks, Onward, Visible, Affected
<1>4. Strongest(Pathways(r))' = Strongest(Pathways(r))
  BY <1>3 DEF Strongest
<1>5. QED
  BY <1>1, <1>2, <1>3, <1>4

\* Initially the types hold and nothing is reported.
LEMMA InitTypeOK == Init => TypeOK /\ Reported
<1> SUFFICES ASSUME Init PROVE TypeOK /\ Reported
  OBVIOUS
<1>1. Steps \in Nat /\ << >> \in Seq([Nodes -> Fractions]) /\ Len(<< >>) = 0
  BY PropagationAssumption
<1>2. history \in [Runs -> Seq([Nodes -> Fractions])] /\ history["base"] = << >>
      /\ history["worse"] = << >>
  BY <1>1 DEF Init, Runs
<1>3. first \in [Runs -> [Nodes -> 0 .. Len(history["base"])]]
  BY <1>1, <1>2 DEF Init
<1>4. cause \in [Runs -> [Nodes -> Causes]]
  BY DEF Init, Unknown, Causes
<1>5. QED
  BY <1>1, <1>2, <1>3, <1>4 DEF Init, TypeOK, Reported

\* What damage is attributed to is a cause.
LEMMA AttributionType ==
    ASSUME TypeOK, NEW r \in Runs, NEW n \in Nodes,
           NEW k \in 1 .. Len(history["base"]) + 1
    PROVE  Attribution(r, n, k) \in Causes
<1>1. cause[r][n] \in Causes
  BY DEF TypeOK
<1>2. Threshold \in Nat /\ Direct(r, n, k) \in Nat /\ Propagated(r, n, k) \in Nat
  BY PropagationAssumption, DegradationType DEF Fractions
<1>3. Incident \in Causes /\ Unknown \in Causes
  BY DEF Incident, Unknown, Causes
<1>4. CASE Propagated(r, n, k) > Threshold
  <2>1. Propagated(r, n, k) > 0
    BY <1>2, <1>4
  <2>2. Dominant(r, n, k) \in Edges
    BY <2>1, DominantType, RunFacts DEF Dependencies
  <2>3. [kind |-> "edge", edge |-> Dominant(r, n, k)] \in Causes
    BY <2>2 DEF Causes
  <2>4. QED
    BY <1>1, <1>3, <2>3 DEF Attribution
<1>5. CASE ~ (Propagated(r, n, k) > Threshold)
  BY <1>1, <1>3, <1>5 DEF Attribution
<1>6. QED
  BY <1>4, <1>5

\* A step of the runs preserves the types, and what is reported is still to come.
LEMMA AdvanceTypeOK == TypeOK /\ Reported /\ Advance => TypeOK' /\ Reported'
<1> SUFFICES ASSUME TypeOK, Reported, Advance PROVE TypeOK' /\ Reported'
  OBVIOUS
<1> DEFINE k == Len(history["base"]) + 1
<1>1. \A r \in Runs :
        /\ k \in 1 .. Len(history["base"]) + 1 /\ k \in Nat /\ k <= Steps
        /\ Len(history["base"]') = k /\ Len(history'[r]) = k
        /\ history'[r] \in Seq([Nodes -> Fractions])
        /\ \A n \in Nodes : first'[r][n] =
             IF first[r][n] = 0 /\ Degradation(r, n, k) > Threshold THEN k ELSE first[r][n]
        /\ \A n \in Nodes : cause'[r][n] = Attribution(r, n, k)
        /\ net' = net /\ input' = input /\ report' = report
  BY AdvanceFacts
<1>2. /\ DOMAIN history' = Runs /\ history' = [r \in Runs |-> history'[r]]
      /\ first' = [r \in Runs |-> [n \in Nodes |-> first'[r][n]]]
      /\ cause' = [r \in Runs |-> [n \in Nodes |-> cause'[r][n]]]
  BY DEF Advance
<1>3. "base" \in Runs /\ "worse" \in Runs
  BY DEF Runs
<1>4. \A r \in Runs, n \in Nodes : first'[r][n] \in 0 .. Len(history["base"]')
  <2> TAKE r \in Runs, n \in Nodes
  <2>1. first[r][n] \in 0 .. k - 1
    <3>1. first[r][n] \in 0 .. Len(history["base"])
      BY DEF TypeOK
    <3>2. Len(history["base"]) = k - 1
      BY RunFacts
    <3>3. QED
      BY <3>1, <3>2
  <2>2. k \in Nat /\ Len(history["base"]') = k
    BY <1>1
  <2>3. first'[r][n] = k \/ first'[r][n] = first[r][n]
    BY <1>1
  <2>4. k \in 0 .. k /\ (first[r][n] \in 0 .. k - 1 => first[r][n] \in 0 .. k)
    BY <2>2
  <2>5. QED
    BY <2>1, <2>2, <2>3, <2>4
<1>5. \A r \in Runs, n \in Nodes : cause'[r][n] \in Causes
  BY <1>1, AttributionType
<1>6. history' \in [Runs -> Seq([Nodes -> Fractions])]
  BY <1>1, <1>2
<1>7. first' \in [Runs -> [Nodes -> 0 .. Len(history["base"]')]]
  BY <1>2, <1>4
<1>8. cause' \in [Runs -> [Nodes -> Causes]]
  BY <1>2, <1>5
<1>9. TypeOK'
  BY <1>1, <1>3, <1>6, <1>7, <1>8 DEF TypeOK
<1>10. Len(history["base"]) # Steps
  BY <1>1, <1>3, PropagationAssumption
<1>11. Reported'
  BY <1>1, <1>3, <1>10 DEF Reported
<1>12. QED
  BY <1>9, <1>11

\* Every step preserves the types and reports what the operators of the report say.
LEMMA NextTypeOK == TypeOK /\ Reported /\ [Next]_vars => TypeOK' /\ Reported'
<1> SUFFICES ASSUME TypeOK, Reported, [Next]_vars PROVE TypeOK' /\ Reported'
  OBVIOUS
<1>1. CASE Advance
  BY <1>1, AdvanceTypeOK
<1>2. CASE Report
  <2>1. UNCHANGED <<net, input, history, first, cause>> /\ Len(history["base"]) = Steps
    BY <1>2 DEF Report
  <2>2. PICK pathways :
          /\ \A r \in Runs : pathways[r] \in Strongest(Pathways(r))
          /\ report' = [r \in Runs |->
                          [events |-> ImpactEvents(r), pathways |-> pathways[r],
                           metrics |-> [c \in Capabilities |-> Metrics(r, c)]]]
    BY <1>2 DEF Report
  <2>3. \A r \in Runs : /\ report'[r].events = ImpactEvents(r)
                        /\ report'[r].pathways \in Strongest(Pathways(r))
                        /\ report'[r].metrics = [c \in Capabilities |-> Metrics(r, c)]
    BY <2>2
  <2>4. \A r \in Runs : /\ report'[r].events = ImpactEvents(r)'
                        /\ report'[r].pathways \in Strongest(Pathways(r))'
                        /\ report'[r].metrics = [c \in Capabilities |-> Metrics(r, c)']
    <3>1. \A r \in Runs : /\ ImpactEvents(r)' = ImpactEvents(r)
                          /\ \A c : Metrics(r, c)' = Metrics(r, c)
                          /\ Strongest(Pathways(r))' = Strongest(Pathways(r))
      BY <2>1, ReportIsStable
    <3>2. QED
      BY <2>3, <3>1
  <2>5. QED
    BY <2>1, <2>4 DEF TypeOK, Reported
<1>3. CASE UNCHANGED vars
  <2>1. UNCHANGED <<net, input, history, first, cause, report>>
    BY <1>3 DEF vars
  <2>2. TypeOK'
    BY <2>1 DEF TypeOK
  <2>3. CASE report = [r \in Runs |-> NoReport]
    BY <2>1, <2>2, <2>3 DEF Reported
  <2>4. CASE ~ (report = [r \in Runs |-> NoReport])
    <3>1. \A r \in Runs : /\ ImpactEvents(r)' = ImpactEvents(r)
                          /\ \A c : Metrics(r, c)' = Metrics(r, c)
                          /\ Strongest(Pathways(r))' = Strongest(Pathways(r))
      BY <2>1, ReportIsStable
    <3>2. /\ Len(history["base"]) = Steps
          /\ \A r \in Runs :
                /\ report[r].events = ImpactEvents(r)
                /\ report[r].pathways \in Strongest(Pathways(r))
                /\ report[r].metrics = [c \in Capabilities |-> Metrics(r, c)]
      BY <2>4 DEF Reported
    <3>3. \A r \in Runs : /\ report'[r].events = ImpactEvents(r)'
                          /\ report'[r].pathways \in Strongest(Pathways(r))'
                          /\ report'[r].metrics = [c \in Capabilities |-> Metrics(r, c)']
      BY <2>1, <3>1, <3>2
    <3>4. QED
      BY <2>1, <2>2, <3>2, <3>3 DEF Reported
  <2>5. QED
    BY <2>2, <2>3, <2>4
<1>4. QED
  BY <1>1, <1>2, <1>3 DEF Next

\* The types of the graph, the inputs, the history and the attributions.
THEOREM TypeCorrect == Spec => []TypeOK
<1>1. QED
  BY InitTypeOK, NextTypeOK, PTL DEF Spec
-------------------------------------------------------------------------------
(* Monotonicity *)

\* At every step so far, the worse run is worse.
HistoryIsMonotone ==
    \A k \in DOMAIN history["base"], n \in Nodes :
        history["base"][k][n] <= history["worse"][k][n]

\* How the inputs of the two runs compare.
LEMMA InputsCompare ==
    ASSUME TypeOK
    PROVE  /\ input["base"] \in RunInputs /\ input["worse"] \in RunInputs
           /\ \A c \in input["base"].components :
                \E d \in input["worse"].components : AsBad(d, c)
           /\ input["worse"].actions \subseteq input["base"].actions
           /\ Visible("base") \subseteq Visible("worse")
           /\ \A n \in Nodes : input["worse"].spare[n] <= input["base"].spare[n]
<1>1. input \in Inputs /\ input \in [Runs -> RunInputs]
  BY PropagationAssumption DEF TypeOK
<1>2. Worse(input["worse"], input["base"])
  BY <1>1, PropagationAssumption
<1>3. QED
  BY <1>1, <1>2 DEF Worse, Visible, Runs

\* An edge both runs see passes on at least as much in the worse run.
LEMMA ImpactMonotone ==
    ASSUME TypeOK, HistoryIsMonotone, NEW e \in Edges,
           NEW k \in 1 .. Len(history["base"]) + 1
    PROVE  Impact("base", e, k) <= Impact("worse", e, k)
<1> DEFINE last      == k - 1
           passed(r) == Times(e.weight, Delayed(r, e, k))
           helped(r) == Redundancy(e, input[r].spare, Available(r, k))
<1>1. "base" \in Runs /\ "worse" \in Runs
  BY DEF Runs
<1>2. /\ Len(history["base"]) \in Nat
      /\ \A r \in Runs, i \in 1 .. Len(history["base"]) : history[r][i] \in [Nodes -> Fractions]
  BY RunFacts
<1>3. \A i \in 1 .. k - 1, n \in Nodes : history["base"][i][n] <= history["worse"][i][n]
  <2>1. \A i \in 1 .. k - 1 : i \in DOMAIN history["base"]
    BY <1>1, <1>2, RunFacts, LenProperties
  <2>2. QED
    BY <2>1 DEF HistoryIsMonotone
<1>4. e.to \in Nodes /\ e.weight \in Fractions /\ e.subs \subseteq Nodes /\ e.lag \in Nat
  BY EdgeFacts
<1>5. Delayed("base", e, k) <= Delayed("worse", e, k)
  <2> DEFINE source == (Minute(k) - e.lag) \div Step + 1
  <2>1. Step \in Nat \ {0} /\ Minute(k) \in Nat /\ k \in Nat /\ k >= 1
    BY <1>2, MinuteType, PropagationAssumption
  <2>2. source \in Int
    BY <1>4, <2>1
  <2>3. CASE source < 1
    BY <2>2, <2>3 DEF Delayed
  <2>4. CASE source \in 1 .. k - 1
    <3>1. /\ Delayed("base", e, k) = history["base"][source][e.to]
          /\ Delayed("worse", e, k) = history["worse"][source][e.to]
      BY <2>1, <2>2, <2>4 DEF Delayed
    <3>2. QED
      BY <1>3, <1>4, <2>4, <3>1
  <2>5. CASE source >= 1 /\ source >= k
    <3>1. /\ Delayed("base", e, k) = IF k = 1 THEN 0 ELSE history["base"][last][e.to]
          /\ Delayed("worse", e, k) = IF k = 1 THEN 0 ELSE history["worse"][last][e.to]
      BY <2>1, <2>2, <2>5 DEF Delayed
    <3>2. k # 1 => last \in 1 .. k - 1
      BY <2>1
    <3>3. QED
      BY <1>3, <1>4, <3>1, <3>2
  <2>6. QED
    BY <2>1, <2>2, <2>3, <2>4, <2>5
<1>6. \A n \in Nodes : Available("worse", k)[n] <= Available("base", k)[n]
  <2> TAKE n \in Nodes
  <2>1. CASE k = 1
    BY <2>1, GraphAssumption DEF Available
  <2>2. CASE k # 1
    <3>1. last \in 1 .. k - 1 /\ last \in 1 .. Len(history["base"])
      BY <1>2, <2>2
    <3>2. /\ history["base"][last][n] <= history["worse"][last][n]
          /\ history["base"][last][n] \in Fractions /\ history["worse"][last][n] \in Fractions
      BY <1>1, <1>2, <1>3, <3>1
    <3>3. /\ Available("base", k)[n] = Unit - history["base"][last][n]
          /\ Available("worse", k)[n] = Unit - history["worse"][last][n]
      BY <2>2 DEF Available
    <3>4. QED
      BY <3>2, <3>3, GraphAssumption DEF Fractions
  <2>3. QED
    BY <2>1, <2>2
<1>7. /\ \A r \in Runs : /\ input[r].spare \in [Nodes -> Fractions]
                         /\ Available(r, k) \in [Nodes -> Fractions]
      /\ \A n \in Nodes : input["worse"].spare[n] <= input["base"].spare[n]
  BY InputsCompare, RunFacts, AvailableType DEF RunInputs
<1>8. helped("worse") <= helped("base")
  <2> DEFINE stands(r) == {Times(input[r].spare[s], Available(r, k)[s]) : s \in e.subs}
  <2>1. stands("base") \subseteq Fractions /\ stands("worse") \subseteq Fractions
    BY <1>1, <1>7, RedundancyType
  <2>2. \A s \in e.subs : Times(input["worse"].spare[s], Available("worse", k)[s])
                            <= Times(input["base"].spare[s], Available("base", k)[s])
    <3> TAKE s \in e.subs
    <3>1. /\ input["worse"].spare[s] \in Fractions /\ input["base"].spare[s] \in Fractions
          /\ Available("worse", k)[s] \in Fractions /\ Available("base", k)[s] \in Fractions
          /\ input["worse"].spare[s] <= input["base"].spare[s]
          /\ Available("worse", k)[s] <= Available("base", k)[s]
      BY <1>1, <1>4, <1>6, <1>7
    <3>2. QED
      BY <3>1, TimesMonotone
  <2>3. \A x \in stands("worse") : \E y \in stands("base") : x <= y
    BY <2>2
  <2>4. QED
    BY <2>1, <2>3, MostMonotone DEF Redundancy
<1>9. /\ Unit - helped("base") \in Fractions /\ Unit - helped("worse") \in Fractions
      /\ helped("base") \in Fractions /\ helped("worse") \in Fractions
  BY <1>1, <1>7, RedundancyType
<1>10. Unit - helped("base") <= Unit - helped("worse")
  BY <1>8, <1>9, GraphAssumption DEF Fractions
<1>11. /\ passed("base") \in Fractions /\ passed("worse") \in Fractions
       /\ passed("base") <= passed("worse")
  <2>1. Delayed("base", e, k) \in Fractions /\ Delayed("worse", e, k) \in Fractions
    BY <1>1, DelayedType
  <2>2. e.weight <= e.weight
    BY <1>4 DEF Fractions
  <2>3. QED
    BY <1>4, <1>5, <2>1, <2>2, TimesType, TimesMonotone
<1> HIDE DEF passed, helped
<1>12. Times(passed("base"), Unit - helped("base"))
          <= Times(passed("worse"), Unit - helped("worse"))
  BY <1>9, <1>10, <1>11, TimesMonotone
<1>13. QED
  BY <1>12 DEF Impact, passed, helped

\* So a node is degraded at least as much.
LEMMA DegradationMonotone ==
    ASSUME TypeOK, HistoryIsMonotone, NEW n \in Nodes,
           NEW k \in 1 .. Len(history["base"]) + 1
    PROVE  Degradation("base", n, k) <= Degradation("worse", n, k)
<1> DEFINE hits(r)  == {DirectOf(c, Minute(k)) :
                            c \in {d \in input[r].components : d.target = n}}
           edges(r) == {Impact(r, e, k) : e \in Dependencies(Visible(r), n)}
           both(r)  == {Direct(r, n, k), Propagated(r, n, k)}
<1>1. "base" \in Runs /\ "worse" \in Runs /\ k \in Nat \ {0} /\ Minute(k) \in Nat
  BY RunFacts, MinuteType DEF Runs
<1>2. \A r \in Runs :
        /\ hits(r) \subseteq Fractions /\ edges(r) \subseteq Fractions
        /\ Direct(r, n, k) \in Fractions /\ Propagated(r, n, k) \in Fractions
        /\ Raw(r, n, k) \in Fractions
        /\ Remaining[Effective(r, k)][n] \in Fractions
  BY DegradationType
<1>3. Direct("base", n, k) <= Direct("worse", n, k)
  <2>1. \A c \in input["base"].components : c.target = n =>
          \E d \in input["worse"].components :
             d.target = n /\ DirectOf(c, Minute(k)) <= DirectOf(d, Minute(k))
    <3> TAKE c \in input["base"].components
    <3>1. PICK d \in input["worse"].components : AsBad(d, c)
      BY InputsCompare
    <3>2. c \in Components /\ d \in Components
      BY InputsCompare DEF RunInputs
    <3>3. QED
      BY <1>1, <3>1, <3>2, DirectMonotone DEF AsBad
  <2>2. \A x \in hits("base") : \E y \in hits("worse") : x <= y
    BY <2>1
  <2> HIDE DEF hits
  <2>3. Most(hits("base")) <= Most(hits("worse"))
    BY <1>1, <1>2, <2>2, MostMonotone
  <2>4. QED
    BY <2>3 DEF Direct, hits
<1>4. Propagated("base", n, k) <= Propagated("worse", n, k)
  <2>1. \A e \in Dependencies(Visible("base"), n) :
           /\ e \in Dependencies(Visible("worse"), n)
           /\ Impact("base", e, k) <= Impact("worse", e, k)
    BY <1>1, InputsCompare, RunFacts, ImpactMonotone DEF Dependencies
  <2>2. \A x \in edges("base") : \E y \in edges("worse") : x <= y
    BY <2>1
  <2> HIDE DEF edges
  <2>3. Most(edges("base")) <= Most(edges("worse"))
    BY <1>1, <1>2, <2>2, MostMonotone
  <2>4. QED
    BY <2>3 DEF Propagated, edges
<1>5. Raw("base", n, k) <= Raw("worse", n, k)
  <2>1. both("base") \subseteq Fractions /\ both("worse") \subseteq Fractions
    BY <1>1, <1>2
  <2>2. \A x \in both("base") : \E y \in both("worse") : x <= y
    BY <1>3, <1>4
  <2>3. QED
    BY <2>1, <2>2, MostMonotone DEF Raw
<1>6. Remaining[Effective("base", k)][n] <= Remaining[Effective("worse", k)][n]
  <2>1. /\ Effective("worse", k) \subseteq Effective("base", k)
        /\ Effective("base", k) \in SUBSET Actions
    BY InputsCompare DEF Effective, RunInputs
  <2>2. \A S, T \in SUBSET Actions : S \subseteq T =>
          \A m \in Nodes : Remaining[T][m] <= Remaining[S][m]
    BY PropagationAssumption
  <2>3. QED
    BY <2>1, <2>2
<1>7. QED
  BY <1>1, <1>2, <1>5, <1>6, TimesMonotone DEF Degradation

\* What a step adds to the loss of a capability, and the sum over a set of steps, as the
\* fold of the report computes it.
LossAt(r, c, k) == Step * (Target[c] - ServiceLevel(r, c, k))

Chosen(s) == CHOOSE k \in s : TRUE

SumsUp(r, c, sum, sets) ==
    sum = [s \in sets |->
             IF s = {} THEN 0 ELSE LossAt(r, c, Chosen(s)) + sum[s \ {Chosen(s)}]]

\* A service level is a fraction, no higher than its target, and a loss is a natural.
LEMMA ServiceLevelType ==
    ASSUME TypeOK, Len(history["base"]) = Steps, NEW r \in Runs, NEW c \in Capabilities,
           NEW k \in 1 .. Steps
    PROVE  /\ ServiceLevel(r, c, k) \in Fractions /\ ServiceLevel(r, c, k) <= Target[c]
           /\ Target[c] \in Fractions /\ Floor[c] \in Fractions
           /\ LossAt(r, c, k) \in Nat
<1>1. c \in Nodes /\ Target[c] \in Fractions /\ Floor[c] \in Fractions
  BY PropagationAssumption
<1>2. history[r][k][c] \in Fractions
  BY <1>1, RunFacts
<1>3. Unit - history[r][k][c] \in Fractions
  BY <1>2, GraphAssumption DEF Fractions
<1>4. ServiceLevel(r, c, k) \in Fractions /\ ServiceLevel(r, c, k) <= Target[c]
  BY <1>1, <1>3, TimesType DEF ServiceLevel
<1>5. Step \in Nat /\ Target[c] - ServiceLevel(r, c, k) \in Nat
  BY <1>1, <1>4, PropagationAssumption DEF Fractions
<1>6. LossAt(r, c, k) \in Nat
  BY <1>5, ProductMonotone DEF LossAt
<1>7. QED
  BY <1>1, <1>4, <1>6

\* The fold is defined: by induction over the size of the sets, a function sums up all
\* sets of steps up to any size.
LEMMA SumExists ==
    ASSUME NEW r, NEW c
    PROVE  \E sum : SumsUp(r, c, sum, SUBSET (1 .. Steps))
<1> DEFINE All      == SUBSET (1 .. Steps)
           upTo(d)  == {s \in All : Cardinality(s) <= d}
           missing  == {d \in Nat : ~ \E sum : SumsUp(r, c, sum, upTo(d))}
<1>1. /\ IsFiniteSet(1 .. Steps) /\ Cardinality(1 .. Steps) = Steps /\ Steps \in Nat
      /\ \A s \in All : IsFiniteSet(s) /\ Cardinality(s) \in Nat /\ Cardinality(s) <= Steps
  <2>1. Steps \in Nat
    BY PropagationAssumption
  <2>2. IsFiniteSet(1 .. Steps) /\ Cardinality(1 .. Steps) = Steps
    BY <2>1, FS_Interval
  <2>3. QED
    BY <2>1, <2>2, FS_Subset, FS_CardinalityType
<1>2. \A s \in All : s # {} =>
         /\ Chosen(s) \in s /\ s \ {Chosen(s)} \in All
         /\ Cardinality(s \ {Chosen(s)}) = Cardinality(s) - 1
  <2> TAKE s \in All
  <2> HAVE s # {}
  <2>1. Chosen(s) \in s
    BY DEF Chosen
  <2>2. QED
    BY <1>1, <2>1, FS_RemoveElement
<1>3. \A s \in All : Cardinality(s) = 0 => s = {}
  BY <1>1, FS_EmptySet
<1>4. missing = {}
  <2> SUFFICES ASSUME missing # {} PROVE FALSE
    OBVIOUS
  <2>1. PICK d \in missing : \A m \in missing : d <= m
    BY Least
  <2>2. d # 0
    <3> SUFFICES ASSUME d = 0 PROVE FALSE
      OBVIOUS
    <3>1. \A s \in upTo(0) : s = {}
      BY <1>1, <1>3
    <3> DEFINE none == [s \in upTo(0) |-> 0]
    <3>2. SumsUp(r, c, none, upTo(0))
      BY <3>1 DEF SumsUp
    <3>3. QED
      BY <2>1, <3>2
  <2>3. d - 1 \in Nat /\ d \in Nat
    BY <2>2
  <2>4. d - 1 \notin missing
    <3> HIDE DEF missing
    <3>1. QED
      BY <2>1, <2>3
  <2>5. PICK sum : SumsUp(r, c, sum, upTo(d - 1))
    BY <2>3, <2>4
  <2> DEFINE next == [s \in upTo(d) |->
                        IF s = {} THEN 0 ELSE LossAt(r, c, Chosen(s)) + sum[s \ {Chosen(s)}]]
  <2>6. \A s \in upTo(d - 1) : next[s] = sum[s]
    <3> TAKE s \in upTo(d - 1)
    <3>1. s \in upTo(d)
      BY <1>1, <2>3
    <3>2. sum[s] = IF s = {} THEN 0 ELSE LossAt(r, c, Chosen(s)) + sum[s \ {Chosen(s)}]
      BY <2>5 DEF SumsUp
    <3>3. QED
      BY <3>1, <3>2
  <2>7. \A s \in upTo(d) : s # {} => s \ {Chosen(s)} \in upTo(d - 1)
    <3> TAKE s \in upTo(d)
    <3> HAVE s # {}
    <3> DEFINE rest == s \ {Chosen(s)}
    <3>1. rest \in All /\ Cardinality(rest) = Cardinality(s) - 1
      BY <1>2
    <3>2. Cardinality(s) \in Nat /\ Cardinality(s) <= d
      BY <1>1
    <3> HIDE DEF rest, All
    <3>3. rest \in upTo(d - 1)
      BY <2>3, <3>1, <3>2
    <3>4. QED
      BY <3>3 DEF rest
  <2>8. SumsUp(r, c, next, upTo(d))
    <3>1. next = [s \in upTo(d) |->
                    IF s = {} THEN 0 ELSE LossAt(r, c, Chosen(s)) + next[s \ {Chosen(s)}]]
      <4>1. \A s \in upTo(d) :
               (IF s = {} THEN 0 ELSE LossAt(r, c, Chosen(s)) + sum[s \ {Chosen(s)}])
               = (IF s = {} THEN 0 ELSE LossAt(r, c, Chosen(s)) + next[s \ {Chosen(s)}])
        BY <2>6, <2>7
      <4> DEFINE other == [s \in upTo(d) |->
                    IF s = {} THEN 0 ELSE LossAt(r, c, Chosen(s)) + next[s \ {Chosen(s)}]]
      <4>2. \A s \in upTo(d) : next[s] = other[s]
        BY <4>1
      <4>3. DOMAIN next = upTo(d) /\ DOMAIN other = upTo(d)
        OBVIOUS
      <4>4. next = [s \in upTo(d) |-> next[s]] /\ other = [s \in upTo(d) |-> other[s]]
        OBVIOUS
      <4> HIDE DEF next, other
      <4>5. next = other
        BY <4>2, <4>4
      <4>6. QED
        BY <4>5 DEF other
    <3>2. QED
      BY <3>1 DEF SumsUp
  <2>9. QED
    BY <2>1, <2>8
<1>5. Steps \notin missing
  BY <1>4
<1>6. upTo(Steps) = All
  BY <1>1
<1>7. QED
  BY <1>1, <1>5, <1>6

\* The loss of a report is such a sum.
LEMMA LossIsSum ==
    ASSUME NEW r, NEW c
    PROVE  \E sum : /\ SumsUp(r, c, sum, SUBSET (1 .. Steps))
                    /\ Metrics(r, c).loss = sum[1 .. Steps]
<1> DEFINE sum == CHOOSE g : g = [s \in SUBSET (1 .. Steps) |->
                     IF s = {} THEN 0
                     ELSE Step * (Target[c] - ServiceLevel(r, c, CHOOSE k \in s : TRUE))
                            + g[s \ {CHOOSE k \in s : TRUE}]]
<1>1. Metrics(r, c).loss = MapThenSumSet(LAMBDA k : Step * (Target[c] - ServiceLevel(r, c, k)),
                                         1 .. Steps)
  BY DEF Metrics
<1>2. MapThenSumSet(LAMBDA k : Step * (Target[c] - ServiceLevel(r, c, k)), 1 .. Steps)
        = sum[1 .. Steps]
  BY DEF MapThenSumSet, MapThenFoldSet
<1>3. \E g : g = [s \in SUBSET (1 .. Steps) |->
                     IF s = {} THEN 0
                     ELSE Step * (Target[c] - ServiceLevel(r, c, CHOOSE k \in s : TRUE))
                            + g[s \ {CHOOSE k \in s : TRUE}]]
  <2>1. PICK g : SumsUp(r, c, g, SUBSET (1 .. Steps))
    BY SumExists
  <2>2. g = [s \in SUBSET (1 .. Steps) |->
               IF s = {} THEN 0
               ELSE Step * (Target[c] - ServiceLevel(r, c, CHOOSE k \in s : TRUE))
                      + g[s \ {CHOOSE k \in s : TRUE}]]
    BY <2>1 DEF SumsUp, LossAt, Chosen
  <2>3. QED
    BY <2>2
<1>4. sum = [s \in SUBSET (1 .. Steps) |->
               IF s = {} THEN 0
               ELSE Step * (Target[c] - ServiceLevel(r, c, CHOOSE k \in s : TRUE))
                      + sum[s \ {CHOOSE k \in s : TRUE}]]
  BY <1>3
<1>5. SumsUp(r, c, sum, SUBSET (1 .. Steps))
  BY <1>4 DEF SumsUp, LossAt, Chosen
<1>6. QED
  BY <1>1, <1>2, <1>5

\* Where every step loses more, so does every set of steps.
LEMMA SumsCompare ==
    ASSUME NEW c, NEW less, NEW more,
           SumsUp("base", c, less, SUBSET (1 .. Steps)),
           SumsUp("worse", c, more, SUBSET (1 .. Steps)),
           \A k \in 1 .. Steps : /\ LossAt("base", c, k) \in Nat
                                 /\ LossAt("worse", c, k) \in Nat
                                 /\ LossAt("base", c, k) <= LossAt("worse", c, k)
    PROVE  less[1 .. Steps] <= more[1 .. Steps]
<1> DEFINE All     == SUBSET (1 .. Steps)
           Fine(s) == less[s] \in Nat /\ more[s] \in Nat /\ less[s] <= more[s]
           wrong   == {Cardinality(s) : s \in {t \in All : ~ Fine(t)}}
<1>1. Steps \in Nat /\ IsFiniteSet(1 .. Steps)
  <2>1. Steps \in Nat
    BY PropagationAssumption
  <2>2. 1 \in Int /\ Steps \in Int
    BY <2>1
  <2>3. QED
    BY <2>1, <2>2, FS_Interval
<1>2. \A s \in All : IsFiniteSet(s) /\ Cardinality(s) \in Nat
  BY <1>1, FS_Subset, FS_CardinalityType
<1>3. ASSUME NEW s \in All, ~ Fine(s) PROVE FALSE
  <2>1. wrong \subseteq Nat /\ wrong # {}
    BY <1>2, <1>3
  <2>2. PICK d \in wrong : \A m \in wrong : d <= m
    BY <2>1, Least
  <2>3. PICK t \in All : ~ Fine(t) /\ Cardinality(t) = d
    OBVIOUS
  <2>4. /\ less[t] = IF t = {} THEN 0 ELSE LossAt("base", c, Chosen(t)) + less[t \ {Chosen(t)}]
        /\ more[t] = IF t = {} THEN 0 ELSE LossAt("worse", c, Chosen(t)) + more[t \ {Chosen(t)}]
    BY DEF SumsUp
  <2>5. t # {}
    BY <2>3, <2>4
  <2>6. Chosen(t) \in t
    BY <2>5 DEF Chosen
  <2> DEFINE rest == t \ {Chosen(t)}
  <2>7. rest \in All /\ Cardinality(rest) = Cardinality(t) - 1
    BY <1>2, <2>6, FS_RemoveElement
  <2>8. Cardinality(t) \in Nat /\ Cardinality(rest) \in Nat
    BY <1>2, <2>7
  <2>9. Fine(rest)
    <3> SUFFICES ASSUME ~ Fine(rest) PROVE FALSE
      OBVIOUS
    <3>1. Cardinality(rest) \in wrong
      BY <2>7
    <3> HIDE DEF wrong, rest
    <3>2. d <= Cardinality(rest)
      BY <2>2, <3>1
    <3>3. QED
      BY <2>3, <2>7, <2>8, <3>2
  <2>10. less[t] = LossAt("base", c, Chosen(t)) + less[rest]
         /\ more[t] = LossAt("worse", c, Chosen(t)) + more[rest]
    BY <2>4, <2>5
  <2>11. /\ LossAt("base", c, Chosen(t)) \in Nat /\ LossAt("worse", c, Chosen(t)) \in Nat
         /\ LossAt("base", c, Chosen(t)) <= LossAt("worse", c, Chosen(t))
    BY <2>6
  <2> HIDE DEF rest
  <2>12. Fine(t)
    BY <2>9, <2>10, <2>11
  <2>13. QED
    BY <2>3, <2>12
<1>4. 1 .. Steps \in All
  OBVIOUS
<1>5. QED
  BY <1>3, <1>4

\* At the horizon, no figure of a capability is better in the worse run.
LEMMA MetricsCompare ==
    ASSUME TypeOK, HistoryIsMonotone, Len(history["base"]) = Steps, NEW c \in Capabilities
    PROVE  LET base == Metrics("base", c)
               worse == Metrics("worse", c) IN
           /\ worse.least <= base.least /\ worse.loss >= base.loss
           /\ worse.minutes >= base.minutes
           /\ \A t \in base.breach : \E u \in worse.breach : u <= t
           /\ \A t \in base.recovered : \E u \in worse.recovered : u >= t
<1> DEFINE levels(r)   == {ServiceLevel(r, c, k) : k \in 1 .. Steps}
           breached(r) == {k \in 1 .. Steps : ServiceLevel(r, c, k) < Floor[c]}
<1>1. "base" \in Runs /\ "worse" \in Runs /\ Steps \in Nat \ {0} /\ Step \in Nat \ {0}
  BY PropagationAssumption DEF Runs
<1>2. \A k \in 1 .. Steps : /\ ServiceLevel("base", c, k) \in Fractions
                            /\ ServiceLevel("worse", c, k) \in Fractions
                            /\ ServiceLevel("worse", c, k) <= ServiceLevel("base", c, k)
  <2> TAKE k \in 1 .. Steps
  <2>1. ServiceLevel("base", c, k) \in Fractions /\ ServiceLevel("worse", c, k) \in Fractions
    BY <1>1, ServiceLevelType
  <2>2. k \in DOMAIN history["base"] /\ c \in Nodes /\ Target[c] \in Fractions
    BY <1>1, RunFacts, LenProperties, PropagationAssumption
  <2>3. /\ history["base"][k][c] <= history["worse"][k][c]
        /\ history["base"][k][c] \in Fractions /\ history["worse"][k][c] \in Fractions
    BY <1>1, <2>2, RunFacts DEF HistoryIsMonotone
  <2>4. /\ Unit - history["base"][k][c] \in Fractions /\ Unit - history["worse"][k][c] \in Fractions
        /\ Unit - history["worse"][k][c] <= Unit - history["base"][k][c]
        /\ Target[c] <= Target[c]
    <3>1. Unit \in Nat /\ Target[c] \in Int
      BY <2>2, GraphAssumption DEF Fractions
    <3>2. \A a, b \in Fractions : a <= b =>
             Unit - a \in Fractions /\ Unit - b \in Fractions /\ Unit - b <= Unit - a
      BY <3>1 DEF Fractions
    <3>3. QED
      BY <2>3, <3>1, <3>2
  <2>5. QED
    BY <2>1, <2>2, <2>4, TimesMonotone DEF ServiceLevel
<1>3. Target[c] \in Fractions /\ Floor[c] \in Fractions
  BY PropagationAssumption
<1>4. Metrics("worse", c).least <= Metrics("base", c).least
  <2>1. \A r \in Runs : levels(r) \subseteq Nat /\ levels(r) # {}
    BY <1>1, <1>2 DEF Fractions, Runs
  <2>2. PICK k \in 1 .. Steps : Min(levels("base")) = ServiceLevel("base", c, k)
    <3>1. levels("base") \subseteq Nat /\ levels("base") # {}
      BY <1>1, <2>1
    <3>2. Min(levels("base")) \in levels("base")
      <4> HIDE DEF levels
      <4>1. QED
        BY <3>1, MinIsLeast
    <3>3. QED
      BY <3>2
  <2>3. Min(levels("worse")) <= ServiceLevel("worse", c, k) /\ Min(levels("worse")) \in Nat
    <3>1. /\ levels("worse") \subseteq Nat /\ levels("worse") # {}
          /\ ServiceLevel("worse", c, k) \in levels("worse")
      BY <1>1, <2>1
    <3> HIDE DEF levels
    <3>2. QED
      BY <3>1, MinIsLeast
  <2>4. Metrics("worse", c).least = Min(levels("worse"))
        /\ Metrics("base", c).least = Min(levels("base"))
    BY DEF Metrics
  <2> HIDE DEF levels
  <2>5. QED
    BY <1>2, <2>2, <2>3, <2>4 DEF Fractions
<1>5. breached("base") \subseteq breached("worse") /\ breached("worse") \subseteq 1 .. Steps
  BY <1>2, <1>3 DEF Fractions
<1>6. Metrics("worse", c).minutes >= Metrics("base", c).minutes
  <2>1. IsFiniteSet(1 .. Steps)
    BY <1>1, FS_Interval
  <2>2. IsFiniteSet(breached("worse")) /\ IsFiniteSet(breached("base"))
    BY <1>5, <2>1, FS_Subset
  <2>3. /\ Cardinality(breached("base")) \in Nat /\ Cardinality(breached("worse")) \in Nat
        /\ Cardinality(breached("base")) <= Cardinality(breached("worse"))
    BY <1>5, <2>2, FS_Subset, FS_CardinalityType
  <2>4. Metrics("worse", c).minutes = Step * Cardinality(breached("worse"))
        /\ Metrics("base", c).minutes = Step * Cardinality(breached("base"))
    BY DEF Metrics
  <2> HIDE DEF breached
  <2>5. /\ Step * Cardinality(breached("base")) \in Nat
        /\ Step * Cardinality(breached("worse")) \in Nat
        /\ Step * Cardinality(breached("base")) <= Step * Cardinality(breached("worse"))
    BY <1>1, <2>3, ProductMonotone
  <2>6. QED
    BY <2>4, <2>5
<1>7. \A t \in Metrics("base", c).breach : \E u \in Metrics("worse", c).breach : u <= t
  <2> TAKE t \in Metrics("base", c).breach
  <2>1. \A r \in Runs : Metrics(r, c).breach
                          = IF breached(r) = {} THEN {} ELSE {Minute(Min(breached(r)))}
    BY DEF Metrics
  <2>2. breached("base") # {} /\ t = Minute(Min(breached("base")))
    BY <1>1, <2>1
  <2>3. breached("worse") # {} /\ breached("worse") \subseteq Nat /\ breached("base") \subseteq Nat
    BY <1>5, <2>2
  <2> DEFINE late == Min(breached("base"))
             soon == Min(breached("worse"))
  <2>4. late \in breached("base") /\ soon \in breached("worse") /\ soon <= late
    <3> HIDE DEF breached
    <3>1. QED
      BY <1>5, <2>2, <2>3, MinIsLeast
  <2>5. late \in Nat \ {0} /\ soon \in Nat \ {0} /\ soon <= late
    BY <2>4
  <2>6. Minute(soon) \in Metrics("worse", c).breach
    BY <1>1, <2>1, <2>3
  <2> HIDE DEF late, soon
  <2>7. (soon - 1) * Step <= (late - 1) * Step
    BY <1>1, <2>5, ProductMonotone
  <2>8. Minute(soon) <= Minute(late)
    BY <2>7 DEF Minute
  <2>9. QED
    BY <2>2, <2>6, <2>8 DEF late
<1>8. \A t \in Metrics("base", c).recovered : \E u \in Metrics("worse", c).recovered : u >= t
  <2> TAKE t \in Metrics("base", c).recovered
  <2>1. \A r \in Runs : Metrics(r, c).recovered =
          IF BelowTarget(r, c) = {} THEN {} ELSE {Minute(Max(BelowTarget(r, c))) + Step}
    BY DEF Metrics, RecoveredAt
  <2>2. BelowTarget("base", c) # {} /\ t = Minute(Max(BelowTarget("base", c))) + Step
    BY <1>1, <2>1
  <2>3. /\ BelowTarget("base", c) \subseteq BelowTarget("worse", c)
        /\ BelowTarget("worse", c) \subseteq 1 .. Steps
    BY <1>2, <1>3 DEF BelowTarget, Fractions
  <2>4. \A r \in Runs : BelowTarget(r, c) \subseteq Int /\ \A n \in BelowTarget(r, c) : n <= Steps
    BY DEF BelowTarget
  <2> DEFINE soon == Max(BelowTarget("base", c))
             late == Max(BelowTarget("worse", c))
  <2>5. soon \in BelowTarget("base", c) /\ late \in BelowTarget("worse", c) /\ soon <= late
    BY <1>1, <2>2, <2>3, <2>4, Greatest
  <2>6. late \in Nat \ {0} /\ soon \in Nat \ {0} /\ soon <= late
    BY <2>3, <2>5
  <2>7. Minute(late) + Step \in Metrics("worse", c).recovered
    BY <1>1, <2>1, <2>5
  <2> HIDE DEF late, soon
  <2>8. /\ (soon - 1) * Step <= (late - 1) * Step
        /\ (soon - 1) * Step \in Nat /\ (late - 1) * Step \in Nat
    BY <1>1, <2>6, ProductMonotone
  <2>9. Minute(late) + Step >= Minute(soon) + Step
    BY <1>1, <2>8 DEF Minute
  <2>10. QED
    BY <2>2, <2>7, <2>9 DEF soon
<1>9. Metrics("worse", c).loss >= Metrics("base", c).loss
  <2>1. PICK less : /\ SumsUp("base", c, less, SUBSET (1 .. Steps))
                    /\ Metrics("base", c).loss = less[1 .. Steps]
    BY LossIsSum
  <2>2. PICK more : /\ SumsUp("worse", c, more, SUBSET (1 .. Steps))
                    /\ Metrics("worse", c).loss = more[1 .. Steps]
    BY LossIsSum
  <2>3. \A k \in 1 .. Steps : /\ LossAt("base", c, k) \in Nat
                              /\ LossAt("worse", c, k) \in Nat
                              /\ LossAt("base", c, k) <= LossAt("worse", c, k)
    <3> TAKE k \in 1 .. Steps
    <3>1. LossAt("base", c, k) \in Nat /\ LossAt("worse", c, k) \in Nat
      BY <1>1, ServiceLevelType
    <3>2. /\ Target[c] - ServiceLevel("base", c, k) \in Nat
          /\ Target[c] - ServiceLevel("worse", c, k) \in Nat
          /\ Target[c] - ServiceLevel("base", c, k) <= Target[c] - ServiceLevel("worse", c, k)
      <4>1. /\ ServiceLevel("base", c, k) \in Fractions /\ ServiceLevel("worse", c, k) \in Fractions
            /\ ServiceLevel("worse", c, k) <= ServiceLevel("base", c, k)
            /\ ServiceLevel("base", c, k) <= Target[c]
        BY <1>1, <1>2, ServiceLevelType
      <4>2. QED
        BY <1>3, <4>1 DEF Fractions
    <3>3. QED
      BY <1>1, <3>1, <3>2, ProductMonotone DEF LossAt
  <2>4. less[1 .. Steps] <= more[1 .. Steps]
    BY <2>1, <2>2, <2>3, SumsCompare
  <2>5. QED
    BY <2>1, <2>2, <2>4
<1>10. QED
  BY <1>4, <1>6, <1>7, <1>8, <1>9

\* An advance keeps the order of the two runs.
LEMMA NextMonotone == TypeOK /\ HistoryIsMonotone /\ [Next]_vars => HistoryIsMonotone'
<1> SUFFICES ASSUME TypeOK, HistoryIsMonotone, [Next]_vars PROVE HistoryIsMonotone'
  OBVIOUS
<1>1. CASE Advance
  <2> DEFINE k == Len(history["base"]) + 1
  <2>1. \A r \in Runs :
          /\ k \in 1 .. Len(history["base"]) + 1 /\ k \in Nat
          /\ Len(history'[r]) = k /\ history'[r] \in Seq([Nodes -> Fractions])
          /\ \A i \in 1 .. k - 1 : history'[r][i] = history[r][i]
          /\ \A n \in Nodes : history'[r][k][n] = Degradation(r, n, k)
    BY <1>1, AdvanceFacts
  <2>2. "base" \in Runs /\ "worse" \in Runs
    BY DEF Runs
  <2>3. DOMAIN history'["base"] = 1 .. k /\ DOMAIN history["base"] = 1 .. k - 1
    BY <2>1, <2>2, RunFacts, LenProperties
  <2>4. ASSUME NEW i \in 1 .. k, NEW n \in Nodes
        PROVE  history'["base"][i][n] <= history'["worse"][i][n]
    <3>1. CASE i = k
      BY <2>1, <2>2, <3>1, DegradationMonotone
    <3>2. CASE i # k
      <4>1. i \in 1 .. k - 1
        BY <2>1, <2>2, <3>2
      <4>2. history["base"][i][n] <= history["worse"][i][n]
        BY <2>3, <4>1 DEF HistoryIsMonotone
      <4>3. QED
        BY <2>1, <2>2, <4>1, <4>2
    <3>3. QED
      BY <3>1, <3>2
  <2>5. QED
    BY <2>3, <2>4 DEF HistoryIsMonotone
<1>2. CASE Report
  BY <1>2 DEF Report, HistoryIsMonotone
<1>3. CASE UNCHANGED vars
  BY <1>3 DEF vars, HistoryIsMonotone
<1>4. QED
  BY <1>1, <1>2, <1>3 DEF Next

\* No incident more, action less or worse substitute ever makes a node less degraded or a
\* figure of the report better.
THEOREM NeverBetter == Spec => []Monotone
<1>1. Init => HistoryIsMonotone
  BY DEF Init, HistoryIsMonotone, Runs
<1>2. TypeOK /\ Reported /\ HistoryIsMonotone => Monotone
  <2> SUFFICES ASSUME TypeOK, Reported, HistoryIsMonotone PROVE Monotone
    OBVIOUS
  <2>1. "base" \in Runs /\ "worse" \in Runs
    BY DEF Runs
  <2>2. CASE report = [r \in Runs |-> NoReport]
    <3>1. DOMAIN report["base"].metrics = {}
      BY <2>1, <2>2 DEF NoReport
    <3>2. QED
      BY <3>1 DEF Monotone, HistoryIsMonotone
  <2>3. CASE ~ (report = [r \in Runs |-> NoReport])
    <3>1. /\ Len(history["base"]) = Steps
          /\ report["base"].metrics = [c \in Capabilities |-> Metrics("base", c)]
          /\ report["worse"].metrics = [c \in Capabilities |-> Metrics("worse", c)]
      BY <2>1, <2>3 DEF Reported
    <3>2. /\ DOMAIN report["base"].metrics = Capabilities
          /\ \A c \in Capabilities : /\ report["base"].metrics[c] = Metrics("base", c)
                                     /\ report["worse"].metrics[c] = Metrics("worse", c)
      BY <3>1
    <3>3. ASSUME NEW c \in DOMAIN report["base"].metrics
          PROVE  LET base  == report["base"].metrics[c]
                     worse == report["worse"].metrics[c] IN
                 /\ worse.least <= base.least /\ worse.loss >= base.loss
                 /\ worse.minutes >= base.minutes
                 /\ \A t \in base.breach : \E u \in worse.breach : u <= t
                 /\ \A t \in base.recovered : \E u \in worse.recovered : u >= t
      <4>1. c \in Capabilities
        BY <3>2
      <4>2. QED
        BY <3>1, <3>2, <4>1, MetricsCompare
    <3>4. QED
      BY <3>3 DEF Monotone, HistoryIsMonotone
  <2>4. QED
    BY <2>2, <2>3
<1>3. QED
  BY <1>1, <1>2, InitTypeOK, NextTypeOK, NextMonotone, PTL DEF Spec
-------------------------------------------------------------------------------
(* Attribution *)

\* `first` is the first step above the threshold.
FirstIsFirst ==
    \A r \in Runs, n \in Nodes : \A i \in 1 .. Len(history["base"]) :
        history[r][i][n] > Threshold => first[r][n] \in 1 .. i

\* What is impacted has a cause, and the cause of a node, impacted already or not, came
\* first.
CausesSoFar ==
    \A r \in Runs, n \in Nodes :
        LET why == cause[r][n] IN
        /\ first[r][n] > 0 => why # Unknown
        /\ why = Incident =>
              \E c \in input[r].components :
                 /\ c.target = n /\ c.start <= Minute(Len(history["base"]))
                 /\ first[r][n] > 0 => c.start <= Minute(first[r][n])
        /\ why.kind = "edge" =>
              /\ why.edge \in Dependencies(Visible(r), n)
              /\ first[r][why.edge.to] \in 1 .. Len(history["base"])
              /\ first[r][n] > 0 => first[r][why.edge.to] < first[r][n]

\* Damage above the threshold that is propagated comes from a node impacted earlier.
LEMMA DominantCameFirst ==
    ASSUME TypeOK, FirstIsFirst, NEW r \in Runs, NEW n \in Nodes,
           NEW k \in 1 .. Len(history["base"]) + 1, Propagated(r, n, k) > Threshold
    PROVE  /\ Dominant(r, n, k) \in Dependencies(Visible(r), n)
           /\ first[r][Dominant(r, n, k).to] \in 1 .. k - 1
<1> DEFINE e == Dominant(r, n, k)
<1>1. Threshold \in Nat /\ Len(history["base"]) \in Nat
  BY PropagationAssumption, RunFacts DEF Fractions
<1>2. Propagated(r, n, k) \in Nat
  BY DegradationType DEF Fractions
<1>3. e \in Dependencies(Visible(r), n) /\ Impact(r, e, k) = Propagated(r, n, k)
  BY <1>1, <1>2, DominantType
<1>4. e \in Edges
  BY <1>3, RunFacts DEF Dependencies
<1> HIDE DEF e
<1>5. Impact(r, e, k) <= Delayed(r, e, k) /\ Delayed(r, e, k) \in Nat
  BY <1>4, ImpactType, DelayedType DEF Fractions
<1>6. Delayed(r, e, k) > Threshold
  BY <1>1, <1>2, <1>3, <1>5
<1>7. PICK i \in 1 .. k - 1 : Delayed(r, e, k) = history[r][i][e.to]
  BY <1>1, <1>4, <1>5, <1>6, DelayedType
<1>8. i \in 1 .. Len(history["base"]) /\ e.to \in Nodes
  BY <1>1, <1>4, EdgeFacts
<1>9. first[r][e.to] \in 1 .. i
  BY <1>6, <1>7, <1>8 DEF FirstIsFirst
<1>10. QED
  BY <1>1, <1>3, <1>9 DEF e

\* Damage above the threshold that hits directly comes from a component that has begun.
LEMMA IncidentCameFirst ==
    ASSUME TypeOK, NEW r \in Runs, NEW n \in Nodes,
           NEW k \in 1 .. Len(history["base"]) + 1, Direct(r, n, k) > 0
    PROVE  \E c \in input[r].components : c.target = n /\ c.start <= Minute(k)
<1>1. Direct(r, n, k) \in {DirectOf(c, Minute(k)) :
                              c \in {d \in input[r].components : d.target = n}}
  BY DegradationType, MostType DEF Direct
<1>2. PICK c \in input[r].components : c.target = n /\ Direct(r, n, k) = DirectOf(c, Minute(k))
  BY <1>1
<1>3. c \in Components /\ Minute(k) \in Nat
  BY RunFacts, MinuteType DEF RunInputs
<1>4. QED
  BY <1>2, <1>3, DirectType

\* A step of the runs keeps first impacts first and causes before their effects.
LEMMA AdvanceCauses ==
    TypeOK /\ FirstIsFirst /\ CausesSoFar /\ Advance => FirstIsFirst' /\ CausesSoFar'
<1> SUFFICES ASSUME TypeOK, FirstIsFirst, CausesSoFar, Advance
             PROVE  FirstIsFirst' /\ CausesSoFar'
  OBVIOUS
<1> DEFINE k == Len(history["base"]) + 1
<1>1. \A r \in Runs :
        /\ k \in 1 .. Len(history["base"]) + 1 /\ k \in Nat \ {0}
        /\ Len(history["base"]) = k - 1 /\ Len(history["base"]') = k
        /\ \A i \in 1 .. k - 1 : history'[r][i] = history[r][i]
        /\ \A n \in Nodes : history'[r][k][n] = Degradation(r, n, k)
        /\ \A n \in Nodes : first'[r][n] =
             IF first[r][n] = 0 /\ Degradation(r, n, k) > Threshold THEN k ELSE first[r][n]
        /\ \A n \in Nodes : cause'[r][n] = Attribution(r, n, k)
        /\ Visible(r)' = Visible(r) /\ input' = input
  <2> TAKE r \in Runs
  <2>1. Len(history["base"]) \in Nat
    BY RunFacts
  <2>2. QED
    BY <2>1, AdvanceFacts DEF Visible
<1>2. \A r \in Runs, n \in Nodes : first[r][n] \in 0 .. k - 1
  BY <1>1 DEF TypeOK
<1>3. \A r \in Runs, n \in Nodes :
        /\ Threshold \in Nat
        /\ Direct(r, n, k) \in Nat /\ Propagated(r, n, k) \in Nat /\ Degradation(r, n, k) \in Nat
        /\ Degradation(r, n, k) > Threshold =>
              Direct(r, n, k) > Threshold \/ Propagated(r, n, k) > Threshold
  <2> TAKE r \in Runs, n \in Nodes
  <2>1. Threshold \in Nat
    BY PropagationAssumption DEF Fractions
  <2>2. /\ Direct(r, n, k) \in Nat /\ Propagated(r, n, k) \in Nat /\ Raw(r, n, k) \in Nat
        /\ Degradation(r, n, k) \in Nat
        /\ Degradation(r, n, k) <= Raw(r, n, k)
        /\ Raw(r, n, k) = Direct(r, n, k) \/ Raw(r, n, k) = Propagated(r, n, k)
    BY <1>1, DegradationType DEF Fractions
  <2>3. QED
    BY <2>1, <2>2
<1>4. FirstIsFirst'
  <2> SUFFICES ASSUME NEW r \in Runs, NEW n \in Nodes, NEW i \in 1 .. k,
                      history'[r][i][n] > Threshold
               PROVE  first'[r][n] \in 1 .. i
    BY <1>1 DEF FirstIsFirst
  <2>1. CASE i = k
    BY <1>1, <1>2, <2>1
  <2>2. CASE i # k
    <3>1. i \in 1 .. k - 1
      BY <1>1, <2>2
    <3>2. first[r][n] \in 1 .. i
      BY <1>1, <3>1 DEF FirstIsFirst
    <3>3. QED
      BY <1>1, <3>2
  <2>3. QED
    BY <2>1, <2>2
<1>5. ASSUME NEW r \in Runs, NEW n \in Nodes
      PROVE  LET why == cause'[r][n] IN
             /\ first'[r][n] > 0 => why # Unknown
             /\ why = Incident =>
                  \E c \in input[r].components :
                     /\ c.target = n /\ c.start <= Minute(k)
                     /\ first'[r][n] > 0 => c.start <= Minute(first'[r][n])
             /\ why.kind = "edge" =>
                  /\ why.edge \in Dependencies(Visible(r), n)
                  /\ first'[r][why.edge.to] \in 1 .. k
                  /\ first'[r][n] > 0 => first'[r][why.edge.to] < first'[r][n]
  <2>1. /\ cause'[r][n] = Attribution(r, n, k)
        /\ first'[r][n] = first[r][n] \/ (first[r][n] = 0 /\ first'[r][n] = k)
        /\ first'[r][n] # first[r][n] => Degradation(r, n, k) > Threshold
        /\ first[r][n] \in 0 .. k - 1 /\ k \in Nat \ {0}
    BY <1>1, <1>2
  <2>2. \A m \in Nodes : first[r][m] \in 1 .. k - 1 => first'[r][m] = first[r][m]
    BY <1>1, <1>2
  <2>3. CASE cause[r][n] # Unknown
    <3>1. cause'[r][n] = cause[r][n]
      BY <2>1, <2>3 DEF Attribution
    <3>2. cause[r][n] = Incident =>
            \E c \in input[r].components :
               /\ c.target = n /\ c.start <= Minute(k)
               /\ first'[r][n] > 0 => c.start <= Minute(first'[r][n])
      <4> HAVE cause[r][n] = Incident
      <4>1. PICK c \in input[r].components :
               /\ c.target = n /\ c.start <= Minute(Len(history["base"]))
               /\ first[r][n] > 0 => c.start <= Minute(first[r][n])
        BY DEF CausesSoFar
      <4>2. c.start \in Nat
        BY RunFacts, PropagationAssumption DEF RunInputs
      <4>3. c.start <= Minute(k - 1)
        BY <1>1, <4>1
      <4>4. Minute(k) = Minute(k - 1) + Step /\ Minute(k) \in Int /\ Minute(k - 1) \in Int
            /\ Step \in Nat
        BY <1>1, PropagationAssumption DEF Minute
      <4>5. c.start <= Minute(k)
        BY <4>2, <4>3, <4>4
      <4>6. QED
        BY <2>1, <4>1, <4>5
    <3>3. cause[r][n].kind = "edge" =>
             /\ cause[r][n].edge \in Dependencies(Visible(r), n)
             /\ first'[r][cause[r][n].edge.to] \in 1 .. k
             /\ first'[r][n] > 0 => first'[r][cause[r][n].edge.to] < first'[r][n]
      <4> HAVE cause[r][n].kind = "edge"
      <4> DEFINE m == cause[r][n].edge.to
      <4>1. /\ cause[r][n].edge \in Dependencies(Visible(r), n)
            /\ first[r][m] \in 1 .. k - 1
            /\ first[r][n] > 0 => first[r][m] < first[r][n]
        BY <1>1 DEF CausesSoFar
      <4>2. m \in Nodes
        BY <4>1, RunFacts, EdgeFacts DEF Dependencies
      <4> HIDE DEF m
      <4>3. first'[r][m] = first[r][m]
        BY <2>2, <4>1, <4>2
      <4>4. QED
        BY <2>1, <4>1, <4>3 DEF m
    <3>4. QED
      BY <2>3, <3>1, <3>2, <3>3
  <2>4. CASE cause[r][n] = Unknown
    <3>1. first[r][n] = 0
      BY <2>1, <2>4 DEF CausesSoFar
    <3>2. first'[r][n] \in {0, k}
      BY <2>1, <3>1
    <3>3. CASE Direct(r, n, k) > Threshold
      <4>1. cause'[r][n] = Incident
        <5>1. ~ (Direct(r, n, k) <= Threshold)
          BY <1>3, <3>3
        <5>2. QED
          BY <2>1, <2>4, <3>3, <5>1 DEF Attribution
      <4>2. \E c \in input[r].components : c.target = n /\ c.start <= Minute(k)
        <5>1. Direct(r, n, k) > 0
          BY <1>3, <3>3
        <5>2. QED
          BY <1>1, <5>1, IncidentCameFirst
      <4>3. Incident # Unknown /\ Incident.kind # "edge"
        BY DEF Incident, Unknown
      <4>4. QED
        BY <2>1, <3>2, <4>1, <4>2, <4>3
    <3>4. CASE Direct(r, n, k) <= Threshold /\ Propagated(r, n, k) > Threshold
      <4> DEFINE e == Dominant(r, n, k)
                 why == [kind |-> "edge", edge |-> e]
      <4>1. cause'[r][n] = why
        <5>1. ~ (Direct(r, n, k) > Threshold)
          BY <1>3, <3>4
        <5>2. QED
          BY <2>1, <2>4, <3>4, <5>1 DEF Attribution
      <4>2. e \in Dependencies(Visible(r), n) /\ first[r][e.to] \in 1 .. k - 1
        BY <1>1, <3>4, DominantCameFirst
      <4>3. e.to \in Nodes
        BY <4>2, RunFacts, EdgeFacts DEF Dependencies
      <4> HIDE DEF e
      <4>4. first'[r][e.to] = first[r][e.to]
        BY <2>2, <4>2, <4>3
      <4>5. why # Unknown /\ why # Incident /\ why.edge = e
        BY DEF Unknown, Incident
      <4> HIDE DEF why
      <4>6. QED
        BY <2>1, <3>2, <4>1, <4>2, <4>4, <4>5
    <3>5. CASE ~ (Direct(r, n, k) > Threshold) /\ ~ (Propagated(r, n, k) > Threshold)
      <4>1. cause'[r][n] = Unknown
        BY <1>3, <2>1, <2>4, <3>5 DEF Attribution
      <4>2. first'[r][n] = 0
        BY <1>3, <2>1, <3>1, <3>5
      <4>3. Unknown # Incident /\ Unknown.kind # "edge"
        BY DEF Unknown, Incident
      <4>4. QED
        BY <4>1, <4>2, <4>3
    <3>6. Direct(r, n, k) > Threshold \/ Direct(r, n, k) <= Threshold
      BY <1>3
    <3>7. QED
      BY <3>3, <3>4, <3>5, <3>6, Zenon
  <2>5. QED
    BY <2>3, <2>4
<1>6. CausesSoFar'
  <2>1. \A r \in Runs : /\ Visible(r)' = Visible(r) /\ input' = input
                        /\ Len(history["base"]') = k
    BY <1>1
  <2>2. \A i : Minute(i)' = Minute(i)
    BY DEF Minute
  <2> HIDE DEF k
  <2>3. ASSUME NEW r \in Runs, NEW n \in Nodes
        PROVE  LET why == cause'[r][n] IN
               /\ first'[r][n] > 0 => why # Unknown
               /\ why = Incident =>
                    \E c \in input'[r].components :
                       /\ c.target = n /\ c.start <= Minute(Len(history["base"]'))
                       /\ first'[r][n] > 0 => c.start <= Minute(first'[r][n])
               /\ why.kind = "edge" =>
                    /\ why.edge \in Dependencies(Visible(r)', n)
                    /\ first'[r][why.edge.to] \in 1 .. Len(history["base"]')
                    /\ first'[r][n] > 0 => first'[r][why.edge.to] < first'[r][n]
    BY <1>5, <2>1
  <2>4. QED
    BY <2>2, <2>3 DEF CausesSoFar, Dependencies, Unknown, Incident
<1>7. QED
  BY <1>4, <1>6

\* Every impacted node has a cause that came first.
THEOREM CausesAreFirst == Spec => []CausesComeFirst
<1>1. Init => FirstIsFirst /\ CausesSoFar
  BY DEF Init, FirstIsFirst, CausesSoFar, Unknown, Incident, Runs
<1>2. TypeOK /\ FirstIsFirst /\ CausesSoFar /\ [Next]_vars => FirstIsFirst' /\ CausesSoFar'
  <2> SUFFICES ASSUME TypeOK, FirstIsFirst, CausesSoFar, [Next]_vars
               PROVE  FirstIsFirst' /\ CausesSoFar'
    OBVIOUS
  <2>1. CASE Advance
    BY <2>1, AdvanceCauses
  <2>2. CASE UNCHANGED <<net, input, history, first, cause>>
    <3>1. FirstIsFirst'
      BY <2>2 DEF FirstIsFirst
    <3>2. \A r \in Runs : Visible(r)' = Visible(r)
      BY <2>2 DEF Visible
    <3>3. /\ cause' = cause /\ first' = first /\ input' = input
          /\ history["base"]' = history["base"]
      BY <2>2
    <3>4. CausesSoFar'
      BY <3>2, <3>3 DEF CausesSoFar, Minute
    <3>5. QED
      BY <3>1, <3>4
  <2>3. QED
    BY <2>1, <2>2 DEF Next, Report, vars
<1>3. TypeOK /\ CausesSoFar => CausesComeFirst
  <2> SUFFICES ASSUME TypeOK, CausesSoFar, NEW r \in Runs, NEW n \in Nodes, first[r][n] > 0
               PROVE  LET why == cause[r][n] IN
                      \/ /\ why.kind = "incident"
                         /\ \E c \in input[r].components :
                               c.target = n /\ c.start <= Minute(first[r][n])
                      \/ /\ why.kind = "edge"
                         /\ why.edge \in Dependencies(Visible(r), n)
                         /\ first[r][why.edge.to] \in 1 .. first[r][n] - 1
    BY DEF CausesComeFirst
  <2>1. cause[r][n] \in Causes /\ first[r][n] \in Nat /\ Len(history["base"]) \in Nat
    BY RunFacts DEF TypeOK
  <2>2. cause[r][n] # Unknown
    BY DEF CausesSoFar
  <2>3. cause[r][n] = Incident \/ cause[r][n].kind = "edge"
    BY <2>1, <2>2 DEF Causes, Incident, Unknown
  <2>4. CASE cause[r][n] = Incident
    BY <2>4 DEF CausesSoFar, Incident
  <2>5. CASE cause[r][n].kind = "edge"
    <3>1. /\ cause[r][n].edge \in Dependencies(Visible(r), n)
          /\ first[r][cause[r][n].edge.to] \in 1 .. Len(history["base"])
          /\ first[r][cause[r][n].edge.to] < first[r][n]
      BY <2>5 DEF CausesSoFar
    <3>2. QED
      BY <2>1, <2>5, <3>1
  <2>6. QED
    BY <2>3, <2>4, <2>5
<1>4. QED
  BY <1>1, <1>2, <1>3, InitTypeOK, NextTypeOK, PTL DEF Spec
-------------------------------------------------------------------------------
(* Distance *)

\* Dividing, rounded down.
LEMMA DivBetween ==
    ASSUME NEW x \in Int, NEW u \in Nat \ {0}
    PROVE  /\ x \div u \in Int
           /\ (x \div u) * u <= x /\ x < (x \div u + 1) * u
BY Z3

\* What lies between two multiples has a quotient.
LEMMA DivUnique ==
    ASSUME NEW x \in Int, NEW u \in Nat \ {0}, NEW q \in Int, q * u <= x, x < (q + 1) * u
    PROVE  x \div u = q
BY Z3

\* A damage that took an edge left its source exactly as many steps ago as the edge takes.
LEMMA DelayIsHops ==
    ASSUME NEW e \in Edges, NEW k \in Nat \ {0}
    PROVE  LET source == (Minute(k) - e.lag) \div Step + 1 IN
           /\ Hops(e) \in Nat \ {0} /\ source \in Int
           /\ source < k => source = k - Hops(e)
           /\ source >= k => k - 1 = k - Hops(e)
<1> DEFINE source == (Minute(k) - e.lag) \div Step + 1
           h      == (e.lag + Step - 1) \div Step
           x      == Minute(k) - e.lag
           q      == x \div Step
<1>1. e.lag \in Nat /\ Step \in Nat \ {0}
  BY EdgeFacts, PropagationAssumption
<1>2. Minute(k) \in Nat /\ Minute(k) = (k - 1) * Step
  BY MinuteType DEF Minute
<1>3. x \in Int
  BY <1>1, <1>2
<1>4. q \in Int /\ q * Step <= x /\ x < (q + 1) * Step
  <2> HIDE DEF x
  <2>1. QED
    BY <1>1, <1>3, DivBetween
<1>5. h = k - 1 - q
  <2> DEFINE p == k - 1 - q
             y == e.lag + Step - 1
  <2>1. p \in Int /\ y \in Int
    BY <1>1, <1>4
  <2>2. p * Step = (k - 1) * Step - q * Step /\ (p + 1) * Step = p * Step + Step
        /\ (q + 1) * Step = q * Step + Step
    BY <1>1, <1>4
  <2>3. /\ p * Step \in Int /\ (k - 1) * Step \in Int /\ q * Step \in Int
    BY <1>1, <1>4, <2>1
  <2>4. p * Step <= y /\ y < (p + 1) * Step
    <3> HIDE DEF p, q
    <3>1. QED
      BY <1>1, <1>2, <1>4, <2>2, <2>3
  <2> HIDE DEF p, y
  <2>5. y \div Step = p
    BY <1>1, <2>1, <2>4, DivUnique
  <2>6. QED
    BY <2>5 DEF p, y
<1>6. source = q + 1
  OBVIOUS
<1>7. h \in Int /\ Max({1, h}) = (IF h >= 1 THEN h ELSE 1)
  <2>1. h \in Int
    BY <1>4, <1>5
  <2> HIDE DEF h
  <2> DEFINE b == IF h >= 1 THEN h ELSE 1
  <2>2. b \in Int /\ \A m \in {1, h} : m <= b
    BY <2>1
  <2>3. Max({1, h}) \in {1, h} /\ \A m \in {1, h} : m <= Max({1, h})
    BY <2>1, <2>2, Greatest
  <2>4. QED
    BY <2>1, <2>3
<1>8. Hops(e) = Max({1, h})
  BY DEF Hops
<1> HIDE DEF source, q, h
<1>9. QED
  BY <1>4, <1>5, <1>6, <1>7, <1>8 DEF source

\* Damage at a step has a source: a component that is not over for its node, or a node
\* that was damaged as many steps ago as an edge between them takes.
HasSource(r, n, k) ==
    \/ \E c \in input[r].components :
          /\ c.target = n /\ c.start <= Minute(k)
          /\ Minute(k) < c.end + Recovery[c.target]
    \/ \E e \in Dependencies(Visible(r), n) :
          k - Hops(e) \in 1 .. k - 1 /\ history[r][k - Hops(e)][e.to] > 0

DamageHasSource ==
    \A r \in Runs, n \in Nodes : \A k \in 1 .. Len(history["base"]) :
        history[r][k][n] > 0 => HasSource(r, n, k)

\* What is degraded at a step has a source of its own or earlier damage of a dependency.
LEMMA DegradationHasSource ==
    ASSUME TypeOK, NEW r \in Runs, NEW n \in Nodes,
           NEW k \in 1 .. Len(history["base"]) + 1, Degradation(r, n, k) > 0
    PROVE  HasSource(r, n, k)
<1>1. k \in Nat \ {0} /\ Minute(k) \in Nat /\ Len(history["base"]) \in Nat
  BY RunFacts, MinuteType
<1>2. /\ Direct(r, n, k) \in Nat /\ Propagated(r, n, k) \in Nat /\ Raw(r, n, k) \in Nat
      /\ Degradation(r, n, k) \in Nat /\ Degradation(r, n, k) <= Raw(r, n, k)
      /\ Raw(r, n, k) = Direct(r, n, k) \/ Raw(r, n, k) = Propagated(r, n, k)
  BY DegradationType DEF Fractions
<1>3. CASE Direct(r, n, k) > 0
  <2>1. Direct(r, n, k)
          \in {DirectOf(c, Minute(k)) : c \in {d \in input[r].components : d.target = n}}
    BY <1>3, DegradationType, MostType DEF Direct
  <2>2. PICK c \in input[r].components : c.target = n /\ Direct(r, n, k) = DirectOf(c, Minute(k))
    BY <2>1
  <2>3. c \in Components
    BY RunFacts DEF RunInputs
  <2>4. c.start <= Minute(k) /\ Minute(k) < c.end + Recovery[c.target]
    BY <1>1, <1>3, <2>2, <2>3, DirectType
  <2>5. QED
    BY <2>2, <2>4 DEF HasSource
<1>4. CASE Propagated(r, n, k) > 0
  <2>1. PICK e \in Dependencies(Visible(r), n) : Impact(r, e, k) = Propagated(r, n, k)
    BY <1>4, DominantType
  <2>2. e \in Edges
    BY RunFacts DEF Dependencies
  <2>3. Impact(r, e, k) <= Delayed(r, e, k) /\ Delayed(r, e, k) \in Nat
    BY <2>2, ImpactType, DelayedType DEF Fractions
  <2>4. Delayed(r, e, k) > 0
    BY <1>2, <1>4, <2>1, <2>3
  <2> DEFINE source == (Minute(k) - e.lag) \div Step + 1
             back   == k - Hops(e)
             last   == k - 1
  <2>5. /\ Hops(e) \in Nat \ {0} /\ source \in Int
        /\ source < k => source = back
        /\ source >= k => last = back
    BY <1>1, <2>2, DelayIsHops
  <2>6. back \in 1 .. k - 1 /\ Delayed(r, e, k) = history[r][back][e.to]
    <3>1. CASE source < 1
      <4>1. Delayed(r, e, k) = 0
        BY <1>1, <2>5, <3>1 DEF Delayed
      <4>2. QED
        BY <2>4, <4>1
    <3>2. CASE source \in 1 .. k - 1
      <4>1. Delayed(r, e, k) = history[r][source][e.to]
        BY <1>1, <2>5, <3>2 DEF Delayed
      <4>2. source = back
        BY <1>1, <2>5, <3>2
      <4> HIDE DEF source, back
      <4>3. QED
        BY <3>2, <4>1, <4>2
    <3>3. CASE source >= 1 /\ source >= k
      <4>1. Delayed(r, e, k) = IF k = 1 THEN 0 ELSE history[r][last][e.to]
        BY <1>1, <2>5, <3>3 DEF Delayed
      <4>2. k # 1
        BY <2>4, <4>1
      <4>3. last = back /\ last \in 1 .. k - 1
        BY <1>1, <2>5, <3>3, <4>2
      <4> HIDE DEF last, back
      <4>4. QED
        BY <4>1, <4>2, <4>3
    <3>4. QED
      BY <1>1, <2>5, <3>1, <3>2, <3>3
  <2>7. QED
    BY <2>4, <2>6 DEF HasSource
<1>5. QED
  BY <1>2, <1>3, <1>4

\* Every step keeps damage attached to a source.
LEMMA NextHasSource == TypeOK /\ DamageHasSource /\ [Next]_vars => DamageHasSource'
<1> SUFFICES ASSUME TypeOK, DamageHasSource, [Next]_vars PROVE DamageHasSource'
  OBVIOUS
<1>1. CASE Advance
  <2> DEFINE k == Len(history["base"]) + 1
  <2>1. \A r \in Runs :
          /\ k \in 1 .. Len(history["base"]) + 1 /\ k \in Nat \ {0}
          /\ Len(history["base"]) = k - 1 /\ Len(history["base"]') = k
          /\ \A i \in 1 .. k - 1 : history'[r][i] = history[r][i]
          /\ \A n \in Nodes : history'[r][k][n] = Degradation(r, n, k)
          /\ Visible(r)' = Visible(r) /\ input' = input
    <3> TAKE r \in Runs
    <3>1. Len(history["base"]) \in Nat
      BY RunFacts
    <3>2. QED
      BY <1>1, <3>1, AdvanceFacts DEF Visible
  <2>2. ASSUME NEW r \in Runs, NEW n \in Nodes, NEW i \in 1 .. k, HasSource(r, n, i)
        PROVE  HasSource(r, n, i)'
    <3>1. \A j \in 1 .. i - 1 : history'[r][j] = history[r][j]
      BY <2>1
    <3>2. QED
      BY <2>1, <2>2, <3>1 DEF HasSource
  <2>3. ASSUME NEW r \in Runs, NEW n \in Nodes, NEW i \in 1 .. k, history'[r][i][n] > 0
        PROVE  HasSource(r, n, i)
    <3>1. CASE i = k
      BY <2>1, <2>3, <3>1, DegradationHasSource
    <3>2. CASE i # k
      <4>1. i \in 1 .. k - 1
        BY <2>1, <3>2
      <4>2. QED
        BY <2>1, <2>3, <4>1 DEF DamageHasSource
    <3>3. QED
      BY <3>1, <3>2
  <2>4. QED
    BY <2>1, <2>2, <2>3 DEF DamageHasSource
<1>2. CASE UNCHANGED <<net, input, history, first, cause>>
  BY <1>2 DEF DamageHasSource, HasSource, Visible
<1>3. QED
  BY <1>1, <1>2 DEF Next, Report, vars

\* A function of the naturals up to a bound, each value made from the one before.
Iteration(g, V, start, step, D) ==
    g \in [0 .. D -> V] /\ g[0] = start /\ \A d \in 1 .. D : g[d] = step[g[d - 1]]

\* Such a function exists, with the type of its start and its step: by induction over the
\* bound.
LEMMA Iterates ==
    ASSUME NEW V, NEW start \in V, NEW step \in [V -> V], NEW D \in Nat
    PROVE  \E g : Iteration(g, V, start, step, D)
<1> DEFINE Iterate(g, b) == g[0] = start /\ \A d \in 1 .. b : g[d] = step[g[d - 1]]
           missing == {b \in Nat : ~ \E g \in [0 .. b -> V] : Iterate(g, b)}
<1>1. ASSUME missing # {} PROVE FALSE
  <2>1. PICK b \in missing : \A m \in missing : b <= m
    BY <1>1, Least
  <2>2. b \in Nat
    OBVIOUS
  <2>3. b # 0
    <3> SUFFICES ASSUME b = 0 PROVE FALSE
      OBVIOUS
    <3> DEFINE g == [d \in 0 .. b |-> start]
    <3>1. g \in [0 .. b -> V] /\ Iterate(g, b)
      OBVIOUS
    <3>2. QED
      BY <2>1, <3>1
  <2>4. b - 1 \in Nat /\ b - 1 \notin missing
    <3>1. b - 1 \in Nat /\ ~ (b <= b - 1)
      BY <2>2, <2>3
    <3> HIDE DEF missing
    <3>2. QED
      BY <2>1, <3>1
  <2>5. PICK g \in [0 .. b - 1 -> V] : Iterate(g, b - 1)
    BY <2>4
  <2> DEFINE h == [d \in 0 .. b |-> IF d = b THEN step[g[b - 1]] ELSE g[d]]
  <2>6. h \in [0 .. b -> V]
    <3>1. \A d \in 0 .. b : d # b => d \in 0 .. b - 1
      BY <2>2
    <3>2. b - 1 \in 0 .. b - 1
      BY <2>4
    <3>3. QED
      BY <3>1, <3>2
  <2>7. Iterate(h, b)
    <3>1. h[0] = start
      BY <2>2, <2>3, <2>5
    <3>2. ASSUME NEW d \in 1 .. b PROVE h[d] = step[h[d - 1]]
      <4>1. d - 1 \in 0 .. b /\ d - 1 # b /\ d \in 0 .. b
        BY <2>2
      <4>2. h[d - 1] = g[d - 1]
        BY <4>1
      <4>3. CASE d = b
        BY <4>1, <4>2, <4>3
      <4>4. CASE d # b
        <5>1. d \in 1 .. b - 1
          BY <2>2, <4>4
        <5>2. g[d] = step[g[d - 1]]
          BY <2>5, <5>1
        <5>3. QED
          BY <4>1, <4>2, <4>4, <5>2
      <4>5. QED
        BY <4>3, <4>4
    <3>3. QED
      BY <3>1, <3>2
  <2>8. QED
    BY <2>1, <2>6, <2>7
<1>2. D \notin missing
  BY <1>1
<1>3. QED
  BY <1>2 DEF Iteration

\* The nodes that depend on targets, in rounds.
LEMMA DependentsRounds ==
    ASSUME NEW edges \in SUBSET Edges, NEW targets \in SUBSET Nodes
    PROVE  \E within :
              /\ within[0] = targets
              /\ \A d \in 1 .. Cardinality(Nodes) :
                    within[d] = within[d - 1] \cup
                                  {e.from : e \in {f \in edges : f.to \in within[d - 1]}}
              /\ Dependents(edges, targets) = within[Cardinality(Nodes)]
<1> DEFINE N    == Cardinality(Nodes)
           V    == SUBSET Nodes
           step == [S \in V |-> S \cup {e.from : e \in {f \in edges : f.to \in S}}]
           Rounds(w) == w = [d \in 0 .. N |->
                               IF d = 0 THEN targets
                               ELSE w[d - 1] \cup {e.from : e \in {f \in edges : f.to \in w[d - 1]}}]
<1>1. N \in Nat
  BY GraphAssumption, FS_CardinalityType
<1>2. step \in [V -> V] /\ targets \in V
  BY EdgeFacts
<1>3. \E w : Iteration(w, V, targets, step, N)
  <2> HIDE DEF step, N, V
  <2>1. QED
    BY <1>1, <1>2, Iterates
<1>4. PICK w \in [0 .. N -> V] : w[0] = targets /\ \A d \in 1 .. N : w[d] = step[w[d - 1]]
  BY <1>3 DEF Iteration
<1>5. \A d \in 0 .. N : d # 0 => d \in 1 .. N /\ d - 1 \in 0 .. N
  BY <1>1
<1>6. \A d \in 1 .. N : w[d - 1] \in SUBSET Nodes
  BY <1>1
<1>7. \A d \in 0 .. N : w[d] = IF d = 0 THEN targets
         ELSE w[d - 1] \cup {e.from : e \in {f \in edges : f.to \in w[d - 1]}}
  BY <1>4, <1>5, <1>6
<1>8. Rounds(w)
  BY <1>7
<1> DEFINE within == CHOOSE g : Rounds(g)
<1>9. Rounds(within)
  BY <1>8
<1>10. Dependents(edges, targets) = within[N]
  BY DEF Dependents
<1> HIDE DEF within
<1>11. \A d \in 0 .. N : within[d] = IF d = 0 THEN targets
         ELSE within[d - 1] \cup {e.from : e \in {f \in edges : f.to \in within[d - 1]}}
  BY <1>9
<1>12. \A d \in 1 .. N : d \in 0 .. N /\ d # 0
  BY <1>1
<1>13. within[0] = targets
  <2>1. 0 \in 0 .. N
    BY <1>1
  <2> HIDE DEF N
  <2>2. QED
    BY <1>11, <2>1
<1>14. QED
  BY <1>10, <1>11, <1>12, <1>13

\* The steps at which a component strikes a node, and one round of the distances.
Strikes(r, n) ==
    {k \in 1 .. Steps : \E c \in input[r].components : c.target = n /\ c.start <= Minute(k)}

Ways(r, n, closer) ==
    {Steps + 1} \cup Strikes(r, n)
      \cup {Hops(e) + closer[e.to] : e \in Dependencies(Visible(r), n)}

\* A round of the distances yields the least of naturals.
LEMMA WaysType ==
    ASSUME TypeOK, NEW r \in Runs, NEW n \in Nodes, NEW closer \in [Nodes -> Nat]
    PROVE  /\ Min(Ways(r, n, closer)) \in Nat
           /\ \A k \in Strikes(r, n) : Min(Ways(r, n, closer)) <= k
           /\ \A e \in Dependencies(Visible(r), n) :
                 Min(Ways(r, n, closer)) <= Hops(e) + closer[e.to]
<1>1. Steps \in Nat
  BY PropagationAssumption
<1>2. \A e \in Dependencies(Visible(r), n) : Hops(e) + closer[e.to] \in Nat
  <2> TAKE e \in Dependencies(Visible(r), n)
  <2>1. e \in Edges /\ e.to \in Nodes
    BY RunFacts, EdgeFacts DEF Dependencies
  <2>2. Hops(e) \in Nat /\ closer[e.to] \in Nat
    BY <2>1, DelayIsHops
  <2>3. QED
    BY <2>2
<1>3. Ways(r, n, closer) \subseteq Nat /\ Ways(r, n, closer) # {}
  <2>1. {Hops(e) + closer[e.to] : e \in Dependencies(Visible(r), n)} \subseteq Nat
    BY <1>2
  <2>2. Strikes(r, n) \subseteq Nat
    BY DEF Strikes
  <2>3. QED
    BY <1>1, <2>1, <2>2 DEF Ways
<1>4. /\ Min(Ways(r, n, closer)) \in Ways(r, n, closer)
      /\ \A k \in Ways(r, n, closer) : Min(Ways(r, n, closer)) <= k
  BY <1>3, MinIsLeast
<1>5. /\ \A k \in Strikes(r, n) : k \in Ways(r, n, closer)
      /\ \A e \in Dependencies(Visible(r), n) : Hops(e) + closer[e.to] \in Ways(r, n, closer)
  BY DEF Ways
<1>6. QED
  BY <1>3, <1>4, <1>5

\* Arrival, in rounds.
LEMMA ArrivalRounds ==
    ASSUME TypeOK, NEW r \in Runs
    PROVE  \E a :
              /\ \A d \in 0 .. Cardinality(Nodes), n \in Nodes :
                    /\ a[d][n] \in Nat
                    /\ \A k \in Strikes(r, n) : a[d][n] <= k
              /\ \A d \in 1 .. Cardinality(Nodes), n \in Nodes :
                    \A e \in Dependencies(Visible(r), n) : a[d][n] <= Hops(e) + a[d - 1][e.to]
              /\ Arrival(r) = a[Cardinality(Nodes)]
<1> DEFINE N    == Cardinality(Nodes)
           V    == [Nodes -> Nat]
           far  == [n \in Nodes |-> Steps + 1]
           step == [closer \in V |-> [n \in Nodes |-> Min(Ways(r, n, closer))]]
           Rounds(a) == a = [d \in 0 .. N |->
              LET closer == IF d = 0 THEN [n \in Nodes |-> Steps + 1] ELSE a[d - 1]
              IN  [n \in Nodes |->
                     Min({Steps + 1}
                           \cup {k \in 1 .. Steps : \E c \in input[r].components :
                                                       c.target = n /\ c.start <= Minute(k)}
                           \cup {Hops(e) + closer[e.to] : e \in Dependencies(Visible(r), n)})]]
<1>1. N \in Nat /\ Steps \in Nat
  BY GraphAssumption, FS_CardinalityType, PropagationAssumption
<1>2. \A closer \in V : [n \in Nodes |-> Min(Ways(r, n, closer))] \in V
  BY WaysType
<1>3. step \in [V -> V] /\ far \in V /\ step[far] \in V
  <2>1. far \in V
    BY <1>1
  <2> HIDE DEF V, far
  <2>2. QED
    BY <1>2, <2>1
<1>4. \E a : Iteration(a, V, step[far], step, N)
  <2> HIDE DEF step, N, V, far
  <2>1. QED
    BY <1>1, <1>3, Iterates
<1>5. PICK a \in [0 .. N -> V] : a[0] = step[far] /\ \A d \in 1 .. N : a[d] = step[a[d - 1]]
  BY <1>4 DEF Iteration
<1>6. \A d \in 0 .. N : a[d] = step[IF d = 0 THEN far ELSE a[d - 1]]
                        /\ (IF d = 0 THEN far ELSE a[d - 1]) \in V
  <2> TAKE d \in 0 .. N
  <2>1. d # 0 => d \in 1 .. N /\ d - 1 \in 0 .. N
    BY <1>1
  <2> HIDE DEF step, V, far
  <2>2. QED
    BY <1>3, <1>5, <2>1
<1>7. Rounds(a)
  <2>1. \A closer \in V : step[closer] = [n \in Nodes |-> Min(Ways(r, n, closer))]
    OBVIOUS
  <2>2. \A d \in 0 .. N : a[d] = [n \in Nodes |-> Min(Ways(r, n, IF d = 0 THEN far ELSE a[d - 1]))]
    <3> HIDE DEF step, V, far
    <3>1. QED
      BY <1>6, <2>1
  <2>3. a = [d \in 0 .. N |-> a[d]]
    <3> HIDE DEF step, V, N, far
    <3>1. a \in [0 .. N -> V]
      BY <1>5
    <3>2. QED
      BY <3>1, Zenon
  <2>4. QED
    BY <2>2, <2>3 DEF Ways, Strikes
<1> DEFINE arrival == CHOOSE g : Rounds(g)
<1>8. Rounds(arrival)
  BY <1>7
<1>9. Arrival(r) = arrival[N]
  BY DEF Arrival
<1> HIDE DEF arrival
<1>10. \A d \in 0 .. N : arrival[d] = [n \in Nodes |->
          Min(Ways(r, n, IF d = 0 THEN far ELSE arrival[d - 1]))]
  BY <1>8 DEF Ways, Strikes
<1> HIDE DEF far, Rounds
<1> DEFINE untyped == {d \in 0 .. N : arrival[d] \notin V}
<1>11. ASSUME untyped # {} PROVE FALSE
  <2>1. untyped \subseteq Nat
    OBVIOUS
  <2>2. PICK d \in untyped : \A m \in untyped : d <= m
    BY <1>11, <2>1, Least
  <2>3. (IF d = 0 THEN far ELSE arrival[d - 1]) \in V
    <3>1. CASE d = 0
      BY <1>3, <3>1
    <3>2. CASE d # 0
      <4>1. d - 1 \in 0 .. N /\ ~ (d <= d - 1)
        BY <1>1, <3>2
      <4>2. d - 1 \notin untyped
        <5> HIDE DEF untyped
        <5>1. QED
          BY <2>2, <4>1
      <4>3. QED
        BY <3>2, <4>1, <4>2
    <3>3. QED
      BY <3>1, <3>2
  <2>4. arrival[d] \in V
    BY <1>2, <1>10, <2>3
  <2>5. QED
    BY <2>4
<1>12. \A d \in 0 .. N : arrival[d] \in V /\ (IF d = 0 THEN far ELSE arrival[d - 1]) \in V
  <2> TAKE d \in 0 .. N
  <2>1. d # 0 => d - 1 \in 0 .. N
    BY <1>1
  <2>2. QED
    BY <1>3, <1>11, <2>1
<1>13. ASSUME NEW d \in 0 .. N, NEW n \in Nodes
       PROVE  /\ arrival[d][n] \in Nat
              /\ \A k \in Strikes(r, n) : arrival[d][n] <= k
              /\ \A e \in Dependencies(Visible(r), n) : d # 0 =>
                    arrival[d][n] <= Hops(e) + arrival[d - 1][e.to]
  <2> DEFINE closer == IF d = 0 THEN far ELSE arrival[d - 1]
  <2>1. closer \in [Nodes -> Nat] /\ arrival[d][n] = Min(Ways(r, n, closer))
    BY <1>10, <1>12
  <2>2. d # 0 => closer = arrival[d - 1]
    OBVIOUS
  <2> HIDE DEF closer
  <2>3. QED
    BY <2>1, <2>2, WaysType
<1>14. \A d \in 1 .. N : d \in 0 .. N /\ d # 0
  BY <1>1
<1>15. QED
  BY <1>9, <1>13, <1>14

\* The steps at which a node was damaged, the first of them, and the nodes damaged before.
Hit(r, n) == {k \in 1 .. Len(history["base"]) : history[r][k][n] > 0}

FirstHit(r, n) == Min(Hit(r, n))

HitBefore(r, n) == {m \in Nodes : Hit(r, m) # {} /\ FirstHit(r, m) < FirstHit(r, n)}

\* The first damage of a node is direct, or took an edge from a node damaged before; the
\* nodes damaged before that one are fewer.
LEMMA FirstHitHasSource ==
    ASSUME TypeOK, DamageHasSource, NEW r \in Runs, NEW n \in Nodes, Hit(r, n) # {}
    PROVE  /\ FirstHit(r, n) \in Hit(r, n) /\ FirstHit(r, n) \in 1 .. Steps
           /\ Cardinality(HitBefore(r, n)) \in Nat
           /\ Cardinality(HitBefore(r, n)) <= Cardinality(Nodes)
           /\ \/ \E c \in input[r].components : c.target = n /\ c.start <= Minute(FirstHit(r, n))
              \/ \E e \in Dependencies(Visible(r), n) :
                    /\ e.to \in Nodes /\ Hit(r, e.to) # {}
                    /\ Hops(e) \in Nat /\ FirstHit(r, e.to) + Hops(e) <= FirstHit(r, n)
                    /\ Cardinality(HitBefore(r, e.to)) < Cardinality(HitBefore(r, n))
<1>1. Len(history["base"]) \in Nat /\ Len(history["base"]) <= Steps /\ Steps \in Nat
  BY RunFacts, PropagationAssumption DEF TypeOK
<1>2. \A m \in Nodes : Hit(r, m) # {} =>
         /\ FirstHit(r, m) \in Hit(r, m) /\ FirstHit(r, m) \in 1 .. Len(history["base"])
         /\ \A k \in Hit(r, m) : FirstHit(r, m) <= k
  <2> TAKE m \in Nodes
  <2> HAVE Hit(r, m) # {}
  <2>1. Hit(r, m) \subseteq Nat
    BY DEF Hit
  <2>2. FirstHit(r, m) \in Hit(r, m) /\ \A k \in Hit(r, m) : FirstHit(r, m) <= k
    BY <2>1, MinIsLeast DEF FirstHit
  <2>3. QED
    BY <2>2 DEF Hit
<1>3. \A m \in Nodes : /\ IsFiniteSet(HitBefore(r, m)) /\ Cardinality(HitBefore(r, m)) \in Nat
                       /\ Cardinality(HitBefore(r, m)) <= Cardinality(Nodes)
  <2> TAKE m \in Nodes
  <2>1. HitBefore(r, m) \subseteq Nodes
    BY DEF HitBefore
  <2>2. QED
    BY <2>1, GraphAssumption, FS_Subset, FS_CardinalityType
<1> DEFINE k == FirstHit(r, n)
<1>4. k \in Hit(r, n) /\ k \in 1 .. Len(history["base"]) /\ k \in Nat
  BY <1>2
<1>5. history[r][k][n] > 0
  BY <1>4 DEF Hit
<1>6. HasSource(r, n, k)
  <2> HIDE DEF k
  <2>1. QED
    BY <1>4, <1>5 DEF DamageHasSource
<1>7. ASSUME NEW e \in Dependencies(Visible(r), n),
             k - Hops(e) \in 1 .. k - 1, history[r][k - Hops(e)][e.to] > 0
      PROVE  /\ e.to \in Nodes /\ Hit(r, e.to) # {}
             /\ Hops(e) \in Nat /\ FirstHit(r, e.to) + Hops(e) <= k
             /\ Cardinality(HitBefore(r, e.to)) < Cardinality(HitBefore(r, n))
  <2>1. e \in Edges
    BY RunFacts DEF Dependencies
  <2>2. e.to \in Nodes /\ Hops(e) \in Nat \ {0}
    BY <2>1, <1>4, EdgeFacts, DelayIsHops
  <2> DEFINE j == k - Hops(e)
             m == e.to
  <2>3. j \in Hit(r, m)
    <3>1. j \in 1 .. Len(history["base"])
      BY <1>1, <1>4, <1>7
    <3> HIDE DEF k
    <3>2. QED
      BY <1>7, <3>1 DEF Hit
  <2>4. FirstHit(r, m) <= j /\ FirstHit(r, m) \in Nat
    BY <1>2, <2>2, <2>3
  <2>5. FirstHit(r, m) + Hops(e) <= k /\ FirstHit(r, m) < k
    BY <1>4, <2>2, <2>4
  <2>6. m \in HitBefore(r, n) /\ m \notin HitBefore(r, m)
    BY <2>2, <2>3, <2>4, <2>5 DEF HitBefore
  <2>7. HitBefore(r, m) \subseteq HitBefore(r, n)
    <3> SUFFICES ASSUME NEW x \in HitBefore(r, m) PROVE x \in HitBefore(r, n)
      OBVIOUS
    <3>1. x \in Nodes /\ Hit(r, x) # {} /\ FirstHit(r, x) < FirstHit(r, m)
      BY DEF HitBefore
    <3>2. FirstHit(r, x) \in Nat
      BY <1>2, <3>1
    <3>3. FirstHit(r, x) < FirstHit(r, n)
      BY <1>4, <2>4, <2>5, <3>1, <3>2
    <3>4. QED
      BY <3>1, <3>3 DEF HitBefore
  <2>8. Cardinality(HitBefore(r, m)) < Cardinality(HitBefore(r, n))
    <3>1. HitBefore(r, m) \subseteq HitBefore(r, n) \ {m}
      BY <2>6, <2>7
    <3>2. Cardinality(HitBefore(r, n) \ {m}) = Cardinality(HitBefore(r, n)) - 1
          /\ IsFiniteSet(HitBefore(r, n) \ {m})
      BY <1>3, <2>6, FS_RemoveElement
    <3>3. Cardinality(HitBefore(r, m)) <= Cardinality(HitBefore(r, n) \ {m})
      BY <3>1, <3>2, FS_Subset
    <3>4. QED
      BY <1>3, <2>2, <3>2, <3>3
  <2>9. QED
    BY <2>2, <2>3, <2>5, <2>8
<1>8. k \in 1 .. Steps
  BY <1>1, <1>4
<1>9. QED
  BY <1>3, <1>4, <1>6, <1>7, <1>8 DEF HasSource

\* A damaged node is within the radius, and was not damaged before it could be: by
\* induction over how many nodes were damaged before it.
LEMMA DamageKeepsItsDistance == TypeOK /\ DamageHasSource => KeepsItsDistance
<1> SUFFICES ASSUME TypeOK, DamageHasSource, NEW r \in Runs
             PROVE  LET arrival == Arrival(r)
                        radius  == Dependents(Visible(r), {c.target : c \in input[r].components})
                    IN  \A n \in Nodes :
                           LET damaged == {k \in DOMAIN history[r] : history[r][k][n] > 0} IN
                           damaged # {} => n \in radius /\ arrival[n] <= Min(damaged)
  BY DEF KeepsItsDistance
<1> DEFINE N       == Cardinality(Nodes)
           targets == {c.target : c \in input[r].components}
<1>1. N \in Nat /\ Len(history["base"]) \in Nat
  BY GraphAssumption, FS_CardinalityType, RunFacts
<1>2. Visible(r) \in SUBSET Edges /\ targets \in SUBSET Nodes
  BY RunFacts, PropagationAssumption DEF RunInputs
<1>3. PICK within :
        /\ within[0] = targets
        /\ \A d \in 1 .. N : within[d] = within[d - 1]
              \cup {e.from : e \in {f \in Visible(r) : f.to \in within[d - 1]}}
        /\ Dependents(Visible(r), targets) = within[N]
  <2> HIDE DEF targets
  <2>1. QED
    BY <1>2, DependentsRounds
<1>4. PICK a :
        /\ \A d \in 0 .. N, n \in Nodes : /\ a[d][n] \in Nat
                                          /\ \A k \in Strikes(r, n) : a[d][n] <= k
        /\ \A d \in 1 .. N, n \in Nodes :
              \A e \in Dependencies(Visible(r), n) : a[d][n] <= Hops(e) + a[d - 1][e.to]
        /\ Arrival(r) = a[N]
  BY ArrivalRounds
<1> DEFINE Near(n, d) == n \in within[d] /\ a[d][n] <= FirstHit(r, n)
           Fewer(n, d) == Hit(r, n) # {} /\ Cardinality(HitBefore(r, n)) <= d
           far == {d \in 0 .. N : \E n \in Nodes : Fewer(n, d) /\ ~ Near(n, d)}
<1>5. \A d \in 0 .. N : targets \subseteq within[d]
  <2> DEFINE without == {d \in 0 .. N : ~ (targets \subseteq within[d])}
  <2>1. ASSUME without # {} PROVE FALSE
    <3>1. without \subseteq Nat
      OBVIOUS
    <3>2. PICK d \in without : \A m \in without : d <= m
      BY <2>1, <3>1, Least
    <3>3. d # 0 /\ d \in 1 .. N
      BY <1>1, <1>3
    <3>4. d - 1 \in 0 .. N /\ ~ (d <= d - 1)
      BY <1>1, <3>3
    <3>5. d - 1 \notin without
      <4> HIDE DEF without
      <4>1. QED
        BY <3>2, <3>4
    <3>6. within[d - 1] \subseteq within[d]
      BY <1>3, <3>3
    <3>7. QED
      BY <3>4, <3>5, <3>6
  <2>2. QED
    BY <2>1
<1>6. ASSUME far # {} PROVE FALSE
  <2>1. far \subseteq Nat
    OBVIOUS
  <2>2. PICK d \in far : \A m \in far : d <= m
    BY <1>6, <2>1, Least
  <2>3. PICK n \in Nodes : Fewer(n, d) /\ ~ Near(n, d)
    OBVIOUS
  <2>4. /\ FirstHit(r, n) \in 1 .. Steps
        /\ Cardinality(HitBefore(r, n)) \in Nat
        /\ \/ \E c \in input[r].components : c.target = n /\ c.start <= Minute(FirstHit(r, n))
           \/ \E e \in Dependencies(Visible(r), n) :
                 /\ e.to \in Nodes /\ Hit(r, e.to) # {}
                 /\ Hops(e) \in Nat /\ FirstHit(r, e.to) + Hops(e) <= FirstHit(r, n)
                 /\ Cardinality(HitBefore(r, e.to)) < Cardinality(HitBefore(r, n))
    BY <2>3, FirstHitHasSource
  <2>5. CASE \E c \in input[r].components : c.target = n /\ c.start <= Minute(FirstHit(r, n))
    <3>1. n \in targets /\ FirstHit(r, n) \in Strikes(r, n)
      BY <2>4, <2>5 DEF Strikes
    <3>2. n \in within[d] /\ a[d][n] <= FirstHit(r, n)
      BY <1>4, <1>5, <3>1
    <3>3. QED
      BY <2>3, <3>2
  <2>6. CASE \E e \in Dependencies(Visible(r), n) :
                /\ e.to \in Nodes /\ Hit(r, e.to) # {}
                /\ Hops(e) \in Nat /\ FirstHit(r, e.to) + Hops(e) <= FirstHit(r, n)
                /\ Cardinality(HitBefore(r, e.to)) < Cardinality(HitBefore(r, n))
    <3>1. PICK e \in Dependencies(Visible(r), n) :
                /\ e.to \in Nodes /\ Hit(r, e.to) # {}
                /\ Hops(e) \in Nat /\ FirstHit(r, e.to) + Hops(e) <= FirstHit(r, n)
                /\ Cardinality(HitBefore(r, e.to)) < Cardinality(HitBefore(r, n))
      BY <2>6
    <3>2. /\ Cardinality(HitBefore(r, e.to)) \in Nat
          /\ FirstHit(r, e.to) \in Nat
      BY <3>1, FirstHitHasSource
    <3>3. d \in 1 .. N /\ d - 1 \in 0 .. N /\ ~ (d <= d - 1)
          /\ Cardinality(HitBefore(r, e.to)) <= d - 1
      BY <1>1, <2>3, <2>4, <3>1, <3>2
    <3>4. d - 1 \notin far
      <4> HIDE DEF far
      <4>1. QED
        BY <2>2, <3>3
    <3>5. Near(e.to, d - 1)
      BY <3>1, <3>3, <3>4
    <3>6. n \in within[d]
      <4>1. e \in Visible(r) /\ e.from = n
        BY DEF Dependencies
      <4>2. QED
        BY <1>3, <3>3, <3>5, <4>1
    <3>7. a[d][n] <= FirstHit(r, n)
      <4>1. a[d][n] <= Hops(e) + a[d - 1][e.to] /\ a[d][n] \in Nat /\ a[d - 1][e.to] \in Nat
        BY <1>4, <3>1, <3>3
      <4>2. a[d - 1][e.to] <= FirstHit(r, e.to)
        BY <3>5
      <4>3. QED
        BY <2>4, <3>1, <3>2, <4>1, <4>2
    <3>8. QED
      BY <2>3, <3>6, <3>7
  <2>7. QED
    BY <2>4, <2>5, <2>6
<1>7. ASSUME NEW n \in Nodes, {k \in DOMAIN history[r] : history[r][k][n] > 0} # {}
      PROVE  n \in within[N] /\ a[N][n] <= Min({k \in DOMAIN history[r] : history[r][k][n] > 0})
  <2>1. DOMAIN history[r] = 1 .. Len(history["base"])
    BY RunFacts, LenProperties
  <2>2. {k \in DOMAIN history[r] : history[r][k][n] > 0} = Hit(r, n)
    BY <2>1 DEF Hit
  <2>3. Fewer(n, N)
    BY <1>7, <2>2, FirstHitHasSource
  <2>4. N \in 0 .. N
    BY <1>1
  <2>5. Near(n, N)
    BY <1>6, <2>3, <2>4
  <2>6. QED
    BY <2>2, <2>5 DEF FirstHit
<1>8. QED
  BY <1>3, <1>4, <1>7

\* Damage keeps to the blast radius and to the lags.
THEOREM DistanceIsKept == Spec => []KeepsItsDistance
<1>1. Init => DamageHasSource
  BY DEF Init, DamageHasSource, Runs
<1>2. QED
  BY <1>1, InitTypeOK, NextTypeOK, NextHasSource, DamageKeepsItsDistance, PTL DEF Spec
-------------------------------------------------------------------------------
(* Recovery *)

\* What a function takes on a finite set is a finite set.
LEMMA ImageIsFinite ==
    ASSUME NEW S, IsFiniteSet(S), NEW f
    PROVE  IsFiniteSet({f[x] : x \in S})
<1> DEFINE T == {f[x] : x \in S}
           g == [x \in S |-> f[x]]
<1>1. g \in [S -> T] /\ \A t \in T : \E x \in S : g[x] = t
  OBVIOUS
<1>2. g \in Surjection(S, T)
  BY <1>1 DEF Surjection
<1>3. QED
  BY <1>2, FS_Surjection

\* A finite set of naturals is bounded, so Most is its upper bound: by induction over the
\* cardinality of its subsets.
LEMMA MostOfFinite ==
    ASSUME NEW S, S \subseteq Nat, IsFiniteSet(S)
    PROVE  Most(S) \in Nat /\ \A x \in S : x <= Most(S)
<1> DEFINE Bounded(T) == \E b \in Nat : \A x \in T : x <= b
           sizes == {Cardinality(T) : T \in {U \in SUBSET S : ~ Bounded(U)}}
<1>1. \A T \in SUBSET S : IsFiniteSet(T) /\ Cardinality(T) \in Nat
  BY FS_Subset, FS_CardinalityType
<1>2. ASSUME ~ Bounded(S) PROVE FALSE
  <2>1. sizes \subseteq Nat /\ sizes # {}
    BY <1>1, <1>2
  <2>2. PICK d \in sizes : \A m \in sizes : d <= m
    BY <2>1, Least
  <2>3. PICK T \in SUBSET S : ~ Bounded(T) /\ Cardinality(T) = d
    OBVIOUS
  <2>4. T # {}
    <3> SUFFICES ASSUME T = {} PROVE FALSE
      OBVIOUS
    <3>1. 0 \in Nat /\ \A x \in T : x <= 0
      OBVIOUS
    <3>2. QED
      BY <2>3, <3>1
  <2>5. PICK x \in T : TRUE
    BY <2>4
  <2> DEFINE rest == T \ {x}
  <2>6. rest \in SUBSET S /\ Cardinality(rest) = Cardinality(T) - 1
    BY <1>1, FS_RemoveElement
  <2>7. Bounded(rest)
    <3> SUFFICES ASSUME ~ Bounded(rest) PROVE FALSE
      OBVIOUS
    <3>1. Cardinality(rest) \in sizes /\ Cardinality(T) \in Nat
      BY <1>1, <2>6
    <3> HIDE DEF sizes
    <3>2. QED
      BY <2>2, <2>3, <2>6, <3>1
  <2>8. PICK b \in Nat : \A y \in rest : y <= b
    BY <2>7
  <2>9. x \in Nat
    OBVIOUS
  <2> DEFINE bound == IF x <= b THEN b ELSE x
  <2>10. bound \in Nat /\ \A y \in T : y <= bound
    <3>1. bound \in Nat /\ b <= bound /\ x <= bound
      BY <2>9
    <3>2. ASSUME NEW y \in T PROVE y <= bound
      <4>1. y = x \/ y \in rest
        OBVIOUS
      <4>2. y \in Nat
        OBVIOUS
      <4> HIDE DEF bound, rest
      <4>3. QED
        BY <2>8, <2>9, <3>1, <4>1, <4>2
    <3>3. QED
      BY <3>1, <3>2
  <2>11. QED
    BY <2>3, <2>10
<1>3. PICK b \in Nat : \A x \in S : x <= b
  BY <1>2
<1> DEFINE T == S \cup {0}
<1>4. T \subseteq Int /\ T # {} /\ 0 \in T /\ \A x \in T : x <= b
  BY <1>3
<1>5. T \subseteq Nat /\ b \in Int
  OBVIOUS
<1>6. Max(T) \in T /\ \A x \in T : x <= Max(T)
  <2> HIDE DEF T
  <2>1. QED
    BY <1>4, <1>5, Greatest
<1>7. Most(S) = Max(T)
  BY DEF Most
<1>8. Max(T) \in Nat
  BY <1>5, <1>6
<1>9. \A x \in S : x \in T
  OBVIOUS
<1>10. QED
  <2> HIDE DEF T
  <2>1. QED
    BY <1>6, <1>7, <1>8, <1>9

\* In a graph without cycles, the end of the last component and the longest chain of lags
\* bound the damage: by induction over the nodes, in the order of their dependencies.
LEMMA DamageDiesOut == TypeOK /\ DamageHasSource => RecoversInTime
<1> SUFFICES ASSUME TypeOK, DamageHasSource, Acyclic(Arcs(net)), NEW r \in Runs
             PROVE  LET over  == Most({c.end + Recovery[c.target] : c \in input[r].components})
                        chain == (Cardinality(Nodes) - 1) * Most({Hops(e) : e \in Visible(r)})
                    IN  \A k \in DOMAIN history[r] :
                           Minute(k - chain) >= over => \A n \in Nodes : history[r][k][n] = 0
  BY DEF RecoversInTime
<1> DEFINE N    == Cardinality(Nodes)
           ends == {c.end + Recovery[c.target] : c \in input[r].components}
           hops == {Hops(e) : e \in Visible(r)}
           over == Most(ends)
           H    == Most(hops)
           L    == Len(history["base"])
<1>1. N \in Nat /\ L \in Nat /\ Step \in Nat \ {0} /\ IsFiniteSet(Nodes)
  BY GraphAssumption, FS_CardinalityType, RunFacts, PropagationAssumption
<1>2. over \in Int /\ \A c \in input[r].components : c.end + Recovery[c.target] <= over
  <2>1. IsFiniteSet(input[r].components)
    BY RunFacts, PropagationAssumption, FS_Subset DEF RunInputs
  <2>2. \A c \in input[r].components : c.end + Recovery[c.target] \in Nat
    <3> TAKE c \in input[r].components
    <3>1. c \in Components
      BY RunFacts DEF RunInputs
    <3>2. c.end \in Nat /\ Recovery[c.target] \in Nat
      BY <3>1, PropagationAssumption
    <3>3. QED
      BY <3>2
  <2>3. ends \subseteq Nat /\ IsFiniteSet(ends)
    <3>1. ends \subseteq Nat
      BY <2>2
    <3>2. IsFiniteSet(ends)
      <4> DEFINE f == [c \in input[r].components |-> c.end + Recovery[c.target]]
      <4>1. IsFiniteSet({f[c] : c \in input[r].components})
        <5> HIDE DEF f
        <5>1. QED
          BY <2>1, ImageIsFinite
      <4>2. {f[c] : c \in input[r].components} = ends
        OBVIOUS
      <4>3. QED
        BY <4>1, <4>2
    <3>3. QED
      BY <3>1, <3>2
  <2>4. over \in Nat /\ \A x \in ends : x <= over
    <3> HIDE DEF ends
    <3>1. QED
      BY <2>3, MostOfFinite
  <2>5. QED
    BY <2>4
<1>3. H \in Nat /\ \A e \in Visible(r) : Hops(e) \in Nat \ {0} /\ Hops(e) <= H
  <2>1. IsFiniteSet(Visible(r)) /\ Visible(r) \subseteq Edges
    BY RunFacts, PropagationAssumption, FS_Subset
  <2>2. \A e \in Visible(r) : Hops(e) \in Nat \ {0}
    BY <2>1, DelayIsHops
  <2>3. hops \subseteq Nat /\ IsFiniteSet(hops)
    <3> DEFINE f == [e \in Visible(r) |-> Hops(e)]
    <3>1. IsFiniteSet({f[e] : e \in Visible(r)})
      <4> HIDE DEF f
      <4>1. QED
        BY <2>1, ImageIsFinite
    <3>2. {f[e] : e \in Visible(r)} = hops
      OBVIOUS
    <3>3. QED
      BY <2>2, <3>1, <3>2
  <2>4. H \in Nat /\ \A x \in hops : x <= H
    <3> HIDE DEF hops
    <3>1. QED
      BY <2>3, MostOfFinite
  <2>5. QED
    BY <2>2, <2>4
<1> HIDE DEF over, H, L
<1> DEFINE Late(n, k, d) == history[r][k][n] > 0 => Minute(k - (d - 1) * H) < over
           Closed(K) == \A e \in Visible(r) : e.from \in K => e.to \in K
           Layer(K, d) == /\ K \in SUBSET Nodes /\ Cardinality(K) = d /\ Closed(K)
                          /\ \A n \in K, k \in 1 .. L : Late(n, k, d)
           missing == {d \in 0 .. N : ~ \E K : Layer(K, d)}
<1>4. \A x, y \in Int : x <= y => Minute(x) <= Minute(y) /\ Minute(x) \in Int /\ Minute(y) \in Int
  BY <1>1 DEF Minute
<1>5. ASSUME missing # {} PROVE FALSE
  <2>1. missing \subseteq Nat
    OBVIOUS
  <2>2. PICK d \in missing : \A m \in missing : d <= m
    BY <1>5, <2>1, Least
  <2>3. d # 0
    <3> SUFFICES ASSUME d = 0 PROVE FALSE
      OBVIOUS
    <3>1. Layer({}, 0)
      BY FS_EmptySet
    <3>2. QED
      BY <2>2, <3>1
  <2>4. d \in 1 .. N /\ d - 1 \in 0 .. N /\ ~ (d <= d - 1) /\ d - 1 \in Nat /\ d - 1 # N
    BY <1>1, <2>3
  <2>5. d - 1 \notin missing
    <3> HIDE DEF missing
    <3>1. QED
      BY <2>2, <2>4
  <2>6. PICK K : Layer(K, d - 1)
    BY <2>4, <2>5
  <2>7. K \in SUBSET Nodes /\ Nodes \ K # {}
    <3>1. K # Nodes
      BY <2>4, <2>6
    <3>2. QED
      BY <2>6, <3>1
  <2>8. PICK n \in Nodes \ K : \A m \in Nodes \ K : <<n, m>> \notin Arcs(net)
    <3>1. Nodes \ K \in (SUBSET Nodes) \ {{}}
      BY <2>7
    <3>2. QED
      BY <3>1 DEF Acyclic
  <2>9. \A e \in Visible(r) : e.from = n => e.to \in K
    <3> TAKE e \in Visible(r)
    <3> HAVE e.from = n
    <3>1. e \in net /\ e.to \in Nodes
      BY RunFacts, EdgeFacts DEF Visible
    <3>2. <<n, e.to>> \in Arcs(net)
      BY <3>1 DEF Arcs
    <3>3. QED
      BY <2>8, <3>1, <3>2
  <2> DEFINE J == K \cup {n}
  <2>10. J \in SUBSET Nodes /\ Cardinality(J) = d /\ Closed(J)
    <3>1. IsFiniteSet(K)
      BY <1>1, <2>7, FS_Subset
    <3>2. Cardinality(J) = d
      <4>1. n \notin K /\ Cardinality(K) = d - 1
        BY <2>6, <2>8
      <4>2. Cardinality(J) = Cardinality(K) + 1
        BY <3>1, <4>1, FS_AddElement
      <4>3. QED
        BY <2>4, <4>1, <4>2
    <3>3. Closed(J)
      BY <2>6, <2>9
    <3>4. QED
      BY <2>7, <3>2, <3>3
  <2>11. (d - 1) * H = (d - 2) * H + H /\ (d - 1) * H \in Nat /\ (d - 2) * H \in Int
    BY <1>3, <2>4
  <2>12. ASSUME NEW m \in K, NEW k \in 1 .. L, history[r][k][m] > 0
         PROVE  Minute(k - (d - 1) * H) < over
    <3>1. Minute(k - (d - 1 - 1) * H) < over
      BY <2>6, <2>12
    <3>2. d - 1 - 1 = d - 2
      BY <2>4
    <3>3. Minute(k - (d - 2) * H) < over
      BY <3>1, <3>2
    <3>4. /\ k - (d - 1) * H \in Int /\ k - (d - 2) * H \in Int
          /\ k - (d - 1) * H <= k - (d - 2) * H
      BY <1>1, <1>3, <2>11
    <3>5. QED
      BY <1>2, <1>4, <3>3, <3>4
  <2>13. ASSUME NEW k \in 1 .. L, history[r][k][n] > 0
         PROVE  Minute(k - (d - 1) * H) < over
    <3>1. HasSource(r, n, k)
      BY <2>13 DEF DamageHasSource, L
    <3>2. CASE \E c \in input[r].components :
                  /\ c.target = n /\ c.start <= Minute(k)
                  /\ Minute(k) < c.end + Recovery[c.target]
      <4>1. PICK c \in input[r].components : Minute(k) < c.end + Recovery[c.target]
        BY <3>2
      <4>2. c.end \in Nat /\ Recovery[c.target] \in Nat
        <5>1. c \in Components
          BY RunFacts DEF RunInputs
        <5>2. QED
          BY <5>1, PropagationAssumption
      <4>3. k \in Int /\ k - (d - 1) * H \in Int /\ k - (d - 1) * H <= k
        BY <1>1, <2>11
      <4>4. Minute(k - (d - 1) * H) <= Minute(k) /\ Minute(k) \in Int
            /\ Minute(k - (d - 1) * H) \in Int
        BY <1>4, <4>3
      <4>5. QED
        BY <1>2, <4>1, <4>2, <4>4
    <3>3. CASE \E e \in Dependencies(Visible(r), n) :
                  k - Hops(e) \in 1 .. k - 1 /\ history[r][k - Hops(e)][e.to] > 0
      <4>1. PICK e \in Dependencies(Visible(r), n) :
                  k - Hops(e) \in 1 .. k - 1 /\ history[r][k - Hops(e)][e.to] > 0
        BY <3>3
      <4>2. e \in Visible(r) /\ e.from = n
        BY DEF Dependencies
      <4>3. e.to \in K /\ Hops(e) \in Nat /\ Hops(e) <= H
        BY <1>3, <2>9, <4>2
      <4> DEFINE j == k - Hops(e)
      <4>4. j \in 1 .. L
        BY <1>1, <4>1, <4>3
      <4>5. Minute(j - (d - 1 - 1) * H) < over
        <5> HIDE DEF j
        <5>1. history[r][j][e.to] > 0
          BY <4>1 DEF j
        <5>2. QED
          BY <2>6, <4>3, <4>4, <5>1
      <4>6. d - 1 - 1 = d - 2
        BY <2>4
      <4>7. Minute(j - (d - 2) * H) < over
        BY <4>5, <4>6
      <4>8. /\ k - (d - 1) * H \in Int /\ j - (d - 2) * H \in Int
            /\ k - (d - 1) * H <= j - (d - 2) * H
        BY <1>1, <1>3, <2>11, <4>3, <4>4
      <4>9. QED
        BY <1>2, <1>4, <4>7, <4>8
    <3>4. QED
      BY <3>1, <3>2, <3>3 DEF HasSource
  <2>14. \A m \in J, k \in 1 .. L : Late(m, k, d)
    BY <2>12, <2>13
  <2>15. Layer(J, d)
    BY <2>10, <2>14
  <2>16. QED
    BY <2>2, <2>15
<1>6. PICK K : Layer(K, N)
  <2>1. N \in 0 .. N
    BY <1>1
  <2>2. QED
    BY <1>5, <2>1
<1>7. K = Nodes
  <2>1. K \subseteq Nodes /\ Cardinality(K) = Cardinality(Nodes)
    BY <1>6
  <2>2. QED
    BY <1>1, <2>1, FS_Subset
<1>8. ASSUME NEW k \in DOMAIN history[r], Minute(k - (N - 1) * H) >= over, NEW n \in Nodes
      PROVE  history[r][k][n] = 0
  <2>1. k \in 1 .. L
    BY RunFacts, LenProperties DEF L
  <2>2. history[r][k][n] \in Nat
    BY <2>1, RunFacts DEF Fractions, L
  <2>3. Late(n, k, N)
    BY <1>6, <1>7, <2>1
  <2>4. Minute(k - (N - 1) * H) \in Int
    <3>1. k - (N - 1) * H \in Int
      BY <1>1, <1>3, <2>1
    <3>2. QED
      BY <1>4, <3>1
  <2>5. ~ (history[r][k][n] > 0)
    BY <1>2, <1>8, <2>3, <2>4
  <2>6. QED
    BY <2>2, <2>5
<1>9. QED
  BY <1>8 DEF over, H

\* In a graph without cycles, everything recovers in time.
THEOREM AllRecover == Spec => []RecoversInTime
<1>1. Init => DamageHasSource
  BY DEF Init, DamageHasSource, Runs
<1>2. QED
  BY <1>1, InitTypeOK, NextTypeOK, NextHasSource, DamageDiesOut, PTL DEF Spec
-------------------------------------------------------------------------------
(* Pathways *)

\* The walks one edge longer.
Longer(r, n, found) == UNION {{Append(w, e) : e \in Onward(r, n, w)} : w \in found}

\* What holds of a walk of d edges from an affected node: it passes d + 1 different
\* affected nodes, and from each but the last an edge leads to another of them.
IsWalk(r, n, w, d) ==
    /\ w \in Seq(Edges) /\ Len(w) = d
    /\ Passed(n, w) \subseteq Affected(r) /\ Cardinality(Passed(n, w)) = d + 1
    /\ End(n, w) \in Passed(n, w)
    /\ \A m \in Passed(n, w) \ {End(n, w)} :
          \E o \in Passed(n, w) : <<m, o>> \in Arcs(Visible(r))

\* An edge a walk goes on by.
LEMMA OnwardFacts ==
    ASSUME TypeOK, NEW r \in Runs, NEW n, NEW w, NEW e \in Onward(r, n, w)
    PROVE  /\ e \in Edges /\ e.to \in Affected(r) /\ e.to \notin Passed(n, w)
           /\ <<End(n, w), e.to>> \in Arcs(Visible(r))
<1>1. e \in Visible(r) /\ e.from = End(n, w) /\ e.to \in Affected(r) \ Passed(n, w)
  BY DEF Onward, Dependencies
<1>2. <<e.from, e.to>> \in Arcs(Visible(r))
  BY <1>1 DEF Arcs
<1>3. QED
  BY <1>1, <1>2, RunFacts

\* The walks, in rounds.
LEMMA WalkRounds ==
    ASSUME TypeOK, NEW r \in Runs, NEW n
    PROVE  \E walks :
              /\ walks[0] = {<< >>}
              /\ \A d \in 1 .. MaxDepth : walks[d] = Longer(r, n, walks[d - 1])
              /\ Walks(r, n) = UNION {walks[d] : d \in 1 .. MaxDepth}
<1> DEFINE V    == SUBSET Seq(Edges)
           step == [W \in V |-> Longer(r, n, W)]
           Rounds(w) == w = [d \in 0 .. MaxDepth |->
                               IF d = 0 THEN {<< >>}
                               ELSE UNION {{Append(v, e) : e \in Onward(r, n, v)} : v \in w[d - 1]}]
<1>1. MaxDepth \in Nat
  BY PropagationAssumption
<1>2. step \in [V -> V] /\ {<< >>} \in V
  <2>1. \A W \in V : Longer(r, n, W) \in V
    <3> SUFFICES ASSUME NEW W \in V, NEW w \in W, NEW e \in Onward(r, n, w)
                 PROVE  Append(w, e) \in Seq(Edges)
      BY DEF Longer
    <3>1. w \in Seq(Edges) /\ e \in Edges
      BY OnwardFacts
    <3>2. QED
      BY <3>1
  <2>2. << >> \in Seq(Edges)
    OBVIOUS
  <2>3. QED
    BY <2>1, <2>2
<1>3. \E w : Iteration(w, V, {<< >>}, step, MaxDepth)
  <2> HIDE DEF step, V
  <2>1. QED
    BY <1>1, <1>2, Iterates
<1>4. PICK w \in [0 .. MaxDepth -> V] :
        w[0] = {<< >>} /\ \A d \in 1 .. MaxDepth : w[d] = step[w[d - 1]]
  BY <1>3 DEF Iteration
<1>5. \A d \in 0 .. MaxDepth : d # 0 => d \in 1 .. MaxDepth /\ d - 1 \in 0 .. MaxDepth
  BY <1>1
<1>6. \A d \in 1 .. MaxDepth : w[d] = Longer(r, n, w[d - 1])
  <2> TAKE d \in 1 .. MaxDepth
  <2>1. d - 1 \in 0 .. MaxDepth
    BY <1>1
  <2>2. w[d - 1] \in V
    BY <2>1
  <2>3. QED
    BY <1>4, <2>2
<1>7. \A d \in 0 .. MaxDepth : w[d] = IF d = 0 THEN {<< >>}
         ELSE UNION {{Append(v, e) : e \in Onward(r, n, v)} : v \in w[d - 1]}
  BY <1>4, <1>5, <1>6 DEF Longer
<1>8. Rounds(w)
  BY <1>7
<1> DEFINE walks == CHOOSE g : Rounds(g)
<1>9. Rounds(walks)
  BY <1>8
<1>10. Walks(r, n) = UNION {walks[d] : d \in 1 .. MaxDepth}
  BY DEF Walks
<1> HIDE DEF walks
<1>11. \A d \in 0 .. MaxDepth : walks[d] = IF d = 0 THEN {<< >>}
         ELSE UNION {{Append(v, e) : e \in Onward(r, n, v)} : v \in walks[d - 1]}
  BY <1>9
<1>12. \A d \in 1 .. MaxDepth : d \in 0 .. MaxDepth /\ d # 0
  BY <1>1
<1>13. walks[0] = {<< >>}
  <2>1. 0 \in 0 .. MaxDepth
    BY <1>1
  <2>2. QED
    BY <1>11, <2>1
<1>14. \A d \in 1 .. MaxDepth : walks[d] = Longer(r, n, walks[d - 1])
  BY <1>11, <1>12 DEF Longer
<1>15. QED
  BY <1>10, <1>13, <1>14

\* A walk stays one as it goes on.
LEMMA LongerWalk ==
    ASSUME TypeOK, NEW r \in Runs, NEW n, NEW d \in Nat, NEW w, IsWalk(r, n, w, d),
           NEW e \in Onward(r, n, w)
    PROVE  /\ IsWalk(r, n, Append(w, e), d + 1)
           /\ Head(Append(w, e)) = IF w = << >> THEN e ELSE Head(w)
<1> DEFINE longer == Append(w, e)
<1>1. w \in Seq(Edges) /\ Len(w) = d /\ e \in Edges
  BY OnwardFacts DEF IsWalk
<1>2. /\ longer \in Seq(Edges) /\ longer # << >> /\ Len(longer) = d + 1
      /\ \A i \in 1 .. d : longer[i] = w[i]
      /\ longer[d + 1] = e
  BY <1>1, AppendProperties
<1>3. DOMAIN w = 1 .. d /\ DOMAIN longer = 1 .. d + 1
  BY <1>1, <1>2, LenProperties
<1>4. End(n, longer) = e.to
  BY <1>2 DEF End, Last
<1>5. Passed(n, longer) = Passed(n, w) \cup {e.to}
  <2> HIDE DEF longer
  <2>1. 1 .. d + 1 = (1 .. d) \cup {d + 1}
    OBVIOUS
  <2>2. ToSet(longer) = ToSet(w) \cup {e}
    BY <1>2, <1>3, <2>1 DEF ToSet
  <2>3. QED
    BY <2>2 DEF Passed
<1>6. /\ e.to \in Affected(r) /\ e.to \notin Passed(n, w)
      /\ <<End(n, w), e.to>> \in Arcs(Visible(r))
  BY OnwardFacts
<1>7. Passed(n, longer) \subseteq Affected(r) /\ Cardinality(Passed(n, longer)) = d + 2
  <2>1. IsFiniteSet(Passed(n, w)) /\ Cardinality(Passed(n, w)) = d + 1
    BY GraphAssumption, FS_Subset DEF IsWalk, Affected
  <2>2. Cardinality(Passed(n, w) \cup {e.to}) = d + 1 + 1
    BY <1>6, <2>1, FS_AddElement
  <2>3. QED
    BY <1>5, <1>6, <2>2 DEF IsWalk
<1>8. ASSUME NEW m \in Passed(n, longer) \ {e.to}
      PROVE  \E o \in Passed(n, longer) : <<m, o>> \in Arcs(Visible(r))
  <2>1. m \in Passed(n, w)
    BY <1>5
  <2>2. CASE m = End(n, w)
    BY <1>5, <1>6, <2>2
  <2>3. CASE m # End(n, w)
    BY <1>5, <2>1, <2>3 DEF IsWalk
  <2>4. QED
    BY <2>2, <2>3
<1>9. Head(longer) = IF w = << >> THEN e ELSE Head(w)
  BY <1>1, HeadTailAppend
<1>10. IsWalk(r, n, longer, d + 1)
  <2> HIDE DEF longer
  <2>1. d + 1 + 1 = d + 2
    OBVIOUS
  <2>2. e.to \in Passed(n, longer)
    BY <1>5
  <2>3. QED
    BY <1>2, <1>4, <1>7, <1>8, <2>1, <2>2 DEF IsWalk
<1>11. QED
  BY <1>9, <1>10

\* What the rounds find are walks, and finitely many.
LEMMA RoundsAreWalks ==
    ASSUME TypeOK, NEW r \in Runs, NEW n \in Affected(r), NEW walks,
           walks[0] = {<< >>},
           \A d \in 1 .. MaxDepth : walks[d] = Longer(r, n, walks[d - 1])
    PROVE  \A d \in 0 .. MaxDepth :
              IsFiniteSet(walks[d]) /\ \A w \in walks[d] : IsWalk(r, n, w, d)
<1> DEFINE Good(d) == IsFiniteSet(walks[d]) /\ \A w \in walks[d] : IsWalk(r, n, w, d)
           missing == {d \in 0 .. MaxDepth : ~ Good(d)}
<1>1. Good(0)
  <2>1. IsFiniteSet(walks[0])
    BY FS_Singleton
  <2>2. Passed(n, << >>) = {n} /\ End(n, << >>) = n
    BY DEF Passed, End, ToSet
  <2>3. Cardinality({n}) = 0 + 1
    <3>1. Cardinality({n}) = 1
      BY FS_Singleton, Zenon
    <3>2. 0 + 1 = 1
      OBVIOUS
    <3>3. QED
      BY <3>1, <3>2, Zenon
  <2>4. << >> \in Seq(Edges) /\ Len(<< >>) = 0
    OBVIOUS
  <2>5. IsWalk(r, n, << >>, 0)
    BY <2>2, <2>3, <2>4 DEF IsWalk
  <2>6. QED
    BY <2>1, <2>5
<1>2. ASSUME NEW d \in 1 .. MaxDepth, Good(d - 1) PROVE Good(d)
  <2>1. d - 1 \in Nat /\ d - 1 + 1 = d
    BY PropagationAssumption
  <2>2. walks[d] = Longer(r, n, walks[d - 1])
    OBVIOUS
  <2>3. ASSUME NEW v \in walks[d] PROVE IsWalk(r, n, v, d)
    <3>1. PICK w \in walks[d - 1] : \E e \in Onward(r, n, w) : v = Append(w, e)
      BY <2>2 DEF Longer
    <3>2. PICK e \in Onward(r, n, w) : v = Append(w, e)
      BY <3>1
    <3>3. IsWalk(r, n, w, d - 1)
      BY <1>2
    <3>4. IsWalk(r, n, v, d - 1 + 1)
      BY <2>1, <3>2, <3>3, LongerWalk
    <3>5. QED
      BY <2>1, <3>4
  <2>4. IsFiniteSet(walks[d])
    <3> DEFINE pairs == walks[d - 1] \X Edges
               f     == [p \in pairs |-> Append(p[1], p[2])]
               all   == {f[p] : p \in pairs}
    <3>1. IsFiniteSet(pairs)
      BY <1>2, PropagationAssumption, FS_Product
    <3>2. IsFiniteSet(all)
      <4> HIDE DEF f, pairs
      <4>1. QED
        BY <3>1, ImageIsFinite
    <3>3. ASSUME NEW v \in walks[d] PROVE v \in all
      <4>1. PICK w \in walks[d - 1] : \E e \in Onward(r, n, w) : v = Append(w, e)
        BY <2>2 DEF Longer
      <4>2. PICK e \in Onward(r, n, w) : v = Append(w, e)
        BY <4>1
      <4>3. <<w, e>> \in pairs
        BY OnwardFacts
      <4>4. f[<<w, e>>] = v
        BY <4>2, <4>3
      <4>5. QED
        BY <4>3, <4>4
    <3> HIDE DEF all
    <3>4. QED
      BY <3>2, <3>3, FS_Subset
  <2>5. QED
    BY <2>3, <2>4
<1>3. ASSUME missing # {} PROVE FALSE
  <2>1. missing \subseteq Nat
    OBVIOUS
  <2>2. PICK d \in missing : \A m \in missing : d <= m
    BY <1>3, <2>1, Least
  <2>3. d \in 0 .. MaxDepth /\ ~ Good(d)
    OBVIOUS
  <2>4. d # 0
    BY <1>1, <2>3
  <2>5. d \in 1 .. MaxDepth /\ d - 1 \in 0 .. MaxDepth /\ ~ (d <= d - 1)
    BY <2>3, <2>4, PropagationAssumption
  <2>6. d - 1 \notin missing
    <3> HIDE DEF missing
    <3>1. QED
      BY <2>2, <2>5
  <2>7. Good(d - 1)
    BY <2>5, <2>6
  <2>8. QED
    <3> HIDE DEF Good, missing
    <3>1. QED
      BY <1>2, <2>3, <2>5, <2>7
<1>4. QED
  BY <1>3

\* A report has finitely many pathways to choose from.
LEMMA PathwaysAreFinite ==
    ASSUME TypeOK, NEW r \in Runs
    PROVE  IsFiniteSet(Pathways(r))
<1> DEFINE ends   == Capabilities \cap Affected(r)
           of(n)  == {[from |-> n, edges |-> w, strength |-> Strength(w)] :
                        w \in {v \in Walks(r, n) : Onward(r, n, v) = {}}}
           groups == {of(n) : n \in ends}
<1>1. IsFiniteSet(ends)
  BY GraphAssumption, FS_Subset DEF Affected
<1>2. ASSUME NEW n \in ends PROVE IsFiniteSet(of(n))
  <2>1. PICK walks :
              /\ walks[0] = {<< >>}
              /\ \A d \in 1 .. MaxDepth : walks[d] = Longer(r, n, walks[d - 1])
              /\ Walks(r, n) = UNION {walks[d] : d \in 1 .. MaxDepth}
    BY WalkRounds
  <2>2. \A d \in 0 .. MaxDepth : IsFiniteSet(walks[d])
    BY <2>1, RoundsAreWalks
  <2>3. MaxDepth \in Nat /\ \A d \in 1 .. MaxDepth : d \in 0 .. MaxDepth
    BY PropagationAssumption
  <2>4. IsFiniteSet({walks[d] : d \in 1 .. MaxDepth})
    <3>1. IsFiniteSet(1 .. MaxDepth)
      <4>1. 1 \in Int /\ MaxDepth \in Int
        BY <2>3
      <4>2. QED
        BY <4>1, FS_Interval
    <3>2. QED
      BY <3>1, ImageIsFinite
  <2>5. IsFiniteSet(Walks(r, n))
    <3>1. \A T \in {walks[d] : d \in 1 .. MaxDepth} : IsFiniteSet(T)
      BY <2>2, <2>3
    <3>2. QED
      BY <2>1, <2>4, <3>1, FS_UNION
  <2> DEFINE complete == {v \in Walks(r, n) : Onward(r, n, v) = {}}
             f        == [w \in complete |-> [from |-> n, edges |-> w, strength |-> Strength(w)]]
  <2>6. IsFiniteSet(complete)
    BY <2>5, FS_Subset
  <2>7. IsFiniteSet({f[w] : w \in complete})
    <3> HIDE DEF f, complete
    <3>1. QED
      BY <2>6, ImageIsFinite
  <2>8. {f[w] : w \in complete} = of(n)
    OBVIOUS
  <2>9. QED
    BY <2>7, <2>8
<1>3. IsFiniteSet(groups)
  <2> DEFINE f == [n \in ends |-> of(n)]
  <2>1. IsFiniteSet({f[n] : n \in ends})
    <3> HIDE DEF f, ends
    <3>1. QED
      BY <1>1, ImageIsFinite
  <2>2. {f[n] : n \in ends} = groups
    OBVIOUS
  <2>3. QED
    BY <2>1, <2>2
<1>4. IsFiniteSet(UNION groups)
  <2>1. \A T \in groups : IsFiniteSet(T)
    BY <1>2
  <2> HIDE DEF groups
  <2>2. QED
    BY <1>3, <2>1, FS_UNION
<1>5. Pathways(r) = UNION groups
  BY DEF Pathways
<1>6. QED
  BY <1>4, <1>5

\* A pathway ends at a node that a component hit: its cause would otherwise be an edge to
\* an affected node, which the pathway has either passed, and then there is a cycle, or
\* could go on to.
LEMMA PathwaysEndAtIncidents ==
    ASSUME TypeOK, CausesComeFirst, NEW r \in Runs, Acyclic(Arcs(Visible(r))),
           NEW p \in Pathways(r)
    PROVE  cause[r][Last(p.edges).to] = Incident
<1>1. PICK n \in Capabilities \cap Affected(r) :
             \E w \in Walks(r, n) : p.edges = w /\ Onward(r, n, w) = {}
  BY DEF Pathways
<1>2. PICK w \in Walks(r, n) : p.edges = w /\ Onward(r, n, w) = {}
  BY <1>1
<1>3. PICK walks :
              /\ walks[0] = {<< >>}
              /\ \A d \in 1 .. MaxDepth : walks[d] = Longer(r, n, walks[d - 1])
              /\ Walks(r, n) = UNION {walks[d] : d \in 1 .. MaxDepth}
  BY WalkRounds
<1>4. PICK d \in 1 .. MaxDepth : w \in walks[d]
  BY <1>3
<1>5. d \in 0 .. MaxDepth /\ d \in Nat \ {0}
  BY PropagationAssumption
<1>6. IsWalk(r, n, w, d)
  BY <1>1, <1>3, <1>4, <1>5, RoundsAreWalks
<1> DEFINE S == Passed(n, w)
           m == End(n, w)
<1>7. m = Last(w).to
  <2>1. w # << >>
    BY <1>5, <1>6 DEF IsWalk
  <2>2. QED
    BY <2>1 DEF End
<1>8. S \subseteq Nodes /\ m \in S /\ first[r][m] > 0 /\ m \in Nodes
  BY <1>6 DEF IsWalk, Affected
<1>9. cause[r][m].kind # "edge"
  <2> SUFFICES ASSUME cause[r][m].kind = "edge" PROVE FALSE
    OBVIOUS
  <2> DEFINE e == cause[r][m].edge
  <2>1. e \in Dependencies(Visible(r), m) /\ first[r][e.to] \in 1 .. first[r][m] - 1
    BY <1>8 DEF CausesComeFirst
  <2>2. e \in Visible(r) /\ e \in Edges /\ e.from = m /\ e.to \in Nodes
    BY <2>1, RunFacts, EdgeFacts DEF Dependencies
  <2>3. e.to \in Affected(r)
    BY <2>1, <2>2 DEF Affected
  <2>4. e.to \in S
    <3> HIDE DEF e
    <3>1. QED
      BY <1>2, <2>1, <2>3 DEF Onward
  <2>5. <<m, e.to>> \in Arcs(Visible(r))
    BY <2>2 DEF Arcs
  <2>6. \A x \in S : \E y \in S : <<x, y>> \in Arcs(Visible(r))
    BY <1>6, <2>4, <2>5 DEF IsWalk
  <2>7. S \in (SUBSET Nodes) \ {{}}
    BY <1>8
  <2> HIDE DEF S
  <2>8. QED
    BY <2>6, <2>7 DEF Acyclic
<1>10. cause[r][m] \in Causes
  BY <1>8 DEF TypeOK
<1>11. cause[r][m].kind = "incident"
  BY <1>8, <1>9 DEF CausesComeFirst
<1>12. cause[r][m] = Incident
  BY <1>10, <1>11 DEF Causes, Incident
<1>13. QED
  BY <1>2, <1>7, <1>12

\* The edge an affected capability got its damage over begins a pathway: the walk over
\* that edge goes on until nothing affected is left, and it has no room for more edges
\* than there are other nodes.
LEMMA CausesBeginPathways ==
    ASSUME TypeOK, CausesComeFirst, NEW r \in Runs,
           Cardinality(Nodes) <= MaxDepth + 1,
           NEW n \in Capabilities \cap Affected(r), cause[r][n] # Incident
    PROVE  \E p \in Pathways(r) : p.from = n /\ Head(p.edges) = cause[r][n].edge
<1> DEFINE e == cause[r][n].edge
           N == Cardinality(Nodes)
<1>1. N \in Nat /\ MaxDepth \in Nat \ {0}
  BY GraphAssumption, FS_CardinalityType, PropagationAssumption
<1>2. n \in Nodes /\ first[r][n] > 0 /\ first[r][n] \in Nat
  <2>1. n \in Nodes /\ first[r][n] > 0 /\ Len(history["base"]) \in Nat
    BY RunFacts DEF Affected
  <2>2. QED
    BY <2>1 DEF TypeOK
<1>3. e \in Dependencies(Visible(r), n) /\ first[r][e.to] \in 1 .. first[r][n] - 1
  <2>1. cause[r][n] \in Causes
    BY <1>2 DEF TypeOK
  <2>2. cause[r][n].kind # "incident"
    BY <2>1 DEF Causes, Incident
  <2>3. QED
    BY <1>2, <2>2 DEF CausesComeFirst
<1>4. e \in Onward(r, n, << >>)
  <2>1. e \in Edges /\ e.to \in Nodes
    BY <1>3, RunFacts, EdgeFacts DEF Dependencies
  <2>2. e.to \in Affected(r)
    BY <1>3, <2>1 DEF Affected
  <2>3. e.to # n
    BY <1>2, <1>3
  <2>4. Passed(n, << >>) = {n} /\ End(n, << >>) = n
    BY DEF Passed, End, ToSet
  <2>5. QED
    BY <1>3, <2>2, <2>3, <2>4 DEF Onward
<1>5. PICK walks :
              /\ walks[0] = {<< >>}
              /\ \A d \in 1 .. MaxDepth : walks[d] = Longer(r, n, walks[d - 1])
              /\ Walks(r, n) = UNION {walks[d] : d \in 1 .. MaxDepth}
  BY WalkRounds
<1>6. \A d \in 0 .. MaxDepth : \A w \in walks[d] : IsWalk(r, n, w, d)
  BY <1>5, RoundsAreWalks
<1> HIDE DEF e, N
<1> DEFINE lengths == {k \in 1 .. MaxDepth : \E v \in walks[k] : Head(v) = e}
<1>7. 1 \in lengths
  <2>1. 1 \in 1 .. MaxDepth /\ 1 - 1 = 0
    BY <1>1
  <2>2. walks[1] = Longer(r, n, {<< >>})
    BY <1>5, <2>1
  <2>3. Append(<< >>, e) \in walks[1]
    BY <1>4, <2>2 DEF Longer
  <2>4. Head(Append(<< >>, e)) = e
    OBVIOUS
  <2>5. QED
    BY <2>1, <2>3, <2>4
<1>8. PICK d \in lengths : \A m \in lengths : m <= d
  <2>1. /\ lengths \subseteq Int /\ lengths # {} /\ MaxDepth \in Int
        /\ \A m \in lengths : m <= MaxDepth
    BY <1>1, <1>7
  <2> HIDE DEF lengths
  <2>2. QED
    BY <2>1, Greatest
<1>9. PICK w \in walks[d] : Head(w) = e
  OBVIOUS
<1>10. d \in 1 .. MaxDepth /\ d \in 0 .. MaxDepth /\ d \in Nat /\ d # 0
  BY <1>1
<1>11. IsWalk(r, n, w, d) /\ w # << >>
  <2>1. IsWalk(r, n, w, d)
    BY <1>6, <1>10
  <2>2. QED
    BY <1>10, <2>1 DEF IsWalk
<1>12. Onward(r, n, w) = {}
  <2> SUFFICES ASSUME NEW f \in Onward(r, n, w) PROVE FALSE
    OBVIOUS
  <2>1. IsWalk(r, n, Append(w, f), d + 1) /\ Head(Append(w, f)) = e
    BY <1>9, <1>10, <1>11, LongerWalk
  <2>2. d + 1 \notin lengths
    <3>1. ~ (d + 1 <= d)
      BY <1>10
    <3> HIDE DEF lengths
    <3>2. QED
      BY <1>8, <3>1
  <2>3. ~ (d + 1 \in 1 .. MaxDepth)
    <3> SUFFICES ASSUME d + 1 \in 1 .. MaxDepth PROVE FALSE
      OBVIOUS
    <3>1. d + 1 - 1 = d
      BY <1>10
    <3>2. walks[d + 1] = Longer(r, n, walks[d])
      BY <1>5, <3>1
    <3>3. Append(w, f) \in walks[d + 1]
      BY <1>9, <3>2 DEF Longer
    <3>4. QED
      BY <2>1, <2>2, <3>3
  <2>4. d = MaxDepth
    BY <1>1, <1>10, <2>3
  <2> DEFINE S == Passed(n, Append(w, f))
  <2>5. S \in SUBSET Nodes /\ Cardinality(S) = d + 1 + 1
    BY <2>1 DEF IsWalk, Affected
  <2> HIDE DEF S
  <2>6. Cardinality(S) <= N
    BY <2>5, GraphAssumption, FS_Subset DEF N
  <2>7. N <= MaxDepth + 1
    BY DEF N
  <2>8. QED
    BY <1>1, <1>10, <2>4, <2>5, <2>6, <2>7
<1>13. w \in Walks(r, n)
  BY <1>5, <1>9, <1>10
<1> DEFINE p == [from |-> n, edges |-> w, strength |-> Strength(w)]
<1>14. p \in Pathways(r)
  BY <1>12, <1>13 DEF Pathways
<1>15. p.from = n /\ p.edges = w
  OBVIOUS
<1>16. QED
  BY <1>9, <1>14, <1>15 DEF e

\* The pathways explain the damage.
LEMMA ReportExplains == TypeOK /\ Reported /\ CausesComeFirst => PathwaysExplain
<1> SUFFICES ASSUME TypeOK, Reported, CausesComeFirst, NEW r \in Runs,
                    Acyclic(Arcs(Visible(r)))
             PROVE  /\ \A p \in report[r].pathways : cause[r][Last(p.edges).to] = Incident
                    /\ \A event \in report[r].events :
                          /\ event.target \in Capabilities /\ event.cause # Incident
                          /\ Cardinality(report[r].pathways) < MaxPathways
                          /\ Cardinality(Nodes) <= MaxDepth + 1
                          => \E p \in report[r].pathways :
                                p.from = event.target /\ Head(p.edges) = event.cause.edge
  BY DEF PathwaysExplain
<1>1. CASE report = [q \in Runs |-> NoReport]
  BY <1>1 DEF NoReport
<1>2. CASE /\ report[r].events = ImpactEvents(r)
           /\ report[r].pathways \in Strongest(Pathways(r))
  <2> DEFINE kept == report[r].pathways
  <2>1. kept \in SUBSET Pathways(r)
        /\ Cardinality(kept) = Min({MaxPathways, Cardinality(Pathways(r))})
    BY <1>2 DEF Strongest
  <2>2. \A p \in kept : cause[r][Last(p.edges).to] = Incident
    BY <2>1, PathwaysEndAtIncidents
  <2>3. ASSUME Cardinality(kept) < MaxPathways PROVE kept = Pathways(r)
    <3> DEFINE size  == Cardinality(Pathways(r))
               sizes == {MaxPathways, size}
    <3>1. MaxPathways \in Nat /\ size \in Nat
      BY PropagationAssumption, PathwaysAreFinite, FS_CardinalityType
    <3>2. sizes \subseteq Nat /\ sizes # {}
      BY <3>1
    <3>3. Min(sizes) \in sizes
      <4> HIDE DEF sizes
      <4>1. QED
        BY <3>2, MinIsLeast
    <3>4. Cardinality(kept) \in {MaxPathways, size}
      BY <2>1, <3>3
    <3> HIDE DEF kept, size
    <3>5. Cardinality(kept) = size
      BY <2>3, <3>1, <3>4
    <3>6. QED
      BY <2>1, <3>5, PathwaysAreFinite, FS_Subset DEF size
  <2>4. ASSUME NEW event \in report[r].events,
               event.target \in Capabilities, event.cause # Incident,
               Cardinality(kept) < MaxPathways, Cardinality(Nodes) <= MaxDepth + 1
        PROVE  \E p \in kept : p.from = event.target /\ Head(p.edges) = event.cause.edge
    <3>1. event.target \in Affected(r) /\ event.cause = cause[r][event.target]
      <4>1. event \in ImpactEvents(r)
        BY <1>2
      <4>2. PICK n \in Affected(r) : \E from, over, most :
               event = [target |-> n, start |-> from, ends |-> over, magnitude |-> most,
                        cause |-> cause[r][n]]
        BY <4>1, Zenon DEF ImpactEvents
      <4>3. event.target = n /\ event.cause = cause[r][n]
        BY <4>2
      <4>4. QED
        BY <4>3
    <3>2. \E p \in Pathways(r) :
             p.from = event.target /\ Head(p.edges) = cause[r][event.target].edge
      BY <2>4, <3>1, CausesBeginPathways
    <3>3. QED
      BY <2>3, <2>4, <3>1, <3>2
  <2>5. QED
    BY <2>2, <2>4
<1>3. QED
  BY <1>1, <1>2 DEF Reported

\* The pathways of a report explain the damage: each ends at a node a component hit, and
\* the edge an affected capability got its damage over begins one, if none was cut off.
THEOREM PathwaysAreCauses == Spec => []PathwaysExplain
<1>1. Init => Reported
  BY InitTypeOK
<1>2. TypeOK /\ Reported /\ [Next]_vars => TypeOK' /\ Reported'
  BY NextTypeOK
<1>3. Spec => [](TypeOK /\ Reported)
  BY <1>1, <1>2, InitTypeOK, PTL DEF Spec
<1>4. QED
  BY <1>3, CausesAreFirst, ReportExplains, PTL

=============================================================================
