--------------------------- MODULE DecisionProofs ---------------------------
(***************************************************************************)
(* Theorems about what a decision does to a request, asked for or found in *)
(* the cache, for every response, every header map and every set of names. *)
(***************************************************************************)
EXTENDS Decision, FiniteSetTheorems, WellFoundedInduction, TLAPS
-----------------------------------------------------------------------------
(* Induction on numbers; the two lemmas are those of RequestProofs, which   *)
(* is about another specification.                                          *)

\* A set of numbers has a least one: the initial segments of its elements are
\* finite sets, of which one is minimal.
LEMMA LeastNumber ==
  ASSUME NEW T \in SUBSET Nat, T # {}
  PROVE  \E m \in T : \A n \in T : m <= n
<1>. DEFINE Initial == {0 .. n : n \in T}
<1>1. Initial \subseteq FiniteSubsetsOf(Nat) /\ Initial # {}
  <2>1. \A n \in T : 0 .. n \in SUBSET Nat /\ IsFiniteSet(0 .. n)
    BY FS_Interval
  <2>. QED  BY <2>1 DEF FiniteSubsetsOf
<1>2. IsWellFoundedOn(StrictSubsetOrdering(Nat), FiniteSubsetsOf(Nat))
  BY FS_StrictSubsetOrderingWellFounded
<1>3. PICK A \in Initial : \A B \in Initial : ~(<<B, A>> \in StrictSubsetOrdering(Nat))
  <2>. HIDE DEF Initial
  <2>. QED  BY <1>1, <1>2, WFMin
<1>4. PICK m \in T : A = 0 .. m
  OBVIOUS
<1>5. ASSUME NEW n \in T, n < m PROVE FALSE
  <2>1. m \in 0 .. m /\ m \notin 0 .. n
    BY <1>5
  <2>2. 0 .. n \in SUBSET (0 .. m) /\ 0 .. n # 0 .. m
    BY <1>5, <2>1
  <2>3. <<0 .. n, 0 .. m>> \in StrictSubsetOrdering(Nat)
    BY <2>2, <1>1, <1>4 DEF StrictSubsetOrdering, FiniteSubsetsOf
  <2>. QED  BY <1>3, <1>4, <2>3
<1>. QED  BY <1>5

\* Induction up to a bound.
LEMMA Induction ==
  ASSUME NEW last \in Nat, NEW Good \in SUBSET (0 .. last),
         0 \in Good, \A n \in Good : n < last => n + 1 \in Good
  PROVE  Good = 0 .. last
<1>. SUFFICES ASSUME (0 .. last) \ Good # {} PROVE FALSE
  OBVIOUS
<1>1. PICK m \in (0 .. last) \ Good : \A n \in (0 .. last) \ Good : m <= n
  <2>1. (0 .. last) \ Good \in SUBSET Nat
    OBVIOUS
  <2>. QED  BY <2>1, LeastNumber
<1>2. m # 0 /\ m - 1 \in 0 .. last
  BY <1>1
<1>. QED  BY <1>1, <1>2
-----------------------------------------------------------------------------
(* The recursive functions of the model.                                    *)

Solution(f, last, A, base, g) ==
  /\ f \in [0 .. last -> A] /\ f[0] = base
  /\ \A i \in 1 .. last : f[i] = g[i][f[i - 1]]

\* A recurrence over the elements of a set A has a solution, up to any bound.
LEMMA Recurrence ==
  ASSUME NEW last \in Nat, NEW A, NEW base \in A, NEW g \in [1 .. last -> [A -> A]]
  PROVE  \E f : Solution(f, last, A, base, g)
<1>. DEFINE Solves(f, n) == Solution(f, n, A, base, g)
            Good == {n \in 0 .. last : \E f : Solves(f, n)}
<1>1. 0 \in Good
  <2>1. Solves([i \in 0 .. 0 |-> base], 0)
    BY DEF Solution
  <2>. HIDE DEF Solves
  <2>. QED  BY <2>1
<1>2. ASSUME NEW n \in Good, n < last
      PROVE  n + 1 \in Good
  <2>1. PICK f : Solves(f, n)
    OBVIOUS
  <2>. DEFINE new == g[n + 1][f[n]]
              h == [i \in 0 .. n + 1 |-> IF i = n + 1 THEN new ELSE f[i]]
  <2>2. n \in Nat /\ n + 1 \in 1 .. last /\ f[n] \in A
    BY <1>2, <2>1 DEF Solution
  <2>3. new \in A
    BY <2>2
  <2>4. h \in [0 .. n + 1 -> A] /\ h[0] = base
    <3>. HIDE DEF new
    <3>. QED  BY <2>1, <2>2, <2>3 DEF Solution
  <2>5. ASSUME NEW i \in 1 .. n + 1
        PROVE  h[i] = g[i][h[i - 1]]
    <3>1. i - 1 \in 0 .. n /\ h[i - 1] = f[i - 1]
      BY <2>2
    <3>2. CASE i = n + 1
      BY <2>2, <3>1, <3>2
    <3>3. CASE i # n + 1
      <4>1. i \in 1 .. n /\ h[i] = f[i]
        BY <2>2, <3>3
      <4>. QED  BY <2>1, <3>1, <4>1 DEF Solution
    <3>. QED  BY <3>2, <3>3
  <2>6. Solves(h, n + 1)
    <3>. HIDE DEF h
    <3>. QED  BY <2>4, <2>5 DEF Solution
  <2>. HIDE DEF Solves
  <2>. QED  BY <2>2, <2>6
<1>3. last \in Good
  <2>1. Good \in SUBSET (0 .. last)
    OBVIOUS
  <2>. HIDE DEF Good
  <2>. QED  BY <1>1, <1>2, <2>1, Induction
<1>. QED  BY <1>3

\* What the loop of a filter does.
LEMMA FilteredStep ==
  ASSUME NEW T, NEW s \in Seq(T), NEW keep
  PROVE  /\ Filtered(s, keep)[0] = << >>
         /\ \A i \in 1 .. Len(s) :
              Filtered(s, keep)[i] = IF s[i] \in keep THEN Append(Filtered(s, keep)[i - 1], s[i])
                                                      ELSE Filtered(s, keep)[i - 1]
<1>. DEFINE last == Len(s)
            Eq(f, i) == IF i = 0 THEN << >>
                        ELSE IF s[i] \in keep THEN Append(f[i - 1], s[i]) ELSE f[i - 1]
            g == [i \in 1 .. last |-> [x \in Seq(T) |-> IF s[i] \in keep THEN Append(x, s[i]) ELSE x]]
<1>1. last \in Nat /\ \A i \in 1 .. last : s[i] \in T
  OBVIOUS
<1>2. g \in [1 .. last -> [Seq(T) -> Seq(T)]]
  BY <1>1
<1>3. PICK f : Solution(f, last, Seq(T), << >>, g)
  <2>1. << >> \in Seq(T)
    OBVIOUS
  <2>. HIDE DEF last, g
  <2>. QED  BY <1>1, <1>2, <2>1, Recurrence
<1>4. ASSUME NEW i \in 0 .. last PROVE f[i] = Eq(f, i)
  <2>1. CASE i = 0
    BY <1>3, <2>1 DEF Solution
  <2>2. CASE i # 0
    <3>1. i \in 1 .. last /\ i - 1 \in 0 .. last
      BY <1>1, <2>2
    <3>2. f[i - 1] \in Seq(T)
      BY <1>3, <3>1 DEF Solution
    <3>3. f[i] = g[i][f[i - 1]]
      BY <1>3, <3>1 DEF Solution
    <3>4. g[i][f[i - 1]] = Eq(f, i)
      BY <2>2, <3>1, <3>2
    <3>. QED  BY <3>3, <3>4
  <2>. QED  BY <2>1, <2>2
<1>. HIDE DEF Eq, last
<1>5. \E h : h = [i \in 0 .. last |-> Eq(h, i)]
  <2>1. f = [i \in 0 .. last |-> f[i]]
    BY <1>3 DEF Solution
  <2>2. f = [i \in 0 .. last |-> Eq(f, i)]
    BY <1>4, <2>1
  <2>. QED  BY <2>2
<1>6. Filtered(s, keep) = CHOOSE h : h = [i \in 0 .. last |-> Eq(h, i)]
  BY DEF Filtered, Eq, last
<1>7. ASSUME NEW i \in 0 .. last PROVE Filtered(s, keep)[i] = Eq(Filtered(s, keep), i)
  <2>1. Filtered(s, keep) = [j \in 0 .. last |-> Eq(Filtered(s, keep), j)]
    BY <1>5, <1>6
  <2>. QED  BY <2>1
<1>. QED  BY <1>1, <1>7 DEF Eq, last

\* A filter keeps only what it is to keep, in order as it came.
LEMMA OnlyType ==
  ASSUME NEW T, NEW s \in Seq(T), NEW keep
  PROVE  Only(s, keep) \in Seq(T \cap keep)
<1>. DEFINE last == Len(s)
            kept == Filtered(s, keep)
            Good == {i \in 0 .. last : kept[i] \in Seq(T \cap keep)}
<1>1. last \in Nat /\ \A i \in 1 .. last : s[i] \in T
  OBVIOUS
<1>2. /\ kept[0] = << >>
      /\ \A i \in 1 .. last : kept[i] = IF s[i] \in keep THEN Append(kept[i - 1], s[i])
                                                         ELSE kept[i - 1]
  BY FilteredStep
<1>. HIDE DEF kept, last
<1>3. 0 \in Good
  <2>1. << >> \in Seq(T \cap keep)
    OBVIOUS
  <2>2. kept[0] \in Seq(T \cap keep)
    BY <1>2, <2>1, Zenon
  <2>. QED  BY <1>1, <2>2
<1>4. ASSUME NEW i \in Good, i < last
      PROVE  i + 1 \in Good
  <2>1. i + 1 \in 1 .. last /\ (i + 1) - 1 = i
    BY <1>1, <1>4
  <2>2. kept[i + 1] = IF s[i + 1] \in keep THEN Append(kept[i], s[i + 1]) ELSE kept[i]
    BY <1>2, <2>1
  <2>3. kept[i] \in Seq(T \cap keep) /\ s[i + 1] \in T
    BY <1>1, <2>1
  <2>4. kept[i + 1] \in Seq(T \cap keep)
    BY <2>2, <2>3
  <2>. QED  BY <2>1, <2>4
<1>5. last \in Good
  <2>1. Good \in SUBSET (0 .. last)
    OBVIOUS
  <2>. HIDE DEF Good
  <2>. QED  BY <1>1, <1>3, <1>4, <2>1, Induction
<1>. QED  BY <1>5 DEF Only, last, kept

\* A filter that has nothing to take out returns what it was given.
LEMMA OnlyAll ==
  ASSUME NEW T, NEW s \in Seq(T), NEW keep, \A i \in 1 .. Len(s) : s[i] \in keep
  PROVE  Only(s, keep) = s
<1>. DEFINE last == Len(s)
            kept == Filtered(s, keep)
            Prefix(i) == /\ kept[i] \in Seq(T) /\ Len(kept[i]) = i
                         /\ \A j \in 1 .. i : kept[i][j] = s[j]
            Good == {i \in 0 .. last : Prefix(i)}
<1>1. last \in Nat /\ \A i \in 1 .. last : s[i] \in T
  OBVIOUS
<1>2. kept[0] = << >> /\ \A i \in 1 .. last : kept[i] = Append(kept[i - 1], s[i])
  BY FilteredStep
<1>. HIDE DEF kept, last
<1>3. Prefix(0)
  <2>1. << >> \in Seq(T) /\ Len(<< >>) = 0
    OBVIOUS
  <2>. QED  BY <1>2, <2>1
<1>4. ASSUME NEW i \in 0 .. last, i < last, Prefix(i)
      PROVE  i + 1 \in 1 .. last /\ Prefix(i + 1)
  <2>1. i + 1 \in 1 .. last /\ (i + 1) - 1 = i
    BY <1>1, <1>4
  <2>2. kept[i + 1] = Append(kept[i], s[i + 1])
    BY <1>2, <2>1
  <2>3. s[i + 1] \in T
    BY <1>1, <2>1
  <2>4. kept[i + 1] \in Seq(T) /\ Len(kept[i + 1]) = i + 1
    BY <1>4, <2>2, <2>3
  <2>5. \A j \in 1 .. i + 1 : kept[i + 1][j] = s[j]
    BY <1>4, <2>2, <2>3
  <2>. QED  BY <2>1, <2>4, <2>5
<1>5. last \in Good
  <2>. HIDE DEF Prefix
  <2>1. Good \in SUBSET (0 .. last) /\ 0 \in Good
    BY <1>1, <1>3
  <2>2. \A i \in Good : i < last => i + 1 \in Good
    BY <1>1, <1>4
  <2>. HIDE DEF Good
  <2>3. Good = 0 .. last
    BY <1>1, <2>1, <2>2, Induction
  <2>. QED  BY <1>1, <2>3
<1>6. kept[last] \in Seq(T) /\ Len(kept[last]) = Len(s)
      /\ \A j \in 1 .. Len(s) : kept[last][j] = s[j]
  BY <1>5 DEF last
<1>. QED  BY <1>6 DEF Only, last, kept
-----------------------------------------------------------------------------
(* The mutations of the request headers.                                    *)

Actions == {"AppendIfExistsOrAdd", "AddIfAbsent", "OverwriteIfExistsOrAdd", "OverwriteIfExists",
            "Remove"}

HeaderText == Values \cup {""}
HeaderMap  == [LowerNames -> Seq(HeaderText)]

RequestHeaderMutation == [action : Actions, name : LowerNames, value : HeaderText]

LEMMA NewValuesType ==
  ASSUME NEW old \in Seq(HeaderText), NEW m \in RequestHeaderMutation
  PROVE  NewValues(old, m) \in Seq(HeaderText)
<1>1. m.value \in HeaderText /\ m.action \in Actions
  BY DEF RequestHeaderMutation
<1>. HIDE DEF HeaderText
<1>2. <<m.value>> \in Seq(HeaderText) /\ << >> \in Seq(HeaderText)
      /\ Append(old, m.value) \in Seq(HeaderText)
  BY <1>1
<1>. QED  BY <1>1, <1>2 DEF Actions, NewValues

LEMMA MutatedHeaders ==
  ASSUME NEW h \in HeaderMap, NEW m \in RequestHeaderMutation
  PROVE  /\ Mutated(h, m) \in HeaderMap
         /\ Mutated(h, m)[m.name] = NewValues(h[m.name], m)
         /\ \A n \in LowerNames \ {m.name} : Mutated(h, m)[n] = h[n]
<1>1. m.name \in LowerNames /\ h[m.name] \in Seq(HeaderText)
  BY DEF HeaderMap, RequestHeaderMutation
<1>2. NewValues(h[m.name], m) \in Seq(HeaderText)
  BY <1>1, NewValuesType
<1>. QED  BY <1>1, <1>2 DEF Mutated, HeaderMap

\* What the loop of apply_request_header_mutations does.
LEMMA AppliedStep ==
  ASSUME NEW h \in HeaderMap, NEW ms \in Seq(RequestHeaderMutation)
  PROVE  /\ Applied(h, ms)[0] = h
         /\ \A i \in 0 .. Len(ms) : Applied(h, ms)[i] \in HeaderMap
         /\ \A i \in 1 .. Len(ms) : Applied(h, ms)[i] = Mutated(Applied(h, ms)[i - 1], ms[i])
<1>. DEFINE last == Len(ms)
            Eq(f, i) == IF i = 0 THEN h ELSE Mutated(f[i - 1], ms[i])
            g == [i \in 1 .. last |-> [x \in HeaderMap |-> Mutated(x, ms[i])]]
            after == Applied(h, ms)
<1>1. last \in Nat /\ \A i \in 1 .. last : ms[i] \in RequestHeaderMutation
  OBVIOUS
<1>2. g \in [1 .. last -> [HeaderMap -> HeaderMap]]
  BY <1>1, MutatedHeaders
<1>3. PICK f : Solution(f, last, HeaderMap, h, g)
  <2>. HIDE DEF last, g
  <2>. QED  BY <1>1, <1>2, Recurrence
<1>4. ASSUME NEW i \in 0 .. last PROVE f[i] = Eq(f, i)
  <2>1. CASE i = 0
    BY <1>3, <2>1 DEF Solution
  <2>2. CASE i # 0
    <3>1. i \in 1 .. last /\ i - 1 \in 0 .. last
      BY <1>1, <2>2
    <3>2. f[i - 1] \in HeaderMap /\ f[i] = g[i][f[i - 1]]
      BY <1>3, <3>1 DEF Solution
    <3>3. g[i][f[i - 1]] = Eq(f, i)
      BY <2>2, <3>1, <3>2
    <3>. QED  BY <3>2, <3>3
  <2>. QED  BY <2>1, <2>2
<1>. HIDE DEF Eq, last
<1>5. \E k : k = [i \in 0 .. last |-> Eq(k, i)]
  <2>1. f = [i \in 0 .. last |-> f[i]]
    BY <1>3 DEF Solution
  <2>2. f = [i \in 0 .. last |-> Eq(f, i)]
    BY <1>4, <2>1
  <2>. QED  BY <2>2
<1>6. after = CHOOSE k : k = [i \in 0 .. last |-> Eq(k, i)]
  BY DEF Applied, Eq, last
<1>. HIDE DEF after
<1>7. ASSUME NEW i \in 0 .. last PROVE after[i] = Eq(after, i)
  <2>1. after = [j \in 0 .. last |-> Eq(after, j)]
    BY <1>5, <1>6
  <2>. QED  BY <2>1
<1>8. /\ after[0] = h
      /\ \A i \in 1 .. last : after[i] = Mutated(after[i - 1], ms[i])
  BY <1>1, <1>7 DEF Eq
<1>. DEFINE Good == {i \in 0 .. last : after[i] \in HeaderMap}
<1>9. ASSUME NEW i \in Good, i < last PROVE i + 1 \in Good
  <2>1. i + 1 \in 1 .. last /\ (i + 1) - 1 = i
    BY <1>1, <1>9
  <2>2. after[i + 1] = Mutated(after[i], ms[i + 1])
    BY <1>8, <2>1
  <2>3. after[i] \in HeaderMap /\ ms[i + 1] \in RequestHeaderMutation
    BY <1>1, <2>1
  <2>4. after[i + 1] \in HeaderMap
    BY <2>2, <2>3, MutatedHeaders
  <2>. QED  BY <2>1, <2>4
<1>10. Good = 0 .. last
  <2>1. Good \in SUBSET (0 .. last) /\ 0 \in Good
    BY <1>1, <1>8
  <2>. HIDE DEF Good
  <2>. QED  BY <1>1, <1>9, <2>1, Induction
<1>. QED  BY <1>8, <1>10 DEF last, after

\* A name that may not be removed keeps a value, whatever is done to it.
LEMMA ProtectedNameStays ==
  ASSUME NEW h \in HeaderMap, NEW ms \in Seq(RequestHeaderMutation),
         NEW n \in LowerNames, ~may_be_removed(n), h[n] # << >>
  PROVE  apply_request_header_mutations(h, ms)[n] # << >>
<1>. DEFINE last == Len(ms)
            after == Applied(h, ms)
            Good == {i \in 0 .. last : after[i][n] # << >>}
<1>1. last \in Nat /\ \A i \in 1 .. last : ms[i] \in RequestHeaderMutation
  OBVIOUS
<1>2. /\ after[0] = h
      /\ \A i \in 0 .. last : after[i] \in HeaderMap
      /\ \A i \in 1 .. last : after[i] = Mutated(after[i - 1], ms[i])
  BY AppliedStep
<1>. HIDE DEF last, after
<1>3. ASSUME NEW i \in Good, i < last PROVE i + 1 \in Good
  <2>. DEFINE m == ms[i + 1]
  <2>1. i + 1 \in 1 .. last /\ (i + 1) - 1 = i
    BY <1>1, <1>3
  <2>2. after[i + 1] = Mutated(after[i], m) /\ m \in RequestHeaderMutation /\ after[i] \in HeaderMap
    BY <1>1, <1>2, <2>1
  <2>. HIDE DEF m
  <2>3. /\ after[i + 1][m.name] = NewValues(after[i][m.name], m)
        /\ n # m.name => after[i + 1][n] = after[i][n]
    BY <2>2, MutatedHeaders
  <2>4. CASE n # m.name
    BY <2>1, <2>3, <2>4
  <2>5. CASE n = m.name
    <3>1. after[i][n] \in Seq(HeaderText) /\ after[i][n] # << >>
          /\ m.value \in HeaderText /\ m.action \in Actions
      BY <2>2 DEF HeaderMap, RequestHeaderMutation
    <3>2. Append(after[i][n], m.value) # << >> /\ <<m.value>> # << >>
      <4>. HIDE DEF HeaderText
      <4>. QED  BY <3>1
    <3>3. NewValues(after[i][n], m) # << >>
      BY <2>5, <3>1, <3>2 DEF NewValues, Actions
    <3>. QED  BY <2>1, <2>3, <2>5, <3>3
  <2>. QED  BY <2>4, <2>5
<1>4. Good = 0 .. last
  <2>1. Good \in SUBSET (0 .. last) /\ 0 \in Good
    BY <1>1, <1>2
  <2>. HIDE DEF Good
  <2>. QED  BY <1>1, <1>3, <2>1, Induction
<1>5. after[last][n] # << >>
  BY <1>1, <1>4
<1>. QED  BY <1>5 DEF apply_request_header_mutations, after, last

\* A value that was appended or has overwritten is there as long as nothing
\* overwrites or removes the name.
LEMMA ValueStays ==
  ASSUME NEW h \in HeaderMap, NEW ms \in Seq(RequestHeaderMutation), NEW p \in 1 .. Len(ms),
         ms[p].action \in {"AppendIfExistsOrAdd", "OverwriteIfExistsOrAdd"},
         \A j \in p + 1 .. Len(ms) :
            ms[j].name = ms[p].name => ms[j].action \in {"AppendIfExistsOrAdd", "AddIfAbsent"}
  PROVE  Contains(apply_request_header_mutations(h, ms)[ms[p].name], ms[p].value)
<1>. DEFINE last == Len(ms)
            after == Applied(h, ms)
            name == ms[p].name
            value == ms[p].value
            There(i) == Contains(after[i][name], value)
            Good == {i \in 0 .. last : i < p \/ There(i)}
<1>1. /\ last \in Nat /\ p \in 1 .. last
      /\ \A i \in 1 .. last : ms[i] \in RequestHeaderMutation
  OBVIOUS
<1>2. /\ \A i \in 0 .. last : after[i] \in HeaderMap
      /\ \A i \in 1 .. last : after[i] = Mutated(after[i - 1], ms[i])
  BY AppliedStep
<1>3. name \in LowerNames /\ value \in HeaderText
  BY <1>1 DEF RequestHeaderMutation
<1>4. /\ ms[p].action \in {"AppendIfExistsOrAdd", "OverwriteIfExistsOrAdd"}
      /\ \A j \in p + 1 .. last :
            ms[j].name = name => ms[j].action \in {"AppendIfExistsOrAdd", "AddIfAbsent"}
  OBVIOUS
<1>. HIDE DEF last, after, name, value
<1>5. ASSUME NEW i \in 0 .. last, i < last, i < p \/ There(i)
      PROVE  i + 1 < p \/ There(i + 1)
  <2>. DEFINE m == ms[i + 1]
              old == after[i][name]
  <2>1. i + 1 \in 1 .. last /\ (i + 1) - 1 = i
    BY <1>1, <1>5
  <2>2. after[i + 1] = Mutated(after[i], m) /\ m \in RequestHeaderMutation /\ after[i] \in HeaderMap
    BY <1>1, <1>2, <2>1
  <2>3. old \in Seq(HeaderText)
    BY <1>3, <2>2 DEF HeaderMap
  <2>4. /\ m.name = name => after[i + 1][name] = NewValues(old, m)
        /\ m.name # name => after[i + 1][name] = old
    <3>. HIDE DEF m
    <3>1. /\ Mutated(after[i], m)[m.name] = NewValues(after[i][m.name], m)
          /\ \A n \in LowerNames \ {m.name} : Mutated(after[i], m)[n] = after[i][n]
      BY <2>2, MutatedHeaders
    <3>. QED  BY <1>3, <2>2, <3>1
  <2>5. CASE i + 1 < p
    BY <2>5
  <2>6. CASE i + 1 = p
    <3>1. m.name = name /\ m.value = value
          /\ m.action \in {"AppendIfExistsOrAdd", "OverwriteIfExistsOrAdd"}
      BY <1>4, <2>6 DEF name, value
    <3>2. Contains(Append(old, value), value) /\ Contains(<<value>>, value)
      <4>. HIDE DEF old, HeaderText
      <4>1. Append(old, value)[Len(old) + 1] = value /\ Len(Append(old, value)) = Len(old) + 1
            /\ Len(old) + 1 \in 1 .. Len(old) + 1
        BY <1>3, <2>3
      <4>2. Contains(Append(old, value), value)
        BY <4>1 DEF Contains
      <4>3. Contains(<<value>>, value)
        BY DEF Contains
      <4>. QED  BY <4>2, <4>3
    <3>3. Contains(NewValues(old, m), value)
      <4>. HIDE DEF old, m
      <4>. QED  BY <3>1, <3>2 DEF NewValues
    <3>. QED  BY <2>4, <3>1, <3>3
  <2>7. CASE p < i + 1
    <3>1. There(i) /\ i + 1 \in p + 1 .. last
      BY <1>1, <1>5, <2>1, <2>7
    <3>2. CASE m.name # name
      BY <2>4, <3>1, <3>2
    <3>3. CASE m.name = name
      <4>1. m.action \in {"AppendIfExistsOrAdd", "AddIfAbsent"}
        BY <1>4, <3>1, <3>3
      <4>2. PICK j \in 1 .. Len(old) : old[j] = value
        BY <3>1 DEF Contains
      <4>3. old # << >> /\ m.value \in HeaderText
        BY <2>2, <4>2 DEF RequestHeaderMutation
      <4>4. Contains(Append(old, m.value), value)
        <5>. HIDE DEF old, m, HeaderText
        <5>1. /\ Append(old, m.value)[j] = value
              /\ j \in 1 .. Len(Append(old, m.value))
          BY <2>3, <4>2, <4>3
        <5>. QED  BY <5>1 DEF Contains
      <4>5. Contains(NewValues(old, m), value)
        <5>. HIDE DEF m
        <5>. QED  BY <4>1, <4>3, <4>4, <3>1 DEF NewValues
      <4>. QED  BY <2>4, <3>3, <4>5
    <3>. QED  BY <3>2, <3>3
  <2>. QED  BY <1>1, <2>1, <2>5, <2>6, <2>7
<1>6. Good = 0 .. last
  <2>. HIDE DEF There
  <2>1. Good \in SUBSET (0 .. last) /\ 0 \in Good
    BY <1>1
  <2>2. \A i \in Good : i < last => i + 1 \in Good
    BY <1>1, <1>5
  <2>. HIDE DEF Good
  <2>. QED  BY <1>1, <2>1, <2>2, Induction
<1>7. There(last)
  <2>. HIDE DEF There
  <2>. QED  BY <1>1, <1>6
<1>. QED  BY <1>7 DEF apply_request_header_mutations, after, last, name, value
-----------------------------------------------------------------------------
(* The classification of a response.                                        *)

LEMMA ActionsAppend ==
  ASSUME NEW o \in HeaderValueOption
  PROVE  AppendAction(o) \in Actions \ {"Remove"}
<1>1. \A c \in DOMAIN HeaderAppendActions : HeaderAppendActions[c] \in Actions \ {"Remove"}
  BY DEF HeaderAppendActions, Actions
<1>2. {"AppendIfExistsOrAdd", "OverwriteIfExistsOrAdd"} \subseteq Actions \ {"Remove"}
  BY DEF Actions
<1>. QED  BY <1>1, <1>2, Zenon DEF AppendAction

\* What is kept has a header.
LEMMA KeptHasHeader ==
  ASSUME NEW o \in HeaderValueOption, o.header # << >>
  PROVE  o.header[1] \in HeaderValue
BY DEF HeaderValueOption, Optional

LEMMA LowerIsName == \A n \in Names : lowercase[n] \in LowerNames
BY DEF LowerNames

LEMMA KeptMutation ==
  ASSUME NEW o \in HeaderValueOption, Kept(o)
  PROVE  /\ header_mutation(o) \in RequestHeaderMutation
         /\ header_mutation(o).action = AppendAction(o)
         /\ header_mutation(o).name = lowercase[o.header[1].key]
         /\ header_mutation(o).value = o.header[1].value
<1>1. o.header[1] \in HeaderValue
  BY KeptHasHeader DEF Kept
<1>2. o.header[1].key \in Names /\ o.header[1].value \in Values
  BY <1>1 DEF HeaderValue
<1>3. AppendAction(o) \in Actions
  BY ActionsAppend
<1>4. lowercase[o.header[1].key] \in LowerNames
  BY <1>2, LowerIsName
<1>. QED  BY <1>2, <1>3, <1>4 DEF header_mutation, Mutation, RequestHeaderMutation, HeaderText

LEMMA KeptOptionsType ==
  ASSUME NEW options \in Seq(HeaderValueOption)
  PROVE  KeptOptions(options) \in Seq({o \in HeaderValueOption : Kept(o)})
<1>. DEFINE keep == {o \in ToSet(options) : Kept(o)}
            T == HeaderValueOption \cap keep
<1>1. KeptOptions(options) \in Seq(T)
  BY OnlyType DEF KeptOptions
<1>2. T \subseteq {o \in HeaderValueOption : Kept(o)}
  OBVIOUS
<1>. HIDE DEF T
<1>. QED  BY <1>1, <1>2

\* The removals of a response, then its additions in the order it has them.
LEMMA AllowMutations ==
  ASSUME NEW ok \in OkHttpResponse
  PROVE  LET options == KeptOptions(ok.headers)
             base    == Len(Removals(ok))
             ms      == allow_mutations(ok)
         IN  /\ ms \in Seq(RequestHeaderMutation) /\ base \in Nat
             /\ options \in Seq({o \in HeaderValueOption : Kept(o)})
             /\ Len(ms) = base + Len(options)
             /\ \A i \in 1 .. Len(options) : ms[base + i] = header_mutation(options[i])
<1>. DEFINE names == [i \in DOMAIN ok.headers_to_remove |-> lowercase[ok.headers_to_remove[i]]]
            removed == Only(names, {name \in LowerNames : is_removable_header_name(name)})
            options == KeptOptions(ok.headers)
<1>1. ok.headers \in Seq(HeaderValueOption) /\ ok.headers_to_remove \in Seq(Names)
  BY DEF OkHttpResponse
<1>2. names \in Seq(LowerNames)
  BY <1>1, LowerIsName
<1>3. removed \in Seq(LowerNames)
  <2>. DEFINE T == LowerNames \cap {name \in LowerNames : is_removable_header_name(name)}
  <2>1. removed \in Seq(T)
    <3>. HIDE DEF names
    <3>. QED  BY <1>2, OnlyType
  <2>2. T \subseteq LowerNames
    OBVIOUS
  <2>. HIDE DEF removed, T
  <2>. QED  BY <2>1, <2>2
<1>4. options \in Seq({o \in HeaderValueOption : Kept(o)})
  BY <1>1, KeptOptionsType
<1>5. Removals(ok) = [i \in DOMAIN removed |-> Mutation("Remove", removed[i], "")]
  BY DEF Removals, MapSeq
<1>6. Additions(ok) = [i \in DOMAIN options |-> header_mutation(options[i])]
  BY DEF Additions, MapSeq
<1>7. Removals(ok) \in Seq(RequestHeaderMutation)
  <2>. HIDE DEF removed
  <2>1. \A i \in DOMAIN removed : Mutation("Remove", removed[i], "") \in RequestHeaderMutation
    BY <1>3 DEF Mutation, RequestHeaderMutation, Actions, HeaderText
  <2>. DEFINE last == Len(removed)
              mutation(i) == Mutation("Remove", removed[i], "")
  <2>2. last \in Nat /\ DOMAIN removed = 1 .. last
    BY <1>3
  <2>3. Removals(ok) = [i \in 1 .. last |-> mutation(i)]
    BY <1>5, <2>2
  <2>4. \A i \in 1 .. last : mutation(i) \in RequestHeaderMutation
    BY <2>1, <2>2
  <2>. HIDE DEF last, mutation
  <2>. QED  BY <2>2, <2>3, <2>4
<1>8. /\ Additions(ok) \in Seq(RequestHeaderMutation) /\ Len(Additions(ok)) = Len(options)
      /\ \A i \in 1 .. Len(options) : Additions(ok)[i] = header_mutation(options[i])
  <2>. HIDE DEF options
  <2>1. \A i \in DOMAIN options : header_mutation(options[i]) \in RequestHeaderMutation
    BY <1>4, KeptMutation
  <2>. QED  BY <1>4, <1>6, <2>1
<1>. HIDE DEF options
<1>. QED  BY <1>4, <1>7, <1>8 DEF allow_mutations, options

\* A mutation comes back from the cache as it went in (cache.rs:217-305).
LEMMA MutationsRoundTrip ==
  ASSUME NEW ms \in Seq(RequestHeaderMutation)
  PROVE  cached_to_mutations(MapSeq(ms, cached_mutation)) = ms
<1>. DEFINE cached == MapSeq(ms, cached_mutation)
            code(a) == CHOOSE i \in DOMAIN HeaderMutationActions : HeaderMutationActions[i] = a
            T == [name : LowerNames, value : HeaderText, action : Int]
<1>1. /\ HeaderMutationActions \in Seq(Actions) /\ DOMAIN HeaderMutationActions = 1 .. 5
      /\ \A a \in Actions : \E i \in 1 .. 5 : HeaderMutationActions[i] = a
  BY DEF HeaderMutationActions, HeaderAppendActions, Actions
<1>2. \A a \in Actions : code(a) \in 1 .. 5 /\ HeaderMutationActions[code(a)] = a
  BY <1>1
<1>. HIDE DEF code
<1>3. ASSUME NEW m \in RequestHeaderMutation
      PROVE  /\ cached_mutation(m) \in T
             /\ Known(cached_mutation(m))
             /\ mutation_of_cached(cached_mutation(m)) = m
  <2>1. m.action \in Actions /\ code(m.action) \in 1 .. 5
    BY <1>2 DEF RequestHeaderMutation
  <2>2. cached_mutation(m) = [name |-> m.name, value |-> m.value, action |-> code(m.action) - 1]
    BY DEF cached_mutation, code
  <2>3. (code(m.action) - 1) + 1 = code(m.action)
    BY <2>1
  <2>4. Known(cached_mutation(m))
    BY <1>1, <2>1, <2>2, <2>3 DEF Known
  <2>5. mutation_of_cached(cached_mutation(m))
          = [action |-> m.action, name |-> m.name, value |-> m.value]
    BY <1>2, <2>1, <2>2, <2>3 DEF mutation_of_cached, Mutation
  <2>6. m = [action |-> m.action, name |-> m.name, value |-> m.value]
    BY DEF RequestHeaderMutation
  <2>7. cached_mutation(m) \in T
    BY <2>1, <2>2 DEF RequestHeaderMutation
  <2>. QED  BY <2>4, <2>5, <2>6, <2>7
<1>4. /\ cached \in Seq(T) /\ Len(cached) = Len(ms)
      /\ \A i \in 1 .. Len(ms) : cached[i] = cached_mutation(ms[i])
  <2>. HIDE DEF T
  <2>1. \A i \in 1 .. Len(ms) : cached_mutation(ms[i]) \in T
    BY <1>3
  <2>. QED  BY <2>1 DEF MapSeq
<1>. HIDE DEF cached, T
<1>5. \A i \in 1 .. Len(cached) : cached[i] \in {c \in ToSet(cached) : Known(c)}
  <2>1. \A i \in 1 .. Len(cached) : cached[i] \in ToSet(cached)
    BY <1>4 DEF ToSet
  <2>. QED  BY <2>1, <1>3, <1>4
<1>6. cached_to_mutations(cached) = [i \in DOMAIN cached |-> mutation_of_cached(cached[i])]
  BY <1>4, <1>5, OnlyAll DEF cached_to_mutations, MapSeq
<1>7. DOMAIN cached = 1 .. Len(ms) /\ \A i \in 1 .. Len(ms) : mutation_of_cached(cached[i]) = ms[i]
  BY <1>3, <1>4
<1>8. cached_to_mutations(cached) = [i \in 1 .. Len(ms) |-> ms[i]]
  BY <1>6, <1>7
<1>9. ms = [i \in 1 .. Len(ms) |-> ms[i]]
  OBVIOUS
<1>. QED  BY <1>8, <1>9 DEF cached

\* The decisions there are.
Allows(r, d) ==
  r.kind = "ok" /\ r \in OkHttpResponse /\ d = [allowed |-> TRUE, mutations |-> allow_mutations(r)]

Denies(r, d) == r.kind # "ok" /\ d.allowed = FALSE /\ d.status \in 100 .. 599 /\ d.body # ""

LEMMA Decisions ==
  ASSUME NEW r \in CheckResponse
  PROVE  Allows(r, from_check_response(r)) \/ Denies(r, from_check_response(r))
<1>. USE DEF Allows, Denies
<1>1. CASE r \in OkHttpResponse
  <2>1. r.kind = "ok"
    BY <1>1 DEF OkHttpResponse
  <2>. QED  BY <1>1, <2>1 DEF from_check_response
<1>2. \A code, text, hs :
        /\ Deny(code, text, hs).allowed = FALSE
        /\ Deny(code, text, hs).status = code
        /\ Deny(code, text, hs).body = text
  BY DEF Deny
<1>3. CASE r \in DeniedHttpResponse
  <2>. DEFINE code == IF r.status = <<>> THEN 403
                        ELSE valid_http_status_or_forbidden(r.status[1])
              text == IF r.body = "" THEN "Forbidden" ELSE r.body
  <2>1. r.kind \in {"denied", "error"}
    BY <1>3 DEF DeniedHttpResponse
  <2>2. from_check_response(r) = Deny(code, text, header_pairs(r.headers))
    BY <2>1 DEF from_check_response
  <2>3. \A c : valid_http_status_or_forbidden(c) \in 100 .. 599
    BY DEF valid_http_status_or_forbidden
  <2>4. code \in 100 .. 599
    BY <2>3, 403 \in 100 .. 599
  <2>5. text # ""
    BY "Forbidden" # "", Zenon
  <2>. HIDE DEF code, text
  <2>6. /\ from_check_response(r).allowed = FALSE
        /\ from_check_response(r).status = code
        /\ from_check_response(r).body = text
    BY <1>2, <2>2
  <2>. QED  BY <2>1, <2>4, <2>5, <2>6
<1>4. CASE r \in [kind : {"none"}]
  <2>1. r.kind = "none"
    BY <1>4
  <2>2. from_check_response(r) = Deny(403, "Forbidden", <<>>)
    BY <2>1 DEF from_check_response
  <2>3. 403 \in 100 .. 599 /\ "Forbidden" # ""
    OBVIOUS
  <2>4. /\ from_check_response(r).allowed = FALSE
        /\ from_check_response(r).status = 403
        /\ from_check_response(r).body = "Forbidden"
    BY <1>2, <2>2
  <2>. QED  BY <2>1, <2>3, <2>4
<1>. QED  BY <1>1, <1>3, <1>4 DEF CheckResponse

\* The two effects of a response, and that they are one (lib.rs:364-386).
LEMMA EffectReplayed ==
  ASSUME NEW r \in CheckResponse, NEW h
  PROVE  ReplayEffect(Stored(from_check_response(r)), h) = Effect(from_check_response(r), h)
<1>1. ASSUME NEW d, Allows(r, d)
      PROVE  ReplayEffect(Stored(d), h) = Effect(d, h)
  <2>1. r.kind = "ok" /\ r \in OkHttpResponse
        /\ d.allowed = TRUE /\ d.mutations = allow_mutations(r)
    BY <1>1 DEF Allows
  <2>2. allow_mutations(r) \in Seq(RequestHeaderMutation)
    BY <2>1, AllowMutations
  <2>3. cached_to_mutations(MapSeq(allow_mutations(r), cached_mutation)) = allow_mutations(r)
    BY <2>2, MutationsRoundTrip
  <2>. QED  BY <2>1, <2>3 DEF ReplayEffect, Stored, Effect
<1>2. ASSUME NEW d, Denies(r, d)
      PROVE  ReplayEffect(Stored(d), h) = Effect(d, h)
  <2>1. ~d.allowed /\ d.body # ""
    BY <1>2 DEF Denies
  <2>. QED  BY <2>1 DEF ReplayEffect, Stored, Effect
<1>. QED  BY <1>1, <1>2, Decisions

Passes(r, h, e) ==
  /\ r.kind = "ok" /\ r \in OkHttpResponse
  /\ e = Forwarded(apply_request_header_mutations(h, allow_mutations(r)))

Refuses(r, e) == r.kind # "ok" /\ e.passed = FALSE /\ e.status \in 100 .. 599

LEMMA Effects ==
  ASSUME NEW r \in CheckResponse, NEW h
  PROVE  \/ Passes(r, h, Effect(from_check_response(r), h))
         \/ Refuses(r, Effect(from_check_response(r), h))
<1>1. ASSUME NEW d, Allows(r, d)
      PROVE  Passes(r, h, Effect(d, h))
  <2>1. r.kind = "ok" /\ r \in OkHttpResponse
        /\ d.allowed = TRUE /\ d.mutations = allow_mutations(r)
    BY <1>1 DEF Allows
  <2>2. Effect(d, h) = Forwarded(apply_request_header_mutations(h, allow_mutations(r)))
    BY <2>1 DEF Effect
  <2>. QED  BY <2>1, <2>2 DEF Passes
<1>2. ASSUME NEW d, Denies(r, d)
      PROVE  Refuses(r, Effect(d, h))
  <2>1. r.kind # "ok" /\ d.allowed = FALSE /\ d.status \in 100 .. 599
    BY <1>2 DEF Denies
  <2>2. Effect(d, h) = [passed |-> FALSE, status |-> d.status,
                        headers |-> local_reply_headers(d.headers), body |-> d.body]
    BY <2>1 DEF Effect, LocalReply
  <2>3. Effect(d, h).passed = FALSE /\ Effect(d, h).status = d.status
    BY <2>2
  <2>. QED  BY <2>1, <2>3 DEF Refuses
<1>. QED  BY <1>1, <1>2, Decisions
-----------------------------------------------------------------------------
(* The two streams.                                                         *)

\* Whatever has become of either request is the effect of the one response.
OneEffect ==
  /\ response \in CheckResponse /\ before \in HeaderMap
  /\ entry # <<>> => entry = <<Stored(from_check_response(response))>> /\ asked # <<>>
  /\ asked # <<>> => asked = <<Effect(from_check_response(response), before)>>
  /\ replayed # <<>> => replayed = asked

LEMMA OneEffectInit == Init => OneEffect
<1>. SUFFICES ASSUME Init PROVE OneEffect
  OBVIOUS
<1>1. response \in CheckResponse
  BY ResponsesAssumption DEF Init
<1>2. before \in HeaderMap
  <2>1. before \in [LowerNames -> Seq(Values)]
    BY HeaderMapsAssumption DEF Init
  <2>2. Seq(Values) \subseteq Seq(HeaderText)
    <3>1. Values \subseteq HeaderText
      BY DEF HeaderText
    <3>. QED  BY <3>1
  <2>. QED  BY <2>1, <2>2 DEF HeaderMap
<1>. QED  BY <1>1, <1>2 DEF Init, OneEffect

LEMMA OneEffectStep == OneEffect /\ [Next]_vars => OneEffect'
<1>. SUFFICES ASSUME OneEffect, [Next]_vars PROVE OneEffect'
  OBVIOUS
<1>1. CASE Ask
  <2>1. /\ UNCHANGED <<response, before, replayed>>
        /\ asked = <<>>
        /\ entry' = <<Stored(from_check_response(response))>>
        /\ asked' = <<Effect(from_check_response(response), before)>>
    BY <1>1 DEF Ask
  <2>2. replayed' = <<>>
    BY <2>1 DEF OneEffect
  <2>. QED  BY <2>1, <2>2 DEF OneEffect
<1>2. CASE Replay
  <2>1. /\ UNCHANGED <<response, before, entry, asked>>
        /\ entry # <<>> /\ replayed' = <<ReplayEffect(entry[1], before)>>
    BY <1>2 DEF Replay
  <2>2. entry = <<Stored(from_check_response(response))>>
        /\ asked = <<Effect(from_check_response(response), before)>>
    BY <2>1 DEF OneEffect
  <2>3. entry[1] = Stored(from_check_response(response))
    BY <2>2
  <2>4. replayed' = asked
    BY <2>1, <2>2, <2>3, EffectReplayed DEF OneEffect
  <2>. QED  BY <2>1, <2>4 DEF OneEffect
<1>3. CASE UNCHANGED vars
  BY <1>3 DEF vars, OneEffect
<1>. QED  BY <1>1, <1>2, <1>3 DEF Next

LEMMA OneEffectAlways == Spec => []OneEffect
BY OneEffectInit, OneEffectStep, PTL DEF Spec

\* For every response and every header map: a hit cannot be told from an answer
\* (lib.rs:364-386, cache.rs:217-305).
THEOREM HitsMatchAnswers == Spec => []ReplayMatchesAnswer
<1>1. OneEffect => ReplayMatchesAnswer
  BY DEF OneEffect, ReplayMatchesAnswer
<1>. QED  BY <1>1, OneEffectAlways, PTL

\* What has become of a request.
LEMMA Outcome ==
  ASSUME OneEffect, NEW o \in {asked, replayed}, o # <<>>
  PROVE  o[1] = Effect(from_check_response(response), before)
<1>1. o = <<Effect(from_check_response(response), before)>>
  BY DEF OneEffect
<1>. QED  BY <1>1

LEMMA OutcomeKeepsRouting == OneEffect => RoutingHeadersStay
<1>. SUFFICES ASSUME OneEffect, NEW o \in {asked, replayed}, o # <<>>, o[1].passed,
                     NEW n \in (PseudoNames \cap LowerNames) \cup {"host"}, before[n] # <<>>
              PROVE  o[1].headers[n] # <<>>
  BY DEF RoutingHeadersStay
<1>. DEFINE ms == allow_mutations(response)
<1>1. response \in CheckResponse /\ before \in HeaderMap
  BY DEF OneEffect
<1>2. /\ response \in OkHttpResponse
      /\ o[1] = Forwarded(apply_request_header_mutations(before, ms))
  <2>1. Passes(response, before, o[1]) \/ Refuses(response, o[1])
    BY <1>1, Outcome, Effects
  <2>. QED  BY <2>1 DEF Passes, Refuses
<1>3. o[1].headers = apply_request_header_mutations(before, ms)
  BY <1>2 DEF Forwarded
<1>4. ms \in Seq(RequestHeaderMutation)
  BY <1>2, AllowMutations
<1>5. n \in LowerNames /\ ~may_be_removed(n)
  BY LowercaseAssumption DEF may_be_removed
<1>. HIDE DEF ms
<1>. QED  BY <1>1, <1>3, <1>4, <1>5, ProtectedNameStays

\* For every response and every header map: the authority and the pseudo headers
\* outlast whatever the service asks for (decision.rs:103, lib.rs:508-541).
THEOREM RoutingProtected == Spec => []RoutingHeadersStay
BY OneEffectAlways, OutcomeKeepsRouting, PTL

LEMMA OutcomeHasAdditions == OneEffect => AdditionsArrive
<1>. SUFFICES ASSUME OneEffect, response.kind = "ok", asked # <<>>
              PROVE  AdditionsArrive
  BY DEF AdditionsArrive
<1>. DEFINE options == KeptOptions(response.headers)
            name(i) == lowercase[options[i].header[1].key]
            base == Len(Removals(response))
            ms == allow_mutations(response)
            overwrites == {"OverwriteIfExistsOrAdd", "OverwriteIfExists"}
<1>1. response \in CheckResponse /\ before \in HeaderMap
  BY DEF OneEffect
<1>2. /\ response \in OkHttpResponse
      /\ asked[1] = Forwarded(apply_request_header_mutations(before, ms))
  <2>1. Passes(response, before, asked[1]) \/ Refuses(response, asked[1])
    BY <1>1, Outcome, Effects
  <2>. QED  BY <2>1 DEF Passes, Refuses
<1>3. asked[1].headers = apply_request_header_mutations(before, ms)
  BY <1>2 DEF Forwarded
<1>4. /\ ms \in Seq(RequestHeaderMutation) /\ base \in Nat
      /\ options \in Seq({o \in HeaderValueOption : Kept(o)})
      /\ Len(ms) = base + Len(options)
      /\ \A i \in 1 .. Len(options) : ms[base + i] = header_mutation(options[i])
  BY <1>2, AllowMutations
<1>. HIDE DEF options, base, ms
<1>5. \A i \in 1 .. Len(options) :
        /\ ms[base + i].action = AppendAction(options[i])
        /\ AppendAction(options[i]) \in Actions \ {"Remove"}
        /\ ms[base + i].name = name(i)
        /\ ms[base + i].value = options[i].header[1].value
  BY <1>4, KeptMutation, ActionsAppend
<1>6. ASSUME NEW i \in 1 .. Len(options),
             AppendAction(options[i]) \notin {"AddIfAbsent", "OverwriteIfExists"},
             ~ \E j \in i + 1 .. Len(options) :
                  name(j) = name(i) /\ AppendAction(options[j]) \in overwrites
      PROVE  Contains(asked[1].headers[name(i)], options[i].header[1].value)
  <2>. DEFINE p == base + i
  <2>1. p \in 1 .. Len(ms)
    BY <1>4
  <2>2. ms[p].action \in {"AppendIfExistsOrAdd", "OverwriteIfExistsOrAdd"}
    BY <1>5, <1>6 DEF Actions
  <2>3. ASSUME NEW j \in p + 1 .. Len(ms), ms[j].name = ms[p].name
        PROVE  ms[j].action \in {"AppendIfExistsOrAdd", "AddIfAbsent"}
    <3>1. j - base \in i + 1 .. Len(options) /\ j - base \in 1 .. Len(options)
          /\ base + (j - base) = j
      BY <1>4
    <3>2. name(j - base) = name(i) /\ ms[j].action = AppendAction(options[j - base])
          /\ AppendAction(options[j - base]) \in Actions \ {"Remove"}
      <4>. HIDE DEF name
      <4>. QED  BY <1>5, <2>3, <3>1
    <3>3. AppendAction(options[j - base]) \notin overwrites
      <4>. HIDE DEF name, overwrites
      <4>. QED  BY <1>6, <3>1, <3>2
    <3>. QED  BY <3>2, <3>3 DEF Actions
  <2>4. Contains(apply_request_header_mutations(before, ms)[ms[p].name], ms[p].value)
    <3>. HIDE DEF p
    <3>. QED  BY <1>1, <1>4, <2>1, <2>2, <2>3, ValueStays
  <2>. QED  BY <1>3, <1>5, <2>4
<1>7. DOMAIN options = 1 .. Len(options)
  BY <1>4
<1>. QED  BY <1>6, <1>7 DEF AdditionsArrive, options

\* For every response and every header map: what the service adds is there when
\* the request is forwarded (README.md:90-91, decision.rs:50-63, lib.rs:508-541).
THEOREM AdditionsForwarded == Spec => []AdditionsArrive
BY OneEffectAlways, OutcomeHasAdditions, PTL

LEMMA OutcomeStatus == OneEffect => ReplyStatusIsHttp
<1>. SUFFICES ASSUME OneEffect, NEW o \in {asked, replayed}, o # <<>>
              PROVE  o[1].passed \/ o[1].status \in 100 .. 599
  BY DEF ReplyStatusIsHttp
<1>1. Passes(response, before, o[1]) \/ Refuses(response, o[1])
  <2>1. response \in CheckResponse
    BY DEF OneEffect
  <2>. QED  BY <2>1, Outcome, Effects
<1>2. CASE Passes(response, before, o[1])
  BY <1>2 DEF Passes, Forwarded
<1>3. CASE Refuses(response, o[1])
  BY <1>3 DEF Refuses
<1>. QED  BY <1>1, <1>2, <1>3

\* For every response: a reply has a status the proxy can send (decision.rs:107).
THEOREM StatusesValid == Spec => []ReplyStatusIsHttp
BY OneEffectAlways, OutcomeStatus, PTL
=============================================================================
