------------------------- MODULE AttendanceQueryProofs -------------------------
(***************************************************************************)
(* Lemmas about the operators of AttendanceQuery: which records a query    *)
(* selects, what a position is, and what the pages of a listing are.       *)
(***************************************************************************)
EXTENDS AttendanceQuery, FiniteSetTheorems, FunctionTheorems, TLAPS
--------------------------------------------------------------------------------
(***************************************************************************)
(* Placeholders and parameters, block by block.  PS and VS are what the    *)
(* blocks for the placeholders in S have appended.                         *)
(***************************************************************************)
Values(args) == {args[f] : f \in DOMAIN args}

Pairs(args, S, ps, vs) ==
    /\ ps \in Seq(S) /\ vs \in Seq(Values(args))
    /\ Len(vs) <= Len(ps)
    /\ Len(vs) = Len(ps) <=> \A p \in S : ~ Bad(args, p)
    /\ \A p \in S : Given(args, p) <=> \E i \in 1..Len(ps) : ps[i] = p
    /\ Len(vs) = Len(ps) => \A i \in 1..Len(ps) : vs[i] = args[Argument(ps[i])]

\* One block: nothing, a placeholder with its parameter, or one without.
LEMMA OneBlock ==
    ASSUME NEW args, NEW p
    PROVE  Pairs(args, {p}, Placeholder(args, p), Param(args, p))
<1>1. CASE ~ Given(args, p)
  BY <1>1 DEF Pairs, Placeholder, Param, Bad
<1>2. CASE Given(args, p) /\ Bad(args, p)
  BY <1>2 DEF Pairs, Placeholder, Param
<1>3. CASE Given(args, p) /\ ~ Bad(args, p)
  <2>1. args[Argument(p)] \in Values(args)
    BY <1>3 DEF Given, Values
  <2> QED
    BY <1>3, <2>1 DEF Pairs, Placeholder, Param
<1> QED
  BY <1>1, <1>2, <1>3

\* Two parts of the query, one after the other.
LEMMA TwoBlocks ==
    ASSUME NEW args, NEW S, NEW T, NEW ps, NEW vs, NEW qs, NEW ws,
           Pairs(args, S, ps, vs), Pairs(args, T, qs, ws)
    PROVE  Pairs(args, S \cup T, ps \o qs, vs \o ws)
<1> DEFINE both == ps \o qs
           values == vs \o ws
<1>1. /\ ps \in Seq(S) /\ qs \in Seq(T) /\ vs \in Seq(Values(args)) /\ ws \in Seq(Values(args))
      /\ Len(vs) <= Len(ps) /\ Len(ws) <= Len(qs)
  BY DEF Pairs
<1>2. /\ both \in Seq(S \cup T) /\ values \in Seq(Values(args))
      /\ Len(both) = Len(ps) + Len(qs) /\ Len(values) = Len(vs) + Len(ws)
      /\ \A i \in 1..Len(ps) : both[i] = ps[i]
      /\ \A i \in 1..Len(qs) : both[i + Len(ps)] = qs[i]
  <2>1. ps \in Seq(S \cup T) /\ qs \in Seq(S \cup T)
    BY <1>1
  <2>2. both \in Seq(S \cup T) /\ values \in Seq(Values(args))
    BY <1>1, <2>1
  <2>3. Len(both) = Len(ps) + Len(qs) /\ Len(values) = Len(vs) + Len(ws)
    BY <1>1
  <2> QED
    BY <1>1, <2>1, <2>2, <2>3
<1>3. Len(values) = Len(both) <=> Len(vs) = Len(ps) /\ Len(ws) = Len(qs)
  <2>1. Len(ps) \in Nat /\ Len(qs) \in Nat /\ Len(vs) \in Nat /\ Len(ws) \in Nat
    BY <1>1
  <2>2. Len(vs) <= Len(ps) /\ Len(ws) <= Len(qs)
    BY DEF Pairs
  <2>3. Len(vs) + Len(ws) = Len(ps) + Len(qs) <=> Len(vs) = Len(ps) /\ Len(ws) = Len(qs)
    <3> DEFINE a == Len(vs)
               b == Len(ps)
               c == Len(ws)
               d == Len(qs)
    <3>1. a \in Nat /\ b \in Nat /\ c \in Nat /\ d \in Nat /\ a <= b /\ c <= d
      BY <2>1, <2>2
    <3> HIDE DEF a, b, c, d
    <3>2. a + c = b + d <=> a = b /\ c = d
      BY <3>1
    <3> QED
      BY <3>2 DEF a, b, c, d
  <2> QED
    BY <1>2, <2>3
<1>4. Len(values) = Len(both) <=> \A p \in S \cup T : ~ Bad(args, p)
  BY <1>3 DEF Pairs
<1>5. ASSUME NEW p \in S \cup T
      PROVE  Given(args, p) <=> \E i \in 1..Len(both) : both[i] = p
  <2>1. ASSUME Given(args, p) PROVE \E i \in 1..Len(both) : both[i] = p
    <3>1. CASE p \in S
      <4>1. PICK i \in 1..Len(ps) : ps[i] = p
        BY <2>1, <3>1 DEF Pairs
      <4> QED
        BY <1>1, <1>2, <4>1
    <3>2. CASE p \in T
      <4>1. PICK i \in 1..Len(qs) : qs[i] = p
        BY <2>1, <3>2 DEF Pairs
      <4>2. i + Len(ps) \in 1..Len(both) /\ both[i + Len(ps)] = p
        BY <1>1, <1>2, <4>1
      <4> QED
        BY <4>2
    <3> QED
      BY <3>1, <3>2
  <2>2. ASSUME NEW i \in 1..Len(both), both[i] = p PROVE Given(args, p)
    <3>1. CASE i \in 1..Len(ps)
      <4>1. ps[i] = p /\ p \in S
        BY <1>1, <1>2, <2>2, <3>1
      <4> QED
        BY <3>1, <4>1 DEF Pairs
    <3>2. CASE i \notin 1..Len(ps)
      <4>1. i - Len(ps) \in 1..Len(qs)
        BY <1>1, <1>2, <3>2
      <4>2. qs[i - Len(ps)] = p /\ p \in T
        BY <1>1, <1>2, <2>2, <4>1
      <4> QED
        BY <4>1, <4>2 DEF Pairs
    <3> QED
      BY <3>1, <3>2
  <2> QED
    BY <2>1, <2>2
<1>6. ASSUME Len(values) = Len(both), NEW i \in 1..Len(both)
      PROVE  values[i] = args[Argument(both[i])]
  <2>1. Len(vs) = Len(ps) /\ Len(ws) = Len(qs)
    BY <1>3, <1>6
  <2>2. CASE i \in 1..Len(ps)
    <3>1. both[i] = ps[i] /\ values[i] = vs[i]
      BY <1>1, <2>1, <2>2
    <3> QED
      BY <2>1, <2>2, <3>1 DEF Pairs
  <2>3. CASE i \notin 1..Len(ps)
    <3>1. i - Len(ps) \in 1..Len(qs)
      BY <1>1, <1>2, <2>3
    <3>2. both[i] = qs[i - Len(ps)] /\ values[i] = ws[i - Len(ps)]
      BY <1>1, <1>2, <2>1, <2>3
    <3> QED
      BY <2>1, <3>1, <3>2 DEF Pairs
  <2> QED
    BY <2>2, <2>3
<1>7. Len(values) <= Len(both)
  BY <1>1, <1>2
<1> QED
  <2> HIDE DEF both, values
  <2>1. Pairs(args, S \cup T, both, values)
    BY <1>2, <1>4, <1>5, <1>6, <1>7 DEF Pairs
  <2> QED
    BY <2>1 DEF both, values

PlaceholderNames == {"record_id", "since_id", "employee_id", "branch", "status", "name",
                     "user", "from_date", "to_date"}

\* The whole query.
LEMMA AllBlocks ==
    ASSUME NEW args
    PROVE  Pairs(args, PlaceholderNames, Placeholders(args), Params(args))
<1> DEFINE P(p) == Placeholder(args, p)
           V(p) == Param(args, p)
           S1 == {"record_id"}
           P1 == P("record_id")
           V1 == V("record_id")
           S2 == S1 \cup {"since_id"}
           P2 == P1 \o P("since_id")
           V2 == V1 \o V("since_id")
           S3 == S2 \cup {"employee_id"}
           P3 == P2 \o P("employee_id")
           V3 == V2 \o V("employee_id")
           S4 == S3 \cup {"branch"}
           P4 == P3 \o P("branch")
           V4 == V3 \o V("branch")
           S5 == S4 \cup {"status"}
           P5 == P4 \o P("status")
           V5 == V4 \o V("status")
           S6 == S5 \cup {"name"}
           P6 == P5 \o P("name")
           V6 == V5 \o V("name")
           S7 == S6 \cup {"user"}
           P7 == P6 \o P("user")
           V7 == V6 \o V("user")
           S8 == S7 \cup {"from_date"}
           P8 == P7 \o P("from_date")
           V8 == V7 \o V("from_date")
           S9 == S8 \cup {"to_date"}
           P9 == P8 \o P("to_date")
           V9 == V8 \o V("to_date")
<1>0. \A p : Pairs(args, {p}, P(p), V(p))
  BY OneBlock
<1>1. Pairs(args, S1, P1, V1)
  BY <1>0
<1>2. Pairs(args, S2, P2, V2)
  <2> HIDE DEF P, V, S1, P1, V1
  <2> QED
    BY <1>0, <1>1, TwoBlocks
<1>3. Pairs(args, S3, P3, V3)
  <2> HIDE DEF P, V, S2, P2, V2
  <2> QED
    BY <1>0, <1>2, TwoBlocks
<1>4. Pairs(args, S4, P4, V4)
  <2> HIDE DEF P, V, S3, P3, V3
  <2> QED
    BY <1>0, <1>3, TwoBlocks
<1>5. Pairs(args, S5, P5, V5)
  <2> HIDE DEF P, V, S4, P4, V4
  <2> QED
    BY <1>0, <1>4, TwoBlocks
<1>6. Pairs(args, S6, P6, V6)
  <2> HIDE DEF P, V, S5, P5, V5
  <2> QED
    BY <1>0, <1>5, TwoBlocks
<1>7. Pairs(args, S7, P7, V7)
  <2> HIDE DEF P, V, S6, P6, V6
  <2> QED
    BY <1>0, <1>6, TwoBlocks
<1>8. Pairs(args, S8, P8, V8)
  <2> HIDE DEF P, V, S7, P7, V7
  <2> QED
    BY <1>0, <1>7, TwoBlocks
<1>9. Pairs(args, S9, P9, V9)
  <2> HIDE DEF P, V, S8, P8, V8
  <2> QED
    BY <1>0, <1>8, TwoBlocks
<1>10. S9 = PlaceholderNames
  BY DEF PlaceholderNames
<1> QED
  BY <1>9, <1>10 DEF Placeholders, Params
--------------------------------------------------------------------------------
(***************************************************************************)
(* What a query selects.                                                   *)
(***************************************************************************)

\* The numbers of placeholders and parameters agree unless a number is none.
LEMMA MalformedMismatch ==
    ASSUME NEW args
    PROVE  Len(Placeholders(args)) = Len(Params(args)) <=> ~ Malformed(args)
<1>1. NumberFilters \subseteq PlaceholderNames
  BY DEF NumberFilters, PlaceholderNames
<1>2. \A p : Bad(args, p) => Bad(args, Argument(p)) /\ Argument(p) \in NumberFilters
  BY DEF Bad, Given, Argument, NumberFilters
<1>3. Malformed(args) <=> \E p \in PlaceholderNames : Bad(args, p)
  BY <1>1, <1>2 DEF Malformed
<1> QED
  BY <1>3, AllBlocks DEF Pairs

\* A query that is not malformed compares every column with the argument of its
\* name: no parameter has moved to another placeholder.
LEMMA EveryArgumentCompared ==
    ASSUME NEW args, ~ Malformed(args), NEW R
    PROVE  Select(R, args) =
             {r \in R :
                /\ \A p \in PlaceholderNames \ {"name", "user"} :
                      p \in DOMAIN args => Holds(r, p, args[p])
                /\ "search" \in DOMAIN args =>
                      Holds(r, "name", args["search"]) \/ Holds(r, "user", args["search"])}
<1> DEFINE ps == Placeholders(args)
           vs == Params(args)
           like == {i \in DOMAIN ps : ps[i] \in {"name", "user"}}
           Named(r) == \A p \in PlaceholderNames \ {"name", "user"} :
                          p \in DOMAIN args => Holds(r, p, args[p])
           Found(r) == "search" \in DOMAIN args =>
                          Holds(r, "name", args["search"]) \/ Holds(r, "user", args["search"])
<1>1. Pairs(args, PlaceholderNames, ps, vs) /\ Len(ps) = Len(vs)
  BY AllBlocks, MalformedMismatch
<1>2. Select(R, args) =
        {r \in R : /\ \A i \in DOMAIN ps \ like : Holds(r, ps[i], vs[i])
                   /\ like # {} => \E i \in like : Holds(r, ps[i], vs[i])}
  BY <1>1 DEF Select, Compare
<1> HIDE DEF ps, vs
<1>3. /\ DOMAIN ps = 1..Len(ps)
      /\ \A i \in DOMAIN ps : ps[i] \in PlaceholderNames /\ vs[i] = args[Argument(ps[i])]
                              /\ Argument(ps[i]) \in DOMAIN args
      /\ \A p \in PlaceholderNames : Argument(p) \in DOMAIN args =>
            \E i \in DOMAIN ps : ps[i] = p
  BY <1>1 DEF Pairs, Given
<1>4. ASSUME NEW r \in R
      PROVE  (\A i \in DOMAIN ps \ like : Holds(r, ps[i], vs[i])) <=> Named(r)
  <2>1. ASSUME Named(r), NEW i \in DOMAIN ps \ like PROVE Holds(r, ps[i], vs[i])
    <3>1. ps[i] \in PlaceholderNames \ {"name", "user"} /\ Argument(ps[i]) = ps[i]
      BY <1>3 DEF Argument
    <3> QED
      BY <1>3, <2>1, <3>1
  <2>2. ASSUME \A i \in DOMAIN ps \ like : Holds(r, ps[i], vs[i]),
               NEW p \in PlaceholderNames \ {"name", "user"}, p \in DOMAIN args
        PROVE  Holds(r, p, args[p])
    <3>1. Argument(p) = p
      BY DEF Argument
    <3>2. PICK i \in DOMAIN ps : ps[i] = p
      BY <1>3, <2>2, <3>1
    <3>3. i \notin like /\ vs[i] = args[p]
      BY <1>3, <3>1, <3>2
    <3> QED
      BY <2>2, <3>2, <3>3
  <2> QED
    BY <2>1, <2>2
<1>5. ASSUME NEW r \in R
      PROVE  (like # {} => \E i \in like : Holds(r, ps[i], vs[i])) <=> Found(r)
  <2>1. CASE "search" \in DOMAIN args
    <3>1. Argument("name") = "search" /\ Argument("user") = "search"
          /\ {"name", "user"} \subseteq PlaceholderNames
      BY DEF Argument, PlaceholderNames
    <3>2. PICK i \in DOMAIN ps : ps[i] = "name"
      BY <1>3, <2>1, <3>1
    <3>3. PICK j \in DOMAIN ps : ps[j] = "user"
      BY <1>3, <2>1, <3>1
    <3>4. i \in like /\ j \in like /\ vs[i] = args["search"] /\ vs[j] = args["search"]
      BY <1>3, <3>1, <3>2, <3>3
    <3>5. \A k \in like : ps[k] \in {"name", "user"} /\ vs[k] = args["search"]
      BY <1>3, <3>1
    <3> QED
      BY <2>1, <3>2, <3>3, <3>4, <3>5
  <2>2. CASE "search" \notin DOMAIN args
    <3>1. like = {}
      BY <1>3, <2>2 DEF Argument
    <3> QED
      BY <2>2, <3>1
  <2> QED
    BY <2>1, <2>2
<1> QED
  BY <1>2, <1>4, <1>5

\* The first and the last moment of a day.
LEMMA DayOf ==
    ASSUME NEW t \in Nat, NEW v \in Int
    PROVE  /\ t >= v * Day <=> t \div Day >= v
           /\ t < (v + 1) * Day <=> t \div Day <= v
  BY AttendanceQueryAssumption

\* The query of a call that is not malformed selects what its arguments mean.
LEMMA SelectMeans ==
    ASSUME NEW args, IsCall(args), ~ Malformed(args),
           NEW R, \A r \in R : r.id \in Int /\ r.attendance_time \in Nat
    PROVE  Select(R, args) = {r \in R : Wanted(r, args)}
<1>1. ASSUME NEW r \in R
      PROVE  /\ \A p \in PlaceholderNames \ {"name", "user"} :
                   p \in DOMAIN args => Holds(r, p, args[p])
             /\ "search" \in DOMAIN args =>
                   Holds(r, "name", args["search"]) \/ Holds(r, "user", args["search"])
             <=> Wanted(r, args)
  <2>1. \A f \in DOMAIN args : f \in Filters
    BY DEF IsCall
  <2>2. "from_date" \in DOMAIN args =>
          (Holds(r, "from_date", args["from_date"]) <=> r.attendance_time \div Day >= args["from_date"])
    BY DayOf DEF IsCall, Holds
  <2>3. "to_date" \in DOMAIN args =>
          (Holds(r, "to_date", args["to_date"]) <=> r.attendance_time \div Day <= args["to_date"])
    BY DayOf DEF IsCall, Holds
  <2>4. "search" \in DOMAIN args =>
          (Holds(r, "name", args["search"]) \/ Holds(r, "user", args["search"])
             <=> {r.user_name, r.user_id} \cap args["search"] # {})
    BY DEF Holds
  <2>5. ASSUME NEW f \in DOMAIN args, f # "search"
        PROVE  /\ f \in PlaceholderNames \ {"name", "user"}
               /\ Holds(r, f, args[f]) <=> Names(r, f, args[f])
    <3>1. CASE f \in {"record_id", "since_id", "employee_id", "branch", "status"}
      BY <3>1 DEF Holds, Names, PlaceholderNames
    <3>2. CASE f = "from_date"
      BY <2>2, <3>2 DEF Names, PlaceholderNames
    <3>3. CASE f = "to_date"
      BY <2>3, <3>3 DEF Names, PlaceholderNames
    <3> QED
      BY <2>1, <2>5, <3>1, <3>2, <3>3 DEF Filters
  <2>6. "search" \in DOMAIN args =>
          (Holds(r, "name", args["search"]) \/ Holds(r, "user", args["search"])
             <=> Names(r, "search", args["search"]))
    BY <2>4 DEF Names
  <2>7. Wanted(r, args) <=> \A f \in DOMAIN args : Names(r, f, args[f])
    BY DEF Wanted
  <2>8. "search" \notin PlaceholderNames
    BY DEF PlaceholderNames
  <2> QED
    BY <2>5, <2>6, <2>7, <2>8
<1> QED
  BY <1>1, EveryArgumentCompared
--------------------------------------------------------------------------------
(***************************************************************************)
(* The order of a listing: positions, the listing as a sequence, pages.    *)
(***************************************************************************)

\* ORDER BY puts any two different records of M in an order.
Ordered(M, s) ==
    /\ IsFiniteSet(M)
    /\ \A a \in M : ~ Before(s, a, a)
    /\ \A a, b \in M : a # b => Before(s, a, b) \/ Before(s, b, a)
    /\ \A a, b, c \in M : Before(s, a, b) /\ Before(s, b, c) => Before(s, a, c)

\* With `id' as the last column, it does so whatever column comes first, and
\* whatever the request says.
LEMMA RecordsOrdered ==
    ASSUME NEW M, IsFiniteSet(M),
           \A r \in M : /\ r.id \in Int /\ r.attendance_time \in Int
                        /\ r.user_id \in Int /\ r.branch_name \in Int,
           \A r, q \in M : r.id = q.id => r = q,
           NEW s
    PROVE  Ordered(M, s)
<1> DEFINE c == Column(s.by)
<1>1. c \in SortColumns
  BY DEF Column, SortColumns
<1>2. \A r \in M : r[c] \in Int
  BY <1>1 DEF SortColumns
<1> HIDE DEF c
<1>3. \A a, b : Before(s, a, b) <=>
        IF s.dir = "asc" THEN a[c] < b[c] \/ (a[c] = b[c] /\ a.id < b.id)
                         ELSE a[c] > b[c] \/ (a[c] = b[c] /\ a.id > b.id)
  BY DEF Before, c
<1>4. CASE s.dir = "asc"
  BY <1>2, <1>3, <1>4 DEF Ordered
<1>5. CASE s.dir # "asc"
  BY <1>2, <1>3, <1>5 DEF Ordered
<1> QED
  BY <1>4, <1>5

\* A part of an ordered set is ordered.
LEMMA PartOrdered ==
    ASSUME NEW M, NEW N \in SUBSET M, NEW s, Ordered(M, s)
    PROVE  Ordered(N, s)
  BY FS_Subset DEF Ordered

\* Positions count from 0, and grow along the order.
LEMMA PositionsGrow ==
    ASSUME NEW M, NEW s, Ordered(M, s), NEW a \in M, NEW b \in M
    PROVE  /\ Position(M, s, a) \in 0..(Cardinality(M) - 1)
           /\ Before(s, a, b) => Position(M, s, a) < Position(M, s, b)
<1> DEFINE Earlier(r) == {q \in M : Before(s, q, r)}
<1>1. ASSUME NEW r \in M
      PROVE  /\ IsFiniteSet(Earlier(r)) /\ Cardinality(Earlier(r)) \in Nat
             /\ Cardinality(Earlier(r)) < Cardinality(M)
  <2>1. Earlier(r) \in SUBSET M /\ r \notin Earlier(r) /\ IsFiniteSet(M)
    BY DEF Ordered
  <2>2. IsFiniteSet(Earlier(r)) /\ Cardinality(Earlier(r)) <= Cardinality(M)
        /\ Cardinality(M) # Cardinality(Earlier(r))
    BY <2>1, FS_Subset
  <2> QED
    BY <2>1, <2>2, FS_CardinalityType
<1>2. ASSUME Before(s, a, b) PROVE Cardinality(Earlier(a)) < Cardinality(Earlier(b))
  <2>1. Earlier(a) \in SUBSET Earlier(b) /\ a \in Earlier(b) /\ a \notin Earlier(a)
    BY <1>2 DEF Ordered
  <2>2. /\ Cardinality(Earlier(a)) <= Cardinality(Earlier(b))
        /\ Cardinality(Earlier(b)) # Cardinality(Earlier(a))
    BY <1>1, <2>1, FS_Subset
  <2> QED
    BY <1>1, <2>2
<1>3. Cardinality(M) \in Nat
  BY FS_CardinalityType DEF Ordered
<1>4. Position(M, s, a) = Cardinality(Earlier(a)) /\ Position(M, s, b) = Cardinality(Earlier(b))
  BY DEF Position
<1> HIDE DEF Earlier
<1> QED
  BY <1>1, <1>2, <1>3, <1>4

\* Every position from 0 on is the position of exactly one record.
LEMMA PositionsExact ==
    ASSUME NEW M, NEW s, Ordered(M, s)
    PROVE  /\ Cardinality(M) \in Nat
           /\ \A a, b \in M : Position(M, s, a) = Position(M, s, b) => a = b
           /\ [r \in M |-> Position(M, s, r)] \in Bijection(M, 0..(Cardinality(M) - 1))
<1> DEFINE n == Cardinality(M)
           f == [r \in M |-> Position(M, s, r)]
<1>1. n \in Nat /\ IsFiniteSet(M)
  BY FS_CardinalityType DEF Ordered
<1>2. ASSUME NEW a \in M, NEW b \in M, Position(M, s, a) = Position(M, s, b) PROVE a = b
  BY <1>2, PositionsGrow DEF Ordered
<1>3. f \in [M -> 0..(n - 1)]
  BY PositionsGrow
<1>4. f \in Injection(M, 0..(n - 1))
  BY <1>2, <1>3, Fun_IsInj
<1>5. IsFiniteSet(0..(n - 1)) /\ Cardinality(0..(n - 1)) = n
  BY <1>1, FS_Interval
<1>6. f \in Surjection(M, 0..(n - 1))
  BY <1>4, <1>5, FS_Injection
<1> QED
  BY <1>1, <1>2, <1>4, <1>6 DEF Bijection

\* The export exists, and has every record at its position.
LEMMA ExportInOrder ==
    ASSUME NEW M, NEW s, Ordered(M, s)
    PROVE  /\ ExportCsv(M, s) \in [1..Cardinality(M) -> M]
           /\ \A i \in 1..Cardinality(M) : Position(M, s, ExportCsv(M, s)[i]) = i - 1
           /\ \A r \in M : ExportCsv(M, s)[Position(M, s, r) + 1] = r
<1> DEFINE n == Cardinality(M)
           Listing(q) == /\ IsInjective(q)
                         /\ \A i, j \in DOMAIN q : i < j => ~ Before(s, q[j], q[i])
           export == ExportCsv(M, s)
<1>1. n \in Nat /\ IsFiniteSet(M)
  BY PositionsExact DEF Ordered
<1>2. \A i \in 1..n : \E r \in M : Position(M, s, r) = i - 1
  <2>1. [r \in M |-> Position(M, s, r)] \in Surjection(M, 0..(n - 1))
    BY PositionsExact DEF Bijection
  <2>2. \A k \in 0..(n - 1) : \E r \in M : [q \in M |-> Position(M, s, q)][r] = k
    BY <2>1 DEF Surjection
  <2> QED
    BY <1>1, <2>2
<1>3. \E q \in [1..n -> M] : Listing(q)
  <2> DEFINE q == [i \in 1..n |-> CHOOSE r \in M : Position(M, s, r) = i - 1]
  <2>1. \A i \in 1..n : q[i] \in M /\ Position(M, s, q[i]) = i - 1
    BY <1>2
  <2>2. q \in [1..n -> M]
    BY <2>1
  <2> HIDE DEF q
  <2>3. \A i, j \in 1..n : q[i] = q[j] => i = j
    BY <1>1, <2>1
  <2>4. \A i, j \in 1..n : i < j => ~ Before(s, q[j], q[i])
    BY <1>1, <2>1, PositionsGrow
  <2> QED
    BY <2>2, <2>3, <2>4 DEF IsInjective
<1>4. export \in [1..n -> M] /\ Listing(export)
  <2> HIDE DEF n
  <2>1. export = CHOOSE q \in [1..n -> M] : Listing(q)
    BY DEF ExportCsv, n
  <2> HIDE DEF Listing, export
  <2> QED
    BY <1>3, <2>1
<1> HIDE DEF export
<1>5. /\ \A i, j \in 1..n : export[i] = export[j] => i = j
      /\ \A i, j \in 1..n : i < j => ~ Before(s, export[j], export[i])
  BY <1>4 DEF IsInjective
<1>6. IsFiniteSet(1..n) /\ Cardinality(1..n) = n
  BY <1>1, FS_Interval
<1>7. export \in Injection(1..n, M)
  BY <1>4, <1>5, Fun_IsInj
<1>8. \A r \in M : \E i \in 1..n : export[i] = r
  <2>1. export \in Surjection(1..n, M)
    BY <1>1, <1>6, <1>7, FS_Injection
  <2> QED
    BY <2>1 DEF Surjection
<1>9. \A i, j \in 1..n : Before(s, export[i], export[j]) <=> i < j
  BY <1>1, <1>4, <1>5 DEF Ordered
<1>10. ASSUME NEW i \in 1..n PROVE Position(M, s, export[i]) = i - 1
  <2> DEFINE Earlier == {r \in M : Before(s, r, export[i])}
             f == [j \in 1..(i - 1) |-> export[j]]
  <2>1. \A j \in 1..(i - 1) : j \in 1..n
    BY <1>1
  <2>2. f \in [1..(i - 1) -> Earlier]
    BY <1>1, <1>4, <1>9, <2>1
  <2>3. \A j, k \in 1..(i - 1) : f[j] = f[k] => j = k
    BY <1>5, <2>1
  <2>4. \A r \in Earlier : \E j \in 1..(i - 1) : f[j] = r
    <3>1. ASSUME NEW r \in Earlier PROVE \E j \in 1..(i - 1) : f[j] = r
      <4>1. PICK j \in 1..n : export[j] = r
        BY <1>8
      <4>2. j < i
        BY <1>9, <4>1
      <4>3. j \in 1..(i - 1)
        BY <1>1, <4>2
      <4> QED
        BY <4>1, <4>3
    <3> QED
      BY <3>1
  <2>5. f \in Bijection(1..(i - 1), Earlier)
    BY <2>2, <2>3, <2>4, Fun_IsBij
  <2>6. IsFiniteSet(1..(i - 1)) /\ Cardinality(1..(i - 1)) = i - 1
    <3>1. i - 1 \in Nat /\ 1 \in Int /\ (1 > i - 1 => i - 1 = 0) /\ i - 1 - 1 + 1 = i - 1
      BY <1>1
    <3> QED
      BY <3>1, FS_Interval
  <2>7. Cardinality(Earlier) = i - 1
    BY <2>5, <2>6, FS_Bijection DEF ExistsBijection
  <2> QED
    BY <2>7 DEF Position
<1>11. ASSUME NEW r \in M PROVE export[Position(M, s, r) + 1] = r
  <2>1. PICK i \in 1..n : export[i] = r
    BY <1>8
  <2> QED
    BY <1>1, <1>10, <2>1
<1> QED
  BY <1>4, <1>10, <1>11 DEF export

\* A page is a stretch of the export.
LEMMA PageIsStretch ==
    ASSUME NEW M, NEW s, Ordered(M, s), NEW p \in Nat \ {0}, NEW per \in 1..MaxPerPage
    PROVE  PageOf(M, s, p, per) =
             {ExportCsv(M, s)[i] : i \in {k \in 1..Cardinality(M) :
                                            (p - 1) * per < k /\ k <= (p - 1) * per + per}}
<1> DEFINE n == Cardinality(M)
           offset == (p - 1) * per
           stretch == {k \in 1..n : offset < k /\ k <= offset + per}
           export == ExportCsv(M, s)
<1>1. n \in Nat /\ offset \in Nat /\ per \in Nat
  <2>1. n \in Nat
    BY PositionsExact
  <2>2. p - 1 \in Nat /\ per \in Nat
    BY AttendanceQueryAssumption
  <2>3. \A a, b \in Nat : a * b \in Nat
    OBVIOUS
  <2> QED
    BY <2>1, <2>2, <2>3
<1>2. AtLeast1(p) = p /\ Limit(per) = per
  BY AttendanceQueryAssumption DEF AtLeast1, Limit
<1>3. PageOf(M, s, p, per) =
        {r \in M : offset <= Position(M, s, r) /\ Position(M, s, r) < offset + per}
  BY <1>2 DEF PageOf
<1>4. /\ \A i \in 1..n : export[i] \in M /\ Position(M, s, export[i]) = i - 1
      /\ \A r \in M : export[Position(M, s, r) + 1] = r
      /\ \A r \in M : Position(M, s, r) \in 0..(n - 1)
  <2>1. /\ export \in [1..n -> M]
        /\ \A i \in 1..n : Position(M, s, export[i]) = i - 1
        /\ \A r \in M : export[Position(M, s, r) + 1] = r
    BY ExportInOrder
  <2>2. \A r \in M : Position(M, s, r) \in 0..(n - 1)
    BY PositionsGrow
  <2> HIDE DEF export, n
  <2> QED
    BY <2>1, <2>2
<1> HIDE DEF export, n, offset
<1>5. ASSUME NEW i \in stretch PROVE export[i] \in PageOf(M, s, p, per)
  <2>1. offset <= i - 1 /\ i - 1 < offset + per
    BY <1>1
  <2> QED
    BY <1>3, <1>4, <2>1
<1>6. ASSUME NEW r \in PageOf(M, s, p, per) PROVE \E i \in stretch : export[i] = r
  <2> DEFINE i == Position(M, s, r) + 1
  <2>1. r \in M /\ i \in stretch
    BY <1>1, <1>3, <1>4
  <2> QED
    BY <1>4, <2>1
<1> QED
  BY <1>5, <1>6 DEF export, n, offset

LEMMA Multiply ==
    /\ \A a, b \in Nat : a * b \in Nat
    /\ \A a, b, c \in Nat : a <= b => a * c <= b * c
    /\ \A a \in Nat \ {0}, c \in Nat : (a - 1) * c + c = a * c
<1>1. \A a, b, c \in Nat : a <= b => a * c <= b * c
  <2>1. ASSUME NEW a \in Nat, NEW b \in Nat, NEW c \in Nat, a <= b PROVE a * c <= b * c
    <3>1. b = a + (b - a) /\ b - a \in Nat
      BY <2>1
    <3>2. b * c = a * c + (b - a) * c /\ (b - a) * c \in Nat
      BY <3>1
    <3> QED
      BY <3>2
  <2> QED
    BY <2>1
<1> QED
  BY <1>1

\* The last page is the one that the last record is on.
LEMMA LastPage ==
    ASSUME NEW total \in Nat, NEW per \in 1..MaxPerPage
    PROVE  /\ TotalPages(total, per) \in Nat
           /\ total <= TotalPages(total, per) * per
           /\ TotalPages(total, per) # 0 => (TotalPages(total, per) - 1) * per < total
<1>1. per \in Nat \ {0}
  BY AttendanceQueryAssumption
<1> QED
  BY <1>1 DEF TotalPages

\* The pages of a listing partition it: page p is the p-th stretch of `per'
\* records of the export, and there are no others.
LEMMA PagesAreStretches ==
    ASSUME NEW M, NEW s, Ordered(M, s), NEW per \in 1..MaxPerPage
    PROVE  LET total == Cardinality(M)
               export == ExportCsv(M, s)
               last == TotalPages(total, per)
           IN  /\ \A p \in 1..last :
                     PageOf(M, s, p, per) =
                         {export[i] : i \in ((p - 1) * per + 1)..(IF p = last THEN total ELSE p * per)}
               /\ \A p \in 1..last : HasNext(p, total, per) <=> p # last
               /\ PageOf(M, s, last + 1, per) = {}
               /\ {export[i] : i \in DOMAIN export} = M
<1> DEFINE total == Cardinality(M)
           export == ExportCsv(M, s)
           last == TotalPages(total, per)
<1>1. total \in Nat /\ per \in Nat \ {0}
  <2>1. total \in Nat
    BY PositionsExact
  <2> QED
    BY <2>1, AttendanceQueryAssumption
<1>2. /\ last \in Nat /\ total <= last * per
      /\ last # 0 => (last - 1) * per < total
  BY <1>1, LastPage
<1>3. ASSUME NEW p \in Nat \ {0}
      PROVE  PageOf(M, s, p, per) =
               {export[i] : i \in {k \in 1..total : (p - 1) * per < k /\ k <= (p - 1) * per + per}}
  BY PageIsStretch
<1>4. /\ export \in [1..total -> M]
      /\ \A r \in M : export[Position(M, s, r) + 1] = r /\ Position(M, s, r) \in 0..(total - 1)
  BY ExportInOrder, PositionsGrow
<1> HIDE DEF total, export, last
<1>5. ASSUME NEW p \in 1..last
      PROVE  {k \in 1..total : (p - 1) * per < k /\ k <= (p - 1) * per + per}
               = ((p - 1) * per + 1)..(IF p = last THEN total ELSE p * per)
  <2>1. /\ p \in Nat \ {0} /\ p - 1 \in Nat /\ (p - 1) * per \in Nat /\ p * per \in Nat
        /\ (p - 1) * per + per = p * per
    BY <1>1, <1>2, Multiply
  <2>2. p # last => p * per <= (last - 1) * per /\ (last - 1) * per < total
    BY <1>1, <1>2, Multiply
  <2>3. p # last => p * per <= total
    BY <1>1, <1>2, <2>1, <2>2
  <2> QED
    BY <1>1, <1>2, <2>1, <2>3
<1>6. \A p \in 1..last : PageOf(M, s, p, per) =
        {export[i] : i \in ((p - 1) * per + 1)..(IF p = last THEN total ELSE p * per)}
  BY <1>2, <1>3, <1>5
<1>7. \A p \in 1..last : HasNext(p, total, per) <=> p # last
  BY <1>2 DEF HasNext, last
<1>8. PageOf(M, s, last + 1, per) = {}
  <2>1. last + 1 \in Nat \ {0} /\ (last + 1) - 1 = last
    BY <1>2
  <2>2. {k \in 1..total : last * per < k /\ k <= last * per + per} = {}
    BY <1>1, <1>2
  <2> QED
    BY <1>3, <2>1, <2>2
<1>9. {export[i] : i \in DOMAIN export} = M
  BY <1>1, <1>4
<1> QED
  BY <1>6, <1>7, <1>8, <1>9 DEF total, export, last

\* "Showing a-b" leaves room for the records of a page.
LEMMA PageHasRoom ==
    ASSUME NEW M, NEW s, Ordered(M, s), NEW p \in Nat \ {0}, NEW per \in 1..MaxPerPage
    PROVE  /\ IsFiniteSet(PageOf(M, s, p, per))
           /\ PageOf(M, s, p, per) # {} =>
                /\ (p - 1) * per + Cardinality(PageOf(M, s, p, per)) <= Cardinality(M)
                /\ Cardinality(PageOf(M, s, p, per)) <= per
<1> DEFINE n == Cardinality(M)
           offset == (p - 1) * per
           P == PageOf(M, s, p, per)
           f == [r \in P |-> Position(M, s, r)]
           last == IF n <= offset + per THEN n - 1 ELSE offset + per - 1
<1>1. n \in Nat /\ IsFiniteSet(M)
  BY PositionsExact DEF Ordered
<1>2. p - 1 \in Nat /\ per \in Nat \ {0} /\ offset \in Nat
  <2>1. p - 1 \in Nat /\ per \in Nat \ {0}
    BY AttendanceQueryAssumption
  <2> QED
    BY <2>1, Multiply
<1>3. AtLeast1(p) = p /\ Limit(per) = per
  BY AttendanceQueryAssumption DEF AtLeast1, Limit
<1>4. P = {r \in M : offset <= Position(M, s, r) /\ Position(M, s, r) < offset + per}
  BY <1>3 DEF PageOf
<1> HIDE DEF P, n, offset
<1>5. \A r \in M : Position(M, s, r) \in 0..(n - 1)
  BY PositionsGrow DEF n
<1>6. \A a, b \in M : Position(M, s, a) = Position(M, s, b) => a = b
  BY PositionsExact
<1>7. f \in [P -> offset..last]
  BY <1>1, <1>2, <1>4, <1>5
<1>8. f \in Injection(P, offset..last)
  BY <1>4, <1>6, <1>7, Fun_IsInj
<1>9. IsFiniteSet(offset..last)
      /\ Cardinality(offset..last) = IF offset > last THEN 0 ELSE last - offset + 1
  BY <1>1, <1>2, FS_Interval
<1>10. IsFiniteSet(P) /\ Cardinality(P) <= Cardinality(offset..last)
  BY <1>8, <1>9, FS_Injection
<1>11. ASSUME P # {} PROVE offset + Cardinality(P) <= n /\ Cardinality(P) <= per
  <2>1. offset <= last
    BY <1>1, <1>2, <1>4, <1>5, <1>11
  <2>2. Cardinality(P) \in Nat
    BY <1>10, FS_CardinalityType
  <2> QED
    BY <1>1, <1>2, <1>9, <1>10, <2>1, <2>2
<1> QED
  BY <1>10, <1>11 DEF P, n, offset
================================================================================
