----------------------------- MODULE TapeProofs -----------------------------
(***************************************************************************)
(* Theorems about TapeBuilder, for every graph, every set of unscheduled   *)
(* arrays, every list of outputs and every width: the second pass finds    *)
(* the uses of every input it looks up, the tape it leaves is one that     *)
(* AsyncEval admits, and exactly the inputs that cross streams get fences. *)
(***************************************************************************)
EXTENDS TapeBuilder, SequenceTheorems, FiniteSetTheorems, Induction, TLAPS

Nodes == Arrays \cup {Sync}
Frames == Nodes \X (Nat \ {0})

\* An array with its siblings: what the walk handles as one.
Group(a) == IF a = Sync THEN {Sync} ELSE {a} \cup Siblings(a)
Rep(a) == CHOOSE b \in Group(a) : TRUE

\* The uses of arrays: a node, which stands for its group, and a place in its inputs.
Edges == UNION {{<<a, k>> : k \in DOMAIN Inputs(a)} : a \in {b \in Nodes : b = Rep(b)}}
Target(e) == Inputs(e[1])[e[2]]

\* What the outputs depend on.
Reached == Reach(call.g, call.u, ToSet(call.outs))
Known == Reached \cup {Sync}

TapeTypes ==
  /\ call \in Cases
  /\ phase \in {"dfs", "bfs", "done"}
  /\ dfs \in Seq(Frames)
  /\ degree \in [DOMAIN degree -> Int] /\ DOMAIN degree \subseteq Arrays
  /\ tape \in Seq(Nodes) /\ i \in Nat
  /\ at \in Frames \cup {NoEntry}

\* The stack still holds the use e back.
Held(e) ==
  \E j \in DOMAIN dfs : dfs[j][1] \in Group(e[1]) /\ dfs[j][2] <= e[2]

\* The uses the first pass has met.
Met(e) == e[1] \in DOMAIN degree \cup {Sync} /\ ~Held(e)
MetTo(x) == {e \in Edges : Target(e) \in Group(x) /\ Met(e)}

\* e is an unscheduled array's use on another stream.
Crosses(e) == Unscheduled(Target(e)) /\ StreamOf(e[1]) # StreamOf(Target(e))

FirstPass ==
  phase = "dfs" =>
    /\ \A j \in DOMAIN dfs : dfs[j][1] \in DOMAIN degree \cup {Sync}
    /\ \A j, k \in DOMAIN dfs : dfs[k][1] \in Group(dfs[j][1]) => j = k
    /\ DOMAIN degree \subseteq Reached
    /\ \A x \in Arrays :
         /\ x \in DOMAIN degree <=> MetTo(x) # {}
         /\ x \in DOMAIN degree => /\ IsFiniteSet(MetTo(x))
                                   /\ degree[x] = Cardinality(MetTo(x))
    /\ needsFence = {Target(e) : e \in {f \in Edges : Met(f) /\ Crosses(f)}}
    /\ tape = <<>> /\ i = 0 /\ at = NoEntry

\* The uses the second pass has taken off.
Taken(e) ==
  /\ \E p \in 1 .. i : tape[p] \in Group(e[1])
  /\ ~Held(e)
  /\ at # NoEntry => ~(at[1] \in Group(e[1]) /\ at[2] <= e[2])
OpenTo(x) == {e \in Edges : Target(e) \in Group(x) /\ e[1] \in Known /\ ~Taken(e)}
Listed(x) == \E p \in DOMAIN tape : tape[p] \in Group(x)

Tallied(x) ==
  /\ x \in DOMAIN degree <=> OpenTo(x) # {}
  /\ x \in DOMAIN degree => /\ IsFiniteSet(OpenTo(x))
                            /\ degree[x] = Cardinality(OpenTo(x))
  /\ Listed(x) <=> OpenTo(x) = {}

\* The tape: consumers before their inputs, and one array of a group.
Listing ==
  /\ tape # <<>> /\ tape[1] = Sync /\ i <= Len(tape)
  /\ \A p \in DOMAIN tape : p > 1 =>
       /\ tape[p] \in Reached /\ Unscheduled(tape[p])
       /\ \E r \in 1 .. p - 1 : tape[p] \in ToSet(Inputs(tape[r]))
  /\ \A p, q \in DOMAIN tape : tape[q] \in Group(tape[p]) => p = q
  /\ \A p, q \in DOMAIN tape : \A x \in ToSet(Inputs(tape[p])) :
       Unscheduled(x) /\ tape[q] \in Group(x) => p < q

\* The arrays being expanded have left the queue, each at one place.
Expanding ==
  /\ \A j \in DOMAIN dfs : \E p \in 1 .. i : dfs[j][1] = tape[p]
  /\ \A j, l \in DOMAIN dfs : dfs[j][1] = dfs[l][1] => j = l
  /\ at # NoEntry => /\ \E p \in 1 .. i : at[1] = tape[p]
                     /\ \A j \in DOMAIN dfs : dfs[j][1] # at[1]

SecondPass ==
  phase # "dfs" =>
    /\ Listing /\ Expanding
    /\ \A x \in Reached : Unscheduled(x) => Tallied(x)
    /\ needsFence = {Target(e) : e \in {f \in Edges : f[1] \in Known /\ Crosses(f)}}
    /\ phase = "done" => at = NoEntry /\ ~MoreToExpand

-----------------------------------------------------------------------------
(* The graph *)

\* What the assumption says of the call at hand.
LEMMA CallFacts ==
  ASSUME call \in Cases
  PROVE  /\ IsGraph(call.g) /\ call.outs \in Seq(Arrays) /\ call.u \subseteq Arrays
         /\ \A a \in call.u : call.g.sib[a] \subseteq call.u
BY TapeBuilderAssumption

\* The inputs of a node are arrays, smaller ones; a detached array has none.
LEMMA InputFacts ==
  ASSUME call \in Cases, NEW a \in Nodes
  PROVE  /\ Inputs(a) \in Seq(Arrays)
         /\ Len(Inputs(a)) \in Nat /\ DOMAIN Inputs(a) = 1 .. Len(Inputs(a))
         /\ \A k \in DOMAIN Inputs(a) : /\ Inputs(a)[k] \in Arrays
                                        /\ Inputs(a)[k] \in ToSet(Inputs(a))
         /\ \A x \in ToSet(Inputs(a)) : x \in Arrays /\ \E k \in DOMAIN Inputs(a) : x = Inputs(a)[k]
         /\ a # Sync => a \in Arrays
         /\ a # Sync /\ Inputs(a) # <<>> => Unscheduled(a)
         /\ a # Sync => \A x \in ToSet(Inputs(a)) : x < a
<1>1. Inputs(a) \in Seq(Arrays)
  BY CallFacts DEF Inputs, Nodes, IsGraph
<1>2. Len(Inputs(a)) \in Nat /\ DOMAIN Inputs(a) = 1 .. Len(Inputs(a))
  BY <1>1, LenProperties
<1>3. a # Sync => \A x \in ToSet(Inputs(a)) : x < a
  BY CallFacts DEF Inputs, Nodes, IsGraph, ToSet
<1>4. \A k \in DOMAIN Inputs(a) : Inputs(a)[k] \in Arrays
  BY <1>1, <1>2, ElementOfSeq
<1>5. a # Sync => a \in Arrays
  BY DEF Nodes
<1>6. a # Sync /\ Inputs(a) # <<>> => Unscheduled(a)
  BY DEF Inputs
<1> QED
  BY <1>1, <1>2, <1>3, <1>4, <1>5, <1>6 DEF ToSet

\* The members of a group are alike in all the walk looks at.
LEMMA GroupFacts ==
  ASSUME call \in Cases, NEW a \in Nodes
  PROVE  /\ a \in Group(a) /\ Group(a) \subseteq Nodes
         /\ Rep(a) \in Group(a) /\ Rep(Rep(a)) = Rep(a)
         /\ a # Sync => Group(a) \subseteq Arrays
         /\ a = Sync => Group(a) = {Sync}
         /\ \A b \in Group(a) :
              /\ Group(b) = Group(a) /\ Rep(b) = Rep(a)
              /\ Inputs(b) = Inputs(a) /\ StreamOf(b) = StreamOf(a)
              /\ Unscheduled(b) <=> Unscheduled(a)
              /\ b = Sync <=> a = Sync
<1>0. Sync \notin Arrays
  BY DEF Sync, Arrays
<1>1. a \in Group(a)
  BY DEF Group
<1>2. a # Sync => Group(a) \subseteq Arrays
  BY CallFacts DEF Group, Nodes, Siblings, IsGraph
<1>3. ASSUME NEW b \in Group(a)
      PROVE  /\ Group(b) = Group(a)
             /\ Inputs(b) = Inputs(a) /\ StreamOf(b) = StreamOf(a)
             /\ Unscheduled(b) <=> Unscheduled(a)
             /\ b = Sync <=> a = Sync
  <2>1. CASE a = b \/ a = Sync
    BY <1>3, <2>1 DEF Group
  <2>2. CASE a # b /\ a # Sync
    <3>1. b \in Siblings(a) /\ a \in Arrays /\ Unscheduled(a)
      BY <1>3, <2>2 DEF Group, Siblings, Nodes
    <3>2. /\ b \in call.g.sib[a] /\ b \in Arrays /\ b # Sync
          /\ call.g.sib[b] = (call.g.sib[a] \ {b}) \cup {a}
          /\ call.g.in[b] = call.g.in[a] /\ call.g.stream[b] = call.g.stream[a]
          /\ Unscheduled(b)
      BY <1>0, <3>1, CallFacts DEF Siblings, IsGraph, Unscheduled
    <3> QED
      BY <2>2, <3>1, <3>2 DEF Group, Siblings, Inputs, StreamOf
  <2> QED
    BY <2>1, <2>2
<1>4. Rep(a) \in Group(a)
  BY <1>1 DEF Rep
<1>5. \A b \in Group(a) : Rep(b) = Rep(a)
  BY <1>3 DEF Rep
<1>6. a = Sync => Group(a) = {Sync}
  BY DEF Group
<1>7. Group(a) \subseteq Nodes
  BY <1>2, <1>6 DEF Nodes
<1> QED
  BY <1>1, <1>2, <1>3, <1>4, <1>5, <1>6, <1>7

\* An array and its inputs are never in one group; nor is a member of the
\* group of an input later than one of the group that uses it.
LEMMA InputsEarlier ==
  ASSUME call \in Cases, NEW a \in Arrays, NEW x \in ToSet(Inputs(a)), NEW b \in Group(a)
  PROVE  x < b
<1>1. a \in Nodes /\ a # Sync /\ b \in Nodes /\ Inputs(b) = Inputs(a) /\ b # Sync
  BY GroupFacts DEF Nodes, Sync, Arrays
<1> QED
  BY <1>1, InputFacts

\* A use names its target, and every input of a node is some use's target.
LEMMA EdgeFacts ==
  ASSUME call \in Cases
  PROVE  /\ \A e \in Edges : /\ e[1] \in Nodes /\ e[1] = Rep(e[1])
                             /\ e[2] \in DOMAIN Inputs(e[1]) /\ e[2] \in Nat \ {0}
                             /\ e = <<e[1], e[2]>>
                             /\ Target(e) \in Arrays /\ Target(e) \in ToSet(Inputs(e[1]))
         /\ \A a \in Nodes : \A k \in DOMAIN Inputs(a) :
              /\ <<Rep(a), k>> \in Edges /\ Target(<<Rep(a), k>>) = Inputs(a)[k]
              /\ Rep(a) \in Nodes
<1>1. ASSUME NEW e \in Edges
      PROVE  /\ e[1] \in Nodes /\ e[1] = Rep(e[1])
             /\ e[2] \in DOMAIN Inputs(e[1]) /\ e[2] \in Nat \ {0}
             /\ e = <<e[1], e[2]>>
             /\ Target(e) \in Arrays /\ Target(e) \in ToSet(Inputs(e[1]))
  <2>1. PICK a \in Nodes : a = Rep(a) /\ \E k \in DOMAIN Inputs(a) : e = <<a, k>>
    BY DEF Edges
  <2>2. PICK k \in DOMAIN Inputs(a) : e = <<a, k>>
    BY <2>1
  <2>3. e[1] = a /\ e[2] = k
    BY <2>2
  <2>4. k \in Nat \ {0} /\ Inputs(a)[k] \in Arrays /\ Inputs(a)[k] \in ToSet(Inputs(a))
    BY InputFacts
  <2> QED
    BY <2>1, <2>2, <2>3, <2>4 DEF Target
<1>2. ASSUME NEW a \in Nodes, NEW k \in DOMAIN Inputs(a)
      PROVE  /\ <<Rep(a), k>> \in Edges /\ Target(<<Rep(a), k>>) = Inputs(a)[k]
             /\ Rep(a) \in Nodes
  <2>1. Rep(a) \in Nodes /\ Inputs(Rep(a)) = Inputs(a) /\ Rep(Rep(a)) = Rep(a)
    BY GroupFacts
  <2> HIDE DEF Nodes
  <2>2. PICK b \in Nodes : b = Rep(a)
    BY <2>1
  <2>3. b = Rep(b) /\ k \in DOMAIN Inputs(b)
    BY <2>1, <2>2
  <2>4. <<b, k>> \in Edges
    BY <2>3 DEF Edges
  <2> QED
    BY <2>1, <2>2, <2>4 DEF Target
<1> QED
  BY <1>1, <1>2

\* There is no endless chain of uses.
LEMMA NoAscent ==
  ASSUME call \in Cases, NEW M, M \subseteq Arrays,
         \A a \in M : \E c \in M : \E x \in Group(a) : x \in ToSet(Inputs(c))
  PROVE  M = {}
<1> SUFFICES ASSUME M # {} PROVE FALSE
  OBVIOUS
<1> DEFINE First(a, y) == y \in Group(a) /\ \A z \in Group(a) : y <= z
           S == {y \in Arrays : \E a \in M : First(a, y)}
           T == {N - y : y \in S}
<1>0. N \in Nat /\ Arrays \subseteq Nat
  BY EvalGraphAssumption DEF Arrays
<1>1. ASSUME NEW a \in M PROVE \E y \in S : First(a, y)
  <2>1. a \in Nodes /\ a # Sync
    BY DEF Nodes, Sync, Arrays
  <2>2. a \in Group(a) /\ Group(a) \subseteq Arrays
    BY <2>1, GroupFacts
  <2>3. Group(a) \subseteq Nat /\ Group(a) # {}
    BY <1>0, <2>2
  <2>4. PICK y \in Group(a) : \A z \in Group(a) : y <= z
    BY <2>3, LeastNat
  <2> QED
    BY <2>2, <2>4
<1>2. T \subseteq Nat /\ T # {}
  <2>1. \A y \in S : N - y \in Nat
    BY <1>0 DEF Arrays
  <2>2. S # {}
    BY <1>1
  <2> HIDE DEF S
  <2> QED
    BY <2>1, <2>2
<1>3. PICK n \in T : \A k \in T : n <= k
  <2> HIDE DEF T
  <2> QED
    BY <1>2, LeastNat
<1>4. PICK y \in S : n = N - y
  OBVIOUS
<1>5. PICK a \in M : First(a, y)
  BY <1>4
<1>6. PICK c \in M : \E x \in Group(a) : x \in ToSet(Inputs(c))
  OBVIOUS
<1>7. PICK x \in Group(a) : x \in ToSet(Inputs(c))
  BY <1>6
<1>8. PICK z \in S : First(c, z)
  BY <1>1
<1>9. x < z
  BY <1>7, <1>8, InputsEarlier
<1>10. y <= x
  BY <1>5, <1>7
<1>11. N - y <= N - z
  BY <1>3, <1>4
<1>12. x \in Nat /\ y \in Nat /\ z \in Nat
  <2>1. Group(a) \subseteq Arrays
    BY GroupFacts DEF Nodes, Sync, Arrays
  <2> QED
    BY <1>0, <1>4, <1>8, <2>1
<1> QED
  BY <1>0, <1>9, <1>10, <1>11, <1>12

\* An array is reached if another one of its group is given to eval or used
\* by an unscheduled array that is reached, and for no other reason.
LEMMA ReachedFacts ==
  ASSUME call \in Cases
  PROVE  /\ Reached \subseteq Arrays
         /\ \A x \in Arrays :
              x \in Reached <=> \E c \in Known : \E y \in Group(x) : y \in ToSet(Inputs(c))
<1> DEFINE in == call.g.in
           S == ToSet(call.outs)
           U == call.u
           group(a) == IF a \in U THEN OutputsIn(call.g, a) ELSE {a}
           Body(f) == [a \in Arrays |->
                         \E x \in group(a) :
                           \/ x \in S
                           \/ \E c \in (x + 1 .. N) \cap U : x \in ToSet(in[c]) /\ f[c]]
           reached == CHOOSE f : f = Body(f)
           Closed(V) == \A a \in Arrays :
                          (\E x \in group(a) : x \in S \/ \E c \in (x + 1 .. N) \cap U :
                                                            x \in ToSet(in[c]) /\ c \in V)
                            => a \in V
           Least == {a \in Arrays : \A V \in SUBSET Arrays : Closed(V) => a \in V}
<1>1. \A a \in Arrays : group(a) = Group(a)
  BY DEF Group, Siblings, OutputsIn, Unscheduled, Sync, Arrays
<1> HIDE DEF group
<1>2. Closed(Least)
  OBVIOUS
<1>3. ASSUME NEW a \in Least
      PROVE  \E x \in group(a) : x \in S \/ \E c \in (x + 1 .. N) \cap U :
                                              x \in ToSet(in[c]) /\ c \in Least
  <2> SUFFICES ASSUME ~(\E x \in group(a) : x \in S \/ \E c \in (x + 1 .. N) \cap U :
                                              x \in ToSet(in[c]) /\ c \in Least)
               PROVE  FALSE
    OBVIOUS
  <2>1. Closed(Least \ {a})
    BY <1>2
  <2>2. Least \ {a} \in SUBSET Arrays
    OBVIOUS
  <2> HIDE DEF Closed
  <2> QED
    BY <2>1, <2>2
<1>4. PICK f : f = [a \in Arrays |-> a \in Least]
  OBVIOUS
<1>5. f = Body(f)
  <2>1. \A a \in Arrays : f[a] <=> a \in Least
    BY <1>4
  <2>2. U \subseteq Arrays
    BY CallFacts
  <2>3. \A a \in Arrays :
          a \in Least <=> \E x \in group(a) :
                            \/ x \in S
                            \/ \E c \in (x + 1 .. N) \cap U : x \in ToSet(in[c]) /\ c \in Least
    <3> HIDE DEF Least
    <3> QED
      BY <1>2, <1>3
  <2> HIDE DEF Least
  <2>4. \A a \in Arrays : f[a] \in BOOLEAN
    BY <1>4
  <2> DEFINE used(a) == \E x \in group(a) :
                          \/ x \in S
                          \/ \E c \in (x + 1 .. N) \cap U : x \in ToSet(in[c]) /\ f[c]
  <2>5. \A a \in Arrays : used(a) \in BOOLEAN
    OBVIOUS
  <2>6. \A a \in Arrays : f[a] <=> used(a)
    BY <2>1, <2>2, <2>3
  <2>7. \A a \in Arrays : f[a] = used(a)
    <3> HIDE DEF used
    <3> QED
      BY <2>4, <2>5, <2>6
  <2>8. Body(f) = [a \in Arrays |-> used(a)]
    OBVIOUS
  <2> HIDE DEF used, Body
  <2> QED
    BY <1>4, <2>7, <2>8
<1> HIDE DEF Body
<1>6. reached = Body(reached)
  BY <1>5
<1> HIDE DEF reached
<1>7. \A a \in Arrays :
        reached[a] <=> \E x \in group(a) :
                         \/ x \in S
                         \/ \E c \in (x + 1 .. N) \cap U : x \in ToSet(in[c]) /\ reached[c]
  BY <1>6 DEF Body
<1>8. Reached = {a \in Arrays : reached[a]}
  BY DEF Reached, Reach, reached, Body, group
<1>9. \A a \in Arrays : a \in Reached <=> reached[a]
  BY <1>8
<1>10. ASSUME NEW x \in Arrays
       PROVE  x \in Reached <=> \E c \in Known : \E y \in Group(x) : y \in ToSet(Inputs(c))
  <2>1. ASSUME NEW y \in Group(x), NEW c \in Arrays
        PROVE  y \in ToSet(Inputs(c)) <=>
                 c \in (y + 1 .. N) \cap U /\ y \in ToSet(in[c])
    <3>1. c \in Nodes /\ c # Sync /\ y \in Nat /\ N \in Nat
      BY GroupFacts, EvalGraphAssumption DEF Nodes, Sync, Arrays
    <3>2. CASE c \in U
      <4>1. Inputs(c) = in[c]
        BY <3>1, <3>2 DEF Inputs, Unscheduled
      <4>2. y \in ToSet(in[c]) => y < c
        BY <3>1, <4>1, InputFacts
      <4> QED
        BY <3>1, <3>2, <4>1, <4>2 DEF Arrays
    <3>3. CASE c \notin U
      <4>1. Inputs(c) = <<>>
        BY <3>1, <3>3 DEF Inputs, Unscheduled
      <4> QED
        BY <3>3, <4>1 DEF ToSet
    <3> QED
      BY <3>2, <3>3
  <2>2. Inputs(Sync) = call.outs
    BY DEF Inputs
  <2>3. U \subseteq Arrays
    BY CallFacts
  <2> QED
    BY <1>1, <1>7, <1>8, <1>9, <2>1, <2>2, <2>3 DEF Known
<1> QED
  BY <1>8, <1>10

-----------------------------------------------------------------------------
(* The stack *)

\* What popping the stack leaves.
LEMMA FrontFacts ==
  ASSUME NEW S, NEW s \in Seq(S), s # <<>>
  PROVE  /\ Front(s) \in Seq(S) /\ Len(s) \in Nat \ {0} /\ DOMAIN s = 1 .. Len(s)
         /\ Len(Front(s)) = Len(s) - 1 /\ DOMAIN Front(s) = 1 .. Len(s) - 1
         /\ \A j \in 1 .. Len(s) - 1 : Front(s)[j] = s[j]
         /\ Last(s) = s[Len(s)] /\ Last(s) \in S
<1>1. Len(s) \in Nat \ {0} /\ DOMAIN s = 1 .. Len(s)
  BY LenProperties, EmptySeq
<1>2. Len(s) - 1 \in Nat /\ 1 \in 1 .. Len(s) + 1
  BY <1>1
<1>3. Front(s) \in Seq(S) /\ Len(Front(s)) = Len(s) - 1
      /\ \A j \in 1 .. Len(s) - 1 : Front(s)[j] = s[j]
  BY <1>1 DEF Front
<1>4. DOMAIN Front(s) = 1 .. Len(s) - 1
  BY <1>3, LenProperties
<1>5. Last(s) = s[Len(s)] /\ Last(s) \in S
  BY <1>1 DEF Last
<1> QED
  BY <1>1, <1>3, <1>4, <1>5

\* What replacing the top of the stack leaves.
LEMMA AdvanceFacts ==
  ASSUME NEW s \in Seq(Frames), s # <<>>, NEW e \in Frames, NEW t, t = Append(Front(s), e)
  PROVE  /\ t \in Seq(Frames) /\ Len(t) = Len(s) /\ DOMAIN t = 1 .. Len(s)
         /\ \A j \in 1 .. Len(s) - 1 : t[j] = s[j]
         /\ t[Len(s)] = e
<1> HIDE DEF Frames
<1>1. /\ Front(s) \in Seq(Frames) /\ Len(s) \in Nat \ {0}
      /\ Len(Front(s)) = Len(s) - 1
      /\ \A j \in 1 .. Len(s) - 1 : Front(s)[j] = s[j]
  BY FrontFacts
<1>2. PICK f \in Seq(Frames) : f = Front(s)
  BY <1>1
<1>3. /\ t \in Seq(Frames) /\ Len(t) = Len(f) + 1
      /\ \A j \in 1 .. Len(f) : t[j] = f[j]
      /\ t[Len(f) + 1] = e
  BY <1>2, AppendProperties
<1>4. DOMAIN t = 1 .. Len(t)
  BY <1>3, LenProperties
<1> QED
  BY <1>1, <1>2, <1>3, <1>4

\* What a push leaves.
LEMMA PushFacts ==
  ASSUME NEW S, NEW s \in Seq(S), NEW e \in S, NEW t, t = Append(s, e)
  PROVE  /\ t \in Seq(S) /\ t # <<>> /\ Len(s) \in Nat /\ DOMAIN s = 1 .. Len(s)
         /\ Len(t) = Len(s) + 1 /\ DOMAIN t = 1 .. Len(s) + 1
         /\ \A j \in 1 .. Len(s) : t[j] = s[j]
         /\ t[Len(s) + 1] = e
<1>1. Len(s) \in Nat /\ DOMAIN s = 1 .. Len(s)
  BY LenProperties
<1>2. /\ t \in Seq(S) /\ t # <<>> /\ Len(t) = Len(s) + 1
      /\ \A j \in 1 .. Len(s) : t[j] = s[j]
      /\ t[Len(s) + 1] = e
  BY AppendProperties
<1>3. DOMAIN t = 1 .. Len(t)
  BY <1>2, LenProperties
<1> QED
  BY <1>1, <1>2, <1>3

\* The graph and the outputs never change.
LEMMA Same ==
  ASSUME UNCHANGED call
  PROVE  /\ \A a : /\ Group(a)' = Group(a) /\ Rep(a)' = Rep(a) /\ Inputs(a)' = Inputs(a)
                   /\ StreamOf(a)' = StreamOf(a) /\ Unscheduled(a)' = Unscheduled(a)
                   /\ Siblings(a)' = Siblings(a)
         /\ \A e : Target(e)' = Target(e) /\ Crosses(e)' = Crosses(e)
         /\ Edges' = Edges /\ Reached' = Reached /\ Known' = Known
<1>1. \A a : Unscheduled(a)' = Unscheduled(a)
  BY DEF Unscheduled
<1>2. \A a : Siblings(a)' = Siblings(a)
  BY DEF Siblings, Unscheduled
<1>3. \A a : Inputs(a)' = Inputs(a)
  BY DEF Inputs, Unscheduled
<1>4. \A a : Group(a)' = Group(a)
  BY <1>2 DEF Group
<1>5. \A a : Rep(a)' = Rep(a)
  BY <1>4 DEF Rep
<1>6. Home' = Home
  BY DEF Home, Unscheduled
<1>7. \A a : StreamOf(a)' = StreamOf(a)
  BY <1>6 DEF StreamOf
<1>8. Reached' = Reached
  BY DEF Reached
<1>9. \A e : Target(e)' = Target(e)
  BY <1>3 DEF Target
<1>10. \A e : Crosses(e)' = Crosses(e)
  BY <1>1, <1>7, <1>9 DEF Crosses
<1>11. Edges' = Edges
  BY <1>3, <1>5 DEF Edges
<1> QED
  BY <1>1, <1>2, <1>3, <1>4, <1>5, <1>7, <1>8, <1>9, <1>10, <1>11 DEF Known

-----------------------------------------------------------------------------
(* Types *)

\* The stack starts with the Synchronizer.
LEMMA TapeTypesInit == Init => TapeTypes
<1> SUFFICES ASSUME Init PROVE TapeTypes
  OBVIOUS
<1>1. <<Sync, 1>> \in Frames
  BY DEF Frames, Nodes
<1>2. <<<<Sync, 1>>>> \in Seq(Frames)
  BY <1>1
<1> QED
  BY <1>2 DEF Init, Start, TapeTypes

\* VisitInput, with what it looks at named.
Visits(a, k, x) ==
  /\ phase = "dfs" /\ dfs # <<>> /\ Last(dfs) = <<a, k>>
  /\ a \in Nodes /\ k \in DOMAIN Inputs(a) /\ k \in Nat \ {0}
  /\ x = Inputs(a)[k] /\ x \in Arrays
  /\ degree' = Count(x) /\ needsFence' = MarkFence(a, x)
  /\ dfs' = IF x \in DOMAIN degree THEN Append(Front(dfs), <<a, k + 1>>)
            ELSE Append(Append(Front(dfs), <<a, k + 1>>), <<x, 1>>)
  /\ UNCHANGED <<call, maxWidth, phase, tape, i, at>>

\* VisitInput visits an input of the array at the top of the stack.
LEMMA VisitFacts ==
  ASSUME TapeTypes, VisitInput
  PROVE  \E a, k, x : Visits(a, k, x)
<1> DEFINE a == Last(dfs)[1]
           k == Last(dfs)[2]
           x == Inputs(a)[k]
<1>1. phase = "dfs" /\ dfs # <<>> /\ k <= Len(Inputs(a))
  BY DEF VisitInput
<1>2. Last(dfs) \in Frames
  BY <1>1, FrontFacts DEF TapeTypes
<1>3. a \in Nodes /\ k \in Nat \ {0} /\ Last(dfs) = <<a, k>>
  BY <1>2 DEF Frames
<1>4. call \in Cases
  BY DEF TapeTypes
<1> HIDE DEF a, k
<1>5. DOMAIN Inputs(a) = 1 .. Len(Inputs(a)) /\ Len(Inputs(a)) \in Nat
  BY <1>3, <1>4, InputFacts
<1>6. k \in DOMAIN Inputs(a)
  BY <1>1, <1>3, <1>5
<1>7. x \in Arrays
  BY <1>3, <1>4, <1>6, InputFacts
<1>8. Visits(a, k, x)
  BY <1>1, <1>3, <1>6, <1>7 DEF VisitInput, Visits, a, k
<1> QED
  BY <1>8

\* ExpandInput, likewise.
Expands(a, k, x) ==
  /\ phase = "bfs" /\ at = <<a, k>> /\ at # NoEntry
  /\ a \in Nodes /\ k \in DOMAIN Inputs(a) /\ k \in Nat \ {0}
  /\ x = Inputs(a)[k] /\ x \in Arrays
  /\ \/ /\ ~Unscheduled(x)
        /\ at' = <<a, k + 1>> /\ UNCHANGED <<dfs, degree, tape>>
     \/ /\ Unscheduled(x)
        /\ dfs' = Append(dfs, at) /\ at' = NoEntry /\ UNCHANGED <<degree, tape>>
     \/ /\ Unscheduled(x)
        /\ degree' = Uncount(x)
        /\ tape' = IF degree[x] = 1 THEN Append(tape, x) ELSE tape
        /\ at' = <<a, k + 1>> /\ UNCHANGED dfs
  /\ UNCHANGED <<call, maxWidth, phase, needsFence, i>>

\* ExpandInput expands an input of the array at hand.
LEMMA ExpandFacts ==
  ASSUME TapeTypes, ExpandInput
  PROVE  \E a, k, x : Expands(a, k, x)
<1> DEFINE a == at[1]
           k == at[2]
           x == Inputs(a)[k]
<1>1. phase = "bfs" /\ at # NoEntry /\ k <= Len(Inputs(a))
  BY DEF ExpandInput
<1>3. a \in Nodes /\ k \in Nat \ {0} /\ at = <<a, k>>
  BY <1>1 DEF Frames, TapeTypes
<1>4. call \in Cases
  BY DEF TapeTypes
<1> HIDE DEF a, k
<1>5. DOMAIN Inputs(a) = 1 .. Len(Inputs(a)) /\ Len(Inputs(a)) \in Nat
  BY <1>3, <1>4, InputFacts
<1>6. k \in DOMAIN Inputs(a)
  BY <1>1, <1>3, <1>5
<1>7. x \in Arrays
  BY <1>3, <1>4, <1>6, InputFacts
<1>8. Inputs(at[1])[at[2]] = x /\ at = <<a, k>>
  BY <1>3
<1>9. \/ /\ ~Unscheduled(x)
         /\ at' = <<a, k + 1>> /\ UNCHANGED <<dfs, degree, tape>>
      \/ /\ Unscheduled(x)
         /\ dfs' = Append(dfs, at) /\ at' = NoEntry /\ UNCHANGED <<degree, tape>>
      \/ /\ Unscheduled(x)
         /\ degree' = Uncount(x)
         /\ tape' = IF degree[x] = 1 THEN Append(tape, x) ELSE tape
         /\ at' = <<a, k + 1>> /\ UNCHANGED dfs
  BY DEF ExpandInput, a, k
<1>10. Expands(a, k, x)
  BY <1>1, <1>3, <1>6, <1>7, <1>9 DEF ExpandInput, Expands
<1> QED
  BY <1>10

\* Every step keeps the types, and the call.
LEMMA TapeTypesStep ==
  ASSUME TapeTypes, Walk \/ Done \/ UNCHANGED vars
  PROVE  TapeTypes' /\ UNCHANGED call
<1>0. call \in Cases /\ Arrays \subseteq Nodes
  BY DEF TapeTypes, Nodes
<1>1. CASE VisitInput
  <2>1. PICK a, k, x : Visits(a, k, x)
    BY <1>1, VisitFacts
  <2>2. a \in Nodes /\ k \in Nat \ {0} /\ x \in Arrays /\ dfs \in Seq(Frames) /\ dfs # <<>>
    BY <2>1 DEF Visits, TapeTypes
  <2>3. <<a, k + 1>> \in Frames /\ <<x, 1>> \in Frames
    BY <1>0, <2>2 DEF Frames
  <2>4. PICK s : s = Append(Front(dfs), <<a, k + 1>>)
    OBVIOUS
  <2>5. s \in Seq(Frames)
    BY <2>2, <2>3, <2>4, AdvanceFacts
  <2>6. Append(s, <<x, 1>>) \in Seq(Frames)
    BY <2>3, <2>5, PushFacts
  <2>7. dfs' \in Seq(Frames)
    BY <2>1, <2>4, <2>5, <2>6 DEF Visits
  <2>8. {x} \cup Siblings(x) \subseteq Arrays
    BY <1>0, <2>2, CallFacts DEF Siblings, IsGraph
  <2>9. degree' \in [DOMAIN degree' -> Int] /\ DOMAIN degree' \subseteq Arrays
    BY <2>1, <2>8 DEF Visits, Count, TapeTypes
  <2> QED
    BY <2>1, <2>7, <2>9 DEF Visits, TapeTypes
<1>2. CASE LeaveArray
  <2>1. dfs # <<>> /\ dfs' = Front(dfs) /\ UNCHANGED <<call, phase, degree, tape, i, at>>
    BY <1>2 DEF LeaveArray
  <2>2. dfs' \in Seq(Frames)
    BY <2>1, FrontFacts DEF TapeTypes
  <2> QED
    BY <2>1, <2>2 DEF TapeTypes
<1>3. CASE StartTape
  <2>1. phase' = "bfs" /\ tape' = <<Sync>> /\ UNCHANGED <<call, dfs, degree, i, at>>
    BY <1>3 DEF StartTape
  <2>2. <<Sync>> \in Seq(Nodes)
    BY DEF Nodes
  <2> QED
    BY <2>1, <2>2 DEF TapeTypes
<1>4. CASE NextArray
  <2>1. /\ UNCHANGED <<call, phase, degree, tape>> /\ tape \in Seq(Nodes) /\ Len(tape) \in Nat
        /\ i \in Nat
    BY <1>4 DEF NextArray, TapeTypes
  <2>2. CASE i >= Len(tape)
    <3>1. dfs # <<>> /\ at' = Last(dfs) /\ dfs' = Front(dfs) /\ UNCHANGED i
      BY <1>4, <2>1, <2>2 DEF NextArray, MoreToExpand
    <3>2. at' \in Frames /\ dfs' \in Seq(Frames)
      BY <3>1, FrontFacts DEF TapeTypes
    <3> QED
      BY <2>1, <3>1, <3>2 DEF TapeTypes
  <2>3. CASE ~(i >= Len(tape))
    <3>1. at' = <<tape[i + 1], 1>> /\ i' = i + 1 /\ UNCHANGED dfs
      BY <1>4, <2>3 DEF NextArray
    <3>2. i + 1 \in 1 .. Len(tape) /\ tape[i + 1] \in Nodes
      BY <2>1, <2>3
    <3>3. at' \in Frames /\ i' \in Nat
      BY <2>1, <3>1, <3>2 DEF Frames
    <3> QED
      BY <2>1, <3>1, <3>3 DEF TapeTypes
  <2> QED
    BY <2>2, <2>3
<1>5. CASE ExpandInput
  <2>1. PICK a, k, x : Expands(a, k, x)
    BY <1>5, ExpandFacts
  <2>2. /\ a \in Nodes /\ k \in Nat \ {0} /\ x \in Arrays /\ UNCHANGED <<call, phase, i>>
        /\ at \in Frames
    BY <2>1 DEF Expands, Frames
  <2>3. <<a, k + 1>> \in Frames /\ at' \in Frames \cup {NoEntry}
    BY <2>1, <2>2 DEF Frames, Expands
  <2>4. dfs' \in Seq(Frames)
    <3>1. Append(dfs, at) \in Seq(Frames)
      BY <2>2, PushFacts DEF TapeTypes
    <3> QED
      BY <2>1, <3>1 DEF Expands, TapeTypes
  <2>5. /\ tape' \in Seq(Nodes)
        /\ degree' \in [DOMAIN degree' -> Int] /\ DOMAIN degree' \subseteq Arrays
    <3>1. CASE UNCHANGED <<degree, tape>>
      BY <2>2, <3>1 DEF TapeTypes
    <3>2. CASE /\ degree' = Uncount(x)
               /\ tape' = IF degree[x] = 1 THEN Append(tape, x) ELSE tape
      <4>1. x \in Nodes /\ tape \in Seq(Nodes)
        BY <1>0, <2>2 DEF TapeTypes
      <4>2. Append(tape, x) \in Seq(Nodes)
        BY <4>1, PushFacts
      <4>3. tape' \in Seq(Nodes)
        BY <2>2, <3>2, <4>1, <4>2
      <4>4. \A b \in DOMAIN degree : degree[b] \in Int
        BY DEF TapeTypes
      <4> QED
        BY <3>2, <4>3, <4>4 DEF Uncount, TapeTypes
    <3> QED
      BY <2>1, <3>1, <3>2 DEF Expands
  <2> QED
    BY <2>2, <2>3, <2>4, <2>5 DEF TapeTypes
<1>6. CASE ArrayExpanded \/ FinishTape \/ Done \/ UNCHANGED vars
  BY <1>6 DEF ArrayExpanded, FinishTape, Done, vars, TapeTypes
<1> QED
  BY <1>1, <1>2, <1>3, <1>4, <1>5, <1>6 DEF Walk

-----------------------------------------------------------------------------
(* The first pass *)

\* An array is among the inputs counted if another of its group is.
LEMMA DegreeClosed ==
  ASSUME TapeTypes, FirstPass, phase = "dfs", NEW x \in DOMAIN degree, NEW y \in Group(x)
  PROVE  y \in DOMAIN degree
<1>1. call \in Cases /\ x \in Arrays /\ x \in Nodes /\ x # Sync
  BY DEF TapeTypes, Nodes, Sync, Arrays
<1>2. y \in Arrays /\ Group(y) = Group(x)
  BY <1>1, GroupFacts
<1>3. MetTo(y) = MetTo(x)
  BY <1>2 DEF MetTo
<1> QED
  BY <1>1, <1>2, <1>3 DEF FirstPass

\* Nothing is met at the start.
LEMMA FirstPassInit == Init => FirstPass
<1> SUFFICES ASSUME Init PROVE FirstPass
  OBVIOUS
<1>1. /\ call \in Cases /\ dfs = <<<<Sync, 1>>>> /\ DOMAIN degree = {} /\ needsFence = {}
      /\ tape = <<>> /\ i = 0 /\ at = NoEntry
  BY DEF Init, Start
<1>2. \A e \in Edges : ~Met(e)
  <2> TAKE e \in Edges
  <2> SUFFICES ASSUME Met(e) PROVE FALSE
    OBVIOUS
  <2>1. e[1] = Sync /\ e[2] \in Nat \ {0} /\ Sync \in Group(e[1])
    BY <1>1, EdgeFacts DEF Met, Group
  <2>2. 1 \in DOMAIN dfs /\ dfs[1][1] = Sync /\ dfs[1][2] = 1
    BY <1>1
  <2> QED
    BY <2>1, <2>2 DEF Met, Held
<1>3. \A x : MetTo(x) = {}
  BY <1>2 DEF MetTo
<1>4. {Target(e) : e \in {f \in Edges : Met(f) /\ Crosses(f)}} = {}
  BY <1>2
<1>5. DOMAIN dfs = 1 .. 1 /\ dfs[1][1] = Sync
  BY <1>1
<1> QED
  BY <1>1, <1>3, <1>4, <1>5 DEF FirstPass

\* LeaveArray keeps what has been met.
LEMMA LeaveStep ==
  ASSUME TapeTypes, FirstPass, LeaveArray
  PROVE  FirstPass'
<1>1. /\ phase = "dfs" /\ dfs # <<>> /\ dfs' = Front(dfs)
      /\ Last(dfs)[2] > Len(Inputs(Last(dfs)[1]))
      /\ UNCHANGED <<call, phase, degree, needsFence, tape, i, at>>
  BY DEF LeaveArray
<1>2. call \in Cases /\ dfs \in Seq(Frames)
  BY DEF TapeTypes
<1>3. /\ Len(dfs) \in Nat \ {0} /\ DOMAIN dfs = 1 .. Len(dfs)
      /\ DOMAIN dfs' = 1 .. Len(dfs) - 1
      /\ \A j \in 1 .. Len(dfs) - 1 : dfs'[j] = dfs[j]
      /\ Last(dfs) = dfs[Len(dfs)] /\ Last(dfs) \in Frames
  BY <1>1, <1>2, FrontFacts
<1>4. PICK a, k : Last(dfs) = <<a, k>> /\ a \in Nodes /\ k \in Nat \ {0}
  BY <1>3 DEF Frames
<1>5. ASSUME NEW e \in Edges PROVE Met(e)' <=> Met(e)
  <2>1. e[1] \in Nodes /\ e[2] \in DOMAIN Inputs(e[1]) /\ e[2] \in Nat
    BY <1>2, EdgeFacts
  <2>2. a \in Group(e[1]) => e[2] < k
    <3> SUFFICES ASSUME a \in Group(e[1]) PROVE e[2] < k
      OBVIOUS
    <3>1. Inputs(e[1]) = Inputs(a)
      BY <1>2, <2>1, GroupFacts
    <3>2. DOMAIN Inputs(a) = 1 .. Len(Inputs(a)) /\ Len(Inputs(a)) \in Nat
      BY <1>2, <1>4, InputFacts
    <3>3. k > Len(Inputs(a))
      BY <1>1, <1>4
    <3> QED
      BY <1>4, <2>1, <3>1, <3>2, <3>3
  <2>3. dfs[Len(dfs)][1] = a /\ dfs[Len(dfs)][2] = k
    BY <1>3, <1>4
  <2>4. Held(e)' <=> Held(e)
    <3>1. Group(e[1])' = Group(e[1])
      BY <1>1, Same
    <3>2. Held(e)' <=> \E j \in 1 .. Len(dfs) - 1 : dfs[j][1] \in Group(e[1]) /\ dfs[j][2] <= e[2]
      BY <1>3, <3>1 DEF Held
    <3>3. Held(e) <=> \/ \E j \in 1 .. Len(dfs) - 1 : dfs[j][1] \in Group(e[1]) /\ dfs[j][2] <= e[2]
                      \/ a \in Group(e[1]) /\ k <= e[2]
      BY <1>3, <2>3 DEF Held
    <3> QED
      BY <1>4, <2>1, <2>2, <3>2, <3>3
  <2> QED
    BY <1>1, <2>4 DEF Met
<1>6. /\ \A x : Group(x)' = Group(x)
      /\ \A e : Target(e)' = Target(e) /\ Crosses(e)' = Crosses(e)
      /\ Edges' = Edges /\ Reached' = Reached
  BY <1>1, Same
<1>7. \A x : MetTo(x)' = MetTo(x)
  BY <1>5, <1>6 DEF MetTo
<1>8. {Target(e) : e \in {f \in Edges : Met(f) /\ Crosses(f)}}'
        = {Target(e) : e \in {f \in Edges : Met(f) /\ Crosses(f)}}
  BY <1>5, <1>6
<1>9. /\ \A j \in DOMAIN dfs : dfs[j][1] \in DOMAIN degree \cup {Sync}
      /\ \A j, l \in DOMAIN dfs : dfs[l][1] \in Group(dfs[j][1]) => j = l
  BY <1>1 DEF FirstPass
<1>10. /\ \A j \in DOMAIN dfs' : dfs'[j][1] \in DOMAIN degree \cup {Sync}
       /\ \A j, l \in DOMAIN dfs' : dfs'[l][1] \in Group(dfs'[j][1]) => j = l
  <2>1. \A j \in DOMAIN dfs' : j \in DOMAIN dfs /\ dfs'[j] = dfs[j]
    BY <1>3
  <2> QED
    BY <1>9, <2>1
<1> QED
  BY <1>1, <1>6, <1>7, <1>8, <1>10 DEF FirstPass

\* VisitInput meets the use at the top of the stack, and no other.
LEMMA VisitMeets ==
  ASSUME TapeTypes, FirstPass, NEW a, NEW k, NEW x, Visits(a, k, x), NEW e \in Edges
  PROVE  /\ Met(e)' <=> Met(e) \/ e = <<Rep(a), k>>
         /\ ~Met(<<Rep(a), k>>)
<1>a. PICK D : D = DOMAIN degree
  OBVIOUS
<1>b. PICK L : L = Len(dfs)
  OBVIOUS
<1>c. PICK c : c = e[1]
  OBVIOUS
<1>1. /\ call \in Cases /\ dfs \in Seq(Frames) /\ dfs # <<>> /\ D \subseteq Arrays
      /\ UNCHANGED call
  BY <1>a DEF TapeTypes, Visits
<1>2. /\ a \in Nodes /\ k \in Nat \ {0} /\ x \in Arrays /\ x \in Nodes /\ x # Sync
      /\ Sync \notin Arrays
  BY DEF Visits, Nodes, Sync, Arrays
<1>3. /\ L \in Nat \ {0} /\ DOMAIN dfs = 1 .. L /\ dfs[L] = <<a, k>>
  BY <1>b, <1>1, FrontFacts DEF Visits
<1>4. \A j \in 1 .. L - 1 : j \in DOMAIN dfs /\ L \in DOMAIN dfs /\ j # L
  BY <1>3
<1>5. PICK s : s = Append(Front(dfs), <<a, k + 1>>)
  OBVIOUS
<1>6. /\ s \in Seq(Frames) /\ Len(s) = L /\ DOMAIN s = 1 .. L
      /\ \A j \in 1 .. L - 1 : s[j] = dfs[j]
      /\ s[L] = <<a, k + 1>>
  <2>1. <<a, k + 1>> \in Frames
    BY <1>2 DEF Frames
  <2>2. dfs \in Seq(Frames) /\ dfs # <<>>
    BY <1>1
  <2>3. PICK f \in Frames : f = <<a, k + 1>>
    BY <2>1
  <2>4. s = Append(Front(dfs), f)
    BY <1>5, <2>3
  <2>5. s \in Seq(Frames)
    BY <2>2, <2>4, AdvanceFacts
  <2>6. Len(s) = Len(dfs)
    BY <2>2, <2>4, AdvanceFacts
  <2>7. DOMAIN s = 1 .. Len(dfs)
    BY <2>2, <2>4, AdvanceFacts
  <2>8. \A j \in 1 .. Len(dfs) - 1 : s[j] = dfs[j]
    BY <2>2, <2>4, AdvanceFacts
  <2>9. s[Len(dfs)] = f
    BY <2>2, <2>4, AdvanceFacts
  <2> QED
    BY <1>b, <2>3, <2>5, <2>6, <2>7, <2>8, <2>9
<1>7. /\ \A j \in DOMAIN dfs : dfs[j][1] \in D \cup {Sync}
      /\ \A j, l \in DOMAIN dfs : dfs[l][1] \in Group(dfs[j][1]) => j = l
      /\ \A y \in D : Group(y) \subseteq D
  BY <1>a, DegreeClosed DEF FirstPass, Visits
<1>8. DOMAIN degree' = D \cup Group(x)
  BY <1>a, <1>2 DEF Visits, Count, Group
<1>9. c \in Nodes /\ c = Rep(c) /\ e = <<c, e[2]>> /\ e[2] \in Nat \ {0}
  BY <1>c, <1>1, EdgeFacts
<1>10. /\ \A b \in Nodes : b \in Group(b) /\ \A d \in Group(b) : Group(d) = Group(b) /\ Rep(d) = Rep(b)
       /\ \A b \in Nodes : Rep(b) \in Group(b)
       /\ Group(Sync) = {Sync}
       /\ \A b \in Arrays : Group(b) \subseteq Arrays
  BY <1>1, <1>2, GroupFacts DEF Nodes
<1>11. Group(c)' = Group(c)
  BY <1>1, Same
<1>12. a \in D \cup {Sync} /\ \A y \in D \cup {Sync} : Group(y) \subseteq D \cup {Sync}
  BY <1>3, <1>7, <1>10
<1>13. /\ Held(e) <=> \/ a \in Group(c) /\ k <= e[2]
                      \/ \E j \in 1 .. L - 1 : dfs[j][1] \in Group(c) /\ dfs[j][2] <= e[2]
       /\ Held(e)' <=> \/ a \in Group(c) /\ k + 1 <= e[2]
                       \/ x \notin D /\ x \in Group(c)
                       \/ \E j \in 1 .. L - 1 : dfs[j][1] \in Group(c) /\ dfs[j][2] <= e[2]
  <2>1. \A j \in DOMAIN dfs : j = L \/ j \in 1 .. L - 1
    BY <1>3
  <2>2. Held(e) <=> \/ a \in Group(c) /\ k <= e[2]
                    \/ \E j \in 1 .. L - 1 : dfs[j][1] \in Group(c) /\ dfs[j][2] <= e[2]
    BY <1>c, <1>3, <1>4, <2>1 DEF Held
  <2>3. (\E j \in DOMAIN s : s[j][1] \in Group(c) /\ s[j][2] <= e[2])
          <=> \/ a \in Group(c) /\ k + 1 <= e[2]
              \/ \E j \in 1 .. L - 1 : dfs[j][1] \in Group(c) /\ dfs[j][2] <= e[2]
    <3>1. \A j \in DOMAIN s : j = L \/ j \in 1 .. L - 1
      BY <1>3, <1>6
    <3>2. L \in DOMAIN s /\ \A j \in 1 .. L - 1 : j \in DOMAIN s
      BY <1>3, <1>6
    <3> QED
      BY <1>6, <3>1, <3>2
  <2>4. CASE x \in D
    <3>1. dfs' = s
      BY <1>a, <1>5, <2>4 DEF Visits
    <3> QED
      BY <1>c, <1>11, <2>2, <2>3, <2>4, <3>1 DEF Held
  <2>5. CASE x \notin D
    <3>1. dfs' = Append(s, <<x, 1>>)
      BY <1>a, <1>5, <2>5 DEF Visits
    <3>2. <<x, 1>> \in Frames
      BY <1>2 DEF Frames
    <3>3. /\ DOMAIN dfs' = 1 .. L + 1 /\ \A j \in 1 .. L : dfs'[j] = s[j]
          /\ dfs'[L + 1] = <<x, 1>>
      BY <1>6, <3>1, <3>2, PushFacts
    <3>4. (\E j \in DOMAIN dfs' : dfs'[j][1] \in Group(c) /\ dfs'[j][2] <= e[2])
            <=> \/ x \in Group(c) /\ 1 <= e[2]
                \/ \E j \in DOMAIN s : s[j][1] \in Group(c) /\ s[j][2] <= e[2]
      <4>1. /\ \A j \in DOMAIN dfs' : j = L + 1 \/ j \in 1 .. L
            /\ L + 1 \in DOMAIN dfs' /\ \A j \in 1 .. L : j \in DOMAIN dfs'
        BY <1>3, <3>3
      <4> QED
        BY <1>6, <3>3, <4>1
    <3>5. Held(e)' <=> \E j \in DOMAIN dfs' : dfs'[j][1] \in Group(c) /\ dfs'[j][2] <= e[2]
      BY <1>c, <1>11 DEF Held
    <3> QED
      BY <1>9, <2>2, <2>3, <2>5, <3>4, <3>5
  <2> QED
    BY <2>4, <2>5
<1>14. \A j \in 1 .. L - 1 : dfs[j][1] \notin Group(a)
  BY <1>3, <1>4, <1>7
<1>15. /\ Met(e) <=> c \in D \cup {Sync} /\ ~Held(e)
       /\ Met(e)' <=> c \in D \cup Group(x) \cup {Sync} /\ ~(Held(e)')
  BY <1>a, <1>c, <1>8 DEF Met
<1>18. ~Met(<<Rep(a), k>>)
  <2>1. a \in Group(Rep(a))
    BY <1>2, <1>10
  <2>2. L \in DOMAIN dfs /\ dfs[L][1] = a /\ dfs[L][2] = k
    BY <1>3
  <2>3. Held(<<Rep(a), k>>)
    BY <1>2, <2>1, <2>2 DEF Held
  <2> QED
    BY <2>3 DEF Met
<1>16. CASE c \in Group(a)
  <2>1. Group(c) = Group(a) /\ a \in Group(c) /\ Rep(a) = c
    BY <1>2, <1>9, <1>10, <1>16
  <2>2. c \in D \cup {Sync}
    BY <1>12, <1>16
  <2>3. ~(x \notin D /\ x \in Group(c))
    BY <1>2, <1>12, <2>2
  <2>4. Held(e) <=> k <= e[2]
    BY <1>13, <1>14, <2>1
  <2>5. Held(e)' <=> k + 1 <= e[2]
    BY <1>13, <1>14, <2>1, <2>3
  <2>6. e = <<Rep(a), k>> <=> e[2] = k
    BY <1>9, <2>1
  <2>7. k + 1 <= e[2] <=> k <= e[2] /\ e[2] # k
    BY <1>2, <1>9
  <2>8. c \in D \cup Group(x) \cup {Sync}
    BY <2>2
  <2>9. Met(e)' <=> ~(k + 1 <= e[2])
    BY <1>15, <2>5, <2>8
  <2>10. Met(e) <=> ~(k <= e[2])
    BY <1>15, <2>2, <2>4
  <2> QED
    BY <1>18, <2>6, <2>7, <2>9, <2>10
<1>17. CASE c \notin Group(a)
  <2>1. a \notin Group(c)
    BY <1>2, <1>9, <1>10, <1>17
  <2>2. e # <<Rep(a), k>>
    BY <1>2, <1>9, <1>10, <1>17
  <2>3. CASE x \in D
    <3>1. D \cup Group(x) = D
      BY <1>7, <2>3
    <3> QED
      BY <1>18, <1>13, <1>15, <2>1, <2>2, <2>3, <3>1
  <2>4. CASE x \notin D /\ c \in Group(x)
    <3>1. x \in Group(c) /\ c # Sync /\ Group(c) = Group(x)
      BY <1>2, <1>10, <2>4
    <3>2. c \notin D
      BY <1>7, <2>4, <3>1
    <3> QED
      BY <1>18, <1>13, <1>15, <2>2, <2>4, <3>1, <3>2
  <2>5. CASE x \notin D /\ c \notin Group(x)
    <3>1. x \notin Group(c)
      BY <1>9, <1>2, <1>10, <2>5
    <3> QED
      BY <1>18, <1>13, <1>15, <2>1, <2>2, <2>5, <3>1
  <2> QED
    BY <2>3, <2>4, <2>5
<1> QED
  BY <1>16, <1>17, <1>18

\* VisitInput adds one to the tally of its input's group.
LEMMA VisitStep ==
  ASSUME TapeTypes, FirstPass, VisitInput
  PROVE  FirstPass'
<1>1. PICK a, k, x : Visits(a, k, x)
  BY VisitFacts
<1>a. PICK D : D = DOMAIN degree
  OBVIOUS
<1>b. PICK L : L = Len(dfs)
  OBVIOUS
<1>2. PICK e0 : e0 = <<Rep(a), k>>
  OBVIOUS
<1>3. /\ call \in Cases /\ dfs \in Seq(Frames) /\ dfs # <<>> /\ D \subseteq Arrays
      /\ UNCHANGED call /\ phase = "dfs"
      /\ UNCHANGED <<phase, tape, i, at>>
  BY <1>a, <1>1 DEF TapeTypes, Visits
<1>4. /\ a \in Nodes /\ k \in Nat \ {0} /\ x \in Arrays /\ x \in Nodes /\ x # Sync
      /\ Sync \notin Arrays /\ k \in DOMAIN Inputs(a) /\ x = Inputs(a)[k]
  BY <1>1 DEF Visits, Nodes, Sync, Arrays
<1>5. e0 \in Edges /\ Target(e0) = x /\ e0[1] = Rep(a)
  BY <1>2, <1>3, <1>4, EdgeFacts
<1>6. /\ \A e \in Edges : Met(e)' <=> Met(e) \/ e = e0
      /\ ~Met(e0)
  BY <1>1, <1>2, <1>5, VisitMeets
<1>7. /\ \A y : Group(y)' = Group(y)
      /\ \A e : Target(e)' = Target(e) /\ Crosses(e)' = Crosses(e)
      /\ Edges' = Edges /\ Reached' = Reached
  BY <1>3, Same
<1>8. /\ \A b \in Nodes : b \in Group(b) /\ \A d \in Group(b) : Group(d) = Group(b)
      /\ \A b \in Arrays : Group(b) \subseteq Arrays /\ b \in Nodes
      /\ StreamOf(Rep(a)) = StreamOf(a)
  BY <1>3, <1>4, GroupFacts DEF Nodes
<1>9. /\ \A j \in DOMAIN dfs : dfs[j][1] \in D \cup {Sync}
      /\ \A j, l \in DOMAIN dfs : dfs[l][1] \in Group(dfs[j][1]) => j = l
      /\ \A y \in D : Group(y) \subseteq D
      /\ D \subseteq Reached
      /\ needsFence = {Target(e) : e \in {f \in Edges : Met(f) /\ Crosses(f)}}
      /\ tape = <<>> /\ i = 0 /\ at = NoEntry
  BY <1>a, <1>1, <1>3, DegreeClosed DEF FirstPass
<1>10. \A y \in Arrays : /\ y \in D <=> MetTo(y) # {}
                         /\ y \in D => IsFiniteSet(MetTo(y)) /\ degree[y] = Cardinality(MetTo(y))
  BY <1>a, <1>3 DEF FirstPass
<1>11. /\ DOMAIN degree' = D \cup Group(x)
       /\ \A y \in DOMAIN degree' :
            degree'[y] = IF y \notin Group(x) THEN degree[y]
                         ELSE IF y \in D THEN degree[y] + 1 ELSE 1
  BY <1>a, <1>1, <1>4 DEF Visits, Count, Group
<1>12. ASSUME NEW y \in Arrays
       PROVE  /\ y \in DOMAIN degree' <=> MetTo(y)' # {}
              /\ y \in DOMAIN degree' => /\ IsFiniteSet(MetTo(y)')
                                         /\ degree'[y] = Cardinality(MetTo(y)')
  <2>1. PICK V : V = MetTo(y)'
    OBVIOUS
  <2>2. V = {e \in Edges : Target(e) \in Group(y) /\ (Met(e) \/ e = e0)}
    BY <1>6, <1>7, <2>1 DEF MetTo
  <2>3. CASE y \in Group(x)
    <3>1. x \in Group(y)
      BY <1>4, <1>8, <2>3
    <3>2. V = MetTo(y) \cup {e0} /\ e0 \notin MetTo(y)
      BY <1>5, <1>6, <2>2, <3>1 DEF MetTo
    <3>3. CASE y \in D
      <4>1. IsFiniteSet(V) /\ Cardinality(V) = Cardinality(MetTo(y)) + 1
        BY <1>10, <3>2, <3>3, FS_AddElement
      <4> QED
        BY <1>10, <1>11, <2>1, <2>3, <3>2, <3>3, <4>1
    <3>4. CASE y \notin D
      <4>1. V = {e0}
        BY <1>10, <3>2, <3>4
      <4>2. IsFiniteSet(V) /\ Cardinality(V) = 1
        BY <4>1, FS_Singleton
      <4> QED
        BY <1>11, <2>1, <2>3, <3>4, <4>1, <4>2
    <3> QED
      BY <3>3, <3>4
  <2>4. CASE y \notin Group(x)
    <3>1. x \notin Group(y)
      BY <1>4, <1>8, <2>4
    <3>2. V = MetTo(y)
      BY <1>5, <2>2, <3>1 DEF MetTo
    <3> QED
      BY <1>10, <1>11, <2>1, <2>4, <3>2
  <2> QED
    BY <2>3, <2>4
<1>13. Group(x) \subseteq Reached
  <2>1. a \in Known
    <3>1. Len(dfs) \in Nat \ {0} /\ DOMAIN dfs = 1 .. Len(dfs) /\ Last(dfs) = dfs[Len(dfs)]
      BY <1>3, FrontFacts
    <3>2. L \in DOMAIN dfs /\ dfs[L] = <<a, k>>
      BY <1>b, <1>1, <3>1 DEF Visits
    <3> QED
      BY <1>9, <3>2 DEF Known
  <2>2. x \in ToSet(Inputs(a))
    BY <1>3, <1>4, InputFacts
  <2> QED
    BY <1>3, <1>4, <1>8, <2>1, <2>2, ReachedFacts
<1>14. needsFence' = {Target(e) : e \in {f \in Edges : Met(f)' /\ Crosses(f)}}
  <2>1. Crosses(e0) <=> Unscheduled(x) /\ StreamOf(a) # StreamOf(x)
    BY <1>5, <1>8 DEF Crosses
  <2>2. {f \in Edges : Met(f)' /\ Crosses(f)}
          = {f \in Edges : Met(f) /\ Crosses(f)} \cup (IF Crosses(e0) THEN {e0} ELSE {})
    BY <1>5, <1>6
  <2>3. {Target(e) : e \in {f \in Edges : Met(f)' /\ Crosses(f)}}
          = needsFence \cup (IF Crosses(e0) THEN {x} ELSE {})
    BY <1>5, <1>9, <2>2
  <2>4. needsFence' = IF Crosses(e0) THEN needsFence \cup {x} ELSE needsFence
    BY <1>1, <2>1 DEF Visits, MarkFence
  <2> QED
    BY <2>3, <2>4
<1>15. {Target(e) : e \in {f \in Edges : Met(f) /\ Crosses(f)}}'
         = {Target(e) : e \in {f \in Edges : Met(f)' /\ Crosses(f)}}
  BY <1>7
<1>16. /\ \A j \in DOMAIN dfs' : dfs'[j][1] \in D \cup {x, Sync}
       /\ \A j, l \in DOMAIN dfs' : dfs'[l][1] \in Group(dfs'[j][1]) => j = l
  <2>1. PICK s : s = Append(Front(dfs), <<a, k + 1>>)
    OBVIOUS
  <2>2. /\ s \in Seq(Frames) /\ Len(s) = L /\ DOMAIN s = 1 .. L
        /\ \A j \in 1 .. L - 1 : s[j] = dfs[j]
        /\ s[L] = <<a, k + 1>>
    <3>1. <<a, k + 1>> \in Frames
      BY <1>4 DEF Frames
    <3>2. dfs \in Seq(Frames) /\ dfs # <<>>
      BY <1>3
    <3>3. PICK f \in Frames : f = <<a, k + 1>>
      BY <3>1
    <3>4. s = Append(Front(dfs), f)
      BY <2>1, <3>3
    <3>5. s \in Seq(Frames)
      BY <3>2, <3>4, AdvanceFacts
    <3>6. Len(s) = Len(dfs)
      BY <3>2, <3>4, AdvanceFacts
    <3>7. DOMAIN s = 1 .. Len(dfs)
      BY <3>2, <3>4, AdvanceFacts
    <3>8. \A j \in 1 .. Len(dfs) - 1 : s[j] = dfs[j]
      BY <3>2, <3>4, AdvanceFacts
    <3>9. s[Len(dfs)] = f
      BY <3>2, <3>4, AdvanceFacts
    <3> QED
      BY <1>b, <3>3, <3>5, <3>6, <3>7, <3>8, <3>9
  <2>3. L \in Nat \ {0} /\ DOMAIN dfs = 1 .. L /\ dfs[L] = <<a, k>>
    BY <1>b, <1>1, <1>3, FrontFacts DEF Visits
  <2>4. \A j \in 1 .. L : s[j][1] = dfs[j][1]
    <3> TAKE j \in 1 .. L
    <3>1. CASE j = L
      BY <2>2, <2>3, <3>1
    <3>2. CASE j \in 1 .. L - 1
      BY <2>2, <3>2
    <3> QED
      BY <2>3, <3>1, <3>2
  <2>5. CASE x \in D
    <3>1. dfs' = s
      BY <1>a, <1>1, <2>1, <2>5 DEF Visits
    <3> QED
      BY <1>9, <2>2, <2>3, <2>4, <3>1
  <2>6. CASE x \notin D
    <3>1. dfs' = Append(s, <<x, 1>>)
      BY <1>a, <1>1, <2>1, <2>6 DEF Visits
    <3>2. <<x, 1>> \in Frames
      BY <1>4 DEF Frames
    <3>3. /\ DOMAIN dfs' = 1 .. L + 1 /\ \A j \in 1 .. L : dfs'[j] = s[j]
          /\ dfs'[L + 1] = <<x, 1>>
      BY <2>2, <3>1, <3>2, PushFacts
    <3>4. \A j \in DOMAIN dfs' : \/ j = L + 1 /\ dfs'[j][1] = x
                                 \/ j \in DOMAIN dfs /\ dfs'[j][1] = dfs[j][1]
      BY <2>3, <2>4, <3>3
    <3>5. \A y \in D \cup {Sync} : x \notin Group(y) /\ y \notin Group(x)
      <4>1. Group(Sync) = {Sync} /\ Group(x) \subseteq Arrays
        BY <1>4, <1>8 DEF Group
      <4> QED
        BY <1>4, <1>3, <1>8, <1>9, <2>6, <4>1
    <3> QED
      BY <1>9, <3>4, <3>5
  <2> QED
    BY <2>5, <2>6
<1>17. \A j \in DOMAIN dfs' : dfs'[j][1] \in DOMAIN degree' \cup {Sync}
  BY <1>4, <1>8, <1>11, <1>16
<1> QED
  BY <1>3, <1>7, <1>9, <1>11, <1>12, <1>13, <1>14, <1>15, <1>16, <1>17 DEF FirstPass

\* When the stack is empty, every array reached has been met, and every use
\* of its inputs.
LEMMA AllMet ==
  ASSUME TapeTypes, FirstPass, phase = "dfs", dfs = <<>>
  PROVE  /\ DOMAIN degree = Reached
         /\ \A e \in Edges : Met(e) <=> e[1] \in Known
<1>a. PICK D : D = DOMAIN degree
  OBVIOUS
<1>1. call \in Cases /\ D \subseteq Arrays /\ D \subseteq Reached
  BY <1>a DEF TapeTypes, FirstPass
<1>2. \A e \in Edges : Met(e) <=> e[1] \in D \cup {Sync}
  BY <1>a DEF Met, Held
<1> DEFINE M == Reached \ D
<1>3. ASSUME NEW b \in M
      PROVE  \E c \in M : \E y \in Group(b) : y \in ToSet(Inputs(c))
  <2>1. b \in Arrays /\ b \in Reached /\ b \notin D
    BY <1>1, ReachedFacts
  <2>2. PICK c \in Known : \E y \in Group(b) : y \in ToSet(Inputs(c))
    BY <1>1, <2>1, ReachedFacts
  <2>3. PICK y \in Group(b) : y \in ToSet(Inputs(c))
    BY <2>2
  <2>4. c \in Nodes
    BY <1>1, ReachedFacts DEF Known, Nodes
  <2>5. PICK k \in DOMAIN Inputs(c) : y = Inputs(c)[k]
    BY <1>1, <2>3, <2>4, InputFacts
  <2>6. PICK f : f = <<Rep(c), k>>
    OBVIOUS
  <2>7. f \in Edges /\ Target(f) = y /\ f[1] = Rep(c)
    BY <1>1, <2>4, <2>5, <2>6, EdgeFacts
  <2>8. c \in D \cup {Sync} => Rep(c) \in D \cup {Sync}
    <3>1. CASE c \in D
      <4>1. Rep(c) \in Group(c)
        BY <1>1, <2>4, GroupFacts
      <4> QED
        BY <1>a, <3>1, <4>1, DegreeClosed
    <3>2. CASE c = Sync
      <4>1. Rep(c) = Sync
        BY <1>1, <2>4, <3>2, GroupFacts
      <4> QED
        BY <4>1
    <3> QED
      BY <3>1, <3>2
  <2>9. c \notin D \cup {Sync}
    <3> SUFFICES ASSUME c \in D \cup {Sync} PROVE FALSE
      OBVIOUS
    <3>1. f \in MetTo(b)
      BY <1>2, <2>3, <2>7, <2>8 DEF MetTo
    <3> QED
      BY <1>a, <2>1, <3>1 DEF FirstPass
  <2>10. c \in M
    BY <2>9 DEF Known
  <2> QED
    BY <2>3, <2>10
<1>4. M \subseteq Arrays
  BY <1>1, ReachedFacts
<1> HIDE DEF M
<1>5. M = {}
  BY <1>1, <1>3, <1>4, NoAscent
<1>6. D = Reached
  BY <1>1, <1>5 DEF M
<1> QED
  BY <1>a, <1>2, <1>6 DEF Known

\* Where the first pass ends the second begins, with every use to be taken off.
LEMMA StartStep ==
  ASSUME TapeTypes, FirstPass, StartTape
  PROVE  FirstPass' /\ SecondPass'
<1>1. /\ phase = "dfs" /\ dfs = <<>> /\ phase' = "bfs" /\ tape' = <<Sync>>
      /\ UNCHANGED <<call, dfs, degree, needsFence, i, at>>
  BY DEF StartTape
<1>2. call \in Cases /\ degree \in [DOMAIN degree -> Int]
  BY DEF TapeTypes
<1>3. i = 0 /\ at = NoEntry
  BY <1>1 DEF FirstPass
<1>4. /\ DOMAIN degree = Reached
      /\ \A e \in Edges : Met(e) <=> e[1] \in Known
  BY <1>1, AllMet
<1>5. /\ \A x : Group(x)' = Group(x) /\ Unscheduled(x)' = Unscheduled(x) /\ Inputs(x)' = Inputs(x)
      /\ \A e : Target(e)' = Target(e) /\ Crosses(e)' = Crosses(e)
      /\ Edges' = Edges /\ Reached' = Reached /\ Known' = Known
  BY <1>1, Same
<1>6. \A x \in Arrays : Sync \notin Group(x)
  BY <1>2, GroupFacts DEF Nodes, Sync, Arrays
<1>7. Reached \subseteq Arrays
  BY <1>2, ReachedFacts
<1>8. DOMAIN tape' = 1 .. 1 /\ tape'[1] = Sync /\ tape' # <<>> /\ Len(tape') = 1
  BY <1>1
<1>9. Listing'
  <2>1. \A p, q \in DOMAIN tape' : p = q
    BY <1>8
  <2>2. \A p, q \in DOMAIN tape' : \A x \in ToSet(Inputs(tape'[p])) : tape'[q] \notin Group(x)
    <3>1. \A x \in ToSet(Inputs(Sync)) : x \in Arrays
      BY <1>2, InputFacts DEF Nodes
    <3>2. \A p \in DOMAIN tape' : tape'[p] = Sync
      BY <1>8
    <3> QED
      BY <1>6, <3>1, <3>2
  <2>3. \A p \in DOMAIN tape' : ~(p > 1)
    BY <1>8
  <2> QED
    BY <1>1, <1>3, <1>5, <1>8, <2>1, <2>2, <2>3 DEF Listing
<1>10. Expanding'
  BY <1>1, <1>3 DEF Expanding
<1>11. ASSUME NEW x \in Reached PROVE Tallied(x)'
  <2>1. \A e : ~(Taken(e)')
    BY <1>1, <1>3 DEF Taken
  <2>2. OpenTo(x)' = MetTo(x)
    BY <1>4, <1>5, <2>1 DEF OpenTo, MetTo
  <2>3. x \in Arrays
    BY <1>7
  <2>4. MetTo(x) # {} /\ IsFiniteSet(MetTo(x)) /\ degree[x] = Cardinality(MetTo(x))
    BY <1>1, <1>4, <2>3 DEF FirstPass
  <2>5. ~(Listed(x)')
    BY <1>5, <1>6, <1>8, <2>3 DEF Listed
  <2> QED
    BY <1>1, <1>4, <2>2, <2>4, <2>5 DEF Tallied
<1>12. needsFence = {Target(e) : e \in {f \in Edges : f[1] \in Known /\ Crosses(f)}}
  <2>1. needsFence = {Target(e) : e \in {f \in Edges : Met(f) /\ Crosses(f)}}
    BY <1>1 DEF FirstPass
  <2> QED
    BY <1>4, <2>1
<1>13. {Target(e) : e \in {f \in Edges : f[1] \in Known /\ Crosses(f)}}'
         = {Target(e) : e \in {f \in Edges : f[1] \in Known /\ Crosses(f)}}
  BY <1>5
<1>14. FirstPass'
  BY <1>1 DEF FirstPass
<1> QED
  BY <1>1, <1>5, <1>9, <1>10, <1>11, <1>12, <1>13, <1>14 DEF SecondPass

-----------------------------------------------------------------------------
(* The second pass *)

\* What is reached comes in groups, and so do its inputs.
LEMMA KnownFacts ==
  ASSUME call \in Cases
  PROVE  /\ Known \subseteq Nodes
         /\ \A a \in Known : Rep(a) \in Known
         /\ \A a \in Known : \A x \in ToSet(Inputs(a)) : \A y \in Group(x) : y \in Reached
<1>1. Known \subseteq Nodes
  BY ReachedFacts DEF Known, Nodes
<1>2. ASSUME NEW a \in Known PROVE Rep(a) \in Known
  <2>1. CASE a = Sync
    BY <1>1, <2>1, GroupFacts
  <2>2. CASE a # Sync
    <3>1. a \in Reached /\ a \in Arrays /\ Rep(a) \in Arrays /\ Group(Rep(a)) = Group(a)
      BY <1>1, <2>2, GroupFacts, ReachedFacts DEF Known
    <3>2. Rep(a) \in Reached
      BY <3>1, ReachedFacts
    <3> QED
      BY <3>2 DEF Known
  <2> QED
    BY <2>1, <2>2
<1>3. ASSUME NEW a \in Known, NEW x \in ToSet(Inputs(a)), NEW y \in Group(x)
      PROVE  y \in Reached
  <2>1. a \in Nodes
    BY <1>1
  <2>2. x \in Arrays
    BY <2>1, InputFacts
  <2>3. x \in Nodes /\ x # Sync
    BY <2>2 DEF Nodes, Sync, Arrays
  <2>4. y \in Arrays /\ Group(y) = Group(x) /\ x \in Group(x)
    BY <2>3, GroupFacts
  <2> QED
    BY <2>4, ReachedFacts
<1> QED
  BY <1>1, <1>2, <1>3

\* The tape's entries are reached; the i first of them have been begun.
LEMMA TapeFacts ==
  ASSUME TapeTypes, SecondPass, phase # "dfs"
  PROVE  /\ tape \in Seq(Nodes) /\ Len(tape) \in Nat \ {0} /\ DOMAIN tape = 1 .. Len(tape)
         /\ i \in Nat /\ i <= Len(tape) /\ \A p \in 1 .. i : p \in DOMAIN tape
         /\ \A p \in DOMAIN tape : tape[p] \in Known /\ tape[p] \in Nodes
<1>1. tape \in Seq(Nodes) /\ i \in Nat /\ Listing
  BY DEF TapeTypes, SecondPass
<1>2. Len(tape) \in Nat \ {0} /\ DOMAIN tape = 1 .. Len(tape)
  BY <1>1, LenProperties, EmptySeq DEF Listing
<1>3. i <= Len(tape)
  BY <1>1 DEF Listing
<1>4. ASSUME NEW p \in DOMAIN tape PROVE tape[p] \in Known /\ tape[p] \in Nodes
  <2>1. CASE p = 1
    BY <1>1, <2>1 DEF Listing, Known, Nodes
  <2>2. CASE p > 1
    BY <1>1, <1>2, <2>2, ElementOfSeq DEF Listing, Known
  <2> QED
    BY <1>2, <2>1, <2>2
<1> QED
  BY <1>1, <1>2, <1>3, <1>4

\* The tallies hold as long as the uses that are left are the same.
LEMMA KeptTallies ==
  ASSUME SecondPass, phase # "dfs", UNCHANGED <<call, degree, tape>>,
         \A x \in Reached : Unscheduled(x) => OpenTo(x)' = OpenTo(x)
  PROVE  \A x \in Reached : Unscheduled(x) => Tallied(x)'
<1> SUFFICES ASSUME NEW x \in Reached, Unscheduled(x)
             PROVE  Tallied(x)'
  OBVIOUS
<1>1. Tallied(x) /\ OpenTo(x)' = OpenTo(x)
  BY DEF SecondPass
<1>2. Listed(x)' <=> Listed(x)
  BY Same DEF Listed
<1> QED
  BY <1>1, <1>2 DEF Tallied

\* If the uses taken are the same then so are those left.
LEMMA SameOpen ==
  ASSUME UNCHANGED call, \A e \in Edges : Taken(e)' <=> Taken(e)
  PROVE  \A x : OpenTo(x)' = OpenTo(x)
<1>1. /\ \A x : Group(x)' = Group(x)
      /\ \A e : Target(e)' = Target(e)
      /\ Edges' = Edges /\ Known' = Known
  BY Same
<1> QED
  BY <1>1 DEF OpenTo

\* The fences asked for do not depend on the second pass.
LEMMA SameFences ==
  ASSUME UNCHANGED call
  PROVE  {Target(e) : e \in {f \in Edges : f[1] \in Known /\ Crosses(f)}}'
           = {Target(e) : e \in {f \in Edges : f[1] \in Known /\ Crosses(f)}}
<1>1. /\ \A e : Target(e)' = Target(e) /\ Crosses(e)' = Crosses(e)
      /\ Edges' = Edges /\ Known' = Known
  BY Same
<1> QED
  BY <1>1

\* Listing is about the call, the tape and i.
LEMMA SameListing ==
  ASSUME UNCHANGED <<call, tape>>, Listing, i' <= Len(tape)
  PROVE  Listing'
<1>1. /\ \A x : Group(x)' = Group(x) /\ Unscheduled(x)' = Unscheduled(x) /\ Inputs(x)' = Inputs(x)
      /\ Reached' = Reached
  BY Same
<1> QED
  BY <1>1 DEF Listing

\* An array taken from the stack goes on where it stopped.
LEMMA ResumeStep ==
  ASSUME TapeTypes, SecondPass, NextArray, i >= Len(tape)
  PROVE  SecondPass'
<1>1. /\ phase = "bfs" /\ at = NoEntry /\ i \in Nat /\ Len(tape) \in Nat
      /\ UNCHANGED <<call, phase, degree, needsFence, tape>>
  BY TapeFacts DEF NextArray
<1>2. dfs # <<>> /\ at' = Last(dfs) /\ dfs' = Front(dfs) /\ UNCHANGED i
  BY <1>1 DEF NextArray, MoreToExpand
<1>3. call \in Cases /\ dfs \in Seq(Frames)
  BY DEF TapeTypes
<1>4. /\ Len(dfs) \in Nat \ {0} /\ DOMAIN dfs = 1 .. Len(dfs)
      /\ DOMAIN dfs' = 1 .. Len(dfs) - 1
      /\ \A j \in 1 .. Len(dfs) - 1 : dfs'[j] = dfs[j]
      /\ Last(dfs) = dfs[Len(dfs)] /\ Last(dfs) \in Frames
  BY <1>2, <1>3, FrontFacts
<1>5. PICK b, l : Last(dfs) = <<b, l>> /\ b \in Nodes /\ l \in Nat \ {0}
  BY <1>4 DEF Frames
<1>6. at' # NoEntry /\ at'[1] = b /\ at'[2] = l
  BY <1>2, <1>5 DEF NoEntry
<1>7. PICK L \in Nat \ {0} : L = Len(dfs)
  BY <1>4
<1>8. dfs[L][1] = b /\ dfs[L][2] = l /\ DOMAIN dfs = 1 .. L /\ DOMAIN dfs' = 1 .. L - 1
      /\ \A j \in 1 .. L - 1 : dfs'[j] = dfs[j]
  <2>1. DOMAIN dfs = 1 .. L /\ DOMAIN dfs' = 1 .. L - 1 /\ \A j \in 1 .. L - 1 : dfs'[j] = dfs[j]
    BY <1>4, <1>7
  <2>2. dfs[L] = <<b, l>>
    BY <1>4, <1>5, <1>7
  <2> QED
    BY <2>1, <2>2
<1>9. \A e \in Edges : Taken(e)' <=> Taken(e)
  <2> TAKE e \in Edges
  <2>1. Group(e[1])' = Group(e[1])
    BY <1>1, Same
  <2>2. Held(e)' <=> \E j \in 1 .. L - 1 : dfs[j][1] \in Group(e[1]) /\ dfs[j][2] <= e[2]
    BY <1>8, <2>1 DEF Held
  <2>3. Held(e) <=> \/ \E j \in 1 .. L - 1 : dfs[j][1] \in Group(e[1]) /\ dfs[j][2] <= e[2]
                    \/ b \in Group(e[1]) /\ l <= e[2]
    BY <1>7, <1>8 DEF Held
  <2> QED
    BY <1>1, <1>2, <1>6, <2>1, <2>2, <2>3 DEF Taken
<1>10. Listing /\ Expanding /\ i <= Len(tape)
  BY <1>1 DEF SecondPass, Listing
<1>11. Listing'
  BY <1>1, <1>2, <1>10, SameListing
<1>12. Expanding'
  <2>1. \A j \in DOMAIN dfs' : j \in DOMAIN dfs /\ dfs'[j] = dfs[j] /\ j # L
    BY <1>7, <1>8
  <2>2. L \in DOMAIN dfs
    BY <1>7, <1>8
  <2> QED
    BY <1>1, <1>2, <1>6, <1>8, <1>10, <2>1, <2>2 DEF Expanding
<1>13. \A x \in Reached : Unscheduled(x) => Tallied(x)'
  BY <1>1, <1>9, SameOpen, KeptTallies
<1>14. Reached' = Reached /\ \A x : Unscheduled(x)' = Unscheduled(x)
  BY <1>1, Same
<1> QED
  BY <1>1, <1>11, <1>12, <1>13, <1>14, SameFences DEF SecondPass

\* The next array of the tape has all its uses left.
LEMMA BeginStep ==
  ASSUME TapeTypes, SecondPass, NextArray, ~(i >= Len(tape))
  PROVE  SecondPass'
<1>1. /\ phase = "bfs" /\ at = NoEntry /\ i \in Nat /\ Len(tape) \in Nat
      /\ UNCHANGED <<call, phase, degree, needsFence, tape, dfs>>
      /\ at' = <<tape[i + 1], 1>> /\ i' = i + 1
  BY TapeFacts DEF NextArray
<1>2. call \in Cases
  BY DEF TapeTypes
<1>3. PICK b : b = tape[i + 1]
  OBVIOUS
<1>4. /\ DOMAIN tape = 1 .. Len(tape) /\ i + 1 \in DOMAIN tape /\ b \in Nodes
      /\ \A p \in 1 .. i : p \in DOMAIN tape /\ p # i + 1
  BY <1>1, <1>3, TapeFacts
<1>5. at' # NoEntry /\ at'[1] = b /\ at'[2] = 1
  BY <1>1, <1>3 DEF NoEntry
<1>6. Listing /\ Expanding
  BY <1>1 DEF SecondPass
<1>7. \A p \in 1 .. i : tape[p] \notin Group(b)
  BY <1>3, <1>4, <1>6 DEF Listing
<1>8. b \in Group(b)
  BY <1>2, <1>4, GroupFacts
<1>9. \A e \in Edges : Taken(e)' <=> Taken(e)
  <2> TAKE e \in Edges
  <2>1. Group(e[1])' = Group(e[1])
    BY <1>1, Same
  <2>2. e[1] \in Nodes /\ e[2] \in Nat \ {0}
    BY <1>2, EdgeFacts
  <2>3. 1 <= e[2]
    BY <2>2
  <2>4. Held(e)' <=> Held(e)
    BY <1>1, <2>1 DEF Held
  <2>5. Taken(e)' <=> /\ \E p \in 1 .. i + 1 : tape[p] \in Group(e[1])
                      /\ ~Held(e) /\ b \notin Group(e[1])
    BY <1>1, <1>5, <2>1, <2>3, <2>4 DEF Taken
  <2>6. Taken(e) <=> /\ \E p \in 1 .. i : tape[p] \in Group(e[1])
                     /\ ~Held(e)
    BY <1>1 DEF Taken
  <2>7. CASE b \in Group(e[1])
    <3>1. Group(e[1]) = Group(b)
      BY <1>2, <2>2, <2>7, GroupFacts
    <3> QED
      BY <1>7, <2>5, <2>6, <2>7, <3>1
  <2>8. CASE b \notin Group(e[1])
    <3>1. (\E p \in 1 .. i + 1 : tape[p] \in Group(e[1])) <=> \E p \in 1 .. i : tape[p] \in Group(e[1])
      BY <1>1, <1>3, <2>8
    <3> QED
      BY <2>5, <2>6, <2>8, <3>1
  <2> QED
    BY <2>7, <2>8
<1>10. Listing'
  <2>1. i' <= Len(tape)
    BY <1>1
  <2> QED
    BY <1>1, <1>6, <2>1, SameListing
<1>11. Expanding'
  <2>1. \A j \in DOMAIN dfs : \E p \in 1 .. i : dfs[j][1] = tape[p] /\ p \in 1 .. i + 1
    BY <1>1, <1>6 DEF Expanding
  <2>2. \A j \in DOMAIN dfs : dfs[j][1] # b
    BY <1>7, <1>8, <2>1
  <2>3. i + 1 \in 1 .. i + 1
    BY <1>1
  <2> QED
    BY <1>1, <1>3, <1>5, <1>6, <2>1, <2>2, <2>3 DEF Expanding
<1>12. \A x \in Reached : Unscheduled(x) => Tallied(x)'
  BY <1>1, <1>9, SameOpen, KeptTallies
<1>13. Reached' = Reached /\ \A x : Unscheduled(x)' = Unscheduled(x)
  BY <1>1, Same
<1> QED
  BY <1>1, <1>10, <1>11, <1>12, <1>13, SameFences DEF SecondPass

\* The use being expanded is still to be taken off, if its input is
\* unscheduled; so the whole group of the input is in the cache.
LEMMA UseIsOpen ==
  ASSUME TapeTypes, SecondPass, phase # "dfs", NEW a, NEW k, at = <<a, k>>, at # NoEntry,
         a \in Nodes, k \in DOMAIN Inputs(a), k \in Nat \ {0}
  PROVE  /\ a \in Known /\ Inputs(a)[k] \in Reached
         /\ <<Rep(a), k>> \in Edges /\ Rep(a) \in Known /\ Target(<<Rep(a), k>>) = Inputs(a)[k]
         /\ ~Taken(<<Rep(a), k>>)
         /\ Unscheduled(Inputs(a)[k]) => Group(Inputs(a)[k]) \subseteq DOMAIN degree
<1>1. call \in Cases
  BY DEF TapeTypes
<1>2. at[1] = a /\ at[2] = k
  OBVIOUS
<1>3. a \in Known
  BY <1>2, TapeFacts DEF SecondPass, Expanding
<1>4. PICK x : x = Inputs(a)[k]
  OBVIOUS
<1>5. PICK e : e = <<Rep(a), k>>
  OBVIOUS
<1>6. e \in Edges /\ Target(e) = x /\ e[1] = Rep(a) /\ e[2] = k
  BY <1>1, <1>4, <1>5, EdgeFacts
<1>7. Rep(a) \in Known
  BY <1>1, <1>3, KnownFacts
<1>8. x \in ToSet(Inputs(a)) /\ x \in Arrays
  BY <1>1, <1>4, InputFacts
<1>9. x \in Nodes /\ x # Sync
  BY <1>8 DEF Nodes, Sync, Arrays
<1>10. x \in Group(x)
  BY <1>1, <1>9, GroupFacts
<1>11. \A y \in Group(x) : y \in Reached
  BY <1>1, <1>3, <1>8, KnownFacts
<1>12. a \in Group(Rep(a))
  BY <1>1, GroupFacts
<1>13. ~Taken(e)
  BY <1>2, <1>6, <1>12 DEF Taken
<1>14. ASSUME Unscheduled(x), NEW y \in Group(x) PROVE y \in DOMAIN degree
  <2>1. Group(y) = Group(x) /\ Unscheduled(y)
    BY <1>1, <1>9, <1>14, GroupFacts
  <2>2. e \in OpenTo(y)
    BY <1>6, <1>7, <1>10, <1>13, <2>1 DEF OpenTo
  <2>3. Tallied(y)
    BY <1>11, <2>1 DEF SecondPass
  <2> QED
    BY <2>2, <2>3 DEF Tallied
<1> QED
  BY <1>3, <1>4, <1>5, <1>6, <1>7, <1>10, <1>11, <1>13, <1>14

\* Going on to the next input takes exactly one use.
LEMMA AdvanceTakes ==
  ASSUME TapeTypes, SecondPass, phase # "dfs", NEW a, NEW k, at = <<a, k>>, at # NoEntry,
         a \in Nodes, k \in DOMAIN Inputs(a), k \in Nat \ {0},
         at' = <<a, k + 1>>, UNCHANGED <<call, dfs, i>>,
         \A p \in 1 .. i : tape'[p] = tape[p],
         NEW e \in Edges
  PROVE  Taken(e)' <=> Taken(e) \/ e = <<Rep(a), k>>
<1>1. call \in Cases
  BY DEF TapeTypes
<1>2. at[1] = a /\ at[2] = k /\ at'[1] = a /\ at'[2] = k + 1 /\ at' # NoEntry
  BY DEF NoEntry
<1>3. Expanding
  BY DEF SecondPass
<1>4. PICK c : c = e[1]
  OBVIOUS
<1>5. c \in Nodes /\ c = Rep(c) /\ e = <<c, e[2]>> /\ e[2] \in Nat \ {0}
  BY <1>1, <1>4, EdgeFacts
<1>6. Group(c)' = Group(c)
  BY Same
<1>7. Held(e)' <=> Held(e)
  BY <1>4, <1>6 DEF Held
<1>8. /\ Taken(e)' <=> /\ \E p \in 1 .. i : tape[p] \in Group(c)
                       /\ ~Held(e) /\ ~(a \in Group(c) /\ k + 1 <= e[2])
      /\ Taken(e) <=> /\ \E p \in 1 .. i : tape[p] \in Group(c)
                      /\ ~Held(e) /\ ~(a \in Group(c) /\ k <= e[2])
  BY <1>2, <1>4, <1>6, <1>7 DEF Taken
<1>9. CASE a \in Group(c)
  <2>1. Rep(a) = c
    BY <1>1, <1>5, <1>9, GroupFacts
  <2>2. e = <<Rep(a), k>> <=> e[2] = k
    BY <1>5, <2>1
  <2>3. k + 1 <= e[2] <=> k <= e[2] /\ e[2] # k
    BY <1>5
  <2>4. \E p \in 1 .. i : tape[p] \in Group(c)
    BY <1>2, <1>3, <1>9 DEF Expanding
  <2>5. e[2] = k => ~Held(e)
    <3> SUFFICES ASSUME e[2] = k, NEW j \in DOMAIN dfs, dfs[j][1] \in Group(c)
                 PROVE  FALSE
      BY <1>4 DEF Held
    <3>1. PICK p \in 1 .. i : dfs[j][1] = tape[p]
      BY <1>3 DEF Expanding
    <3>2. PICK q \in 1 .. i : a = tape[q]
      BY <1>2, <1>3 DEF Expanding
    <3>3. Group(c) = Group(a)
      BY <1>1, <1>5, <1>9, GroupFacts
    <3>4. p \in DOMAIN tape /\ q \in DOMAIN tape
      BY TapeFacts
    <3>5. p = q
      BY <3>1, <3>2, <3>3, <3>4 DEF SecondPass, Listing
    <3> QED
      BY <1>2, <1>3, <3>1, <3>2, <3>5 DEF Expanding
  <2> QED
    BY <1>8, <1>9, <2>2, <2>3, <2>4, <2>5
<1>10. CASE a \notin Group(c)
  <2>1. e # <<Rep(a), k>>
    <3>1. a \in Group(Rep(a))
      BY <1>1, GroupFacts
    <3> QED
      BY <1>4, <1>10, <3>1
  <2> QED
    BY <1>8, <1>10, <2>1
<1> QED
  BY <1>9, <1>10

\* An input that is not unscheduled is passed over.
LEMMA PassStep ==
  ASSUME TapeTypes, SecondPass, NEW a, NEW k, NEW x, Expands(a, k, x),
         ~Unscheduled(x), at' = <<a, k + 1>>, UNCHANGED <<dfs, degree, tape>>
  PROVE  SecondPass'
<1>1. /\ phase = "bfs" /\ at = <<a, k>> /\ at # NoEntry /\ x = Inputs(a)[k] /\ x \in Arrays
      /\ a \in Nodes /\ k \in DOMAIN Inputs(a) /\ k \in Nat \ {0}
      /\ UNCHANGED <<call, phase, needsFence, i>>
  BY DEF Expands
<1>2. call \in Cases /\ Listing /\ Expanding
  BY <1>1 DEF TapeTypes, SecondPass
<1>3. \A e \in Edges : Taken(e)' <=> Taken(e) \/ e = <<Rep(a), k>>
  BY <1>1, AdvanceTakes
<1>4. Target(<<Rep(a), k>>) = x
  BY <1>1, UseIsOpen
<1>5. /\ \A y : Group(y)' = Group(y) /\ Unscheduled(y)' = Unscheduled(y)
      /\ \A e : Target(e)' = Target(e)
      /\ Edges' = Edges /\ Known' = Known /\ Reached' = Reached
  BY <1>1, Same
<1>6. ASSUME NEW y \in Reached, Unscheduled(y) PROVE OpenTo(y)' = OpenTo(y)
  <2>1. x \notin Group(y)
    <3>1. y \in Nodes
      BY <1>2, ReachedFacts DEF Nodes
    <3> QED
      BY <1>2, <1>6, <3>1, GroupFacts
  <2> QED
    BY <1>3, <1>4, <1>5, <2>1 DEF OpenTo
<1>7. \A y \in Reached : Unscheduled(y) => Tallied(y)'
  BY <1>1, <1>6, KeptTallies
<1>8. Listing'
  BY <1>1, <1>2, SameListing DEF Listing
<1>9. Expanding'
  <2>1. at'[1] = a /\ at[1] = a
    BY <1>1
  <2> QED
    BY <1>1, <1>2, <2>1 DEF Expanding
<1> QED
  BY <1>1, <1>5, <1>7, <1>8, <1>9, SameFences DEF SecondPass

\* An array that would make the tape too wide is put back as it is.
LEMMA PostponeStep ==
  ASSUME TapeTypes, SecondPass, NEW a, NEW k, NEW x, Expands(a, k, x),
         dfs' = Append(dfs, at), at' = NoEntry, UNCHANGED <<degree, tape>>
  PROVE  SecondPass'
<1>1. /\ phase = "bfs" /\ at = <<a, k>> /\ at # NoEntry /\ a \in Nodes /\ k \in Nat \ {0}
      /\ UNCHANGED <<call, phase, needsFence, i>>
  BY DEF Expands
<1>2. call \in Cases /\ Listing /\ Expanding /\ dfs \in Seq(Frames) /\ at \in Frames
  BY <1>1 DEF TapeTypes, SecondPass
<1>3. PICK L \in Nat : L = Len(dfs)
  BY <1>2, LenProperties
<1>4. /\ DOMAIN dfs = 1 .. Len(dfs) /\ DOMAIN dfs' = 1 .. Len(dfs) + 1
      /\ \A j \in 1 .. Len(dfs) : dfs'[j] = dfs[j]
      /\ dfs'[Len(dfs) + 1] = at
  BY <1>2, PushFacts
<1>5. /\ DOMAIN dfs = 1 .. L /\ \A j \in DOMAIN dfs' : j = L + 1 \/ j \in 1 .. L
      /\ \A j \in 1 .. L : dfs'[j] = dfs[j] /\ j \in DOMAIN dfs' /\ j # L + 1
      /\ dfs'[L + 1] = at /\ L + 1 \in DOMAIN dfs'
  BY <1>3, <1>4
<1>6. \A e \in Edges : Taken(e)' <=> Taken(e)
  <2> TAKE e \in Edges
  <2>1. Group(e[1])' = Group(e[1])
    BY <1>1, Same
  <2>2. Held(e)' <=> Held(e) \/ (at[1] \in Group(e[1]) /\ at[2] <= e[2])
    BY <1>5, <2>1 DEF Held
  <2> QED
    BY <1>1, <2>1, <2>2 DEF Taken
<1>7. Listing'
  BY <1>1, <1>2, SameListing DEF Listing
<1>8. Expanding'
  <2>1. at'[1] = Sync /\ at' = NoEntry
    BY DEF NoEntry
  <2>2. \A j \in DOMAIN dfs' : \E p \in 1 .. i : dfs'[j][1] = tape[p]
    BY <1>1, <1>2, <1>5 DEF Expanding
  <2>3. \A j, l \in DOMAIN dfs' : dfs'[j][1] = dfs'[l][1] => j = l
    <3> SUFFICES ASSUME NEW j \in DOMAIN dfs', NEW l \in DOMAIN dfs', dfs'[j][1] = dfs'[l][1]
                 PROVE  j = l
      OBVIOUS
    <3>1. \A m \in 1 .. L : dfs'[m] = dfs[m] /\ dfs[m][1] # at[1]
      BY <1>1, <1>2, <1>5 DEF Expanding
    <3>2. \A m, n \in 1 .. L : dfs[m][1] = dfs[n][1] => m = n
      BY <1>2, <1>5 DEF Expanding
    <3> QED
      BY <1>5, <3>1, <3>2
  <2> QED
    BY <1>1, <2>1, <2>2, <2>3 DEF Expanding
<1>9. \A y \in Reached : Unscheduled(y) => Tallied(y)'
  BY <1>1, <1>6, SameOpen, KeptTallies
<1>10. Reached' = Reached /\ \A y : Unscheduled(y)' = Unscheduled(y)
  BY <1>1, Same
<1> QED
  BY <1>1, <1>7, <1>8, <1>9, <1>10, SameFences DEF SecondPass

\* A use taken off: the group of the input is listed with the last one.
LEMMA TakeTallies ==
  ASSUME TapeTypes, SecondPass, NEW a, NEW k, NEW x, Expands(a, k, x),
         Unscheduled(x), degree' = Uncount(x), at' = <<a, k + 1>>, UNCHANGED dfs,
         tape' = IF degree[x] = 1 THEN Append(tape, x) ELSE tape,
         NEW y \in Reached, Unscheduled(y)
  PROVE  Tallied(y)'
<1>1. /\ phase = "bfs" /\ at = <<a, k>> /\ at # NoEntry /\ x = Inputs(a)[k] /\ x \in Arrays
      /\ a \in Nodes /\ k \in DOMAIN Inputs(a) /\ k \in Nat \ {0}
      /\ UNCHANGED <<call, phase, needsFence, i>>
  BY DEF Expands
<1>2. /\ call \in Cases /\ x \in Nodes /\ x # Sync /\ y \in Nodes /\ y # Sync
      /\ tape \in Seq(Nodes)
  BY <1>1, ReachedFacts DEF TapeTypes, Nodes, Sync, Arrays
<1>3. PICK e : e = <<Rep(a), k>>
  OBVIOUS
<1>4. /\ e \in Edges /\ e[1] \in Known /\ Target(e) = x /\ ~Taken(e)
      /\ Group(x) \subseteq DOMAIN degree /\ x \in Reached
  BY <1>1, <1>3, UseIsOpen
<1>5. x \in Group(x) /\ \A z \in Group(x) : Group(z) = Group(x)
  BY <1>2, GroupFacts
<1>6. y \in Group(y) /\ \A z \in Group(y) : Group(z) = Group(y)
  BY <1>2, GroupFacts
<1>7. /\ \A z : Group(z)' = Group(z)
      /\ \A f : Target(f)' = Target(f)
      /\ Edges' = Edges /\ Known' = Known
  BY <1>1, Same
<1>8. \A p \in 1 .. i : tape'[p] = tape[p]
  <2>1. \A p \in DOMAIN tape : Append(tape, x)[p] = tape[p]
    BY <1>2, PushFacts
  <2>2. \A p \in 1 .. i : p \in DOMAIN tape
    BY <1>1, TapeFacts
  <2> QED
    BY <2>1, <2>2
<1>9. \A f \in Edges : Taken(f)' <=> Taken(f) \/ f = e
  BY <1>1, <1>3, <1>8, AdvanceTakes
<1>10. OpenTo(y)' = OpenTo(y) \ {e}
  BY <1>7, <1>9 DEF OpenTo
<1>11. Tallied(y) /\ Tallied(x)
  BY <1>1, <1>4 DEF SecondPass
<1>12. /\ degree[x] = 1 => DOMAIN degree' = DOMAIN degree \ Group(x)
                          /\ \A z \in DOMAIN degree \ Group(x) : degree'[z] = degree[z]
       /\ degree[x] # 1 => DOMAIN degree' = DOMAIN degree
                          /\ \A z \in DOMAIN degree :
                               degree'[z] = IF z \in Group(x) THEN degree[z] - 1 ELSE degree[z]
  BY <1>2 DEF Uncount, Group
<1>13. Listed(y)' <=> Listed(y) \/ (degree[x] = 1 /\ x \in Group(y))
  <2>1. Group(y)' = Group(y)
    BY <1>7
  <2>2. CASE degree[x] = 1
    <3>1. /\ DOMAIN tape' = 1 .. Len(tape) + 1 /\ Len(tape) \in Nat /\ DOMAIN tape = 1 .. Len(tape)
          /\ \A p \in 1 .. Len(tape) : tape'[p] = tape[p]
          /\ tape'[Len(tape) + 1] = x
      BY <1>2, <2>2, PushFacts
    <3>2. /\ \A p \in DOMAIN tape' : p \in DOMAIN tape \/ p = Len(tape) + 1
          /\ \A p \in DOMAIN tape : p \in DOMAIN tape'
          /\ Len(tape) + 1 \in DOMAIN tape'
      BY <3>1
    <3> QED
      BY <2>1, <2>2, <3>1, <3>2 DEF Listed
  <2>3. CASE degree[x] # 1
    BY <2>1, <2>3 DEF Listed
  <2> QED
    BY <2>2, <2>3
<1>14. CASE y \notin Group(x)
  <2>1. x \notin Group(y)
    BY <1>5, <1>6, <1>14
  <2>2. e \notin OpenTo(y)
    BY <1>4, <2>1 DEF OpenTo
  <2>3. OpenTo(y)' = OpenTo(y)
    BY <1>10, <2>2
  <2>4. (y \in DOMAIN degree' <=> y \in DOMAIN degree)
        /\ (y \in DOMAIN degree => degree'[y] = degree[y])
    BY <1>12, <1>14
  <2> QED
    BY <1>11, <1>13, <2>1, <2>3, <2>4 DEF Tallied
<1>15. CASE y \in Group(x)
  <2>1. Group(y) = Group(x) /\ x \in Group(y)
    BY <1>5, <1>15
  <2>2. OpenTo(y) = OpenTo(x) /\ e \in OpenTo(y)
    BY <1>4, <2>1 DEF OpenTo
  <2>3. y \in DOMAIN degree /\ ~Listed(y) /\ IsFiniteSet(OpenTo(y))
        /\ degree[y] = Cardinality(OpenTo(y)) /\ degree[x] = Cardinality(OpenTo(y))
    BY <1>11, <2>2 DEF Tallied
  <2>4. PICK V : V = OpenTo(y)
    OBVIOUS
  <2>5. /\ IsFiniteSet(V \ {e}) /\ Cardinality(V \ {e}) = Cardinality(V) - 1
        /\ Cardinality(V) \in Nat /\ Cardinality(V \ {e}) \in Nat
    BY <2>2, <2>3, <2>4, FS_RemoveElement, FS_CardinalityType
  <2>6. CASE degree[x] = 1
    <3>1. V \ {e} = {}
      <4>1. Cardinality(V \ {e}) = 0
        BY <2>3, <2>4, <2>5, <2>6
      <4> QED
        BY <2>5, <4>1, FS_EmptySet
    <3> QED
      BY <1>10, <1>12, <1>13, <1>15, <2>1, <2>4, <2>6, <3>1 DEF Tallied
  <2>7. CASE degree[x] # 1
    <3>1. V \ {e} # {}
      BY <2>3, <2>4, <2>5, <2>7, FS_EmptySet
    <3> QED
      BY <1>10, <1>12, <1>13, <1>15, <2>3, <2>4, <2>5, <2>7, <3>1 DEF Tallied
  <2> QED
    BY <2>6, <2>7
<1> QED
  BY <1>14, <1>15

\* What is listed last is used by an entry, uses none and is there once.
LEMMA ListStep ==
  ASSUME TapeTypes, SecondPass, NEW a, NEW k, NEW x, Expands(a, k, x),
         Unscheduled(x), tape' = Append(tape, x), UNCHANGED i
  PROVE  Listing'
<1>1. /\ phase = "bfs" /\ at = <<a, k>> /\ at # NoEntry /\ x = Inputs(a)[k] /\ x \in Arrays
      /\ a \in Nodes /\ k \in DOMAIN Inputs(a) /\ k \in Nat \ {0}
      /\ UNCHANGED <<call, phase>>
  BY DEF Expands
<1>2. /\ call \in Cases /\ x \in Nodes /\ x # Sync /\ tape \in Seq(Nodes)
      /\ Listing /\ Expanding
  BY <1>1 DEF TapeTypes, SecondPass, Nodes, Sync, Arrays
<1>3. x \in Reached /\ Group(x) \subseteq DOMAIN degree
  BY <1>1, UseIsOpen
<1>4. x \in Group(x) /\ \A z \in Group(x) : Group(z) = Group(x)
  BY <1>2, GroupFacts
<1>5. ~Listed(x)
  <2>1. Tallied(x)
    BY <1>1, <1>3 DEF SecondPass
  <2> QED
    BY <1>3, <1>4, <2>1 DEF Tallied
<1>6. PICK n \in Nat : n = Len(tape)
  BY <1>2, LenProperties
<1>7. /\ DOMAIN tape' = 1 .. Len(tape) + 1 /\ DOMAIN tape = 1 .. Len(tape)
      /\ \A p \in 1 .. Len(tape) : tape'[p] = tape[p]
      /\ tape'[Len(tape) + 1] = x
      /\ tape' # <<>> /\ Len(tape') = Len(tape) + 1
  BY <1>2, PushFacts
<1>8. /\ \A p \in DOMAIN tape' : p = n + 1 \/ p \in DOMAIN tape
      /\ \A p \in DOMAIN tape : tape'[p] = tape[p] /\ p \in 1 .. n /\ p < n + 1 /\ p # n + 1
      /\ tape'[n + 1] = x
  BY <1>6, <1>7
<1>9. /\ \A z : Group(z)' = Group(z) /\ Unscheduled(z)' = Unscheduled(z) /\ Inputs(z)' = Inputs(z)
      /\ Reached' = Reached
  BY <1>1, Same
<1>10. \A p \in DOMAIN tape : tape[p] \notin Group(x) /\ x \notin Group(tape[p])
  <2> TAKE p \in DOMAIN tape
  <2>1. tape[p] \in Nodes
    BY <1>1, TapeFacts
  <2>2. tape[p] \notin Group(x)
    BY <1>5 DEF Listed
  <2> QED
    BY <1>2, <1>4, <2>1, <2>2, GroupFacts
<1>11. /\ tape' # <<>> /\ tape'[1] = Sync /\ i' <= Len(tape')
  <2>1. 1 \in DOMAIN tape /\ i <= Len(tape) /\ i \in Nat
    BY <1>1, TapeFacts
  <2>2. tape'[1] = Sync
    BY <1>2, <1>8, <2>1 DEF Listing
  <2>3. i' <= Len(tape')
    BY <1>6, <1>7, <2>1
  <2> QED
    BY <1>7, <2>2, <2>3
<1>12. \A p \in DOMAIN tape' : p > 1 =>
         /\ tape'[p] \in Reached /\ Unscheduled(tape'[p])
         /\ \E r \in 1 .. p - 1 : tape'[p] \in ToSet(Inputs(tape'[r]))
  <2> SUFFICES ASSUME NEW p \in DOMAIN tape', p > 1
               PROVE  /\ tape'[p] \in Reached /\ Unscheduled(tape'[p])
                      /\ \E r \in 1 .. p - 1 : tape'[p] \in ToSet(Inputs(tape'[r]))
    OBVIOUS
  <2>1. CASE p = n + 1
    <3>1. PICK r \in 1 .. i : a = tape[r]
      BY <1>1, <1>2 DEF Expanding
    <3>2. r \in DOMAIN tape
      BY <1>1, TapeFacts
    <3>3. r \in 1 .. p - 1 /\ tape'[r] = a
      BY <1>8, <2>1, <3>1, <3>2
    <3>4. x \in ToSet(Inputs(a))
      BY <1>1, <1>2, InputFacts
    <3> QED
      BY <1>3, <1>8, <2>1, <3>3, <3>4
  <2>2. CASE p \in DOMAIN tape
    <3>1. PICK r \in 1 .. p - 1 : tape[p] \in ToSet(Inputs(tape[r]))
      BY <1>2, <2>2 DEF Listing
    <3>2. r \in DOMAIN tape
      BY <1>6, <1>7, <1>8, <2>2
    <3> QED
      BY <1>2, <1>8, <2>2, <3>1, <3>2 DEF Listing
  <2> QED
    BY <1>8, <2>1, <2>2
<1>13. \A p, q \in DOMAIN tape' : tape'[q] \in Group(tape'[p]) => p = q
  <2>1. \A p, q \in DOMAIN tape : tape[q] \in Group(tape[p]) => p = q
    BY <1>2 DEF Listing
  <2> QED
    BY <1>8, <1>10, <2>1
<1>14. ASSUME NEW p \in DOMAIN tape', NEW q \in DOMAIN tape',
              NEW z \in ToSet(Inputs(tape'[p])), Unscheduled(z), tape'[q] \in Group(z)
       PROVE  p < q
  <2>1. tape'[p] \in Known /\ tape'[p] \in Nodes
    BY <1>1, <1>2, <1>3, <1>8, TapeFacts DEF Known
  <2>2. z \in Arrays
    BY <1>2, <2>1, InputFacts
  <2>3. z \in Nodes
    BY <2>2 DEF Nodes
  <2>4. z \in Group(z) /\ \A y \in Group(z) : Group(y) = Group(z)
    BY <1>2, <2>3, GroupFacts
  <2>5. z \in Reached
    BY <1>2, <2>1, <2>4, KnownFacts
  <2>6. CASE p \in DOMAIN tape /\ q \in DOMAIN tape
    BY <1>2, <1>8, <1>14, <2>6 DEF Listing
  <2>7. CASE p \in DOMAIN tape /\ q = n + 1
    BY <1>8, <2>7
  <2>8. CASE p = n + 1 /\ q \in DOMAIN tape
    <3>1. tape'[p] = x /\ tape'[q] = tape[q]
      BY <1>8, <2>8
    <3>2. Listed(z)
      BY <1>14, <2>8, <3>1 DEF Listed
    <3>3. OpenTo(z) = {}
      BY <1>1, <1>14, <2>5, <3>2 DEF SecondPass, Tallied
    <3>4. PICK l \in DOMAIN Inputs(x) : z = Inputs(x)[l]
      BY <1>2, <1>14, <3>1, InputFacts
    <3>5. PICK f : f = <<Rep(x), l>>
      OBVIOUS
    <3>6. f \in Edges /\ Target(f) = z /\ f[1] = Rep(x)
      BY <1>2, <3>4, <3>5, EdgeFacts
    <3>7. Rep(x) \in Known /\ Group(Rep(x)) = Group(x)
      BY <1>2, <1>3, KnownFacts, GroupFacts DEF Known
    <3>8. ~Taken(f)
      <4>1. \A r \in 1 .. i : tape[r] \notin Group(x)
        BY <1>1, <1>10, TapeFacts
      <4> QED
        BY <3>6, <3>7, <4>1 DEF Taken
    <3>9. f \in OpenTo(z)
      BY <2>4, <3>6, <3>7, <3>8 DEF OpenTo
    <3> QED
      BY <3>3, <3>9
  <2>9. CASE p = n + 1 /\ q = n + 1
    <3>1. z \in ToSet(Inputs(x)) /\ x \in Group(z)
      BY <1>8, <1>14, <2>9
    <3>2. z \in Group(x)
      BY <2>4, <3>1
    <3>3. z < z /\ z \in Int
      BY <1>1, <1>2, <2>2, <3>1, <3>2, InputsEarlier DEF Arrays
    <3> QED
      BY <3>3
  <2> QED
    BY <1>8, <2>6, <2>7, <2>8, <2>9
<1> QED
  BY <1>9, <1>11, <1>12, <1>13, <1>14 DEF Listing

\* An input that fits is taken off, and listed with its last use.
LEMMA TakeStep ==
  ASSUME TapeTypes, SecondPass, NEW a, NEW k, NEW x, Expands(a, k, x),
         Unscheduled(x), degree' = Uncount(x), at' = <<a, k + 1>>, UNCHANGED dfs,
         tape' = IF degree[x] = 1 THEN Append(tape, x) ELSE tape
  PROVE  SecondPass'
<1>1. /\ phase = "bfs" /\ at = <<a, k>> /\ at # NoEntry
      /\ UNCHANGED <<call, phase, needsFence, i>>
  BY DEF Expands
<1>2. call \in Cases /\ Listing /\ Expanding /\ tape \in Seq(Nodes)
  BY <1>1 DEF TapeTypes, SecondPass
<1>3. \A y \in Reached : Unscheduled(y) => Tallied(y)'
  BY TakeTallies
<1>4. Listing'
  <2>1. CASE degree[x] = 1
    BY <1>1, <2>1, ListStep
  <2>2. CASE degree[x] # 1
    BY <1>1, <1>2, <2>2, SameListing DEF Listing
  <2> QED
    BY <2>1, <2>2
<1>5. \A p \in 1 .. i : tape'[p] = tape[p]
  <2>1. x \in Nodes
    BY DEF Expands, Nodes
  <2>2. \A p \in DOMAIN tape : Append(tape, x)[p] = tape[p]
    BY <1>2, <2>1, PushFacts
  <2>3. \A p \in 1 .. i : p \in DOMAIN tape
    BY <1>1, TapeFacts
  <2> QED
    BY <2>2, <2>3
<1>6. Expanding'
  <2>1. at'[1] = a /\ at[1] = a
    BY <1>1
  <2>2. \A b : (\E p \in 1 .. i : b = tape[p]) => \E p \in 1 .. i : b = tape'[p]
    BY <1>5
  <2>3. \A j \in DOMAIN dfs : \E p \in 1 .. i : dfs[j][1] = tape'[p]
    BY <1>2, <2>2 DEF Expanding
  <2>4. \E p \in 1 .. i : a = tape'[p]
    BY <1>1, <1>2, <2>1, <2>2 DEF Expanding
  <2> QED
    BY <1>1, <1>2, <2>1, <2>3, <2>4 DEF Expanding
<1>7. Reached' = Reached /\ \A y : Unscheduled(y)' = Unscheduled(y)
  BY <1>1, Same
<1> QED
  BY <1>1, <1>3, <1>4, <1>6, <1>7, SameFences DEF SecondPass

\* An array with no input left has had all its uses taken off.
LEMMA ExpandedStep ==
  ASSUME TapeTypes, SecondPass, ArrayExpanded
  PROVE  SecondPass'
<1>1. /\ phase = "bfs" /\ at # NoEntry /\ at[2] > Len(Inputs(at[1])) /\ at' = NoEntry
      /\ UNCHANGED <<call, phase, degree, needsFence, tape, dfs, i>>
  BY DEF ArrayExpanded
<1>2. call \in Cases /\ Listing /\ Expanding /\ at \in Frames
  BY <1>1 DEF TapeTypes, SecondPass
<1>3. PICK a, k : at = <<a, k>> /\ a \in Nodes /\ k \in Nat \ {0}
  BY <1>2 DEF Frames
<1>4. \A e \in Edges : Taken(e)' <=> Taken(e)
  <2> TAKE e \in Edges
  <2>1. Group(e[1])' = Group(e[1])
    BY <1>1, Same
  <2>2. e[1] \in Nodes /\ e[2] \in DOMAIN Inputs(e[1])
    BY <1>2, EdgeFacts
  <2>3. a \in Group(e[1]) => ~(k <= e[2])
    <3> SUFFICES ASSUME a \in Group(e[1]) PROVE ~(k <= e[2])
      OBVIOUS
    <3>1. Inputs(e[1]) = Inputs(a)
      BY <1>2, <2>2, GroupFacts
    <3>2. DOMAIN Inputs(a) = 1 .. Len(Inputs(a)) /\ Len(Inputs(a)) \in Nat
      BY <1>2, <1>3, InputFacts
    <3>3. k > Len(Inputs(a))
      BY <1>1, <1>3
    <3> QED
      BY <1>3, <2>2, <3>1, <3>2, <3>3
  <2>4. at[1] = a /\ at[2] = k
    BY <1>3
  <2> QED
    BY <1>1, <2>1, <2>3, <2>4 DEF Taken, Held
<1>5. Listing'
  BY <1>1, <1>2, SameListing DEF Listing
<1>6. Expanding'
  BY <1>1, <1>2 DEF Expanding
<1>7. \A y \in Reached : Unscheduled(y) => Tallied(y)'
  BY <1>1, <1>4, SameOpen, KeptTallies
<1>8. Reached' = Reached /\ \A y : Unscheduled(y)' = Unscheduled(y)
  BY <1>1, Same
<1> QED
  BY <1>1, <1>5, <1>6, <1>7, <1>8, SameFences DEF SecondPass

\* The passes end with everything in place.
LEMMA FinishStep ==
  ASSUME TapeTypes, SecondPass, FinishTape \/ (UNCHANGED vars /\ phase # "dfs")
  PROVE  SecondPass'
<1>1. /\ phase # "dfs" /\ phase' # "dfs"
      /\ phase' = "done" => at = NoEntry /\ ~MoreToExpand
      /\ UNCHANGED <<call, degree, needsFence, tape, dfs, i, at>>
  BY DEF FinishTape, vars, SecondPass
<1>2. Listing /\ Expanding
  BY <1>1 DEF SecondPass
<1>3. \A e \in Edges : Taken(e)' <=> Taken(e)
  <2> TAKE e \in Edges
  <2>1. Group(e[1])' = Group(e[1])
    BY <1>1, Same
  <2> QED
    BY <1>1, <2>1 DEF Taken, Held
<1>4. Listing'
  BY <1>1, <1>2, SameListing DEF Listing
<1>5. Expanding'
  BY <1>1, <1>2 DEF Expanding
<1>6. \A y \in Reached : Unscheduled(y) => Tallied(y)'
  BY <1>1, <1>3, SameOpen, KeptTallies
<1>7. Reached' = Reached /\ \A y : Unscheduled(y)' = Unscheduled(y)
  BY <1>1, Same
<1>8. phase' = "done" => (at = NoEntry /\ ~MoreToExpand)'
  BY <1>1 DEF MoreToExpand
<1> QED
  BY <1>1, <1>4, <1>5, <1>6, <1>7, <1>8, SameFences DEF SecondPass

-----------------------------------------------------------------------------
(* The invariant *)

TapeInv == TapeTypes /\ FirstPass /\ SecondPass

\* The invariant holds at the start.
LEMMA TapeInvInit == Init => TapeInv
<1> SUFFICES ASSUME Init PROVE TapeInv
  OBVIOUS
<1>1. SecondPass
  BY DEF Init, Start, SecondPass
<1> QED
  BY <1>1, TapeTypesInit, FirstPassInit DEF TapeInv

\* Every step keeps the invariant.
LEMMA TapeInvStep == TapeInv /\ [Walk \/ Done]_vars => TapeInv'
<1> SUFFICES ASSUME TapeTypes, FirstPass, SecondPass, Walk \/ Done \/ UNCHANGED vars
             PROVE  FirstPass' /\ SecondPass'
  BY TapeTypesStep DEF TapeInv
<1>1. CASE VisitInput
  <2>1. phase' = "dfs"
    BY <1>1 DEF VisitInput
  <2> QED
    BY <1>1, <2>1, VisitStep DEF SecondPass
<1>2. CASE LeaveArray
  <2>1. phase' = "dfs"
    BY <1>2 DEF LeaveArray
  <2> QED
    BY <1>2, <2>1, LeaveStep DEF SecondPass
<1>3. CASE StartTape
  BY <1>3, StartStep
<1>4. CASE NextArray
  <2>1. phase' = "bfs"
    BY <1>4 DEF NextArray
  <2> QED
    BY <1>4, <2>1, ResumeStep, BeginStep DEF FirstPass
<1>5. CASE ExpandInput
  <2>1. PICK a, k, x : Expands(a, k, x)
    BY <1>5, ExpandFacts
  <2>2. phase' = "bfs"
    BY <2>1 DEF Expands
  <2>3. CASE ~Unscheduled(x) /\ at' = <<a, k + 1>> /\ UNCHANGED <<dfs, degree, tape>>
    BY <2>1, <2>2, <2>3, PassStep DEF FirstPass
  <2>4. CASE Unscheduled(x) /\ dfs' = Append(dfs, at) /\ at' = NoEntry /\ UNCHANGED <<degree, tape>>
    BY <2>1, <2>2, <2>4, PostponeStep DEF FirstPass
  <2>5. CASE /\ Unscheduled(x) /\ degree' = Uncount(x) /\ at' = <<a, k + 1>> /\ UNCHANGED dfs
             /\ tape' = IF degree[x] = 1 THEN Append(tape, x) ELSE tape
    BY <2>1, <2>2, <2>5, TakeStep DEF FirstPass
  <2> QED
    BY <2>1, <2>3, <2>4, <2>5 DEF Expands
<1>6. CASE ArrayExpanded
  <2>1. phase' = "bfs"
    BY <1>6 DEF ArrayExpanded
  <2> QED
    BY <1>6, <2>1, ExpandedStep DEF FirstPass
<1>7. CASE FinishTape
  <2>1. phase' = "done"
    BY <1>7 DEF FinishTape
  <2> QED
    BY <1>7, <2>1, FinishStep DEF FirstPass
<1>8. CASE Done \/ UNCHANGED vars
  <2>1. UNCHANGED vars
    BY <1>8 DEF Done
  <2>2. CASE phase = "dfs"
    <3>1. phase' = "dfs"
      BY <2>1, <2>2 DEF vars
    <3>2. \A e : Held(e)' <=> Held(e)
      BY <2>1, Same DEF Held, vars
    <3>3. \A e : Met(e)' <=> Met(e)
      BY <2>1, <3>2 DEF Met, vars
    <3>4. /\ \A y : Group(y)' = Group(y)
          /\ \A e : Target(e)' = Target(e) /\ Crosses(e)' = Crosses(e)
          /\ Edges' = Edges /\ Reached' = Reached
      BY <2>1, Same DEF vars
    <3>5. \A y : MetTo(y)' = MetTo(y)
      BY <3>3, <3>4 DEF MetTo
    <3>6. {Target(e) : e \in {f \in Edges : Met(f) /\ Crosses(f)}}'
            = {Target(e) : e \in {f \in Edges : Met(f) /\ Crosses(f)}}
      BY <3>3, <3>4
    <3> QED
      BY <2>1, <2>2, <3>1, <3>4, <3>5, <3>6 DEF FirstPass, SecondPass, vars
  <2>3. CASE phase # "dfs"
    <3>1. phase' # "dfs"
      BY <2>1, <2>3 DEF vars
    <3> QED
      BY <2>1, <2>3, <3>1, FinishStep DEF FirstPass
  <2> QED
    BY <2>2, <2>3
<1> QED
  BY <1>1, <1>2, <1>3, <1>4, <1>5, <1>6, <1>7, <1>8 DEF Walk

\* The invariant of the two passes.
LEMMA TapeInvHolds == Spec => []TapeInv
<1>1. TapeInv /\ [Walk \/ Done]_vars => TapeInv'
  BY TapeInvStep
<1> QED
  BY TapeInvInit, <1>1, PTL DEF Spec

-----------------------------------------------------------------------------
(* The second pass looks up what is there *)

\* UsesFound for every graph, list of outputs and width: cache.find in the
\* second pass of eval_impl never returns the end.
THEOREM UsesFoundHolds == Spec => []UsesFound
<1>1. TapeInv => UsesFound
  <2> SUFFICES ASSUME TapeTypes, SecondPass, phase = "bfs", at # NoEntry,
                      at[2] <= Len(Inputs(at[1])), Unscheduled(Inputs(at[1])[at[2]])
               PROVE  {Inputs(at[1])[at[2]]} \cup Siblings(Inputs(at[1])[at[2]]) \subseteq DOMAIN degree
    BY DEF TapeInv, UsesFound
  <2>1. PICK a, k : at = <<a, k>> /\ a \in Nodes /\ k \in Nat \ {0}
    BY DEF TapeTypes, Frames
  <2>2. call \in Cases /\ at[1] = a /\ at[2] = k
    BY <2>1 DEF TapeTypes
  <2>3. DOMAIN Inputs(a) = 1 .. Len(Inputs(a)) /\ Len(Inputs(a)) \in Nat
    BY <2>1, <2>2, InputFacts
  <2>4. k \in DOMAIN Inputs(a)
    BY <2>1, <2>2, <2>3
  <2>5. Inputs(a)[k] # Sync
    BY <2>1, <2>2, <2>4, InputFacts DEF Sync, Arrays
  <2>6. Group(Inputs(a)[k]) \subseteq DOMAIN degree
    BY <2>1, <2>2, <2>4, UseIsOpen
  <2> QED
    BY <2>2, <2>5, <2>6 DEF Group
<1> QED
  BY TapeInvHolds, <1>1, PTL

-----------------------------------------------------------------------------
(* The finished tape *)

\* Nothing that is needed is left out.
LEMMA AllListed ==
  ASSUME TapeTypes, SecondPass, phase = "done"
  PROVE  \A x \in Reached : Unscheduled(x) => Listed(x)
<1>1. call \in Cases /\ at = NoEntry /\ ~MoreToExpand /\ Listing /\ Expanding
      /\ \A x \in Reached : Unscheduled(x) => Tallied(x)
  BY DEF TapeTypes, SecondPass
<1>2. CASE degree = [a \in {} |-> 0]
  <2>1. DOMAIN degree = {}
    BY <1>2
  <2> QED
    BY <1>1, <2>1 DEF Tallied
<1>3. CASE degree # [a \in {} |-> 0]
  <2>1. i >= Len(tape) /\ dfs = <<>>
    BY <1>1, <1>3, TapeFacts DEF MoreToExpand
  <2>2. DOMAIN tape = 1 .. i
    BY <2>1, TapeFacts
  <2>3. \A e : Taken(e) <=> Listed(e[1])
    BY <1>1, <2>1, <2>2 DEF Taken, Held, Listed
  <2> DEFINE M == {x \in Reached : Unscheduled(x) /\ ~Listed(x)}
  <2>4. ASSUME NEW x \in M
        PROVE  \E c \in M : \E y \in Group(x) : y \in ToSet(Inputs(c))
    <3>1. PICK e : e \in OpenTo(x)
      BY <1>1 DEF Tallied
    <3>2. e \in Edges /\ Target(e) \in Group(x) /\ e[1] \in Known /\ ~Listed(e[1])
      BY <2>3, <3>1 DEF OpenTo
    <3>3. e[1] \in Nodes /\ Target(e) \in ToSet(Inputs(e[1])) /\ e[2] \in DOMAIN Inputs(e[1])
      BY <1>1, <3>2, EdgeFacts
    <3>4. e[1] # Sync
      <4>1. 1 \in DOMAIN tape /\ tape[1] = Sync
        BY <1>1, TapeFacts DEF Listing
      <4> QED
        BY <3>2, <4>1 DEF Listed, Group
    <3>5. e[1] \in Reached
      BY <3>2, <3>4 DEF Known
    <3>6. Inputs(e[1]) # <<>>
      BY <3>3
    <3>7. Unscheduled(e[1])
      BY <1>1, <3>3, <3>4, <3>6, InputFacts
    <3> QED
      BY <3>2, <3>3, <3>5, <3>7
  <2>5. M \subseteq Arrays
    BY <1>1, ReachedFacts
  <2> HIDE DEF M
  <2>6. M = {}
    BY <1>1, <2>4, <2>5, NoAscent
  <2> QED
    BY <2>6 DEF M
<1> QED
  BY <1>2, <1>3

\* The tape without the Synchronizer, from its end.
LEMMA TurnedFacts ==
  ASSUME NEW S, NEW s \in Seq(S), s # <<>>, NEW t, t = Reverse(Tail(s))
  PROVE  /\ Len(s) \in Nat \ {0} /\ Len(t) = Len(s) - 1 /\ DOMAIN t = 1 .. Len(s) - 1
         /\ \A k \in 1 .. Len(s) - 1 : t[k] = s[Len(s) + 1 - k]
<1>1. Len(s) \in Nat \ {0}
  BY LenProperties, EmptySeq
<1>2. PICK n \in Nat : n = Len(s) - 1
  BY <1>1
<1>3. PICK u : u = Tail(s)
  OBVIOUS
<1>4. u \in Seq(S) /\ Len(u) = n /\ \A k \in 1 .. n : u[k] = s[k + 1]
  BY <1>2, <1>3, HeadTailProperties
<1>5. t = [k \in 1 .. n |-> u[(n - k) + 1]]
  BY <1>3, <1>4 DEF Reverse
<1>6. Len(t) = n /\ DOMAIN t = 1 .. n
  BY <1>5
<1>7. ASSUME NEW k \in 1 .. n PROVE t[k] = s[Len(s) + 1 - k]
  <2>1. n - k + 1 \in 1 .. n /\ (n - k + 1) + 1 = Len(s) + 1 - k
    BY <1>1, <1>2
  <2> QED
    BY <1>4, <1>5, <2>1
<1> QED
  BY <1>1, <1>2, <1>6, <1>7

\* The entries after the Synchronizer are the arrays scheduled.
LEMMA TurnedEntries ==
  ASSUME TapeTypes, SecondPass, phase = "done", NEW t, t = Reverse(Tail(tape))
  PROVE  \E n \in Nat :
           /\ n + 1 = Len(tape) /\ Len(t) = n /\ DOMAIN t = 1 .. n
           /\ \A k \in 1 .. n : /\ n + 2 - k \in DOMAIN tape /\ n + 2 - k > 1
                                /\ t[k] = tape[n + 2 - k]
                                /\ t[k] \in Reached /\ Unscheduled(t[k]) /\ t[k] \in Arrays
                                /\ Inputs(t[k]) = call.g.in[t[k]]
           /\ \A p \in DOMAIN tape : p > 1 => n + 2 - p \in 1 .. n /\ tape[p] = t[n + 2 - p]
           /\ \A x \in Reached : Unscheduled(x) => \E k \in 1 .. n : t[k] \in Group(x)
<1>1. call \in Cases /\ Listing
  BY DEF TapeTypes, SecondPass
<1>2. tape \in Seq(Nodes) /\ tape # <<>> /\ Len(tape) \in Nat \ {0} /\ DOMAIN tape = 1 .. Len(tape)
  BY <1>1, TapeFacts DEF Listing
<1>3. PICK n \in Nat : n + 1 = Len(tape)
  <2>1. Len(tape) - 1 \in Nat /\ (Len(tape) - 1) + 1 = Len(tape)
    BY <1>2
  <2> QED
    BY <2>1
<1>4. Len(t) = n /\ DOMAIN t = 1 .. n /\ \A k \in 1 .. n : t[k] = tape[n + 2 - k]
  <2>1. /\ Len(t) = Len(tape) - 1 /\ DOMAIN t = 1 .. Len(tape) - 1
        /\ \A k \in 1 .. Len(tape) - 1 : t[k] = tape[Len(tape) + 1 - k]
    BY <1>2, TurnedFacts
  <2> QED
    BY <1>3, <2>1
<1>5. \A k \in 1 .. n : n + 2 - k \in DOMAIN tape /\ n + 2 - k > 1
  BY <1>2, <1>3
<1>6. ASSUME NEW k \in 1 .. n
      PROVE  /\ t[k] \in Reached /\ Unscheduled(t[k]) /\ t[k] \in Arrays
             /\ Inputs(t[k]) = call.g.in[t[k]]
  <2>1. t[k] \in Reached /\ Unscheduled(t[k])
    BY <1>1, <1>4, <1>5 DEF Listing
  <2>2. t[k] \in Arrays /\ t[k] # Sync
    BY <1>1, <2>1, ReachedFacts DEF Sync, Arrays
  <2> QED
    BY <2>1, <2>2 DEF Inputs
<1>7. ASSUME NEW p \in DOMAIN tape, p > 1
      PROVE  n + 2 - p \in 1 .. n /\ tape[p] = t[n + 2 - p]
  <2>1. n + 2 - p \in 1 .. n /\ n + 2 - (n + 2 - p) = p
    BY <1>2, <1>3, <1>7
  <2> QED
    BY <1>4, <2>1
<1>8. ASSUME NEW x \in Reached, Unscheduled(x) PROVE \E k \in 1 .. n : t[k] \in Group(x)
  <2>1. PICK p \in DOMAIN tape : tape[p] \in Group(x)
    BY <1>8, AllListed DEF Listed
  <2>2. x \in Nodes /\ x # Sync
    BY <1>1, ReachedFacts DEF Nodes, Sync, Arrays
  <2>3. Sync \notin Group(x)
    BY <1>1, <2>2, GroupFacts DEF Sync, Arrays
  <2>4. p > 1
    BY <1>1, <1>2, <2>1, <2>3 DEF Listing
  <2> QED
    BY <1>7, <2>1, <2>4
<1> QED
  BY <1>3, <1>4, <1>5, <1>6, <1>7, <1>8

\* The tape read from its end has one array of each group needed.
LEMMA TapeCounts ==
  ASSUME TapeTypes, SecondPass, phase = "done", NEW t, t = Reverse(Tail(tape)),
         NEW groups, groups = {OutputsIn(call.g, a) : a \in Needed(call.g, call.u, call.outs)}
  PROVE  /\ Len(t) = Cardinality(groups)
         /\ \A grp \in groups : \E k \in DOMAIN t : t[k] \in grp
<1>1. call \in Cases /\ Listing
  BY DEF TapeTypes, SecondPass
<1>2. PICK n \in Nat :
        /\ n + 1 = Len(tape) /\ Len(t) = n /\ DOMAIN t = 1 .. n
        /\ \A k \in 1 .. n : /\ n + 2 - k \in DOMAIN tape /\ n + 2 - k > 1
                             /\ t[k] = tape[n + 2 - k]
                             /\ t[k] \in Reached /\ Unscheduled(t[k]) /\ t[k] \in Arrays
                             /\ Inputs(t[k]) = call.g.in[t[k]]
        /\ \A p \in DOMAIN tape : p > 1 => n + 2 - p \in 1 .. n /\ tape[p] = t[n + 2 - p]
        /\ \A x \in Reached : Unscheduled(x) => \E k \in 1 .. n : t[k] \in Group(x)
  BY TurnedEntries
<1>3. \A x : x \in Needed(call.g, call.u, call.outs) <=> x \in Reached /\ Unscheduled(x)
  BY DEF Needed, Reached, Unscheduled
<1>4. \A x \in Reached : /\ x \in Nodes
                         /\ Unscheduled(x) => OutputsIn(call.g, x) = Group(x)
  BY <1>1, ReachedFacts DEF OutputsIn, Group, Siblings, Nodes, Sync, Arrays
<1>5. \A grp : grp \in groups <=> \E x \in Reached : Unscheduled(x) /\ grp = Group(x)
  BY <1>3, <1>4
<1>6. ASSUME NEW grp \in groups
      PROVE  \E k \in 1 .. n : t[k] \in grp /\ grp = Group(t[k])
  <2>1. PICK x \in Reached : Unscheduled(x) /\ grp = Group(x)
    BY <1>5
  <2>2. PICK k \in 1 .. n : t[k] \in Group(x)
    BY <1>2, <2>1
  <2>3. Group(t[k]) = Group(x)
    BY <1>1, <1>4, <2>2, GroupFacts
  <2> QED
    BY <2>1, <2>2, <2>3
<1>7. ASSUME NEW k \in 1 .. n, NEW l \in 1 .. n, Group(t[k]) = Group(t[l])
      PROVE  k = l
  <2>1. t[k] \in Group(t[l])
    <3>1. t[k] \in Nodes
      BY <1>2, <1>4
    <3> QED
      BY <1>1, <1>7, <3>1, GroupFacts
  <2>2. n + 2 - l = n + 2 - k
    <3>1. /\ n + 2 - k \in DOMAIN tape /\ t[k] = tape[n + 2 - k]
          /\ n + 2 - l \in DOMAIN tape /\ t[l] = tape[n + 2 - l]
      BY <1>2
    <3>2. PICK p, q : p = n + 2 - k /\ q = n + 2 - l
      OBVIOUS
    <3>3. p \in DOMAIN tape /\ q \in DOMAIN tape /\ tape[p] \in Group(tape[q])
      BY <2>1, <3>1, <3>2
    <3>4. q = p
      BY <1>1, <3>3 DEF Listing
    <3> QED
      BY <3>2, <3>4
  <2> QED
    BY <2>2
<1> DEFINE F == [k \in 1 .. n |-> Group(t[k])]
<1>8. \A k \in 1 .. n : F[k] \in groups
  BY <1>2, <1>5
<1>9. F \in Injection(1 .. n, groups)
  BY <1>7, <1>8 DEF Injection, IsInjective
<1>10. F \in Surjection(1 .. n, groups)
  <2>1. F \in [1 .. n -> groups]
    BY <1>8
  <2>2. \A grp \in groups : \E k \in 1 .. n : F[k] = grp
    BY <1>6
  <2> HIDE DEF F
  <2> QED
    BY <2>1, <2>2 DEF Surjection
<1> HIDE DEF F
<1>11. ExistsBijection(1 .. n, groups)
  BY <1>9, <1>10 DEF ExistsBijection, Bijection
<1>12. Cardinality(groups) = n
  BY <1>11, FS_CountingElements
<1>13. \A grp \in groups : \E k \in DOMAIN t : t[k] \in grp
  BY <1>2, <1>6
<1> QED
  BY <1>2, <1>12, <1>13

\* Read from its end, it has the inputs of an array before it.
LEMMA TapeOrders ==
  ASSUME TapeTypes, SecondPass, phase = "done", NEW t, t = Reverse(Tail(tape)),
         NEW k \in DOMAIN t
  PROVE  /\ \A x \in ToSet(call.g.in[t[k]]) \cap call.u :
              \E j \in 1 .. k - 1 : t[j] \in OutputsIn(call.g, x)
         /\ \/ t[k] \in ToSet(call.outs)
            \/ \E j \in k + 1 .. Len(t) : t[k] \in ToSet(call.g.in[t[j]])
<1>1. call \in Cases /\ Listing
  BY DEF TapeTypes, SecondPass
<1>2. PICK n \in Nat :
        /\ n + 1 = Len(tape) /\ Len(t) = n /\ DOMAIN t = 1 .. n
        /\ \A l \in 1 .. n : /\ n + 2 - l \in DOMAIN tape /\ n + 2 - l > 1
                             /\ t[l] = tape[n + 2 - l]
                             /\ t[l] \in Reached /\ Unscheduled(t[l]) /\ t[l] \in Arrays
                             /\ Inputs(t[l]) = call.g.in[t[l]]
        /\ \A p \in DOMAIN tape : p > 1 => n + 2 - p \in 1 .. n /\ tape[p] = t[n + 2 - p]
        /\ \A x \in Reached : Unscheduled(x) => \E l \in 1 .. n : t[l] \in Group(x)
  BY TurnedEntries
<1>3. PICK p : p = n + 2 - k
  OBVIOUS
<1>4. /\ k \in 1 .. n /\ p \in DOMAIN tape /\ p > 1 /\ t[k] = tape[p] /\ p \in Nat
      /\ t[k] \in Reached /\ Inputs(t[k]) = call.g.in[t[k]] /\ t[k] \in Known
      /\ DOMAIN tape = 1 .. Len(tape)
  BY <1>2, <1>3, TapeFacts DEF Known
<1>5. ASSUME NEW x \in ToSet(call.g.in[t[k]]) \cap call.u
      PROVE  \E j \in 1 .. k - 1 : t[j] \in OutputsIn(call.g, x)
  <2>1. x \in ToSet(Inputs(tape[p])) /\ Unscheduled(x)
    BY <1>4, <1>5 DEF Unscheduled
  <2>2. tape[p] \in Nodes /\ tape[p] \in Known
    BY <1>4, TapeFacts
  <2>3. x \in Arrays
    BY <1>1, <2>1, <2>2, InputFacts
  <2>4. x \in Group(x) /\ OutputsIn(call.g, x) = Group(x)
    BY <2>1, <2>3 DEF OutputsIn, Group, Siblings, Sync, Arrays
  <2>5. x \in Reached
    BY <1>1, <2>1, <2>2, <2>4, KnownFacts
  <2>6. PICK j \in 1 .. n : t[j] \in Group(x)
    BY <1>2, <2>1, <2>5
  <2>7. PICK q : q = n + 2 - j
    OBVIOUS
  <2>8. q \in DOMAIN tape /\ tape[q] \in Group(x)
    BY <1>2, <2>6, <2>7
  <2>9. p < q
    BY <1>1, <1>4, <2>1, <2>8 DEF Listing
  <2>10. j \in 1 .. k - 1
    BY <1>2, <1>3, <1>4, <2>6, <2>7, <2>9
  <2> QED
    BY <2>4, <2>6, <2>10
<1>6. \/ t[k] \in ToSet(call.outs)
      \/ \E j \in k + 1 .. Len(t) : t[k] \in ToSet(call.g.in[t[j]])
  <2>1. PICK r \in 1 .. p - 1 : tape[p] \in ToSet(Inputs(tape[r]))
    BY <1>1, <1>4 DEF Listing
  <2>2. CASE r = 1
    BY <1>1, <1>4, <2>1, <2>2 DEF Listing, Inputs
  <2>3. CASE r > 1
    <3>1. r \in DOMAIN tape /\ r \in Nat
      BY <1>4, <2>1
    <3>2. PICK j \in 1 .. n : j = n + 2 - r /\ tape[r] = t[j]
      BY <1>2, <2>3, <3>1
    <3>3. j \in k + 1 .. Len(t)
      <4>1. Len(t) = n /\ n \in Nat /\ k \in 1 .. n /\ p = n + 2 - k
        BY <1>2, <1>3, <1>4
      <4>2. r \in Nat /\ r < p /\ j \in 1 .. n /\ j = n + 2 - r
        BY <1>4, <2>1, <3>1, <3>2
      <4> QED
        BY <4>1, <4>2
    <3>4. t[k] \in ToSet(call.g.in[t[j]])
      BY <1>2, <1>4, <2>1, <3>2
    <3> QED
      BY <3>3, <3>4
  <2> QED
    BY <2>1, <2>2, <2>3
<1> QED
  BY <1>5, <1>6

\* TapeIsOrdered for every graph, list of outputs and width: the tape that
\* eval_impl builds is one that its last loop may run through from the end.
THEOREM TapeIsOrderedHolds == Spec => []TapeIsOrdered
<1>1. TapeInv => TapeIsOrdered
  <2> SUFFICES ASSUME TapeTypes, SecondPass, phase = "done"
               PROVE  tape[1] = Sync /\ IsTape(call.g, call.u, call.outs, Reverse(Tail(tape)))
    BY DEF TapeInv, TapeIsOrdered
  <2>1. call \in Cases /\ tape[1] = Sync
    BY DEF TapeTypes, SecondPass, Listing
  <2>2. PICK t : t = Reverse(Tail(tape))
    OBVIOUS
  <2>3. PICK groups : groups = {OutputsIn(call.g, a) : a \in Needed(call.g, call.u, call.outs)}
    OBVIOUS
  <2>4. /\ Len(t) = Cardinality(groups)
        /\ \A grp \in groups : \E k \in DOMAIN t : t[k] \in grp
    BY <2>2, <2>3, TapeCounts
  <2>5. ASSUME NEW x \in ToSet(call.outs) \cap call.u
        PROVE  \E j \in 1 .. (Len(t) + 1) - 1 : t[j] \in OutputsIn(call.g, x)
    <3>1. x \in ToSet(Inputs(Sync)) /\ Unscheduled(x) /\ Sync \in Known /\ Sync \in Nodes
      BY <2>5 DEF Inputs, Unscheduled, Known, Nodes
    <3>2. x \in Arrays
      BY <2>1, <3>1, InputFacts
    <3>3. x \in Group(x) /\ OutputsIn(call.g, x) = Group(x)
      BY <3>1, <3>2 DEF OutputsIn, Group, Siblings, Sync, Arrays
    <3>4. x \in Reached
      BY <2>1, <3>1, <3>3, KnownFacts
    <3>5. \E n \in Nat : Len(t) = n /\ \E k \in 1 .. n : t[k] \in Group(x)
      BY <2>2, <3>1, <3>4, TurnedEntries
    <3> QED
      BY <3>3, <3>5
  <2>6. ASSUME NEW k \in DOMAIN t
        PROVE  /\ \A x \in ToSet(call.g.in[t[k]]) \cap call.u :
                    \E j \in 1 .. k - 1 : t[j] \in OutputsIn(call.g, x)
               /\ \/ t[k] \in ToSet(call.outs)
                  \/ \E j \in k + 1 .. Len(t) : t[k] \in ToSet(call.g.in[t[j]])
    BY <2>2, TapeOrders
  <2> QED
    BY <2>1, <2>2, <2>3, <2>4, <2>5, <2>6 DEF IsTape
<1> QED
  BY TapeInvHolds, <1>1, PTL

\* FencesExact for every graph, list of outputs and width: eval_impl signals
\* an event for an array exactly if another stream waits for it.
THEOREM FencesExactHolds == Spec => []FencesExact
<1>1. TapeInv => FencesExact
  <2> SUFFICES ASSUME TapeTypes, SecondPass, phase = "done"
               PROVE  needsFence = FencedInputs(call.g, call.u, call.outs, Home, Reverse(Tail(tape)))
    BY DEF TapeInv, FencesExact
  <2>1. call \in Cases /\ call.u \subseteq Arrays
    BY CallFacts DEF TapeTypes
  <2>2. PICK t : t = Reverse(Tail(tape))
    OBVIOUS
  <2>3. PICK n \in Nat :
          /\ n + 1 = Len(tape) /\ Len(t) = n /\ DOMAIN t = 1 .. n
          /\ \A k \in 1 .. n : /\ n + 2 - k \in DOMAIN tape /\ n + 2 - k > 1
                               /\ t[k] = tape[n + 2 - k]
                               /\ t[k] \in Reached /\ Unscheduled(t[k]) /\ t[k] \in Arrays
                               /\ Inputs(t[k]) = call.g.in[t[k]]
          /\ \A p \in DOMAIN tape : p > 1 => n + 2 - p \in 1 .. n /\ tape[p] = t[n + 2 - p]
          /\ \A x \in Reached : Unscheduled(x) => \E k \in 1 .. n : t[k] \in Group(x)
    BY <2>2, TurnedEntries
  <2>4. needsFence = {Target(e) : e \in {f \in Edges : f[1] \in Known /\ Crosses(f)}}
    BY DEF SecondPass
  <2>5. Sync \notin Arrays
    BY DEF Sync, Arrays
  <2>6. \A a \in Arrays : StreamOf(a) = call.g.stream[a] /\ a \in Nodes
    BY <2>5 DEF StreamOf, Nodes
  <2>7. StreamOf(Sync) = Home /\ Inputs(Sync) = call.outs /\ Rep(Sync) = Sync
        /\ Sync \in Nodes /\ Sync \in Known
    BY <2>1, GroupFacts DEF StreamOf, Inputs, Nodes, Known
  <2>8. ASSUME NEW e \in Edges, e[1] \in Known, Crosses(e)
        PROVE  Target(e) \in FencedInputs(call.g, call.u, call.outs, Home, t)
    <3>1. PICK x \in Arrays : x = Target(e)
      BY <2>1, EdgeFacts
    <3>2. /\ x \in call.u /\ StreamOf(e[1]) # call.g.stream[x] /\ x \in ToSet(Inputs(e[1]))
          /\ e[1] \in Nodes /\ e[2] \in DOMAIN Inputs(e[1])
      BY <2>1, <2>6, <2>8, <3>1, EdgeFacts DEF Crosses, Unscheduled
    <3>3. CASE e[1] = Sync
      BY <2>7, <3>1, <3>2, <3>3 DEF FencedInputs
    <3>4. CASE e[1] # Sync
      <4>1. e[1] \in Reached /\ Inputs(e[1]) # <<>>
        BY <2>8, <3>2, <3>4 DEF Known
      <4>2. Unscheduled(e[1])
        BY <2>1, <3>2, <3>4, <4>1, InputFacts
      <4>3. PICK k \in 1 .. n : t[k] \in Group(e[1])
        BY <2>3, <4>1, <4>2
      <4>4. Inputs(t[k]) = Inputs(e[1]) /\ StreamOf(t[k]) = StreamOf(e[1])
        BY <2>1, <3>2, <4>3, GroupFacts
      <4>5. x \in ToSet(call.g.in[t[k]]) /\ call.g.stream[x] # call.g.stream[t[k]]
        BY <2>3, <2>6, <3>2, <4>3, <4>4
      <4>6. t[k] \in ToSet(t)
        BY <2>3, <4>3 DEF ToSet
      <4> QED
        BY <3>1, <3>2, <4>5, <4>6 DEF FencedInputs
    <3> QED
      BY <3>3, <3>4
  <2>9. ASSUME NEW x \in FencedInputs(call.g, call.u, call.outs, Home, t)
        PROVE  \E f \in Edges : f[1] \in Known /\ Crosses(f) /\ x = Target(f)
    <3>1. /\ x \in call.u /\ x \in Arrays
          /\ \/ x \in ToSet(call.outs) /\ call.g.stream[x] # Home
             \/ \E a \in ToSet(t) : x \in ToSet(call.g.in[a]) /\ call.g.stream[x] # call.g.stream[a]
      BY <2>1, <2>9 DEF FencedInputs
    <3>2. ASSUME NEW a \in Known, x \in ToSet(Inputs(a)), StreamOf(a) # StreamOf(x)
          PROVE  \E f \in Edges : f[1] \in Known /\ Crosses(f) /\ x = Target(f)
      <4>1. a \in Nodes /\ Rep(a) \in Known
        BY <2>1, KnownFacts
      <4>2. PICK k \in DOMAIN Inputs(a) : x = Inputs(a)[k]
        BY <2>1, <3>2, <4>1, InputFacts
      <4>3. PICK f : f = <<Rep(a), k>>
        OBVIOUS
      <4>4. f \in Edges /\ Target(f) = x /\ f[1] = Rep(a)
        BY <2>1, <4>1, <4>2, <4>3, EdgeFacts
      <4>5. StreamOf(Rep(a)) = StreamOf(a)
        BY <2>1, <4>1, GroupFacts
      <4> QED
        BY <3>1, <3>2, <4>1, <4>4, <4>5 DEF Crosses, Unscheduled
    <3>3. CASE x \in ToSet(call.outs) /\ call.g.stream[x] # Home
      BY <2>6, <2>7, <3>1, <3>2, <3>3
    <3>4. CASE \E a \in ToSet(t) : x \in ToSet(call.g.in[a]) /\ call.g.stream[x] # call.g.stream[a]
      <4>a. PICK a \in ToSet(t) : x \in ToSet(call.g.in[a]) /\ call.g.stream[x] # call.g.stream[a]
        BY <3>4
      <4>b. PICK k \in DOMAIN t : a = t[k]
        BY DEF ToSet
      <4>1. k \in 1 .. n /\ x \in ToSet(call.g.in[t[k]]) /\ call.g.stream[x] # call.g.stream[t[k]]
        BY <2>3, <4>a, <4>b
      <4>2. t[k] \in Reached /\ t[k] \in Arrays /\ Inputs(t[k]) = call.g.in[t[k]]
        BY <2>3, <4>1
      <4>3. StreamOf(t[k]) # StreamOf(x)
        BY <2>6, <3>1, <4>1, <4>2
      <4>4. t[k] \in Known /\ x \in ToSet(Inputs(t[k]))
        BY <4>1, <4>2 DEF Known
      <4> QED
        BY <3>2, <4>3, <4>4
    <3> QED
      BY <3>1, <3>3, <3>4
  <2>10. needsFence \subseteq FencedInputs(call.g, call.u, call.outs, Home, t)
    BY <2>4, <2>8
  <2>11. FencedInputs(call.g, call.u, call.outs, Home, t) \subseteq needsFence
    BY <2>4, <2>9
  <2> QED
    BY <2>2, <2>10, <2>11
<1> QED
  BY TapeInvHolds, <1>1, PTL
=============================================================================
