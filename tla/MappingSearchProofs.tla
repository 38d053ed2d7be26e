------------------------ MODULE MappingSearchProofs ------------------------
(***************************************************************************)
(* Proofs about MappingSearch, for every set of networks that satisfies    *)
(* the assumptions of that module and every order of the types: the        *)
(* context is what the elected bindings alone make of it, and the search   *)
(* ends with the first consistent choice or fails because there is none.   *)
(*                                                                         *)
(* The inductive invariant has three parts: the elections and what has     *)
(* been discarded before them, the context with its copies, and, for each  *)
(* layer, that no consistent choice extends the elections before it by a   *)
(* binding that is discarded there.                                        *)
(***************************************************************************)
EXTENDS MappingSearch, NaturalLemmas, SequenceTheorems

-----------------------------------------------------------------------------
(* The inductive invariant. *)
Loop == {"layer", "mappers", "bindings", "parsed", "failed"}

ControlInv ==
    /\ net \in Networks
    /\ at \in Loop
    /\ idx \in 0..Len(net.layers)
    /\ at \in {"mappers", "bindings"} => idx < Len(net.layers)
    /\ at = "parsed" => idx = Len(net.layers)
    /\ candidate \in Nat \ {0}
    /\ ioParse \in BOOLEAN

StoreInv ==
    /\ DOMAIN mapper = Layer /\ DOMAIN binder = Layer
    /\ DOMAIN discardedMappers = Layer /\ DOMAIN discardedBindings = Layer
    /\ \A l \in Layer :
           /\ DOMAIN binder[l] = DOMAIN Maps(l)
           /\ DOMAIN discardedBindings[l] = DOMAIN Maps(l)
           /\ \A m \in DOMAIN Maps(l) :
                  discardedBindings[l][m] \subseteq DOMAIN Bindings(l, m)

TypeInv == ControlInv /\ StoreInv

(* A layer has the mapper that the search commits it to. *)
Settled(l) == Committed(l) # {} /\ FirstMapper(l) \in Committed(l) /\ mapper[l] = FirstMapper(l)

Bound(l) ==
    /\ Settled(l)
    /\ binder[l][FirstMapper(l)]
           \in DOMAIN Bindings(l, FirstMapper(l)) \ discardedBindings[l][FirstMapper(l)]

ElectionInv ==
    /\ \A l \in 1..idx : Bound(l)
    /\ at = "bindings" => Settled(Current)
    /\ \A l \in Layer : discardedMappers[l] \cap Committed(l) = {}
    /\ at = "mappers" => \A m \in 1..(candidate - 1) : m \notin Committed(Current)

(* The context when the tensors of layer n + 1 are registered. *)
TypeEntered(t, n) == IF t \in Buffers(n) THEN TypeAfter(t, n) ELSE Untyped

Entered(n) ==
    [type  |-> [t \in Buffers(n + 1) |-> TypeEntered(t, n)],
     users |-> [t \in Buffers(n + 1) |-> Readers(t, n + 1)]]

(* A mapper that parses has been tried, and after it one that does not. *)
Accepted == \E i \in 1..(candidate - 1) : i \in DOMAIN Maps(Current) /\ Maps(Current)[i].parses

Refused ==
    \E i, j \in DOMAIN Maps(Current) :
        i < j /\ j < candidate /\ Maps(Current)[i].parses /\ ~ Maps(Current)[j].parses

ContextInv ==
    /\ ctxtStack = [l \in 1..idx |-> Replay(l - 1)]
    /\ at \in {"layer", "parsed"} => ctxt = Replay(idx)
    /\ at \in {"mappers", "bindings"} => stCtxt = Replay(idx)
    /\ at = "mappers" => \/ ioParse /\ ctxt = Replay(idx)
                         \/ ~ ioParse /\ ctxt = Entered(idx) /\ Accepted
                         \/ ioParse /\ Refused
    /\ at = "bindings" => ctxt = Entered(idx)

Found == [l \in Layer |-> binder[l][mapper[l]]]

(* No solution gives layer l binding b and agrees with the elections of *)
(* the layers before it.                                                *)
NoSolution(l, b) ==
    \A c \in Solutions : c[l] = b => \E i \in 1..(l - 1) : c[i] # Found[i]

SearchInv ==
    /\ \A l \in 1..idx : ConsistentAt(Found, l)
    /\ \A l \in 1..idx : \A b \in 1..(Found[l] - 1) : b \in discardedBindings[l][mapper[l]]
    /\ at = "bindings" => \A b \in 1..(candidate - 1) : b \in Discarded
    /\ \A l \in Layer : l <= Current /\ FirstMapper(l) \in DOMAIN Maps(l) =>
           \A b \in discardedBindings[l][FirstMapper(l)] : NoSolution(l, b)
    /\ \A l \in Layer : l > Current =>
           \A m \in DOMAIN Maps(l) : discardedBindings[l][m] = {}
    /\ at = "failed" => Solutions = {}

Inv == TypeInv /\ ElectionInv /\ ContextInv /\ SearchInv
-----------------------------------------------------------------------------
(* What the assumptions say of the network that is parsed. *)
LEMMA NetworkFacts ==
    ASSUME net \in Networks
    PROVE  /\ Len(net.layers) \in Nat
           /\ Layer = 1..Len(net.layers)
           /\ \A t : IsConst(t) => ~ IsGlobal(t)
<1>1. WellFormed(net)
  BY NetworksAssumption
<1> QED BY <1>1 DEF WellFormed, Listed, Layer, IsConst, IsGlobal

LEMMA LayerFacts ==
    ASSUME net \in Networks, NEW l \in Layer
    PROVE  /\ Len(Ins(l)) \in Nat /\ DOMAIN Ins(l) = 1..Len(Ins(l))
           /\ Len(Maps(l)) \in Nat /\ DOMAIN Maps(l) = 1..Len(Maps(l))
           /\ Out(l) \notin DOMAIN net.inputs /\ ~ IsConst(Out(l))
           /\ \A i \in Layer : i # l => Out(i) # Out(l)
<1>1. LayerWellFormed(net, l)
  BY NetworksAssumption DEF WellFormed, Layer
<1> QED BY <1>1 DEF LayerWellFormed, Listed, Layer, Ins, Maps, Out, IsConst

LEMMA MapperFacts ==
    ASSUME net \in Networks, NEW l \in Layer, NEW m \in DOMAIN Maps(l)
    PROVE  /\ Len(Bindings(l, m)) \in Nat
           /\ DOMAIN Bindings(l, m) = 1..Len(Bindings(l, m))
           /\ \A b \in DOMAIN Bindings(l, m) : DOMAIN Bindings(l, m)[b].ins = DOMAIN Ins(l)
<1>1. LayerWellFormed(net, l)
  BY NetworksAssumption DEF WellFormed, Layer
<1> QED BY <1>1 DEF LayerWellFormed, Listed, Layer, Ins, Maps, Bindings

LEMMA InputFacts ==
    ASSUME net \in Networks, NEW l \in Layer, NEW t \in Range(Ins(l))
    PROVE  \/ t \in DOMAIN net.inputs
           \/ IsConst(t)
           \/ \E i \in 1..(l - 1) : t = Out(i)
<1>1. LayerWellFormed(net, l)
  BY NetworksAssumption DEF WellFormed, Layer
<1>2. PICK k \in DOMAIN Ins(l) : t = Ins(l)[k]
  BY DEF Range
<1>3. Ins(l)[k] \in DOMAIN net.inputs \cup DOMAIN net.consts
                    \cup {net.layers[i].out : i \in 1..(l - 1)}
  BY <1>1 DEF LayerWellFormed, Ins
<1> QED BY <1>2, <1>3 DEF IsConst, Out

-----------------------------------------------------------------------------
(* What one more layer adds to a replay. *)
LEMMA ReadersStep ==
    ASSUME NEW n \in Nat, NEW t
    PROVE  Readers(t, n + 1) = IF t \in Range(Ins(n + 1)) THEN Readers(t, n) \cup {n + 1}
                               ELSE Readers(t, n)
BY 1..(n + 1) = 1..n \cup {n + 1} DEF Readers

LEMMA LastReader ==
    ASSUME NEW n \in Nat, NEW t \in Range(Ins(n + 1))
    PROVE  Readers(t, n + 1) # {} /\ Max(Readers(t, n + 1)) = n + 1
<1>1. Readers(t, n + 1) \in SUBSET Nat /\ \A y \in Readers(t, n + 1) : n + 1 >= y
  BY DEF Readers
<1>2. n + 1 \in Readers(t, n + 1)
  BY DEF Readers
<1> QED BY <1>1, <1>2, MaxIs

(* Nobody before has written the output of a layer, or read it. *)
LEMMA OutputIsNew ==
    ASSUME net \in Networks, NEW n \in Nat, n + 1 \in Layer
    PROVE  /\ Producers(Out(n + 1), n) = {}
           /\ Producers(Out(n + 1), n + 1) = {n + 1}
           /\ Readers(Out(n + 1), n + 1) = {}
<1>1. n + 1 <= Len(net.layers) /\ Len(net.layers) \in Nat
  BY NetworkFacts
<1>2. \A i \in 1..(n + 1) : i \in Layer
  BY <1>1, NetworkFacts
<1>3. \A i \in 1..n : Out(i) # Out(n + 1)
  <2> TAKE i \in 1..n
  <2>1. i \in Layer /\ i # n + 1
    BY <1>2
  <2> QED BY <2>1, LayerFacts
<1>4. ASSUME NEW l \in 1..(n + 1), Out(n + 1) \in Range(Ins(l)) PROVE FALSE
  <2>1. PICK i \in 1..(l - 1) : Out(n + 1) = Out(i)
    BY <1>2, <1>4, InputFacts, LayerFacts
  <2>2. i \in 1..n
    BY <2>1
  <2> QED BY <2>1, <2>2, <1>3
<1>5. 1..(n + 1) = 1..n \cup {n + 1}
  OBVIOUS
<1> QED BY <1>3, <1>4, <1>5 DEF Producers, Readers

LEMMA ProducersStep ==
    ASSUME NEW n \in Nat, NEW t, t # Out(n + 1)
    PROVE  Producers(t, n + 1) = Producers(t, n)
BY 1..(n + 1) = 1..n \cup {n + 1} DEF Producers

LEMMA BuffersStep ==
    ASSUME NEW n \in Nat
    PROVE  Buffers(n + 1) = Buffers(n) \cup {t \in Range(Ins(n + 1)) : IsConst(t)}
                            \cup {Out(n + 1)}
<1>1. 1..(n + 1) = 1..n \cup {n + 1}
  OBVIOUS
<1>2. \A t : Readers(t, n + 1) # {} <=> Readers(t, n) # {} \/ t \in Range(Ins(n + 1))
  BY ReadersStep
<1> QED BY <1>1, <1>2 DEF Buffers, IsConst

(* The inputs of a layer are registered or constants; its output is not *)
(* registered unless it is an output of the graph.                      *)
LEMMA InputsRegistered ==
    ASSUME net \in Networks, NEW n \in Nat, n + 1 \in Layer
    PROVE  /\ \A t \in Range(Ins(n + 1)) : IsConst(t) \/ t \in Buffers(n)
           /\ Out(n + 1) \in Buffers(n) => IsGlobal(Out(n + 1))
           /\ Out(n + 1) \notin Range(Ins(n + 1))
<1>1. ASSUME NEW t \in Range(Ins(n + 1)), ~ IsConst(t) PROVE t \in Buffers(n)
  <2>1. t \in DOMAIN net.inputs \/ \E i \in 1..n : t = Out(i)
    BY <1>1, InputFacts
  <2> QED BY <2>1 DEF Buffers
<1>2. ~ IsConst(Out(n + 1)) /\ \A i \in 1..n : Out(i) # Out(n + 1)
  BY OutputIsNew, LayerFacts DEF Producers
<1>3. Out(n + 1) \in Buffers(n) => IsGlobal(Out(n + 1))
  BY <1>2 DEF Buffers, IsGlobal, IsConst
<1>4. Out(n + 1) \notin Range(Ins(n + 1))
  BY OutputIsNew DEF Readers
<1> QED BY <1>1, <1>3, <1>4

(* A parser that finds the replayed context registers the layer's tensors. *)
LEMMA Registering ==
    ASSUME net \in Networks, idx \in Nat, Current \in Layer, ctxt = Replay(idx)
    PROVE  ~ KeyErrors /\ WithIO = Entered(idx)
<1>1. DOMAIN ctxt.type = Buffers(idx)
  BY DEF Replay
<1>2. \A t \in Buffers(idx) : ctxt.type[t] = TypeAfter(t, idx) /\ ctxt.users[t] = Readers(t, idx)
  BY DEF Replay
<1>3. Current = idx + 1
  BY DEF Current
<1>4. ~ KeyErrors
  BY <1>1, <1>3, InputsRegistered DEF KeyErrors, Hoisted
<1>5. Buffers(idx) \cup Hoisted \cup {Out(Current)} = Buffers(idx + 1)
  BY <1>1, <1>3, BuffersStep DEF Hoisted
<1>6. ASSUME NEW t, t \notin Buffers(idx) PROVE Readers(t, idx) = {}
  <2> SUFFICES ASSUME NEW l \in 1..idx, t \in Range(Ins(l)) PROVE FALSE
    BY DEF Readers
  <2>1. l \in Layer
    BY <1>3, NetworkFacts
  <2>2. CASE IsConst(t)
    BY <1>6, <2>2 DEF Buffers, IsConst, Readers
  <2>3. CASE t \in DOMAIN net.inputs
    BY <1>6, <2>3 DEF Buffers
  <2>4. CASE \E i \in 1..(l - 1) : t = Out(i)
    BY <1>6, <2>4 DEF Buffers
  <2> QED BY <2>1, <2>2, <2>3, <2>4, InputFacts
<1>7. \A t \in Buffers(idx + 1) :
          (IF t \in Buffers(idx) THEN ctxt.users[t] ELSE {})
          \cup (IF t \in Range(Ins(Current)) THEN {Current} ELSE {}) = Readers(t, idx + 1)
  BY <1>2, <1>3, <1>6, ReadersStep
<1>8. \A t \in Buffers(idx + 1) :
          (IF t \in Buffers(idx) THEN ctxt.type[t] ELSE Untyped) = TypeEntered(t, idx)
  BY <1>2 DEF TypeEntered
<1> QED BY <1>1, <1>4, <1>5, <1>7, <1>8 DEF WithIO, Entered

(* The replay depends on the elections alone. *)
LEMMA ReplayFrame ==
    ASSUME NEW n \in Nat, net' = net, \A l \in 1..n : Elected(l)' = Elected(l)
    PROVE  /\ Buffers(n)' = Buffers(n)
           /\ \A t : Readers(t, n)' = Readers(t, n)
           /\ \A t : TypeAfter(t, n)' = TypeAfter(t, n)
           /\ Replay(n)' = Replay(n)
<1>1. \A t, m : Readers(t, m)' = Readers(t, m) /\ Producers(t, m)' = Producers(t, m)
  BY DEF Readers, Producers, Ins, Out
<1>2. \A t : IsConst(t)' = IsConst(t) /\ IsGlobal(t)' = IsGlobal(t)
  BY DEF IsConst, IsGlobal
<1>3. \A t, l : LastRead(l, t)' = LastRead(l, t)
  BY DEF LastRead, Ins
<1>4. ASSUME NEW t PROVE TypeAfter(t, n)' = TypeAfter(t, n)
  <2>1. ASSUME NEW T \in SUBSET (1..n), T # {} PROVE Elected(Max(T))' = Elected(Max(T))
    BY <2>1, IntervalMax
  <2>2. Readers(t, n) \in SUBSET (1..n) /\ Producers(t, n) \in SUBSET (1..n)
    BY DEF Readers, Producers
  <2>3. Readers(t, n) # {} => Elected(Max(Readers(t, n)))' = Elected(Max(Readers(t, n)))
    BY <1>1, <2>1, <2>2
  <2>4. Producers(t, n) # {} => Elected(Max(Producers(t, n)))' = Elected(Max(Producers(t, n)))
    BY <1>1, <2>1, <2>2
  <2> QED BY <1>1, <1>2, <1>3, <2>3, <2>4 DEF TypeAfter
<1>5. Buffers(n)' = Buffers(n)
  BY <1>1 DEF Buffers, Out
<1> QED BY <1>1, <1>4, <1>5 DEF Replay

(* The types after the election of the binding that is tried. *)
LEMMA Electing ==
    ASSUME net \in Networks, idx \in Nat, Current \in Layer, ctxt = Entered(idx), InputsFit
    PROVE  Inferred(CheckedTypes) =
               [t \in Buffers(idx + 1) |->
                   IF t = Out(Current) THEN Rule.out
                   ELSE IF (IsConst(t) \/ IsGlobal(t)) /\ t \in Range(Ins(Current))
                   THEN Rule.ins[LastRead(Current, t)]
                   ELSE TypeAfter(t, idx)]
<1> DEFINE fitting(t) == {k \in DOMAIN Ins(Current) :
                             Ins(Current)[k] = t /\ \A j \in 1..k : InputFits(j)}
<1>1. DOMAIN ctxt.type = Buffers(idx + 1)
      /\ \A t \in Buffers(idx + 1) : ctxt.type[t] = TypeEntered(t, idx)
  BY DEF Entered
<1>2. \A k \in DOMAIN Ins(Current) : \A j \in 1..k : j \in DOMAIN Ins(Current)
  BY LayerFacts
<1>3. \A t : fitting(t) = {k \in DOMAIN Ins(Current) : Ins(Current)[k] = t}
  BY <1>2 DEF InputsFit
<1>4. \A t : fitting(t) # {} <=> t \in Range(Ins(Current))
  BY <1>3 DEF Range
<1>5. CheckedTypes = [t \in Buffers(idx + 1) |->
                         IF IsGlobal(t) /\ t \in Range(Ins(Current))
                         THEN Rule.ins[LastRead(Current, t)] ELSE TypeEntered(t, idx)]
  BY <1>1, <1>3, <1>4 DEF CheckedTypes, LastRead
<1>6. Current = idx + 1
  BY DEF Current
<1>7. ASSUME NEW t \in Buffers(idx + 1), t # Out(Current),
             ~ (IsConst(t) /\ t \in Range(Ins(Current)))
      PROVE  TypeEntered(t, idx) = TypeAfter(t, idx)
  BY <1>6, <1>7, BuffersStep DEF TypeEntered
<1> HIDE DEF fitting
<1> QED BY <1>5, <1>7 DEF Inferred

-----------------------------------------------------------------------------
(* What a binding that is tried does to the types of graph inputs. *)

(* A rule that is tried reads a graph input or output at its exact type, or *)
(* as its last check.                                                       *)
Trial == mapper[Current] \in DOMAIN Maps(Current)
         /\ candidate \in DOMAIN Bindings(Current, mapper[Current])

LEMMA ExactUnlessLast ==
    ASSUME net \in Networks, Current \in Layer, Trial,
           NEW k \in DOMAIN Ins(Current), IsGlobal(Ins(Current)[k]),
           ~ (k = Len(Ins(Current)) /\ Rule.ok)
    PROVE  Exact(net, Rule.ins[k])
<1>1. WidensLast(net)
  BY WideningAssumption
<1>2. Rule \in Range(net.layers[Current].maps[mapper[Current]].bindings)
  BY DEF Rule, Trial, Bindings, Maps, Range
<1> QED BY <1>1, <1>2 DEF WidensLast, Trial, Maps, Ins, Layer, IsGlobal

(* While the inputs fit, a graph input keeps the type that it had. *)
LEMMA SeenStays ==
    ASSUME net \in Networks, Current \in Layer, Trial,
           NEW t, IsGlobal(t), ctxt.type[t] \in AllTypes(net),
           NEW k \in DOMAIN Ins(Current), Ins(Current)[k] = t,
           \A j \in 1..(k - 1) : InputFits(j)
    PROVE  Seen(k) = ctxt.type[t]
<1> DEFINE T == {i \in 1..k : Ins(Current)[i] = t /\ Seen(i) # ctxt.type[t]}
<1>1. SUFFICES ASSUME T # {} PROVE FALSE
  BY LayerFacts
<1>2. PICK x \in T : \A y \in T : x <= y
  BY <1>1, NatMin, T \in SUBSET Nat
<1>3. x \in DOMAIN Ins(Current) /\ x \in 1..k
  BY LayerFacts
<1>4. ReadBefore(x, t) # {}
  BY DEF Seen
<1>5. ReadBefore(x, t) \in SUBSET (1..k)
  BY <1>3, LayerFacts DEF ReadBefore
<1> DEFINE j == Max(ReadBefore(x, t))
<1>6. j \in ReadBefore(x, t)
  <2>1. k \in Nat
    BY LayerFacts
  <2> QED BY <1>4, <1>5, <2>1, IntervalMax
<1> HIDE DEF j
<1>7. j \in 1..(k - 1) /\ j \in DOMAIN Ins(Current) /\ j < x /\ Ins(Current)[j] = t
  BY <1>3, <1>6, LayerFacts DEF ReadBefore
<1>8. Seen(j) = ctxt.type[t]
  <2>1. j \in 1..k /\ ~ (x <= j)
    BY <1>3, <1>7, LayerFacts
  <2>2. j \notin T
    BY <1>2, <2>1
  <2> QED BY <1>7, <2>1, <2>2
<1>9. Widens(Rule.ins[j], ctxt.type[t])
  BY <1>7, <1>8, NetworkFacts DEF InputFits
<1>10. Exact(net, Rule.ins[j])
  BY <1>7, ExactUnlessLast, LayerFacts
<1>11. Rule.ins[j] = ctxt.type[t]
  BY <1>9, <1>10 DEF Exact
<1>12. Seen(x) = Rule.ins[j]
  BY <1>4 DEF Seen, j
<1> QED BY <1>11, <1>12

(* So a binding that is rejected leaves all types as they were. *)
LEMMA Rejecting ==
    ASSUME net \in Networks, Current \in Layer, Trial,
           ctxt.type = [t \in DOMAIN ctxt.type |-> ctxt.type[t]],
           \A t \in Range(Ins(Current)) : IsGlobal(t) => ctxt.type[t] \in AllTypes(net),
           ~ (InputsFit /\ Rule.ok)
    PROVE  CheckedTypes = ctxt.type
<1> DEFINE fitting(t) == {k \in DOMAIN Ins(Current) :
                             Ins(Current)[k] = t /\ \A j \in 1..k : InputFits(j)}
<1>1. ASSUME NEW t \in DOMAIN ctxt.type, IsGlobal(t), fitting(t) # {}
      PROVE  Rule.ins[Max(fitting(t))] = ctxt.type[t]
  <2> DEFINE k == Max(fitting(t))
  <2>1. k \in fitting(t)
    BY <1>1, IntervalMax, LayerFacts
  <2> HIDE DEF k
  <2>2. k \in DOMAIN Ins(Current) /\ Ins(Current)[k] = t /\ \A j \in 1..k : InputFits(j)
    BY <2>1
  <2>3. Seen(k) = ctxt.type[t]
    <3>1. ctxt.type[t] \in AllTypes(net)
      BY <1>1, <2>2 DEF Range
    <3>2. \A j \in 1..(k - 1) : InputFits(j)
      BY <2>2, LayerFacts
    <3> QED BY <1>1, <2>2, <3>1, <3>2, SeenStays
  <2>4. Widens(Rule.ins[k], ctxt.type[t])
    <3>1. InputFits(k)
      BY <2>2, LayerFacts
    <3> QED BY <1>1, <2>2, <2>3, <3>1, NetworkFacts DEF InputFits
  <2>5. ~ (k = Len(Ins(Current)) /\ Rule.ok)
    BY <2>2, LayerFacts DEF InputsFit
  <2>6. Exact(net, Rule.ins[k])
    BY <1>1, <2>2, <2>5, ExactUnlessLast
  <2>7. ctxt.type[t] \in AllTypes(net)
    BY <1>1, <2>2 DEF Range
  <2>8. Rule.ins[k] = ctxt.type[t]
    BY <2>4, <2>6, <2>7 DEF Exact
  <2> QED BY <2>8 DEF k
<1>2. CheckedTypes = [t \in DOMAIN ctxt.type |->
                         IF IsGlobal(t) /\ fitting(t) # {} THEN Rule.ins[Max(fitting(t))]
                         ELSE ctxt.type[t]]
  BY DEF CheckedTypes
<1> HIDE DEF fitting
<1> QED BY <1>1, <1>2

(* The types of the graph's inputs and outputs come from the graph and the *)
(* rules.                                                                  *)
LEMMA TypesKnown ==
    ASSUME net \in Networks, idx \in Nat, Current \in Layer, \A l \in 1..idx : Bound(l),
           NEW t \in Range(Ins(Current)), IsGlobal(t)
    PROVE  TypeAfter(t, idx) \in AllTypes(net)
<1>1. ASSUME NEW l \in 1..idx
      PROVE  /\ l \in Layer /\ Elected(l) \in AllRules(net)
             /\ DOMAIN Elected(l).ins = DOMAIN Ins(l)
  <2>1. l \in Layer
    BY NetworkFacts DEF Current
  <2>2. mapper[l] \in DOMAIN Maps(l) /\ binder[l][mapper[l]] \in DOMAIN Bindings(l, mapper[l])
    BY DEF Bound, Settled, Committed
  <2>3. DOMAIN Elected(l).ins = DOMAIN Ins(l)
    BY <2>1, <2>2, MapperFacts DEF Elected
  <2>4. Elected(l) \in Range(net.layers[l].maps[mapper[l]].bindings)
    BY <2>2 DEF Elected, Bindings, Maps, Range
  <2>5. Elected(l) \in AllRules(net)
    BY <2>1, <2>2, <2>4 DEF AllRules, Maps, Layer
  <2> QED BY <2>1, <2>3, <2>5
<1>2. ASSUME NEW l \in 1..idx
      PROVE  /\ Elected(l).out \in AllTypes(net)
             /\ \A k \in DOMAIN Ins(l) : Elected(l).ins[k] \in AllTypes(net)
  BY <1>1 DEF AllTypes, Range
<1>3. CASE Readers(t, idx) # {}
  <2> DEFINE m == Max(Readers(t, idx))
  <2>1. m \in Readers(t, idx)
    BY <1>3, IntervalMax DEF Readers
  <2> HIDE DEF m
  <2>2. m \in 1..idx /\ t \in Range(Ins(m))
    BY <2>1 DEF Readers
  <2>3. m \in Layer
    BY <2>2, <1>1
  <2>4. LastRead(m, t) \in DOMAIN Ins(m)
    <3> DEFINE K == {k \in DOMAIN Ins(m) : Ins(m)[k] = t}
    <3>1. K # {} /\ K \in SUBSET (1..Len(Ins(m))) /\ Len(Ins(m)) \in Nat
      BY <2>2, <2>3, LayerFacts DEF Range
    <3>2. Max(K) \in K
      BY <3>1, IntervalMax
    <3> QED BY <3>2 DEF LastRead
  <2>5. Elected(m).ins[LastRead(m, t)] \in AllTypes(net)
    BY <1>2, <2>2, <2>4
  <2> QED BY <1>3, <2>5 DEF TypeAfter, m
<1>4. CASE Readers(t, idx) = {} /\ Producers(t, idx) # {}
  <2> DEFINE m == Max(Producers(t, idx))
  <2>1. m \in Producers(t, idx)
    BY <1>4, IntervalMax DEF Producers
  <2> HIDE DEF m
  <2>2. Elected(m).out \in AllTypes(net)
    BY <1>2, <2>1 DEF Producers
  <2> QED BY <1>4, <2>2 DEF TypeAfter, m
<1>5. CASE Readers(t, idx) = {} /\ Producers(t, idx) = {}
  <2>1. t \in DOMAIN net.inputs
    BY <1>5, InputFacts, NetworkFacts DEF Producers, Current
  <2> QED BY <1>5, <2>1 DEF TypeAfter, AllTypes, Range
<1> QED BY <1>3, <1>4, <1>5

-----------------------------------------------------------------------------
(* The check of the inputs of a binding asks what a consistent choice that *)
(* agrees with the elections demands.                                      *)
LEMMA HadIsReplayed ==
    ASSUME net \in Networks, idx \in Nat, Current \in Layer, \A l \in 1..idx : Bound(l),
           NEW c, \A i \in 1..idx : c[i] = Found[i],
           NEW t \in Range(Ins(Current)), ~ IsConst(t)
    PROVE  Had(c, t, Current) = TypeAfter(t, idx)
<1>1. ASSUME NEW i \in 1..idx PROVE Chosen(c, i) = Elected(i)
  <2>1. i \in Layer /\ mapper[i] = FirstMapper(i)
    BY NetworkFacts DEF Current, Bound, Settled
  <2> QED BY <2>1 DEF Chosen, Elected, Found
<1>2. Current - 1 = idx
  BY DEF Current
<1>3. CASE IsGlobal(t) /\ Readers(t, idx) # {}
  <2>1. Max(Readers(t, idx)) \in 1..idx
    BY <1>3, IntervalMax DEF Readers
  <2> QED BY <1>1, <1>2, <1>3, <2>1 DEF Had, TypeAfter
<1>4. CASE ~ (IsGlobal(t) /\ Readers(t, idx) # {}) /\ t \in DOMAIN net.inputs
  <2>1. Producers(t, idx) = {}
    <3>1. ASSUME NEW i \in 1..idx PROVE Out(i) # t
      BY <1>4, LayerFacts, NetworkFacts DEF Current
    <3> QED BY <3>1 DEF Producers
  <2> QED BY <1>2, <1>4, <2>1 DEF Had, TypeAfter
<1>5. CASE ~ (IsGlobal(t) /\ Readers(t, idx) # {}) /\ t \notin DOMAIN net.inputs
  <2>1. Producers(t, idx) # {}
    BY <1>2, <1>5, InputFacts DEF Producers
  <2>2. Max(Producers(t, idx)) \in 1..idx
    BY <2>1, IntervalMax DEF Producers
  <2> QED BY <1>1, <1>2, <1>5, <2>1, <2>2 DEF Had, TypeAfter
<1> QED BY <1>3, <1>4, <1>5

LEMMA FitsAsDemanded ==
    ASSUME net \in Networks, idx \in Nat, Current \in Layer, Trial, ctxt = Entered(idx),
           \A l \in 1..idx : Bound(l), Settled(Current),
           NEW c, \A i \in 1..idx : c[i] = Found[i], c[Current] = candidate
    PROVE  /\ Chosen(c, Current) = Rule
           /\ InputsFit <=> \A k \in DOMAIN Ins(Current) : Demanded(c, Current, k)
<1>1. Chosen(c, Current) = Rule
  BY DEF Settled, Chosen, Rule
<1>2. ASSUME NEW t \in Range(Ins(Current)), ~ IsConst(t)
      PROVE  /\ ctxt.type[t] = TypeAfter(t, idx)
             /\ Had(c, t, Current) = ctxt.type[t]
  <2>1. Current = idx + 1
    BY DEF Current
  <2>2. t \in Buffers(idx) /\ t \in Buffers(idx + 1)
    BY <1>2, <2>1, InputsRegistered, BuffersStep
  <2>3. ctxt.type[t] = TypeAfter(t, idx)
    BY <2>2 DEF Entered, TypeEntered
  <2> QED BY <1>2, <2>3, HadIsReplayed
<1>3. ASSUME NEW k \in DOMAIN Ins(Current), \A j \in 1..(k - 1) : InputFits(j)
      PROVE  InputFits(k) <=> Demanded(c, Current, k)
  <2> DEFINE t == Ins(Current)[k]
  <2>1. t \in Range(Ins(Current))
    BY DEF Range
  <2>2. CASE IsConst(t)
    BY <1>1, <2>2 DEF InputFits, Demanded
  <2>3. CASE ~ IsConst(t) /\ IsGlobal(t)
    <3>1. ctxt.type[t] \in AllTypes(net)
      BY <1>2, <2>1, <2>3, TypesKnown
    <3>2. Seen(k) = ctxt.type[t]
      BY <1>3, <2>3, <3>1, SeenStays
    <3> QED BY <1>1, <1>2, <2>1, <2>3, <3>2 DEF InputFits, Demanded
  <2>4. CASE ~ IsConst(t) /\ ~ IsGlobal(t)
    <3>1. Seen(k) = ctxt.type[t]
      BY <2>4 DEF Seen
    <3>2. Had(c, t, Current) = Seen(k)
      BY <1>2, <2>1, <2>4, <3>1
    <3>3. InputFits(k) <=> Seen(k) = Rule.ins[k]
      BY <2>4 DEF InputFits
    <3>4. Demanded(c, Current, k) <=> Rule.ins[k] = Had(c, t, Current)
      BY <1>1, <2>4 DEF Demanded
    <3> QED BY <3>2, <3>3, <3>4
  <2> QED BY <2>2, <2>3, <2>4
<1>4. ASSUME InputsFit PROVE \A k \in DOMAIN Ins(Current) : Demanded(c, Current, k)
  <2> TAKE k \in DOMAIN Ins(Current)
  <2>1. \A j \in 1..(k - 1) : j \in DOMAIN Ins(Current)
    BY LayerFacts
  <2> QED BY <1>3, <1>4, <2>1 DEF InputsFit
<1>5. ASSUME \A k \in DOMAIN Ins(Current) : Demanded(c, Current, k) PROVE InputsFit
  <2> DEFINE T == {k \in DOMAIN Ins(Current) : ~ InputFits(k)}
  <2>1. SUFFICES ASSUME T # {} PROVE FALSE
    BY DEF InputsFit
  <2>2. T \in SUBSET Nat
    BY LayerFacts
  <2>3. PICK x \in T : \A y \in T : x <= y
    BY <2>1, <2>2, NatMin
  <2> HIDE DEF T
  <2>4. x \in DOMAIN Ins(Current) /\ ~ InputFits(x)
    BY DEF T
  <2>5. ASSUME NEW j \in 1..(x - 1) PROVE InputFits(j)
    <3>1. j \in DOMAIN Ins(Current) /\ ~ (x <= j)
      BY <2>4, LayerFacts
    <3> QED BY <2>3, <3>1 DEF T
  <2> QED BY <1>3, <1>5, <2>4, <2>5
<1> QED BY <1>1, <1>4, <1>5

-----------------------------------------------------------------------------
(* The steps. *)

(* What is read off the network stays when the network does. *)
LEMMA NetworkStays ==
    ASSUME net' = net
    PROVE  /\ Layer' = Layer
           /\ \A l : /\ Maps(l)' = Maps(l) /\ Ins(l)' = Ins(l) /\ Out(l)' = Out(l)
                     /\ Committed(l)' = Committed(l) /\ FirstMapper(l)' = FirstMapper(l)
           /\ \A l, m : Bindings(l, m)' = Bindings(l, m)
BY DEF Layer, Maps, Ins, Out, Committed, FirstMapper, Bindings

LEMMA ConsistencyStays ==
    ASSUME net' = net
    PROVE  /\ \A c, l : ConsistentAt(c, l)' <=> ConsistentAt(c, l)
           /\ Solutions' = Solutions
<1>1. \A c, l : Chosen(c, l)' = Chosen(c, l)
  BY NetworkStays DEF Chosen
<1>2. \A t, n : Readers(t, n)' = Readers(t, n) /\ Producers(t, n)' = Producers(t, n)
  BY NetworkStays DEF Readers, Producers
<1>3. \A t : IsConst(t)' = IsConst(t) /\ IsGlobal(t)' = IsGlobal(t)
  BY DEF IsConst, IsGlobal
<1>4. \A t, l : LastRead(l, t)' = LastRead(l, t)
  BY NetworkStays DEF LastRead
<1>5. \A c, t, l : Had(c, t, l)' = Had(c, t, l)
  BY <1>1, <1>2, <1>3, <1>4 DEF Had
<1>6. \A c, l, k : Demanded(c, l, k)' <=> Demanded(c, l, k)
  BY <1>1, <1>3, <1>5, NetworkStays DEF Demanded
<1>7. \A c, l : ConsistentAt(c, l)' <=> ConsistentAt(c, l)
  BY <1>1, <1>6, NetworkStays DEF ConsistentAt
<1>8. Assignments' = Assignments
  BY NetworkStays DEF Assignments
<1> QED BY <1>7, <1>8, NetworkStays DEF Solutions, Consistent

(* A layer that has its mapper and its binding. *)
LEMMA BoundFacts ==
    ASSUME TypeInv, NEW l \in Layer, Settled(l)
    PROVE  /\ FirstMapper(l) \in DOMAIN Maps(l)
           /\ mapper[l] = FirstMapper(l)
           /\ Len(Bindings(l, mapper[l])) \in Nat
           /\ DOMAIN Bindings(l, mapper[l]) = 1..Len(Bindings(l, mapper[l]))
           /\ discardedBindings[l][mapper[l]] \subseteq DOMAIN Bindings(l, mapper[l])
<1>1. FirstMapper(l) \in DOMAIN Maps(l) /\ mapper[l] = FirstMapper(l)
  BY DEF Settled, Committed
<1> QED BY <1>1, MapperFacts DEF TypeInv, ControlInv, StoreInv

(* The elected binding is never discarded: one is always left. *)
LEMMA NotExhausted ==
    ASSUME TypeInv, NEW l \in Layer, Bound(l)
    PROVE  ~ BindingsExhausted(l)
<1> DEFINE n == Len(Bindings(l, mapper[l]))
           D == discardedBindings[l][mapper[l]]
<1>1. n \in Nat /\ DOMAIN Bindings(l, mapper[l]) = 1..n
  BY BoundFacts DEF Bound
<1>2. PICK b \in 1..n : b \notin D
  BY <1>1, BoundFacts DEF Bound
<1>3. IsFiniteSet(1..n) /\ Cardinality(1..n) = n
  BY <1>1, 1 \in Int, n \in Int, FS_Interval
<1>4. SUFFICES ASSUME Cardinality(D) = n PROVE FALSE
  BY DEF BindingsExhausted
<1>5. D = 1..n
  BY <1>1, <1>3, <1>4, BoundFacts, FS_Subset DEF Bound
<1> QED BY <1>2, <1>5

(* Backtracking takes the layer before back and discards its binding. *)
LEMMA BacktrackStep ==
    ASSUME TypeInv, ElectionInv, ContextInv, Backtrack
    PROVE  /\ idx \in Layer /\ Bound(idx) /\ Exhausted
           /\ net' = net /\ idx' = idx - 1 /\ at' = "layer" /\ candidate' = candidate
           /\ ioParse' = ioParse /\ mapper' = mapper
           /\ ctxt' = Replay(idx - 1)
           /\ ctxtStack' = [l \in 1..(idx - 1) |-> Replay(l - 1)]
           /\ discardedMappers' = [discardedMappers EXCEPT ![Current] = {}]
           /\ binder' = [binder EXCEPT ![idx][mapper[idx]] = 0]
           /\ discardedBindings' = [discardedBindings EXCEPT
                                       ![Current] = Reopened(Current),
                                       ![idx][mapper[idx]] = AlsoTried(idx)]
<1>1. idx \in Nat \ {0} /\ idx \in Layer
  BY NetworkFacts DEF Backtrack, TypeInv, ControlInv
<1>2. Bound(idx)
  BY <1>1 DEF ElectionInv
<1>3. ~ BindingsExhausted(idx)
  BY <1>1, <1>2, NotExhausted
<1>4. ctxtStack = [l \in 1..idx |-> Replay(l - 1)]
  BY DEF ContextInv
<1>5. Len(ctxtStack) = idx
  BY <1>1, <1>4
<1>6. Restored = Replay(idx - 1)
  BY <1>1, <1>4, <1>5 DEF Restored, Last
<1>7. Front(ctxtStack) = [l \in 1..(idx - 1) |-> Replay(l - 1)]
  BY <1>1, <1>4, <1>5 DEF Front
<1> QED BY <1>1, <1>2, <1>3, <1>6, <1>7 DEF Backtrack

LEMMA TypeInit == Init => TypeInv
<1> SUFFICES ASSUME Init PROVE TypeInv
  OBVIOUS
<1>1. net \in Networks /\ Len(net.layers) \in Nat
  BY NetworkFacts DEF Init
<1>2. ControlInv
  BY <1>1 DEF Init, ControlInv, Loop
<1>3. StoreInv
  BY DEF Init, StoreInv, PerMapper
<1> QED BY <1>2, <1>3 DEF TypeInv

(* Where a mapper or a binding is tried. *)
LEMMA Trying1 ==
    ASSUME TypeInv, at \in {"mappers", "bindings"}
    PROVE  /\ net \in Networks /\ idx \in Nat /\ Current = idx + 1 /\ Current \in Layer
           /\ \A l \in 1..idx : l \in Layer /\ l # Current
           /\ candidate \in Nat \ {0}
BY NetworkFacts DEF TypeInv, ControlInv, Current

(* A parser that accepts a node finds what it needs, and the tensors of the *)
(* layer are registered once.                                               *)
LEMMA AcceptStep ==
    ASSUME TypeInv, ElectionInv, ContextInv, AcceptNode
    PROVE  /\ candidate \in DOMAIN Maps(Current)
           /\ ctxt' = Entered(idx) /\ ioParse' = FALSE
           /\ mapper' = [mapper EXCEPT ![Current] = candidate]
           /\ \/ /\ Trying.fits /\ at' = "bindings" /\ candidate' = 1
                 /\ discardedMappers' = discardedMappers
              \/ /\ ~ Trying.fits /\ at' = at /\ candidate' = candidate + 1
                 /\ discardedMappers' =
                        [discardedMappers EXCEPT ![Current] = @ \cup {candidate}]
<1>1. at = "mappers" /\ Trying.parses
  BY DEF AcceptNode
<1>2. candidate \in DOMAIN Maps(Current)
  BY <1>1, Trying1, LayerFacts DEF AcceptNode
<1>3. ~ (ioParse /\ Refused)
  <2>1. RegistersOnce(net)
    BY <1>1, Trying1, NetworksAssumption
  <2>2. SUFFICES ASSUME Refused PROVE FALSE
    OBVIOUS
  <2>3. PICK i, j \in DOMAIN Maps(Current) :
            i < j /\ j < candidate /\ Maps(Current)[i].parses /\ ~ Maps(Current)[j].parses
    BY <2>2 DEF Refused
  <2>4. PICK m \in 1..(candidate - 1) : Maps(Current)[m].parses /\ Maps(Current)[m].fits
    BY <1>1, <1>2, <2>1, <2>3, Trying1 DEF RegistersOnce, Maps, Layer, Trying
  <2>5. m \in Committed(Current)
    BY <1>1, <1>2, <2>4, Trying1, LayerFacts DEF Committed
  <2> QED BY <1>1, <2>4, <2>5 DEF ElectionInv
<1>4. \/ ioParse /\ ctxt = Replay(idx)
      \/ ~ ioParse /\ ctxt = Entered(idx)
  BY <1>1, <1>3 DEF ContextInv
<1>5. ~ (ioParse /\ KeyErrors) /\ (IF ioParse THEN WithIO ELSE ctxt) = Entered(idx)
  BY <1>1, <1>4, Trying1, Registering
<1> QED BY <1>1, <1>2, <1>5 DEF AcceptNode

LEMMA ControlStep ==
    ASSUME TypeInv, ElectionInv, ContextInv, [Next]_vars
    PROVE  ControlInv'
<1> USE DEF TypeInv, ControlInv, choices
<1>1. CASE EnterLayer
  <2>1. net \in Networks /\ idx \in 0..Len(net.layers) /\ Len(net.layers) \in Nat
    BY NetworkFacts
  <2>2. CASE idx = Len(net.layers)
    BY <1>1, <2>1, <2>2 DEF EnterLayer, Loop
  <2>3. CASE idx # Len(net.layers)
    <3>1. net' = net /\ idx' = idx /\ at' = "mappers" /\ candidate' = 1 /\ ioParse' = TRUE
      BY <1>1, <2>3 DEF EnterLayer
    <3>2. idx < Len(net.layers)
      BY <2>1, <2>3
    <3> QED BY <2>1, <3>1, <3>2 DEF Loop
  <2> QED BY <2>2, <2>3
<1>2. CASE SkipMapper
  BY <1>2 DEF SkipMapper
<1>3. CASE RejectNode
  BY <1>3 DEF RejectNode
<1>4. CASE AcceptNode
  <2>1. at = "mappers" /\ net' = net /\ idx' = idx /\ idx < Len(net.layers)
    BY <1>4 DEF AcceptNode
  <2>2. at' \in {"mappers", "bindings"} /\ ioParse' \in BOOLEAN
    BY <1>4, <2>1, AcceptStep
  <2>3. candidate' = 1 \/ candidate' = candidate + 1
    BY <1>4, AcceptStep
  <2> QED BY <2>1, <2>2, <2>3 DEF Loop
<1>5. CASE SkipBinding
  BY <1>5 DEF SkipBinding
<1>6. CASE RejectBinding
  BY <1>6 DEF RejectBinding
<1>7. CASE ElectBinding
  BY <1>7, NetworkFacts DEF ElectBinding, Loop
<1>8. CASE GiveUp
  BY <1>8 DEF GiveUp, Loop
<1>9. CASE Backtrack
  BY <1>9, NetworkFacts, BacktrackStep DEF Loop
<1>10. CASE Over \/ UNCHANGED vars
  BY <1>10 DEF Over, vars
<1> QED BY <1>1, <1>2, <1>3, <1>4, <1>5, <1>6, <1>7, <1>8, <1>9, <1>10 DEF Next

LEMMA StoreKept ==
    ASSUME TypeInv, net' = net,
           DOMAIN mapper' = Layer, DOMAIN discardedMappers' = Layer,
           \/ binder' = binder
           \/ DOMAIN binder' = Layer /\ \A l \in Layer : DOMAIN binder'[l] = DOMAIN Maps(l),
           \/ discardedBindings' = discardedBindings
           \/ /\ DOMAIN discardedBindings' = Layer
              /\ \A l \in Layer : DOMAIN discardedBindings'[l] = DOMAIN Maps(l)
              /\ \A l \in Layer : \A m \in DOMAIN Maps(l) :
                     discardedBindings'[l][m] \subseteq DOMAIN Bindings(l, m)
    PROVE  StoreInv'
<1>1. DOMAIN binder' = Layer /\ \A l \in Layer : DOMAIN binder'[l] = DOMAIN Maps(l)
  BY DEF TypeInv, StoreInv
<1>2. /\ DOMAIN discardedBindings' = Layer
      /\ \A l \in Layer : DOMAIN discardedBindings'[l] = DOMAIN Maps(l)
      /\ \A l \in Layer : \A m \in DOMAIN Maps(l) :
             discardedBindings'[l][m] \subseteq DOMAIN Bindings(l, m)
  BY DEF TypeInv, StoreInv
<1> QED BY <1>1, <1>2, NetworkStays DEF StoreInv

LEMMA StoreStep ==
    ASSUME TypeInv, ElectionInv, ContextInv, [Next]_vars
    PROVE  StoreInv'
<1>1. CASE UNCHANGED <<net, choices>>
  BY <1>1, StoreKept DEF TypeInv, StoreInv, choices
<1>2. CASE RejectNode
  BY <1>2, StoreKept DEF TypeInv, StoreInv, RejectNode
<1>3. CASE AcceptNode
  <2>1. /\ net' = net /\ binder' = binder /\ discardedBindings' = discardedBindings
        /\ DOMAIN mapper' = DOMAIN mapper /\ DOMAIN discardedMappers' = DOMAIN discardedMappers
    BY <1>3 DEF AcceptNode
  <2> QED BY <2>1, StoreKept DEF TypeInv, StoreInv
<1>4. CASE RejectBinding
  <2>1. candidate \in DOMAIN Bindings(Current, mapper[Current])
    BY <1>4, Trying1, BoundFacts DEF RejectBinding, ElectionInv, TypeInv
  <2>2. ASSUME NEW l \in Layer
        PROVE  /\ DOMAIN discardedBindings'[l] = DOMAIN Maps(l)
               /\ \A m \in DOMAIN Maps(l) :
                      discardedBindings'[l][m] \subseteq DOMAIN Bindings(l, m)
    BY <1>4, <2>1 DEF RejectBinding, TypeInv, StoreInv
  <2>3. DOMAIN discardedBindings' = Layer
    BY <1>4 DEF RejectBinding, TypeInv, StoreInv
  <2>4. /\ net' = net /\ binder' = binder
        /\ DOMAIN mapper' = Layer /\ DOMAIN discardedMappers' = Layer
    BY <1>4 DEF RejectBinding, TypeInv, StoreInv
  <2> QED BY <2>2, <2>3, <2>4, StoreKept
<1>5. CASE ElectBinding
  <2>1. ASSUME NEW l \in Layer PROVE DOMAIN binder'[l] = DOMAIN Maps(l)
    BY <1>5 DEF ElectBinding, TypeInv, StoreInv
  <2>2. DOMAIN binder' = Layer
    BY <1>5 DEF ElectBinding, TypeInv, StoreInv
  <2>3. /\ net' = net /\ discardedBindings' = discardedBindings
        /\ DOMAIN mapper' = Layer /\ DOMAIN discardedMappers' = Layer
    BY <1>5 DEF ElectBinding, TypeInv, StoreInv
  <2> QED BY <2>1, <2>2, <2>3, StoreKept
<1>6. CASE Backtrack
  <2>1. AlsoTried(idx) \subseteq DOMAIN Bindings(idx, mapper[idx])
    BY <1>6, BacktrackStep, BoundFacts DEF AlsoTried, Bound
  <2>2. ASSUME NEW l \in Layer
        PROVE  /\ DOMAIN discardedBindings'[l] = DOMAIN Maps(l)
               /\ \A m \in DOMAIN Maps(l) :
                      discardedBindings'[l][m] \subseteq DOMAIN Bindings(l, m)
    BY <1>6, <2>1, BacktrackStep DEF Reopened, PerMapper, TypeInv, StoreInv
  <2>3. ASSUME NEW l \in Layer PROVE DOMAIN binder'[l] = DOMAIN Maps(l)
    BY <1>6, BacktrackStep DEF TypeInv, StoreInv
  <2>4. /\ net' = net /\ DOMAIN mapper' = Layer /\ DOMAIN binder' = Layer
        /\ DOMAIN discardedMappers' = Layer /\ DOMAIN discardedBindings' = Layer
    BY <1>6, BacktrackStep DEF TypeInv, StoreInv
  <2> QED BY <2>2, <2>3, <2>4, StoreKept
<1>7. CASE EnterLayer \/ SkipMapper \/ SkipBinding \/ GiveUp \/ Over \/ UNCHANGED vars
  BY <1>1, <1>7 DEF EnterLayer, SkipMapper, SkipBinding, GiveUp, Over, vars, choices
<1> QED BY <1>2, <1>3, <1>4, <1>5, <1>6, <1>7 DEF Next

-----------------------------------------------------------------------------
(* The elections. *)

(* What is known of a layer depends on the elections for it alone. *)
LEMMA BoundStays ==
    ASSUME net' = net, NEW l, mapper'[l] = mapper[l]
    PROVE  /\ Settled(l)' <=> Settled(l)
           /\ Bound(l) /\ binder'[l][mapper[l]] = binder[l][mapper[l]]
              /\ discardedBindings'[l][mapper[l]] = discardedBindings[l][mapper[l]] => Bound(l)'
           /\ Settled(l) /\ binder'[l][mapper[l]] = binder[l][mapper[l]] =>
                  Elected(l)' = Elected(l)
<1>1. Settled(l)' <=> Settled(l)
  BY NetworkStays DEF Settled
<1>2. /\ FirstMapper(l)' = FirstMapper(l)
      /\ Bindings(l, FirstMapper(l))' = Bindings(l, FirstMapper(l))
  BY NetworkStays
<1>3. ASSUME Bound(l), binder'[l][mapper[l]] = binder[l][mapper[l]],
             discardedBindings'[l][mapper[l]] = discardedBindings[l][mapper[l]]
      PROVE  Bound(l)'
  BY <1>1, <1>2, <1>3 DEF Bound, Settled
<1>4. ASSUME binder'[l][mapper[l]] = binder[l][mapper[l]] PROVE Elected(l)' = Elected(l)
  BY <1>4, NetworkStays DEF Elected
<1> QED BY <1>1, <1>3, <1>4

LEMMA ElectionInit == Init => ElectionInv
BY DEF Init, ElectionInv

LEMMA ElectionStep ==
    ASSUME TypeInv, ElectionInv, ContextInv, [Next]_vars
    PROVE  ElectionInv'
<1> USE DEF choices
<1>1. CASE UNCHANGED <<net, idx, choices>> /\ ~ (at' \in {"mappers", "bindings"})
  <2>1. ASSUME NEW l \in 1..idx PROVE Bound(l)'
    BY <1>1, BoundStays DEF ElectionInv
  <2> QED BY <1>1, <2>1, NetworkStays DEF ElectionInv
<1>2. CASE EnterLayer
  <2>1. ASSUME NEW l \in 1..idx PROVE Bound(l)'
    BY <1>2, BoundStays DEF ElectionInv, EnterLayer
  <2>2. /\ idx' = idx /\ discardedMappers' = discardedMappers /\ net' = net
        /\ at' # "bindings" /\ (at' = "mappers" => candidate' = 1)
    BY <1>2 DEF EnterLayer
  <2>3. at' = "mappers" => 1..(candidate' - 1) = {}
    BY <2>2
  <2> QED BY <2>1, <2>2, <2>3, NetworkStays DEF ElectionInv
<1>3. CASE SkipMapper \/ RejectNode
  <2>1. ASSUME NEW l \in 1..idx PROVE Bound(l)'
    BY <1>3, BoundStays DEF ElectionInv, SkipMapper, RejectNode
  <2>2. /\ idx' = idx /\ net' = net /\ at' = "mappers" /\ at = "mappers"
        /\ candidate' = candidate + 1
    BY <1>3 DEF SkipMapper, RejectNode
  <2>3. candidate \notin Committed(Current)
    <3>1. CASE SkipMapper
      BY <2>2, <3>1, Trying1 DEF SkipMapper, ElectionInv
    <3>2. CASE RejectNode
      BY <3>2 DEF RejectNode, Trying, Committed
    <3> QED BY <1>3, <3>1, <3>2
  <2>4. \A l \in Layer : discardedMappers'[l] \cap Committed(l) = {}
    BY <1>3, <2>3 DEF SkipMapper, RejectNode, ElectionInv, TypeInv, StoreInv
  <2>5. \A m \in 1..(candidate' - 1) : m \notin Committed(Current)'
    <3>1. Committed(Current)' = Committed(Current)
      BY <2>2, NetworkStays DEF Current
    <3>2. \A m \in 1..(candidate' - 1) : m \in 1..(candidate - 1) \/ m = candidate
      BY <2>2, Trying1
    <3> QED BY <2>2, <2>3, <3>1, <3>2 DEF ElectionInv
  <2> QED BY <2>1, <2>2, <2>4, <2>5, NetworkStays DEF ElectionInv
<1>4. CASE AcceptNode
  <2>1. /\ idx' = idx /\ net' = net /\ at = "mappers" /\ binder' = binder
        /\ discardedBindings' = discardedBindings /\ Trying.parses
    BY <1>4 DEF AcceptNode
  <2>2. ASSUME NEW l \in 1..idx PROVE Bound(l)'
    <3>1. mapper'[l] = mapper[l]
      BY <1>4, <2>1, AcceptStep, Trying1 DEF TypeInv, StoreInv
    <3> QED BY <2>1, <3>1, BoundStays DEF ElectionInv
  <2>3. mapper'[Current] = candidate
    BY <1>4, <2>1, AcceptStep, Trying1 DEF TypeInv, StoreInv
  <2>4. CASE Trying.fits
    <3>1. candidate \in Committed(Current)
      BY <1>4, <2>1, <2>4, AcceptStep DEF Committed, Trying
    <3>2. \A y \in Committed(Current) : candidate <= y
      <4>1. SUFFICES ASSUME NEW y \in Committed(Current), y < candidate PROVE FALSE
        BY <2>1, Trying1, LayerFacts DEF Committed
      <4>2. y \in 1..(candidate - 1)
        BY <2>1, <4>1, Trying1, LayerFacts DEF Committed
      <4> QED BY <2>1, <4>2 DEF ElectionInv
    <3>3. Committed(Current) \in SUBSET Nat
      BY <2>1, Trying1, LayerFacts DEF Committed
    <3>4. FirstMapper(Current) = candidate
      BY <3>1, <3>2, <3>3, MinIs DEF FirstMapper
    <3>5. Settled(Current)'
      BY <2>1, <2>3, <3>1, <3>4, NetworkStays DEF Settled, Current
    <3>6. at' = "bindings" /\ discardedMappers' = discardedMappers
      BY <1>4, <2>4, AcceptStep
    <3> QED BY <2>1, <2>2, <3>5, <3>6, NetworkStays DEF ElectionInv
  <2>5. CASE ~ Trying.fits
    <3>1. /\ at' = "mappers" /\ candidate' = candidate + 1
          /\ discardedMappers' = [discardedMappers EXCEPT ![Current] = @ \cup {candidate}]
      BY <1>4, <2>1, <2>5, AcceptStep
    <3>2. candidate \notin Committed(Current)
      BY <2>5 DEF Committed, Trying
    <3>3. \A l \in Layer : discardedMappers'[l] \cap Committed(l) = {}
      BY <3>1, <3>2 DEF ElectionInv, TypeInv, StoreInv
    <3>4. \A m \in 1..(candidate' - 1) : m \notin Committed(Current)'
      <4>1. Committed(Current)' = Committed(Current)
        BY <2>1, NetworkStays DEF Current
      <4>2. \A m \in 1..(candidate' - 1) : m \in 1..(candidate - 1) \/ m = candidate
        BY <2>1, <3>1, Trying1
      <4> QED BY <2>1, <3>2, <4>1, <4>2 DEF ElectionInv
    <3> QED BY <2>1, <2>2, <3>1, <3>3, <3>4, NetworkStays DEF ElectionInv
  <2> QED BY <2>4, <2>5
<1>5. CASE SkipBinding
  <2>1. ASSUME NEW l \in 1..idx PROVE Bound(l)'
    BY <1>5, BoundStays DEF ElectionInv, SkipBinding
  <2>2. /\ idx' = idx /\ net' = net /\ at' = "bindings" /\ at = "bindings"
        /\ mapper' = mapper /\ discardedMappers' = discardedMappers
    BY <1>5 DEF SkipBinding
  <2>3. Settled(Current)'
    BY <2>2, NetworkStays DEF ElectionInv, Settled, Current
  <2> QED BY <2>1, <2>2, <2>3, NetworkStays DEF ElectionInv
<1>6. CASE RejectBinding
  <2>1. /\ idx' = idx /\ net' = net /\ at' = "bindings" /\ at = "bindings"
        /\ mapper' = mapper /\ binder' = binder /\ discardedMappers' = discardedMappers
    BY <1>6 DEF RejectBinding
  <2>2. ASSUME NEW l \in 1..idx PROVE Bound(l)'
    <3>1. discardedBindings'[l] = discardedBindings[l]
      BY <1>6, <2>1, Trying1 DEF RejectBinding, TypeInv, StoreInv
    <3> QED BY <2>1, <3>1, BoundStays DEF ElectionInv
  <2>3. Settled(Current)'
    BY <2>1, NetworkStays DEF ElectionInv, Settled, Current
  <2> QED BY <2>1, <2>2, <2>3, NetworkStays DEF ElectionInv
<1>7. CASE ElectBinding
  <2>1. /\ idx' = idx + 1 /\ net' = net /\ at' = "layer" /\ at = "bindings"
        /\ mapper' = mapper /\ discardedMappers' = discardedMappers
        /\ discardedBindings' = discardedBindings
        /\ binder' = [binder EXCEPT ![Current][mapper[Current]] = candidate]
    BY <1>7 DEF ElectBinding
  <2>2. Settled(Current) /\ mapper[Current] \in DOMAIN Maps(Current)
    BY <2>1, Trying1, BoundFacts DEF ElectionInv
  <2>3. ASSUME NEW l \in 1..idx PROVE Bound(l)'
    <3>1. binder'[l] = binder[l]
      BY <2>1, Trying1 DEF TypeInv, StoreInv
    <3> QED BY <2>1, <3>1, BoundStays DEF ElectionInv
  <2>4. ASSUME NEW l, l = Current PROVE Bound(l)'
    <3>1. binder'[l][mapper[l]] = candidate
      BY <2>1, <2>2, <2>4, Trying1 DEF TypeInv, StoreInv
    <3>2. candidate \in DOMAIN Bindings(l, mapper[l]) \ discardedBindings[l][mapper[l]]
      BY <1>7, <2>1, <2>2, <2>4, Trying1, BoundFacts DEF ElectBinding, Discarded
    <3> QED BY <2>1, <2>2, <2>4, <3>1, <3>2, NetworkStays DEF Bound, Settled
  <2>5. ASSUME NEW l \in 1..(idx + 1) PROVE Bound(l)'
    <3>1. l \in 1..idx \/ l = Current
      BY <2>1, Trying1
    <3> QED BY <2>3, <2>4, <3>1
  <2> QED BY <2>1, <2>5, NetworkStays DEF ElectionInv
<1>8. CASE Backtrack
  <2>1. /\ idx' = idx - 1 /\ net' = net /\ at' = "layer" /\ mapper' = mapper
        /\ discardedMappers' = [discardedMappers EXCEPT ![Current] = {}]
    BY <1>8, BacktrackStep
  <2>2. idx \in Nat /\ idx > 0
    BY <1>8 DEF TypeInv, ControlInv, Backtrack
  <2>3. ASSUME NEW l \in 1..(idx - 1) PROVE Bound(l)'
    <3>1. l # idx /\ l # Current /\ l \in 1..idx
      BY <2>2 DEF Current
    <3>2. binder'[l] = binder[l] /\ discardedBindings'[l] = discardedBindings[l]
      <4>1. l \in Layer
        BY <2>2, <3>1, NetworkFacts DEF TypeInv, ControlInv
      <4> QED BY <1>8, <3>1, <4>1, BacktrackStep DEF TypeInv, StoreInv
    <3> QED BY <2>1, <3>1, <3>2, BoundStays DEF ElectionInv
  <2>4. \A l \in Layer : discardedMappers'[l] \cap Committed(l) = {}
    BY <2>1 DEF ElectionInv, TypeInv, StoreInv
  <2> QED BY <2>1, <2>3, <2>4, NetworkStays DEF ElectionInv
<1>9. CASE GiveUp
  BY <1>1, <1>9 DEF GiveUp
<1>10. CASE Over \/ UNCHANGED vars
  <2>1. UNCHANGED vars
    BY <1>10 DEF Over
  <2>2. ASSUME NEW l PROVE (Bound(l) => Bound(l)') /\ (Settled(l) => Settled(l)')
    BY <2>1, BoundStays DEF vars
  <2>3. Current' = Current
    BY <2>1 DEF vars, Current
  <2> QED BY <2>1, <2>2, <2>3, NetworkStays DEF vars, ElectionInv
<1> QED BY <1>2, <1>3, <1>4, <1>5, <1>6, <1>7, <1>8, <1>9, <1>10 DEF Next

-----------------------------------------------------------------------------
(* The context. *)
LEMMA GraphStays ==
    ASSUME net' = net, NEW n
    PROVE  /\ Buffers(n)' = Buffers(n)
           /\ \A t : Readers(t, n)' = Readers(t, n) /\ Producers(t, n)' = Producers(t, n)
           /\ \A t : IsConst(t)' = IsConst(t) /\ IsGlobal(t)' = IsGlobal(t)
           /\ \A t, l : LastRead(l, t)' = LastRead(l, t)
<1>1. \A t, m : Readers(t, m)' = Readers(t, m) /\ Producers(t, m)' = Producers(t, m)
  BY NetworkStays DEF Readers, Producers
<1>2. Buffers(n)' = Buffers(n)
  BY <1>1, NetworkStays DEF Buffers
<1> QED BY <1>1, <1>2, NetworkStays DEF LastRead, IsConst, IsGlobal

LEMMA EnteredFrame ==
    ASSUME NEW n \in Nat, net' = net, \A l \in 1..n : Elected(l)' = Elected(l)
    PROVE  Entered(n)' = Entered(n)
<1>1. \A t : TypeEntered(t, n)' = TypeEntered(t, n)
  BY ReplayFrame DEF TypeEntered
<1>2. Buffers(n + 1)' = Buffers(n + 1) /\ \A t : Readers(t, n + 1)' = Readers(t, n + 1)
  BY GraphStays
<1> QED BY <1>1, <1>2 DEF Entered

(* What the election of a rule for one more layer adds to the replay. *)
LEMMA TypeAfterStep ==
    ASSUME net \in Networks, net' = net, NEW n \in Nat, n + 1 \in Layer,
           \A l \in 1..n : Elected(l)' = Elected(l),
           NEW rule, \A l : l = n + 1 => Elected(l)' = rule, NEW t
    PROVE  TypeAfter(t, n + 1)' =
               IF t = Out(n + 1) THEN rule.out
               ELSE IF (IsConst(t) \/ IsGlobal(t)) /\ t \in Range(Ins(n + 1))
               THEN rule.ins[LastRead(n + 1, t)]
               ELSE TypeAfter(t, n)
<1>1. TypeAfter(t, n)' = TypeAfter(t, n)
  BY ReplayFrame
<1>2. /\ Readers(t, n + 1)' = Readers(t, n + 1) /\ Producers(t, n + 1)' = Producers(t, n + 1)
      /\ Readers(t, n)' = Readers(t, n) /\ Producers(t, n)' = Producers(t, n)
      /\ IsConst(t)' = IsConst(t) /\ IsGlobal(t)' = IsGlobal(t)
      /\ \A l : LastRead(l, t)' = LastRead(l, t)
  BY GraphStays
<1>3. CASE t = Out(n + 1)
  <2>1. Max({n + 1}) = n + 1
    BY MaxIs
  <2>2. Producers(t, n + 1) = {n + 1} /\ Readers(t, n + 1) = {}
    BY <1>3, OutputIsNew
  <2>3. TypeAfter(t, n + 1)' = rule.out
    BY <1>2, <2>1, <2>2 DEF TypeAfter
  <2> QED BY <1>3, <2>3
<1>4. CASE t # Out(n + 1) /\ t \in Range(Ins(n + 1)) /\ (IsConst(t) \/ IsGlobal(t))
  <2>1. Readers(t, n + 1) # {} /\ Max(Readers(t, n + 1)) = n + 1
    BY <1>4, LastReader
  <2>2. TypeAfter(t, n + 1)' = rule.ins[LastRead(n + 1, t)]
    BY <1>2, <1>4, <2>1 DEF TypeAfter
  <2> QED BY <1>4, <2>2
<1>5. CASE t # Out(n + 1) /\ ~ (t \in Range(Ins(n + 1)) /\ (IsConst(t) \/ IsGlobal(t)))
  <2>1. Producers(t, n + 1) = Producers(t, n)
    BY <1>5, ProducersStep
  <2>2. IsConst(t) \/ IsGlobal(t) => Readers(t, n + 1) = Readers(t, n)
    BY <1>5, ReadersStep
  <2>3. TypeAfter(t, n + 1)' = TypeAfter(t, n)'
    BY <1>2, <2>1, <2>2, NetworkStays DEF TypeAfter
  <2> QED BY <1>1, <1>5, <2>3
<1> QED BY <1>3, <1>4, <1>5

(* A binding that is rejected leaves the context as it was. *)
LEMMA RejectStep ==
    ASSUME TypeInv, ElectionInv, ContextInv, RejectBinding
    PROVE  ctxt' = ctxt
<1>1. at = "bindings" /\ ctxt = Entered(idx) /\ ~ (InputsFit /\ Rule.ok)
      /\ ctxt' = [ctxt EXCEPT !.type = CheckedTypes]
  BY DEF RejectBinding, ContextInv
<1>2. Trial
  BY <1>1, Trying1, BoundFacts DEF RejectBinding, ElectionInv, Trial
<1>3. ASSUME NEW t \in Range(Ins(Current)), IsGlobal(t) PROVE ctxt.type[t] \in AllTypes(net)
  <2>1. t \in Buffers(idx) /\ t \in Buffers(idx + 1)
    BY <1>1, <1>3, Trying1, NetworkFacts, InputsRegistered, BuffersStep
  <2>2. ctxt.type[t] = TypeAfter(t, idx)
    BY <1>1, <2>1 DEF Entered, TypeEntered
  <2> QED BY <1>1, <1>3, <2>2, Trying1, TypesKnown DEF ElectionInv
<1>4. ctxt.type = [t \in DOMAIN ctxt.type |-> ctxt.type[t]]
  BY <1>1 DEF Entered
<1>5. CheckedTypes = ctxt.type
  BY <1>1, <1>2, <1>3, <1>4, Trying1, Rejecting
<1> QED BY <1>1, <1>5 DEF Entered

(* An election extends the replay by one layer. *)
LEMMA ElectStep ==
    ASSUME TypeInv, ElectionInv, ContextInv, ElectBinding
    PROVE  /\ \A n : n = idx + 1 => Replay(n)' = ctxt'
           /\ \A n \in 0..idx : Replay(n)' = Replay(n)
<1>1. /\ at = "bindings" /\ ctxt = Entered(idx) /\ InputsFit /\ net' = net /\ mapper' = mapper
      /\ ctxt' = [ctxt EXCEPT !.type = Inferred(CheckedTypes)]
      /\ binder' = [binder EXCEPT ![Current][mapper[Current]] = candidate]
  BY DEF ElectBinding, ContextInv
<1>2. mapper[Current] \in DOMAIN Maps(Current)
  BY <1>1, Trying1, BoundFacts DEF ElectionInv
<1>3. \A l \in 1..idx : Elected(l)' = Elected(l)
  <2> TAKE l \in 1..idx
  <2>1. binder'[l] = binder[l]
    BY <1>1, Trying1 DEF TypeInv, StoreInv
  <2> QED BY <1>1, <2>1, NetworkStays DEF Elected
<1>4. \A l : l = idx + 1 => Elected(l)' = Rule
  <2> SUFFICES ASSUME NEW l, l = idx + 1 PROVE Elected(l)' = Rule
    OBVIOUS
  <2>1. binder'[l][mapper[l]] = candidate
    BY <1>1, <1>2, Trying1 DEF TypeInv, StoreInv
  <2> QED BY <1>1, <2>1, Trying1, NetworkStays DEF Elected, Rule
<1>5. ASSUME NEW n \in Nat, n = idx PROVE Replay(n + 1)' = ctxt'
  <2>1. \A t : TypeAfter(t, n + 1)' =
               IF t = Out(Current) THEN Rule.out
               ELSE IF (IsConst(t) \/ IsGlobal(t)) /\ t \in Range(Ins(Current))
               THEN Rule.ins[LastRead(Current, t)]
               ELSE TypeAfter(t, idx)
    BY <1>1, <1>3, <1>4, <1>5, Trying1, TypeAfterStep
  <2>2. Inferred(CheckedTypes) = [t \in Buffers(n + 1) |-> TypeAfter(t, n + 1)']
    BY <1>1, <1>5, <2>1, Trying1, Electing
  <2>3. Buffers(n + 1)' = Buffers(n + 1) /\ \A t : Readers(t, n + 1)' = Readers(t, n + 1)
    BY <1>1, GraphStays
  <2>4. ctxt' = [type  |-> [t \in Buffers(n + 1) |-> TypeAfter(t, n + 1)'],
                 users |-> [t \in Buffers(n + 1) |-> Readers(t, n + 1)]]
    BY <1>1, <1>5, <2>2 DEF Entered
  <2> QED BY <2>3, <2>4 DEF Replay
<1>6. ASSUME NEW n \in 0..idx PROVE Replay(n)' = Replay(n)
  <2>1. n \in Nat /\ \A l \in 1..n : l \in 1..idx
    BY <1>1, Trying1
  <2> QED BY <1>1, <1>3, <2>1, ReplayFrame
<1>7. idx \in Nat
  BY <1>1, Trying1
<1> QED BY <1>5, <1>6, <1>7

LEMMA ContextInit == Init => ContextInv
<1> SUFFICES ASSUME Init PROVE ContextInv
  OBVIOUS
<1>1. idx = 0 /\ ctxt = IOBindings /\ ctxtStack = <<>> /\ at = "layer"
  BY DEF Init
<1>2. \A t : Readers(t, 0) = {} /\ Producers(t, 0) = {}
  BY DEF Readers, Producers
<1>3. Buffers(0) = DOMAIN net.inputs \cup net.outputs
  BY <1>2 DEF Buffers
<1>4. \A t : TypeAfter(t, 0) = IF t \in DOMAIN net.inputs THEN net.inputs[t] ELSE Untyped
  BY <1>2 DEF TypeAfter
<1>5. Replay(0) = IOBindings
  BY <1>2, <1>3, <1>4 DEF Replay, IOBindings
<1>6. ctxtStack = [l \in 1..idx |-> Replay(l - 1)]
  BY <1>1
<1> QED BY <1>1, <1>5, <1>6 DEF ContextInv

(* While the layer is the same and the elections before it are, the replay *)
(* is.                                                                     *)
LEMMA SameLayer ==
    ASSUME TypeInv, net' = net, idx' = idx, \A l \in 1..idx : Elected(l)' = Elected(l)
    PROVE  /\ Replay(idx)' = Replay(idx) /\ Entered(idx)' = Entered(idx)
           /\ [l \in 1..idx |-> Replay(l - 1)]' = [l \in 1..idx |-> Replay(l - 1)]
           /\ Maps(Current)' = Maps(Current)
<1>1. idx \in Nat
  BY DEF TypeInv, ControlInv
<1>2. ASSUME NEW n \in 0..idx PROVE Replay(n)' = Replay(n) /\ Entered(n)' = Entered(n)
  <2>1. n \in Nat /\ \A l \in 1..n : l \in 1..idx
    BY <1>1
  <2> QED BY <2>1, ReplayFrame, EnteredFrame
<1>3. \A l \in 1..idx : Replay(l - 1)' = Replay(l - 1)
  BY <1>1, <1>2
<1>4. \A n : n = idx => Replay(n)' = Replay(n) /\ Entered(n)' = Entered(n)
  BY <1>1, <1>2
<1>5. Maps(Current)' = Maps(Current)
  BY NetworkStays DEF Current
<1> QED BY <1>3, <1>4, <1>5

LEMMA ContextStep ==
    ASSUME TypeInv, ElectionInv, ContextInv, [Next]_vars
    PROVE  ContextInv'
<1> USE DEF choices
<1>1. CASE EnterLayer \/ SkipBinding \/ GiveUp \/ Over \/ UNCHANGED vars
  <2>1. UNCHANGED <<net, idx, ctxt, ctxtStack, mapper, binder>>
    BY <1>1 DEF EnterLayer, SkipBinding, GiveUp, Over, vars
  <2>2. \A l \in 1..idx : Elected(l)' = Elected(l)
    BY <2>1, NetworkStays DEF Elected
  <2>3. CASE EnterLayer
    BY <2>1, <2>2, <2>3, SameLayer DEF EnterLayer, ContextInv
  <2>4. CASE SkipBinding \/ GiveUp
    BY <2>1, <2>2, <2>4, SameLayer DEF SkipBinding, GiveUp, ContextInv
  <2>5. CASE Over \/ UNCHANGED vars
    <3>1. UNCHANGED vars
      BY <2>5 DEF Over
    <3>2. (Accepted' <=> Accepted) /\ (Refused' <=> Refused)
      BY <2>1, <2>2, <3>1, SameLayer DEF vars, Accepted, Refused
    <3> QED BY <2>1, <2>2, <3>1, <3>2, SameLayer DEF vars, ContextInv
  <2> QED BY <1>1, <2>3, <2>4, <2>5
<1>2. CASE SkipMapper \/ RejectNode
  <2>1. UNCHANGED <<net, idx, ctxt, stCtxt, ctxtStack, at, mapper, binder>>
        /\ at = "mappers" /\ candidate' = candidate + 1
    BY <1>2 DEF SkipMapper, RejectNode
  <2>2. \A l \in 1..idx : Elected(l)' = Elected(l)
    BY <2>1, NetworkStays DEF Elected
  <2>3. candidate \in DOMAIN Maps(Current)
    BY <1>2, <2>1, Trying1, LayerFacts DEF SkipMapper, RejectNode
  <2>4. \A i \in 1..(candidate - 1) : i \in 1..(candidate' - 1) /\ i < candidate'
    BY <2>1, Trying1
  <2>5. Refused => Refused'
    <3>1. \A j \in DOMAIN Maps(Current) : j < candidate => j < candidate'
      BY <2>1, Trying1, LayerFacts
    <3> QED BY <2>1, <2>2, <3>1, SameLayer DEF Refused
  <2>6. Accepted => Accepted'
    BY <2>1, <2>2, <2>4, SameLayer DEF Accepted
  <2>7. ASSUME RejectNode, Accepted PROVE Refused'
    <3>1. PICK i \in 1..(candidate - 1) : i \in DOMAIN Maps(Current) /\ Maps(Current)[i].parses
      BY <2>7 DEF Accepted
    <3>2. i < candidate /\ candidate < candidate'
      BY <2>1, <3>1, Trying1
    <3>3. ~ Maps(Current)[candidate].parses
      BY <2>7 DEF RejectNode, Trying
    <3> QED BY <2>1, <2>2, <2>3, <3>1, <3>2, <3>3, SameLayer DEF Refused
  <2>8. CASE SkipMapper
    <3>1. ioParse' = ioParse
      BY <2>8 DEF SkipMapper
    <3> QED BY <2>1, <2>2, <2>5, <2>6, <3>1, SameLayer DEF ContextInv
  <2>9. CASE RejectNode
    <3>1. ioParse' = TRUE
      BY <2>9 DEF RejectNode
    <3> QED BY <2>1, <2>2, <2>5, <2>7, <2>9, <3>1, SameLayer DEF ContextInv
  <2> QED BY <1>2, <2>8, <2>9
<1>3. CASE AcceptNode
  <2>1. UNCHANGED <<net, idx, stCtxt, ctxtStack, binder>> /\ at = "mappers"
        /\ Maps(Current)[candidate].parses
    BY <1>3 DEF AcceptNode, Trying
  <2>2. \A l \in 1..idx : Elected(l)' = Elected(l)
    <3> TAKE l \in 1..idx
    <3>1. mapper'[l] = mapper[l]
      BY <1>3, <2>1, AcceptStep, Trying1 DEF TypeInv, StoreInv
    <3> QED BY <2>1, <3>1, NetworkStays DEF Elected
  <2>3. candidate' = candidate + 1 => Accepted'
    <3>1. candidate \in DOMAIN Maps(Current) /\ candidate \in 1..(candidate + 1 - 1)
      BY <1>3, <2>1, AcceptStep, Trying1
    <3> QED BY <2>1, <2>2, <3>1, SameLayer DEF Accepted
  <2>4. ctxt' = Entered(idx) /\ ioParse' = FALSE
        /\ (at' = "bindings" \/ (at' = "mappers" /\ candidate' = candidate + 1))
    BY <1>3, <2>1, AcceptStep
  <2> QED BY <2>1, <2>2, <2>3, <2>4, SameLayer DEF ContextInv
<1>4. CASE RejectBinding
  <2>1. UNCHANGED <<net, idx, stCtxt, ctxtStack, at, mapper, binder>> /\ at = "bindings"
    BY <1>4 DEF RejectBinding
  <2>2. \A l \in 1..idx : Elected(l)' = Elected(l)
    BY <2>1, NetworkStays DEF Elected
  <2> QED BY <1>4, <2>1, <2>2, RejectStep, SameLayer DEF ContextInv
<1>5. CASE ElectBinding
  <2>1. /\ net' = net /\ idx' = idx + 1 /\ at' = "layer" /\ at = "bindings"
        /\ ctxtStack' = Append(ctxtStack, stCtxt)
    BY <1>5 DEF ElectBinding
  <2>2. idx \in Nat /\ stCtxt = Replay(idx) /\ ctxtStack = [l \in 1..idx |-> Replay(l - 1)]
    BY <2>1, Trying1 DEF ContextInv
  <2>3. ctxtStack' = [l \in 1..(idx + 1) |-> Replay(l - 1)]
    <3>1. Len(ctxtStack) = idx /\ DOMAIN ctxtStack = 1..idx
      BY <2>2
    <3>2. ctxtStack' = [l \in 1..(idx + 1) |-> IF l = idx + 1 THEN stCtxt ELSE ctxtStack[l]]
      <4> DEFINE S == {ctxtStack[l] : l \in 1..idx} \cup {stCtxt}
      <4>1. ctxtStack \in [1..idx -> S]
        BY <2>2
      <4>3. stCtxt \in S
        OBVIOUS
      <4> HIDE DEF S
      <4>2. ctxtStack \in Seq(S)
        <5>1. [1..idx -> S] \in {[1..n -> S] : n \in Nat}
          BY <2>2
        <5>2. ctxtStack \in UNION {[1..n -> S] : n \in Nat}
          BY <4>1, <5>1
        <5> QED BY <5>2, SeqDef, Zenon
      <4>4. /\ ctxtStack' \in Seq(S) /\ Len(ctxtStack') = idx + 1
            /\ \A l \in 1..idx : ctxtStack'[l] = ctxtStack[l]
            /\ ctxtStack'[idx + 1] = stCtxt
        BY <2>1, <3>1, <4>2, <4>3, AppendProperties
      <4>5. \E n \in Nat : ctxtStack' \in [1..n -> S]
        BY <4>4, SeqDef
      <4>6. DOMAIN ctxtStack' = 1..(idx + 1)
        BY <4>4, LenProperties
      <4>7. ctxtStack' = [l \in DOMAIN ctxtStack' |-> ctxtStack'[l]]
        BY <4>5
      <4> QED BY <2>2, <4>4, <4>6, <4>7
    <3>3. \A l \in 1..(idx + 1) : (IF l = idx + 1 THEN stCtxt ELSE ctxtStack[l]) = Replay(l - 1)
      BY <2>2
    <3> QED BY <3>2, <3>3
  <2>4. \A l \in 1..(idx + 1) : Replay(l - 1)' = Replay(l - 1)
    BY <1>5, <2>2, ElectStep
  <2>5. ctxtStack' = [l \in 1..idx |-> Replay(l - 1)]'
    BY <2>1, <2>3, <2>4
  <2>6. Replay(idx)' = ctxt'
    BY <1>5, <2>1, ElectStep
  <2> QED BY <2>1, <2>5, <2>6 DEF ContextInv
<1>6. CASE Backtrack
  <2>1. /\ net' = net /\ idx' = idx - 1 /\ at' = "layer" /\ mapper' = mapper
        /\ ctxt' = Replay(idx - 1)
        /\ ctxtStack' = [l \in 1..(idx - 1) |-> Replay(l - 1)]
    BY <1>6, BacktrackStep
  <2>2. idx \in Nat /\ idx > 0
    BY <1>6 DEF TypeInv, ControlInv, Backtrack
  <2>3. ASSUME NEW n \in 0..(idx - 1) PROVE Replay(n)' = Replay(n)
    <3>1. ASSUME NEW l \in 1..n PROVE Elected(l)' = Elected(l)
      <4>1. l \in Layer /\ l # idx
        BY <2>2, NetworkFacts DEF TypeInv, ControlInv
      <4>2. binder'[l] = binder[l]
        BY <1>6, <4>1, BacktrackStep DEF TypeInv, StoreInv
      <4> QED BY <2>1, <4>2, NetworkStays DEF Elected
    <3> QED BY <2>1, <2>2, <3>1, ReplayFrame
  <2>4. ctxtStack' = [l \in 1..idx |-> Replay(l - 1)]'
    BY <2>1, <2>2, <2>3
  <2>5. Replay(idx)' = ctxt'
    BY <2>1, <2>2, <2>3
  <2> QED BY <2>1, <2>4, <2>5 DEF ContextInv
<1> QED BY <1>1, <1>2, <1>3, <1>4, <1>5, <1>6 DEF Next

-----------------------------------------------------------------------------
(* The search. *)

(* Whether a choice is consistent at a layer depends on what it gives that *)
(* layer and those before.                                                 *)
LEMMA ConsistentFrame ==
    ASSUME net \in Networks, NEW l \in Layer, NEW c, NEW d, \A i \in 1..l : c[i] = d[i]
    PROVE  ConsistentAt(c, l) => ConsistentAt(d, l)
<1>1. l \in Nat /\ l \in 1..l
  BY NetworkFacts
<1>2. \A i \in 1..l : Chosen(c, i) = Chosen(d, i)
  BY DEF Chosen
<1>3. ASSUME NEW t \in Range(Ins(l)), ~ IsConst(t) PROVE Had(c, t, l) = Had(d, t, l)
  <2>1. Readers(t, l - 1) \in SUBSET (1..l) /\ Producers(t, l - 1) \in SUBSET (1..l)
    BY <1>1 DEF Readers, Producers
  <2>2. CASE IsGlobal(t) /\ Readers(t, l - 1) # {}
    <3>1. Max(Readers(t, l - 1)) \in 1..l
      BY <1>1, <2>1, <2>2, IntervalMax
    <3> QED BY <1>2, <2>2, <3>1 DEF Had
  <2>3. CASE ~ (IsGlobal(t) /\ Readers(t, l - 1) # {}) /\ t \in DOMAIN net.inputs
    BY <2>3 DEF Had
  <2>4. CASE ~ (IsGlobal(t) /\ Readers(t, l - 1) # {}) /\ t \notin DOMAIN net.inputs
    <3>1. Producers(t, l - 1) # {}
      BY <1>3, <2>4, InputFacts DEF Producers
    <3>2. Max(Producers(t, l - 1)) \in 1..l
      BY <1>1, <2>1, <3>1, IntervalMax
    <3> QED BY <1>2, <2>4, <3>2 DEF Had
  <2> QED BY <2>2, <2>3, <2>4
<1>4. ASSUME NEW k \in DOMAIN Ins(l), Demanded(c, l, k) PROVE Demanded(d, l, k)
  <2>1. Ins(l)[k] \in Range(Ins(l))
    BY DEF Range
  <2> QED BY <1>1, <1>2, <1>3, <1>4, <2>1 DEF Demanded
<1> QED BY <1>1, <1>2, <1>4 DEF ConsistentAt

(* What has been elected for the layers before stays. *)
LEMMA NoSolutionStays ==
    ASSUME net' = net, NEW l, NEW b, \A i \in 1..(l - 1) : Found'[i] = Found[i], NoSolution(l, b)
    PROVE  NoSolution(l, b)'
BY ConsistencyStays DEF NoSolution

LEMMA FoundStays ==
    ASSUME TypeInv, net' = net, NEW n \in Nat, n <= Len(net.layers),
           \A i \in 1..n : mapper'[i] = mapper[i] /\ binder'[i][mapper[i]] = binder[i][mapper[i]]
    PROVE  \A i \in 1..n : Found'[i] = Found[i]
<1>1. \A i \in 1..n : i \in Layer
  BY NetworkFacts DEF TypeInv, ControlInv
<1>2. Layer' = Layer
  BY NetworkStays
<1> QED BY <1>1, <1>2 DEF Found

(* A binding that is rejected is given by no solution. *)
LEMMA RejectedNever ==
    ASSUME TypeInv, ElectionInv, ContextInv, RejectBinding
    PROVE  NoSolution(Current, candidate)
<1>1. at = "bindings" /\ ctxt = Entered(idx) /\ ~ (InputsFit /\ Rule.ok)
  BY DEF RejectBinding, ContextInv
<1>2. Trial /\ Settled(Current) /\ \A l \in 1..idx : Bound(l)
  BY <1>1, Trying1, BoundFacts DEF RejectBinding, ElectionInv, Trial
<1>3. ASSUME NEW c \in Solutions, c[Current] = candidate, \A i \in 1..idx : c[i] = Found[i]
      PROVE  FALSE
  <2>1. ConsistentAt(c, Current)
    BY <1>1, Trying1 DEF Solutions, Consistent
  <2>2. /\ Chosen(c, Current) = Rule
        /\ InputsFit <=> \A k \in DOMAIN Ins(Current) : Demanded(c, Current, k)
    BY <1>1, <1>2, <1>3, Trying1, FitsAsDemanded
  <2> QED BY <1>1, <2>1, <2>2 DEF ConsistentAt
<1>4. Current - 1 = idx
  BY <1>1, Trying1
<1> QED BY <1>3, <1>4 DEF NoSolution

(* When nothing is left for a layer, no solution agrees with the elections. *)
LEMMA NoExtension ==
    ASSUME TypeInv, ElectionInv, SearchInv, Exhausted
    PROVE  \A c \in Solutions : \E i \in 1..idx : c[i] # Found[i]
<1>1. at \in {"mappers", "bindings"}
  BY DEF Exhausted
<1>2. SUFFICES ASSUME NEW c \in Solutions, \A i \in 1..idx : c[i] = Found[i] PROVE FALSE
  OBVIOUS
<1>3. ConsistentAt(c, Current)
  BY <1>1, Trying1 DEF Solutions, Consistent
<1>4. CASE at = "mappers"
  <2>1. candidate > Len(Maps(Current))
    BY <1>4 DEF Exhausted
  <2>2. \A m \in DOMAIN Maps(Current) : m \in 1..(candidate - 1)
    BY <1>1, <2>1, Trying1, LayerFacts
  <2>3. Committed(Current) = {}
    BY <1>4, <2>2 DEF ElectionInv, Committed
  <2> QED BY <1>3, <2>3 DEF ConsistentAt
<1>5. CASE at = "bindings"
  <2>1. Settled(Current)
    BY <1>5 DEF ElectionInv
  <2>2. FirstMapper(Current) \in DOMAIN Maps(Current) /\ mapper[Current] = FirstMapper(Current)
    BY <2>1 DEF Settled, Committed
  <2>3. c[Current] \in 1..(candidate - 1)
    <3>1. c[Current] \in DOMAIN Bindings(Current, mapper[Current])
      BY <1>3, <2>2 DEF ConsistentAt
    <3>2. candidate > Len(Bindings(Current, mapper[Current]))
      BY <1>5 DEF Exhausted
    <3> QED BY <1>1, <2>1, <3>1, <3>2, Trying1, BoundFacts
  <2>4. c[Current] \in discardedBindings[Current][FirstMapper(Current)]
    BY <1>5, <2>2, <2>3 DEF SearchInv, Discarded
  <2>5. NoSolution(Current, c[Current])
    BY <1>1, <2>2, <2>4, Trying1 DEF SearchInv
  <2>6. Current - 1 = idx
    BY <1>1, Trying1
  <2> QED BY <1>2, <2>5, <2>6 DEF NoSolution
<1> QED BY <1>1, <1>4, <1>5

LEMMA SearchInit == Init => SearchInv
<1> SUFFICES ASSUME Init PROVE SearchInv
  OBVIOUS
<1>1. \A l \in Layer : \A m \in DOMAIN Maps(l) : discardedBindings[l][m] = {}
  BY DEF Init, PerMapper
<1>2. idx = 0 /\ at = "layer"
  BY DEF Init
<1> QED BY <1>1, <1>2 DEF SearchInv

(* Steps that elect nothing and discard no binding. *)
LEMMA SearchKept ==
    ASSUME TypeInv, ElectionInv, SearchInv,
           UNCHANGED <<net, idx, binder, discardedBindings>>,
           \A i \in 1..idx : mapper'[i] = mapper[i],
           at' = "bindings" => \/ candidate' = 1
                               \/ at = "bindings" /\ mapper' = mapper /\ candidate' = candidate
                               \/ /\ at = "bindings" /\ mapper' = mapper
                                  /\ candidate' = candidate + 1 /\ candidate \in Discarded,
           at' = "failed" => Solutions = {}
    PROVE  SearchInv'
<1>1. idx \in Nat /\ idx <= Len(net.layers) /\ Len(net.layers) \in Nat
  BY NetworkFacts DEF TypeInv, ControlInv
<1>2. \A i \in 1..idx : Found'[i] = Found[i]
  BY <1>1, FoundStays
<1>3. ASSUME NEW l \in 1..idx PROVE ConsistentAt(Found, l)'
  <2>1. l \in Layer /\ \A i \in 1..l : Found[i] = Found'[i]
    BY <1>1, <1>2, NetworkFacts DEF TypeInv, ControlInv
  <2>2. ConsistentAt(Found, l)
    BY DEF SearchInv
  <2>3. ConsistentAt(Found', l)
    BY <2>1, <2>2, ConsistentFrame DEF TypeInv, ControlInv
  <2> QED BY <2>3, ConsistencyStays
<1>4. ASSUME NEW l \in 1..idx, NEW b \in 1..(Found'[l] - 1)
      PROVE  b \in discardedBindings'[l][mapper'[l]]
  BY <1>2 DEF SearchInv
<1>5. ASSUME at' = "bindings", NEW b \in 1..(candidate' - 1) PROVE b \in Discarded'
  <2>1. CASE candidate' = 1
    BY <2>1
  <2>2. CASE candidate' # 1
    <3>1. at = "bindings" /\ mapper' = mapper /\ b \in Discarded
      BY <1>5, <2>2, Trying1 DEF SearchInv
    <3> QED BY <3>1 DEF Discarded, Current
  <2> QED BY <2>1, <2>2
<1>6. ASSUME NEW l \in Layer, l <= Current, FirstMapper(l) \in DOMAIN Maps(l),
             NEW b \in discardedBindings[l][FirstMapper(l)]
      PROVE  NoSolution(l, b)'
  <2>1. \A i \in 1..(l - 1) : Found'[i] = Found[i]
    BY <1>1, <1>2, <1>6, NetworkFacts DEF TypeInv, ControlInv, Current
  <2>2. NoSolution(l, b)
    BY <1>6 DEF SearchInv
  <2> QED BY <2>1, <2>2, NoSolutionStays
<1>7. Current' = Current
  BY DEF Current
<1>8. at' = "failed" => Solutions' = {}
  BY ConsistencyStays
<1>9. \A l \in Layer : l > Current => \A m \in DOMAIN Maps(l) : discardedBindings'[l][m] = {}
  BY DEF SearchInv
<1> QED BY <1>3, <1>4, <1>5, <1>6, <1>7, <1>8, <1>9, NetworkStays DEF SearchInv

LEMMA SearchStep ==
    ASSUME TypeInv, ElectionInv, ContextInv, SearchInv, [Next]_vars
    PROVE  SearchInv'
<1> USE DEF choices
<1>1. CASE EnterLayer \/ SkipMapper \/ RejectNode \/ SkipBinding \/ Over \/ UNCHANGED vars
  <2>1. UNCHANGED <<net, idx, mapper, binder, discardedBindings>>
    BY <1>1 DEF EnterLayer, SkipMapper, RejectNode, SkipBinding, Over, vars
  <2>2. at' = "bindings" => \/ candidate' = 1
                            \/ at = "bindings" /\ mapper' = mapper /\ candidate' = candidate
                            \/ /\ at = "bindings" /\ mapper' = mapper
                               /\ candidate' = candidate + 1 /\ candidate \in Discarded
    BY <1>1, <2>1 DEF EnterLayer, SkipMapper, RejectNode, SkipBinding, Over, vars
  <2>3. at' = "failed" => Solutions = {}
    BY <1>1 DEF EnterLayer, SkipMapper, RejectNode, SkipBinding, Over, vars, SearchInv
  <2> QED BY <2>1, <2>2, <2>3, SearchKept
<1>2. CASE AcceptNode
  <2>1. UNCHANGED <<net, idx, binder, discardedBindings>> /\ at = "mappers"
    BY <1>2 DEF AcceptNode
  <2>2. \A i \in 1..idx : mapper'[i] = mapper[i]
    BY <1>2, <2>1, AcceptStep, Trying1 DEF TypeInv, StoreInv
  <2>3. (at' = "bindings" => candidate' = 1) /\ at' # "failed"
    BY <1>2, <2>1, AcceptStep
  <2> QED BY <2>1, <2>2, <2>3, SearchKept
<1>3. CASE GiveUp
  <2>1. UNCHANGED <<net, idx, mapper, binder, discardedBindings>> /\ at' = "failed"
        /\ idx = 0 /\ Exhausted
    BY <1>3 DEF GiveUp
  <2>2. Solutions = {}
    BY <2>1, NoExtension
  <2> QED BY <2>1, <2>2, SearchKept
<1>4. CASE RejectBinding
  <2>1. /\ UNCHANGED <<net, idx, mapper, binder>> /\ at' = "bindings" /\ at = "bindings"
        /\ candidate' = candidate + 1
        /\ discardedBindings' = [discardedBindings EXCEPT
                                    ![Current][mapper[Current]] = @ \cup {candidate}]
    BY <1>4 DEF RejectBinding
  <2>2. /\ Settled(Current) /\ mapper[Current] \in DOMAIN Maps(Current)
        /\ mapper[Current] = FirstMapper(Current)
    BY <2>1, Trying1, BoundFacts DEF ElectionInv
  <2>3. /\ \A l \in Layer : l # Current => discardedBindings'[l] = discardedBindings[l]
        /\ discardedBindings'[Current][mapper[Current]] = Discarded \cup {candidate}
    BY <2>1, <2>2, Trying1 DEF Discarded, TypeInv, StoreInv
  <2>4. Found' = Found /\ Current' = Current
    BY <2>1, NetworkStays DEF Found, Current
  <2>5. \A l \in 1..idx : ConsistentAt(Found, l)'
    BY <2>1, <2>4, ConsistencyStays DEF SearchInv
  <2>6. ASSUME NEW l \in 1..idx, NEW b \in 1..(Found'[l] - 1)
        PROVE  b \in discardedBindings'[l][mapper'[l]]
    BY <2>1, <2>3, <2>4, Trying1 DEF SearchInv
  <2>7. ASSUME NEW b \in 1..(candidate' - 1) PROVE b \in Discarded'
    <3>1. Discarded' = Discarded \cup {candidate}
      BY <2>1, <2>3, <2>4 DEF Discarded
    <3>2. b \in 1..(candidate - 1) \/ b = candidate
      BY <2>1, Trying1
    <3> QED BY <2>1, <3>1, <3>2 DEF SearchInv
  <2>8. ASSUME NEW l \in Layer, l <= Current, FirstMapper(l) \in DOMAIN Maps(l),
               NEW b \in discardedBindings'[l][FirstMapper(l)]
        PROVE  NoSolution(l, b)'
    <3>1. b \in discardedBindings[l][FirstMapper(l)] \/ (l = Current /\ b = candidate)
      BY <2>2, <2>3 DEF Discarded
    <3>2. NoSolution(l, b)
      BY <1>4, <2>8, <3>1, RejectedNever DEF SearchInv
    <3> QED BY <2>1, <2>4, <3>2, NoSolutionStays
  <2>9. \A l \in Layer : l > Current => \A m \in DOMAIN Maps(l) : discardedBindings'[l][m] = {}
    BY <2>1, <2>3, Trying1 DEF SearchInv
  <2> QED BY <2>1, <2>4, <2>5, <2>6, <2>7, <2>8, <2>9, NetworkStays DEF SearchInv
<1>5. CASE ElectBinding
  <2>1. /\ UNCHANGED <<net, mapper, discardedBindings>> /\ idx' = idx + 1
        /\ at' = "layer" /\ at = "bindings"
        /\ binder' = [binder EXCEPT ![Current][mapper[Current]] = candidate]
        /\ InputsFit /\ Rule.ok
    BY <1>5 DEF ElectBinding
  <2>2. /\ Settled(Current) /\ mapper[Current] \in DOMAIN Maps(Current)
        /\ mapper[Current] = FirstMapper(Current)
        /\ candidate \in DOMAIN Bindings(Current, mapper[Current])
    BY <1>5, <2>1, Trying1, BoundFacts DEF ElectionInv, ElectBinding
  <2>3. \A i \in 1..idx : Found'[i] = Found[i]
    <3>1. \A i \in 1..idx : binder'[i] = binder[i]
      BY <2>1, Trying1 DEF TypeInv, StoreInv
    <3>2. idx \in Nat /\ idx <= Len(net.layers)
      BY <2>1, NetworkFacts DEF TypeInv, ControlInv
    <3> QED BY <2>1, <3>1, <3>2, FoundStays
  <2>4. Found'[Current] = candidate
    <3>1. binder'[Current][mapper[Current]] = candidate
      BY <2>1, <2>2, Trying1 DEF TypeInv, StoreInv
    <3>2. Layer' = Layer
      BY <2>1, NetworkStays
    <3> QED BY <2>1, <3>1, <3>2, Trying1 DEF Found
  <2>5. ConsistentAt(Found', Current)
    <3>1. Trial /\ ctxt = Entered(idx) /\ \A l \in 1..idx : Bound(l)
      BY <2>1, <2>2 DEF Trial, ContextInv, ElectionInv
    <3>2. /\ Chosen(Found', Current) = Rule
          /\ \A k \in DOMAIN Ins(Current) : Demanded(Found', Current, k)
      BY <2>1, <2>2, <2>3, <2>4, <3>1, Trying1, FitsAsDemanded
    <3>3. Committed(Current) # {}
      BY <2>2 DEF Settled
    <3> QED BY <2>1, <2>2, <2>4, <3>2, <3>3 DEF ConsistentAt
  <2>6. ASSUME NEW l \in 1..(idx + 1) PROVE ConsistentAt(Found, l)'
    <3>1. CASE l = Current
      BY <2>1, <2>5, <3>1, ConsistencyStays
    <3>2. CASE l \in 1..idx
      <4>1. l \in Layer /\ \A i \in 1..l : Found[i] = Found'[i]
        BY <2>1, <2>3, <3>2, Trying1
      <4>2. ConsistentAt(Found, l)
        BY <3>2 DEF SearchInv
      <4>3. ConsistentAt(Found', l)
        BY <2>1, <4>1, <4>2, ConsistentFrame, Trying1
      <4> QED BY <2>1, <4>3, ConsistencyStays
    <3> QED BY <2>1, <3>1, <3>2, Trying1
  <2>7. ASSUME NEW l \in 1..(idx + 1), NEW b \in 1..(Found'[l] - 1)
        PROVE  b \in discardedBindings'[l][mapper'[l]]
    <3>1. CASE l = Current
      BY <2>1, <2>4, <2>7, <3>1 DEF SearchInv, Discarded
    <3>2. CASE l \in 1..idx
      BY <2>1, <2>3, <2>7, <3>2 DEF SearchInv
    <3> QED BY <2>1, <3>1, <3>2, Trying1
  <2>8. ASSUME NEW l \in Layer, l <= idx + 2, FirstMapper(l) \in DOMAIN Maps(l),
               NEW b \in discardedBindings[l][FirstMapper(l)]
        PROVE  NoSolution(l, b)'
    <3>1. l <= Current
      BY <2>1, <2>8, Trying1, NetworkFacts DEF SearchInv
    <3>2. NoSolution(l, b)
      BY <2>8, <3>1 DEF SearchInv
    <3>3. \A i \in 1..(l - 1) : Found'[i] = Found[i]
      BY <2>1, <2>3, <3>1, Trying1, NetworkFacts
    <3> QED BY <2>1, <3>2, <3>3, NoSolutionStays
  <2>9. ASSUME NEW l \in Layer, l > idx + 2, NEW m \in DOMAIN Maps(l)
        PROVE  discardedBindings[l][m] = {}
    BY <2>1, <2>9, Trying1, NetworkFacts DEF SearchInv
  <2>10. Current' = idx + 2
    BY <2>1, Trying1 DEF Current
  <2> QED BY <2>1, <2>6, <2>7, <2>8, <2>9, <2>10, NetworkStays DEF SearchInv
<1>6. CASE Backtrack
  <2>1. /\ net' = net /\ idx' = idx - 1 /\ at' = "layer" /\ mapper' = mapper
        /\ idx \in Layer /\ Bound(idx) /\ Exhausted
    BY <1>6, BacktrackStep
  <2>2. at \in {"mappers", "bindings"} /\ idx \in Nat /\ idx > 0 /\ idx <= Len(net.layers)
        /\ Len(net.layers) \in Nat
    BY <1>6, NetworkFacts DEF Exhausted, Backtrack, TypeInv, ControlInv
  <2>3. mapper[idx] = FirstMapper(idx) /\ FirstMapper(idx) \in DOMAIN Maps(idx)
    BY <2>1, BoundFacts DEF Bound
  <2>4. \A l \in Layer : l # idx /\ l # Current =>
            binder'[l] = binder[l] /\ discardedBindings'[l] = discardedBindings[l]
    BY <1>6, BacktrackStep DEF TypeInv, StoreInv
  <2>5. /\ \A m \in DOMAIN Maps(Current) : discardedBindings'[Current][m] = {}
        /\ discardedBindings'[idx][mapper[idx]] = AlsoTried(idx)
    <3>1. Current # idx /\ Current \in Layer
      BY <2>2, Trying1
    <3>2. discardedBindings'[Current] = Reopened(Current)
      BY <1>6, <3>1, BacktrackStep DEF TypeInv, StoreInv
    <3>3. discardedBindings'[idx] = [discardedBindings[idx] EXCEPT ![mapper[idx]] = AlsoTried(idx)]
      BY <1>6, <2>1, <3>1, BacktrackStep DEF TypeInv, StoreInv
    <3> QED BY <2>1, <2>3, <3>2, <3>3 DEF Reopened, PerMapper, TypeInv, StoreInv
  <2>6. \A i \in 1..(idx - 1) : Found'[i] = Found[i]
    <3>1. \A i \in 1..(idx - 1) : binder'[i] = binder[i]
      BY <2>2, <2>4, NetworkFacts, Trying1
    <3> QED BY <2>1, <2>2, <3>1, FoundStays
  <2>7. ASSUME NEW l \in 1..(idx - 1) PROVE ConsistentAt(Found, l)'
    <3>1. l \in Layer /\ l \in 1..idx /\ \A i \in 1..l : Found[i] = Found'[i]
      BY <2>2, <2>6, Trying1
    <3>2. ConsistentAt(Found', l)
      BY <2>2, <3>1, ConsistentFrame, Trying1 DEF SearchInv
    <3> QED BY <2>1, <3>2, ConsistencyStays
  <2>8. ASSUME NEW l \in 1..(idx - 1), NEW b \in 1..(Found'[l] - 1)
        PROVE  b \in discardedBindings'[l][mapper'[l]]
    <3>1. l \in Layer /\ l \in 1..idx /\ l # idx /\ l # Current
      BY <2>2, Trying1
    <3> QED BY <2>1, <2>4, <2>6, <3>1 DEF SearchInv
  <2>9. NoSolution(idx, binder[idx][mapper[idx]])
    <3> SUFFICES ASSUME NEW c \in Solutions, c[idx] = binder[idx][mapper[idx]],
                        \A i \in 1..(idx - 1) : c[i] = Found[i]
                 PROVE  FALSE
      BY DEF NoSolution
    <3>1. Found[idx] = binder[idx][mapper[idx]]
      BY <2>1 DEF Found
    <3>2. \A i \in 1..idx : i \in 1..(idx - 1) \/ i = idx
      BY <2>2
    <3>3. \A i \in 1..idx : c[i] = Found[i]
      BY <3>1, <3>2
    <3> QED BY <2>1, <3>3, NoExtension
  <2>10. ASSUME NEW l \in Layer, l <= idx, FirstMapper(l) \in DOMAIN Maps(l),
                NEW b \in discardedBindings'[l][FirstMapper(l)]
         PROVE  NoSolution(l, b)'
    <3>1. l # Current /\ l <= Current
      BY <2>2, <2>10, Trying1, NetworkFacts
    <3>2. NoSolution(l, b)
      <4>1. CASE l = idx /\ b \notin discardedBindings[l][FirstMapper(l)]
        BY <2>3, <2>5, <2>9, <2>10, <4>1 DEF AlsoTried
      <4>2. CASE b \in discardedBindings[l][FirstMapper(l)]
        BY <2>10, <3>1, <4>2 DEF SearchInv
      <4>3. CASE l # idx
        BY <2>4, <2>10, <3>1, <4>3 DEF SearchInv
      <4> QED BY <4>1, <4>2, <4>3
    <3>3. \A i \in 1..(l - 1) : Found'[i] = Found[i]
      BY <2>2, <2>6, <2>10, NetworkFacts, Trying1
    <3> QED BY <2>1, <3>2, <3>3, NoSolutionStays
  <2>11. ASSUME NEW l \in Layer, l > idx, NEW m \in DOMAIN Maps(l)
         PROVE  discardedBindings'[l][m] = {}
    <3>1. l = Current \/ l > Current
      BY <2>2, <2>11, Trying1, NetworkFacts
    <3>2. CASE l = Current
      BY <2>5, <3>2, <2>11
    <3>3. CASE l > Current
      <4>1. l # idx /\ l # Current
        BY <2>2, <2>11, <3>3, Trying1, NetworkFacts
      <4> QED BY <2>4, <3>3, <4>1 DEF SearchInv
    <3> QED BY <3>1, <3>2, <3>3
  <2>12. Current' = idx
    BY <2>1, <2>2 DEF Current
  <2> QED BY <2>1, <2>7, <2>8, <2>10, <2>11, <2>12, NetworkStays DEF SearchInv
<1> QED BY <1>1, <1>2, <1>3, <1>4, <1>5, <1>6 DEF Next

-----------------------------------------------------------------------------
(* The theorems. *)

(* The invariant holds in every reachable state. *)
THEOREM SearchInvariance == Spec => []Inv
<1>1. Init => Inv
  BY TypeInit, ElectionInit, ContextInit, SearchInit DEF Inv
<1>2. ASSUME Inv, [Next]_vars PROVE Inv'
  <2>1. ControlInv' /\ StoreInv'
    BY <1>2, ControlStep, StoreStep DEF Inv
  <2>2. TypeInv'
    BY <2>1 DEF TypeInv
  <2>3. ElectionInv' /\ ContextInv' /\ SearchInv'
    BY <1>2, ElectionStep, ContextStep, SearchStep DEF Inv
  <2> QED BY <2>2, <2>3 DEF Inv
<1> QED BY <1>1, <1>2, PTL DEF Spec

(* Whatever has been tried and taken back, the context and its copies are   *)
(* what the elected bindings of the layers before make of them, and no      *)
(* buffer is missing or registered twice.                                   *)
THEOREM ContextReplayed == Spec => []ContextIsReplay
<1>1. ASSUME Inv PROVE ContextIsReplay
  <2>1. /\ at \in Loop /\ idx \in Nat
        /\ ctxtStack = [l \in 1..idx |-> Replay(l - 1)]
        /\ at \in {"layer", "parsed"} => ctxt = Replay(idx)
        /\ at \in {"mappers", "bindings"} => stCtxt = Replay(idx)
    BY <1>1 DEF Inv, TypeInv, ControlInv, ContextInv
  <2>2. at # "error"
    BY <2>1 DEF Loop
  <2>3. Len(ctxtStack) = idx /\ \A l \in 1..idx : ctxtStack[l] = Replay(l - 1)
    BY <2>1
  <2> QED BY <2>1, <2>2, <2>3 DEF ContextIsReplay
<1> QED BY <1>1, SearchInvariance, PTL

(* Of two different choices that are consistent at the layers before their *)
(* first difference, one is sooner: the search has found the soonest.      *)
LEMMA FoundIsSoonest ==
    ASSUME Inv, at = "parsed", NEW c \in Solutions
    PROVE  c = Found \/ Sooner(Found, c)
<1>1. idx = Len(net.layers) /\ Layer = 1..idx /\ idx \in Nat
  BY NetworkFacts DEF Inv, TypeInv, ControlInv
<1>2. SUFFICES ASSUME c # Found PROVE Sooner(Found, c)
  OBVIOUS
<1>3. c = [l \in Layer |-> c[l]]
  BY DEF Solutions, Assignments
<1> DEFINE T == {l \in Layer : c[l] # Found[l]}
<1>4. T # {}
  BY <1>2, <1>3 DEF Found
<1>5. T \in SUBSET Nat
  BY <1>1
<1>6. PICK l \in T : \A y \in T : l <= y
  BY <1>4, <1>5, NatMin
<1>7. l \in Layer /\ l \in 1..idx /\ c[l] # Found[l]
  BY <1>1, <1>6
<1>8. \A i \in 1..(l - 1) : c[i] = Found[i]
  <2> TAKE i \in 1..(l - 1)
  <2>1. i \in Layer /\ ~ (l <= i)
    BY <1>1, <1>7
  <2> QED BY <1>6, <2>1
<1>9. Bound(l)
  BY <1>7 DEF Inv, ElectionInv
<1>10. /\ mapper[l] = FirstMapper(l) /\ FirstMapper(l) \in DOMAIN Maps(l)
       /\ DOMAIN Bindings(l, mapper[l]) = 1..Len(Bindings(l, mapper[l]))
       /\ Len(Bindings(l, mapper[l])) \in Nat
  BY <1>7, <1>9, BoundFacts DEF Bound, Inv
<1>11. c[l] \in DOMAIN Bindings(l, mapper[l]) /\ Found[l] \in DOMAIN Bindings(l, mapper[l])
  <2>1. ConsistentAt(c, l)
    BY <1>7 DEF Solutions, Consistent
  <2> QED BY <1>7, <1>9, <1>10, <2>1 DEF ConsistentAt, Bound, Found
<1>12. ~ (c[l] < Found[l])
  <2> SUFFICES ASSUME c[l] < Found[l] PROVE FALSE
    OBVIOUS
  <2>1. c[l] \in 1..(Found[l] - 1)
    BY <1>10, <1>11
  <2>2. c[l] \in discardedBindings[l][FirstMapper(l)]
    BY <1>7, <1>10, <2>1 DEF Inv, SearchInv
  <2>3. l <= Current
    BY <1>1, <1>7 DEF Current
  <2>4. NoSolution(l, c[l])
    BY <1>7, <1>10, <2>2, <2>3 DEF Inv, SearchInv
  <2> QED BY <1>8, <2>4 DEF NoSolution
<1>13. Found[l] < c[l]
  BY <1>7, <1>10, <1>11, <1>12
<1> QED BY <1>7, <1>8, <1>13 DEF Sooner

(* Parsing fails only when there is no consistent choice of bindings, and   *)
(* otherwise ends with the first of them in the order of preference.        *)
THEOREM SearchIsExact == Spec => []SearchExact
<1>1. ASSUME Inv PROVE SearchExact
  <2>1. at = "failed" => Solutions = {}
    BY <1>1 DEF Inv, SearchInv
  <2>2. ASSUME at = "parsed"
        PROVE  /\ \A l \in Layer : mapper[l] = FirstMapper(l)
               /\ Found \in Solutions
               /\ \A c \in Solutions : c = Found \/ Sooner(Found, c)
    <3>1. Layer = 1..idx
      BY <1>1, <2>2, NetworkFacts DEF Inv, TypeInv, ControlInv
    <3>2. \A l \in Layer : Bound(l) /\ ConsistentAt(Found, l)
      BY <1>1, <3>1 DEF Inv, ElectionInv, SearchInv
    <3>3. ASSUME NEW l \in Layer
          PROVE  /\ mapper[l] = FirstMapper(l)
                 /\ Found[l] \in UNION {UNION {DOMAIN Bindings(i, m) : m \in DOMAIN Maps(i)} :
                                            i \in Layer}
      <4>1. Found[l] \in DOMAIN Bindings(l, FirstMapper(l)) /\ FirstMapper(l) \in DOMAIN Maps(l)
            /\ mapper[l] = FirstMapper(l)
        BY <3>2 DEF Bound, Settled, Committed, Found
      <4> QED BY <4>1
    <3>4. Found \in Solutions
      BY <3>2, <3>3 DEF Solutions, Assignments, Consistent, Found
    <3> QED BY <1>1, <2>2, <3>3, <3>4, FoundIsSoonest
  <2> QED BY <2>1, <2>2 DEF SearchExact, Found
<1> QED BY <1>1, SearchInvariance, PTL
=============================================================================
