--------------------------- MODULE MappingSearch ---------------------------
(***************************************************************************)
(* NetworkContainer.parse (DeeployTypes.py): the depth-first search for a  *)
(* mapper (a parser with its bindings) and a binding (a typing rule with   *)
(* its kernel) for every layer, in schedule order.  One variable, ctxt, is *)
(* the NetworkContext that the loop works on.  NetworkContext.copy is      *)
(* shallow, so what a mapper or a binding that fails has registered in the *)
(* context stays there; only stCtxt, the deep copy at the top of the loop, *)
(* is safe from it.                                                        *)
(*                                                                         *)
(* A network is a record with the fields                                   *)
(*   layers   [ins, out, maps] per layer; a mapper is [parses, fits,       *)
(*            bindings]: what parseNode and parseNodeCtxt return, and its  *)
(*            bindings [ins, out, ok]: the types of its rule and what      *)
(*            checkOutputType returns                                      *)
(*   inputs   the type of each graph input (inputTypes)                    *)
(*   outputs  the set of graph outputs                                     *)
(*   consts   per constant, the types that can hold its values             *)
(***************************************************************************)
EXTENDS Integers, Sequences, FiniteSets, SequencesExt

CONSTANTS
    Networks,      \* the networks that are tried
    Widens(_, _)   \* Widens(t, u): partialOrderUpcast, t can hold any u

VARIABLES
    net,           \* the network that is parsed
    idx,           \* the layers that are mapped so far
    ctxt,          \* the context: types and users of the registered buffers
    stCtxt,        \* the copy of it made at the top of the loop
    ctxtStack,     \* the copies made when each mapped layer was entered
    at,            \* where the loop is
    candidate,     \* the position of the mapper, then of the binding, tried
    ioParse,       \* whether the next parser registers the node's tensors
    mapper,        \* per layer, the position of the elected mapper, or 0
    binder,        \* per layer and mapper, the elected binding, or 0
    discardedMappers,  \* per layer, positions of mappers
    discardedBindings  \* per layer and mapper, positions of bindings

(* A function that is a finite sequence. *)
Listed(s) == Len(s) \in Nat /\ DOMAIN s = 1..Len(s)

(* What the frontend hands over: the layers in an order of the graph, every *)
(* tensor written once, constants and graph inputs by nobody, and rules     *)
(* with a type for each input.                                              *)
LayerWellFormed(n, l) ==
    LET layer == n.layers[l]
    IN  /\ Listed(layer.ins) /\ Listed(layer.maps)
        /\ \A m \in DOMAIN layer.maps :
               /\ Listed(layer.maps[m].bindings)
               /\ \A b \in DOMAIN layer.maps[m].bindings :
                      DOMAIN layer.maps[m].bindings[b].ins = DOMAIN layer.ins
        /\ \A k \in DOMAIN layer.ins :
               layer.ins[k] \in DOMAIN n.inputs \cup DOMAIN n.consts
                               \cup {n.layers[i].out : i \in 1..(l - 1)}
        /\ layer.out \notin DOMAIN n.inputs \cup DOMAIN n.consts
        /\ \A i \in DOMAIN n.layers : i # l => n.layers[i].out # layer.out

WellFormed(n) ==
    /\ Listed(n.layers)
    /\ DOMAIN n.consts \cap (DOMAIN n.inputs \cup n.outputs) = {}
    /\ \A l \in DOMAIN n.layers : LayerWellFormed(n, l)

(* The first parser that accepts a node registers its tensors, and a parser *)
(* that refuses it lets the next one register them again: once a parser has *)
(* accepted the node, none after a refusal may, unless one that accepts     *)
(* node and context comes before.                                           *)
RegistersOnce(n) ==
    \A l \in DOMAIN n.layers :
        LET maps == n.layers[l].maps
        IN  \A i, j, k \in DOMAIN maps :
                i < j /\ j < k /\ maps[i].parses /\ ~ maps[j].parses =>
                    \/ ~ maps[k].parses
                    \/ \E m \in 1..(k - 1) : maps[m].parses /\ maps[m].fits

(* A rule that is rejected has not retyped a graph input or output: its     *)
(* rules take them at their exact type, or read one last and then only.     *)
AllRules(n) ==
    UNION {UNION {Range(n.layers[l].maps[m].bindings) : m \in DOMAIN n.layers[l].maps} :
               l \in DOMAIN n.layers}

AllTypes(n) ==
    Range(n.inputs) \cup UNION {Range(r.ins) \cup {r.out} : r \in AllRules(n)}

Exact(n, type) == \A u \in AllTypes(n) : Widens(type, u) => u = type

WidensLast(n) ==
    \A l \in DOMAIN n.layers :
        LET layer == n.layers[l]
        IN  \A m \in DOMAIN layer.maps : \A r \in Range(layer.maps[m].bindings) :
            \A k \in DOMAIN layer.ins :
                layer.ins[k] \in DOMAIN n.inputs \cup n.outputs =>
                    \/ k = Len(layer.ins) /\ r.ok
                    \/ Exact(n, r.ins[k])

ASSUME NetworksAssumption ==
    \A n \in Networks : WellFormed(n) /\ RegistersOnce(n)

ASSUME WideningAssumption == \A n \in Networks : WidensLast(n)

vars == <<net, idx, ctxt, stCtxt, ctxtStack, at, candidate, ioParse, mapper,
          binder, discardedMappers, discardedBindings>>

Layer == DOMAIN net.layers
Maps(l) == net.layers[l].maps
Bindings(l, m) == Maps(l)[m].bindings
Ins(l) == net.layers[l].ins
Out(l) == net.layers[l].out

Untyped == "untyped"

IsConst(t)  == t \in DOMAIN net.consts
IsGlobal(t) == t \in DOMAIN net.inputs \cup net.outputs

(* _createIOBindings, with annotateType for the inputs. *)
IOBindings ==
    LET io == DOMAIN net.inputs \cup net.outputs
    IN  [type |-> [t \in io |-> IF t \in DOMAIN net.inputs THEN net.inputs[t]
                                ELSE Untyped],
         users |-> [t \in io |-> {}]]

PerMapper(l, v) == [m \in DOMAIN Maps(l) |-> v]

Init ==
    /\ net \in Networks
    /\ idx = 0
    /\ ctxt = IOBindings
    /\ stCtxt = IOBindings
    /\ ctxtStack = <<>>
    /\ at = "layer"
    /\ candidate = 1
    /\ ioParse = TRUE
    /\ mapper = [l \in Layer |-> 0]
    /\ binder = [l \in Layer |-> PerMapper(l, 0)]
    /\ discardedMappers = [l \in Layer |-> {}]
    /\ discardedBindings = [l \in Layer |-> PerMapper(l, {})]

Current == idx + 1
Elected(l) == Bindings(l, mapper[l])[binder[l][mapper[l]]]

choices == <<mapper, binder, discardedMappers, discardedBindings>>

-----------------------------------------------------------------------------
(* The head of the loop. *)
EnterLayer ==
    /\ at = "layer"
    /\ IF idx = Len(net.layers)
       THEN at' = "parsed" /\ UNCHANGED <<stCtxt, candidate, ioParse>>
       ELSE /\ at' = "mappers"
            /\ stCtxt' = ctxt
            /\ candidate' = 1
            /\ ioParse' = TRUE
    /\ UNCHANGED <<net, idx, ctxt, ctxtStack, choices>>

(* ONNXLayer.parse, one mapper at a time.  A parser that accepts the node  *)
(* and is to register its tensors looks up its inputs and adds its output. *)
Trying == Maps(Current)[candidate]

SkipMapper ==
    /\ at = "mappers" /\ candidate <= Len(Maps(Current))
    /\ candidate \in discardedMappers[Current]
    /\ candidate' = candidate + 1
    /\ UNCHANGED <<net, idx, ctxt, stCtxt, ctxtStack, at, ioParse, choices>>

RejectNode ==
    /\ at = "mappers" /\ candidate <= Len(Maps(Current))
    /\ candidate \notin discardedMappers[Current]
    /\ ~ Trying.parses
    /\ discardedMappers' = [discardedMappers EXCEPT ![Current] = @ \cup {candidate}]
    /\ ioParse' = TRUE
    /\ candidate' = candidate + 1
    /\ UNCHANGED <<net, idx, ctxt, stCtxt, ctxtStack, at, mapper, binder,
                   discardedBindings>>

(* A constant is hoisted when it is first read. *)
Hoisted == {t \in Range(Ins(Current)) : IsConst(t)} \ DOMAIN ctxt.type

(* lookup or add raises a KeyError. *)
KeyErrors ==
    \/ ~ (Range(Ins(Current)) \subseteq DOMAIN ctxt.type \cup Hoisted)
    \/ ~ IsGlobal(Out(Current)) /\ Out(Current) \in DOMAIN ctxt.type

(* parseInputs and parseOutputs. *)
WithIO ==
    LET bufs == DOMAIN ctxt.type \cup Hoisted \cup {Out(Current)}
        known(t) == t \in DOMAIN ctxt.type
    IN  [type |-> [t \in bufs |-> IF known(t) THEN ctxt.type[t] ELSE Untyped],
         users |-> [t \in bufs |->
                       (IF known(t) THEN ctxt.users[t] ELSE {})
                       \cup (IF t \in Range(Ins(Current)) THEN {Current} ELSE {})]]

AcceptNode ==
    /\ at = "mappers" /\ candidate <= Len(Maps(Current))
    /\ candidate \notin discardedMappers[Current]
    /\ Trying.parses
    /\ IF ioParse /\ KeyErrors
       THEN at' = "error" /\ UNCHANGED <<ctxt, ioParse, candidate, mapper, discardedMappers>>
       ELSE /\ ctxt' = IF ioParse THEN WithIO ELSE ctxt
            /\ ioParse' = FALSE
            /\ mapper' = [mapper EXCEPT ![Current] = candidate]
            /\ IF Trying.fits
               THEN at' = "bindings" /\ candidate' = 1 /\ UNCHANGED discardedMappers
               ELSE /\ discardedMappers' =
                           [discardedMappers EXCEPT ![Current] = @ \cup {candidate}]
                    /\ candidate' = candidate + 1
                    /\ UNCHANGED at
    /\ UNCHANGED <<net, idx, stCtxt, ctxtStack, binder, discardedBindings>>

-----------------------------------------------------------------------------
(* NodeMapper.typeCheck, one binding of the elected mapper at a time. *)
Discarded == discardedBindings[Current][mapper[Current]]

Rule == Bindings(Current, mapper[Current])[candidate]

(* Where the inputs of the layer before its k-th read tensor t. *)
ReadBefore(k, t) == {j \in DOMAIN Ins(Current) : j < k /\ Ins(Current)[j] = t}

(* typeCheckNodeInputs walks over the inputs; a graph input takes the type *)
(* of the rule as soon as it and all inputs before it fit, whether or not  *)
(* the rule is elected.  Seen(k) is the type that the walk meets at input  *)
(* k when all before it fit.                                               *)
Seen(k) ==
    LET t == Ins(Current)[k]
    IN  IF IsGlobal(t) /\ ReadBefore(k, t) # {}
        THEN Rule.ins[Max(ReadBefore(k, t))]
        ELSE ctxt.type[t]

InputFits(k) ==
    LET t == Ins(Current)[k]
    IN  IF IsConst(t) THEN Rule.ins[k] \in net.consts[t]
        ELSE IF IsGlobal(t) THEN Widens(Rule.ins[k], Seen(k))
        ELSE Seen(k) = Rule.ins[k]

InputsFit == \A k \in DOMAIN Ins(Current) : InputFits(k)

CheckedTypes ==
    LET fitting(t) == {k \in DOMAIN Ins(Current) :
                          Ins(Current)[k] = t /\ \A j \in 1..k : InputFits(j)}
    IN  [t \in DOMAIN ctxt.type |->
            IF IsGlobal(t) /\ fitting(t) # {} THEN Rule.ins[Max(fitting(t))]
            ELSE ctxt.type[t]]

(* The position at which a layer reads t last. *)
LastRead(l, t) == Max({k \in DOMAIN Ins(l) : Ins(l)[k] = t})

(* typeInferGlobalCtxt and typeInferOutput. *)
Inferred(types) ==
    [t \in DOMAIN types |->
        IF t = Out(Current) THEN Rule.out
        ELSE IF IsConst(t) /\ t \in Range(Ins(Current))
        THEN Rule.ins[LastRead(Current, t)]
        ELSE types[t]]

SkipBinding ==
    /\ at = "bindings" /\ candidate <= Len(Bindings(Current, mapper[Current]))
    /\ candidate \in Discarded
    /\ candidate' = candidate + 1
    /\ UNCHANGED <<net, idx, ctxt, stCtxt, ctxtStack, at, ioParse, choices>>

RejectBinding ==
    /\ at = "bindings" /\ candidate <= Len(Bindings(Current, mapper[Current]))
    /\ candidate \notin Discarded
    /\ ~ (InputsFit /\ Rule.ok)
    /\ ctxt' = [ctxt EXCEPT !.type = CheckedTypes]
    /\ discardedBindings' =
           [discardedBindings EXCEPT ![Current][mapper[Current]] = @ \cup {candidate}]
    /\ candidate' = candidate + 1
    /\ UNCHANGED <<net, idx, stCtxt, ctxtStack, at, ioParse, mapper, binder,
                   discardedMappers>>

(* Both passed: the exploration goes one layer deeper. *)
ElectBinding ==
    /\ at = "bindings" /\ candidate <= Len(Bindings(Current, mapper[Current]))
    /\ candidate \notin Discarded
    /\ InputsFit /\ Rule.ok
    /\ ctxt' = [ctxt EXCEPT !.type = Inferred(CheckedTypes)]
    /\ binder' = [binder EXCEPT ![Current][mapper[Current]] = candidate]
    /\ ctxtStack' = Append(ctxtStack, stCtxt)
    /\ idx' = idx + 1
    /\ at' = "layer"
    /\ UNCHANGED <<net, stCtxt, candidate, ioParse, mapper, discardedMappers,
                   discardedBindings>>

-----------------------------------------------------------------------------
(* Neither a mapper nor a binding is left for the layer. *)
Exhausted ==
    \/ at = "mappers" /\ candidate > Len(Maps(Current))
    \/ at = "bindings" /\ candidate > Len(Bindings(Current, mapper[Current]))

GiveUp ==
    /\ Exhausted /\ idx = 0
    /\ at' = "failed"
    /\ UNCHANGED <<net, idx, ctxt, stCtxt, ctxtStack, candidate, ioParse, choices>>

(* Mutant of Restored: the copy made for the failing layer is taken. *)
RestoredLate == stCtxt

(* ctxtStack.pop *)
Restored == Last(ctxtStack)

(* Mutant of Reopened: what failed under one typing stays discarded. *)
NotReopened(l) == discardedBindings[l]

(* resetDiscardedMappers *)
Reopened(l) == PerMapper(l, {})

(* Mutant of AlsoTried: the binding that led nowhere is not discarded. *)
StillOpen(l) == discardedBindings[l][mapper[l]]

(* discardCurrentBinder *)
AlsoTried(l) == discardedBindings[l][mapper[l]] \cup {binder[l][mapper[l]]}

(* bindingsExhausted *)
BindingsExhausted(l) == Cardinality(discardedBindings[l][mapper[l]]) = Len(Bindings(l, mapper[l]))

(* The layer before it is tried again without its current binding, or *)
(* without its current mapper.                                        *)
Backtrack ==
    /\ Exhausted /\ idx > 0
    /\ ctxt' = Restored
    /\ ctxtStack' = Front(ctxtStack)
    /\ IF BindingsExhausted(idx)
       THEN /\ discardedMappers' = [discardedMappers EXCEPT ![Current] = {},
                                        ![idx] = @ \cup {mapper[idx]}]
            /\ discardedBindings' = [discardedBindings EXCEPT
                                        ![Current] = Reopened(Current)]
            /\ mapper' = [mapper EXCEPT ![idx] = 0]
            /\ UNCHANGED binder
       ELSE /\ discardedMappers' = [discardedMappers EXCEPT ![Current] = {}]
            /\ discardedBindings' = [discardedBindings EXCEPT
                                        ![Current] = Reopened(Current),
                                        ![idx][mapper[idx]] = AlsoTried(idx)]
            /\ binder' = [binder EXCEPT ![idx][mapper[idx]] = 0]
            /\ UNCHANGED mapper
    /\ idx' = idx - 1
    /\ at' = "layer"
    /\ UNCHANGED <<net, stCtxt, candidate, ioParse>>

(* parse has returned or raised. *)
Over == at \in {"parsed", "failed", "error"} /\ UNCHANGED vars

Next ==
    \/ EnterLayer
    \/ SkipMapper \/ RejectNode \/ AcceptNode
    \/ SkipBinding \/ RejectBinding \/ ElectBinding
    \/ GiveUp \/ Backtrack
    \/ Over

Spec == Init /\ [][Next]_vars /\ WF_vars(Next)

-----------------------------------------------------------------------------
(* Properties. *)

(* The readers and the producer of t among the first n layers. *)
Readers(t, n) == {l \in 1..n : t \in Range(Ins(l))}
Producers(t, n) == {l \in 1..n : Out(l) = t}

(* The context that the elections of the first n layers alone determine. *)
Buffers(n) ==
    DOMAIN net.inputs \cup net.outputs
    \cup {t \in DOMAIN net.consts : Readers(t, n) # {}}
    \cup {Out(l) : l \in 1..n}

TypeAfter(t, n) ==
    LET by == Readers(t, n)
        made == Producers(t, n)
    IN  IF (IsConst(t) \/ IsGlobal(t)) /\ by # {}
        THEN Elected(Max(by)).ins[LastRead(Max(by), t)]
        ELSE IF made # {} THEN Elected(Max(made)).out
        ELSE IF t \in DOMAIN net.inputs THEN net.inputs[t]
        ELSE Untyped

Replay(n) ==
    [type  |-> [t \in Buffers(n) |-> TypeAfter(t, n)],
     users |-> [t \in Buffers(n) |-> Readers(t, n)]]

(* Whatever has been tried and taken back, the context is what the layers  *)
(* mapped so far put there and nothing else: their buffers, with the types *)
(* of their elected bindings and with their readers (which the memory      *)
(* allocation relies on); so are the copies kept for the layers before,    *)
(* and no buffer is missing or met twice.                                  *)
ContextIsReplay ==
    /\ at # "error"
    /\ at \in {"layer", "parsed"} => ctxt = Replay(idx)
    /\ at \in {"mappers", "bindings"} => stCtxt = Replay(idx)
    /\ Len(ctxtStack) = idx
    /\ \A l \in 1..idx : ctxtStack[l] = Replay(l - 1)

(* The mapper that the search commits a layer to, if there is one. *)
Committed(l) == {m \in DOMAIN Maps(l) : Maps(l)[m].parses /\ Maps(l)[m].fits}
FirstMapper(l) == Min(Committed(l))

Assignments ==
    [Layer -> UNION {UNION {DOMAIN Bindings(l, m) : m \in DOMAIN Maps(l)} : l \in Layer}]

(* The rule that a choice of bindings gives a layer, and the type that a *)
(* tensor has before layer l under it.                                    *)
Chosen(choice, l) == Bindings(l, FirstMapper(l))[choice[l]]

Had(choice, t, l) ==
    LET by == Readers(t, l - 1)
    IN  IF IsGlobal(t) /\ by # {}
        THEN Chosen(choice, Max(by)).ins[LastRead(Max(by), t)]
        ELSE IF t \in DOMAIN net.inputs THEN net.inputs[t]
        ELSE Chosen(choice, Max(Producers(t, l - 1))).out

(* What the rules of a choice demand of each other: a local tensor has the *)
(* type its producer gave it, a constant fits, and a graph input is only   *)
(* ever widened from one reader to the next.                               *)
Demanded(choice, l, k) ==
    LET t == Ins(l)[k]
        type == Chosen(choice, l).ins[k]
    IN  IF IsConst(t) THEN type \in net.consts[t]
        ELSE IF IsGlobal(t) THEN Widens(type, Had(choice, t, l))
        ELSE type = Had(choice, t, l)

ConsistentAt(choice, l) ==
    /\ Committed(l) # {}
    /\ choice[l] \in DOMAIN Bindings(l, FirstMapper(l))
    /\ Chosen(choice, l).ok
    /\ \A k \in DOMAIN Ins(l) : Demanded(choice, l, k)

Consistent(choice) == \A l \in Layer : ConsistentAt(choice, l)

Solutions == {c \in Assignments : Consistent(c)}

Sooner(c, d) ==
    \E l \in Layer : c[l] < d[l] /\ \A i \in 1..(l - 1) : c[i] = d[i]

(* Parsing fails only when the mappers that the search commits to have no  *)
(* consistent bindings, and otherwise it ends with the first of them in    *)
(* the order of the binding lists, the order of preference.                *)
SearchExact ==
    /\ at = "failed" => Solutions = {}
    /\ at = "parsed" =>
           LET found == [l \in Layer |-> binder[l][mapper[l]]]
           IN  /\ \A l \in Layer : mapper[l] = FirstMapper(l)
               /\ found \in Solutions
               /\ \A c \in Solutions : c = found \/ Sooner(found, c)

(* The backtracking ends. *)
Terminates == <>(at \in {"parsed", "failed"})
=============================================================================
