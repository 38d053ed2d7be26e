--------------------------- MODULE TiledOperator ---------------------------
(***************************************************************************)
(* One node of a network on its way from the parser to the bytes of its    *)
(* result: the first mapper whose parser accepts it is taken, the tiler    *)
(* picks the tiles, the code generation cuts the tensors into cubes and    *)
(* the cubes into transfers, and the generated program moves, computes and *)
(* stores tile by tile.  With no level below the tensors' home the kernel  *)
(* works on the home memory; with two, an outer loop brings each cube from *)
(* L3 to L2 and an inner one from L2 to L1.  When and in which order the   *)
(* transfers of a tile run is the subject of the modules on the tile loop; *)
(* here they are done when the kernel starts.                              *)
(*                                                                         *)
(* A byte of a memory holds the value of an element, [of, by], and which   *)
(* byte of it.                                                             *)
(***************************************************************************)
EXTENDS OperatorLibrary

M == INSTANCE OperatorMeaning

CONSTANT Nodes

VARIABLES node,    \* the node, the tiles that fit the memory, the levels to pass
          meant,   \* what its operator means for each element of each output
          mapper,  \* the mapper that was chosen
          parsed,  \* what its parser said
          plan,    \* the tile of each tensor, and the transfers and numbers of each step
          phase, k,
          ext,     \* the pointers to the home memory, one per tensor
          home, middle, local

nodeVars == <<node, meant, mapper, parsed, plan, phase, k, ext, home, middle, local>>

None == [of |-> {}, by |-> 0]
Byte(value, b) == value @@ [byte |-> b]
Junk == Byte(None, 0)
Input(role, e) == Value({<<At(role, e)>>}, 1)

Roles(p) == Range(p.in) \cup Range(p.out)
ShapeIn(n, p) ==
    [r \in Roles(p) |->
        IF r \in Range(p.in) THEN n.inputs[CHOOSE i \in DOMAIN p.in : p.in[i] = r]
        ELSE n.outputs[CHOOSE i \in DOMAIN p.out : p.out[i] = r]]
shape == ShapeIn(node, parsed)

Bytes(s, width) == 0..(Prod(s) * width - 1)
Hops == Len(node.path)
InHome == Hops = 0 \/ mapper \in WorksInHome

MeaningOf(n) ==
    CASE n.op \in ElementOps -> M!MeaningOfElements(n)
      [] n.op \in RowOps -> M!MeaningOfRows(n)
      [] n.op \in MoveOps -> M!MeaningOfMoves(n)
      [] n.op \in PoolOps -> M!MeaningOfPools(n)
      [] n.op \in NormOps -> M!MeaningOfNorms(n)
      [] n.op \in MatrixOps -> M!MeaningOfMatrices(n)
      [] n.op \in WindowOps -> M!MeaningOfConvolutions(n)
      [] n.op \in ConvGradOps -> M!MeaningOfConvGrads(n)

Start(in) ==
    /\ phase = in /\ k = 1
    /\ mapper = "none" /\ parsed = Unparsed
    /\ plan = <<>> /\ ext = <<>>
    /\ home = <<>> /\ middle = <<>> /\ local = <<>>

NodeInit ==
    /\ node \in Nodes
    /\ meant = MeaningOf(node)
    /\ Start("parse")

-----------------------------------------------------------------------------
(* What the parsers of the operator's mappers say; the first that accepts  *)
(* the node gets it.                                                       *)
Attempts(n) == [i \in DOMAIN Mappers(n.op) |-> ParsedBy(Mappers(n.op)[i], n)] \o <<>>

Accept(p) ==
    /\ parsed' = p
    /\ home' = [r \in {HomeOf(mapper', q) : q \in Roles(p)} |->
                   [b \in Bytes(ShapeIn(node, p)[r], node.width) |->
                       IF r \in Range(p.in)
                       THEN Byte(Input(r, b \div node.width), b % node.width)
                       ELSE Junk]]
    /\ phase' = IF Hops = 0 \/ mapper' \in WorksInHome THEN "compute" ELSE "tile"

Parse ==
    /\ phase = "parse"
    /\ \E attempts \in {Attempts(node)} :
          LET accepting == {i \in DOMAIN attempts : attempts[i].ok}
          IN  IF accepting = {}
              THEN phase' = "refused" /\ UNCHANGED <<mapper, parsed, home>>
              ELSE \E first \in {Min(accepting)} :
                      mapper' = Mappers(node.op)[first] /\ Accept(attempts[first])
    /\ UNCHANGED <<node, meant, plan, k, ext, middle, local>>

(* wrapTilingSolution: the cubes of the output that is cut; for the second *)
(* level each of them is the only cube of itself.                          *)
OutputCubes(out, tile) == CubesInside(WholeOf(shape[out]), tile[out])

InSecond(at) == [rectangle |-> WholeOf(at.rectangle.dims), absolute |-> at.absolute]

(* serializeTilingSolution for each cube, seen from each level.            *)
Steps(cubes) ==
    [level \in 1..Hops |->
        [i \in DOMAIN cubes |->
            Serialized(mapper, node, parsed.rep, shape,
                       IF level = 1 THEN cubes[i] ELSE InSecond(cubes[i]))] \o <<>>] \o <<>>

(* _legalizeTransfers: only the first level is next to the tensors' home.  *)
PlanOf(tile, steps) ==
    [tile |-> tile,
     steps |-> Len(steps[1]),
     moves |-> [level \in 1..Hops |->
                   [r \in DOMAIN steps[level][1].cubes |->
                       Legalized([i \in DOMAIN steps[level] |-> steps[level][i].cubes[r]],
                                 shape[r], node.width, level = 1)]] \o <<>>,
     rep |-> [i \in DOMAIN steps[Hops] |-> steps[Hops][i].rep]]

PlanFor(tile) == PlanOf(tile, Steps(OutputCubes(CutOutput(mapper, parsed), tile)))

(* The tiler picks tiles that the constraints admit and that fit.          *)
Solutions ==
    UNION {TilesFor(mapper, node, parsed.rep, shape, t) : t \in node.tiles}

Tile ==
    /\ phase = "tile"
    /\ \/ /\ Solutions = {}
          /\ phase' = "refused"
          /\ UNCHANGED <<plan, ext, local, middle>>
       \/ \E p \in {PlanFor(tile) : tile \in Solutions} :
             IF \E r \in DOMAIN p.moves[1] : ~SingleOuterShape(p.moves[1][r]) \/ HasEmptyCube(p.moves[1][r])
             THEN phase' = "refused" /\ UNCHANGED <<plan, ext, local, middle>>
             ELSE LET empty == [r \in DOMAIN p.moves[1] |->
                                   [b \in Bytes(p.tile[r], node.width) |-> Junk]]
                  IN  /\ plan' = p
                      /\ ext' = [r \in DOMAIN p.moves[1] |->
                                    FlatOffset(p.moves[1][r][1].rect.offset,
                                               StridesFromShape(p.moves[1][r][1].outer))]
                      /\ local' = empty
                      /\ middle' = IF Hops = 2 THEN empty ELSE <<>>
                      /\ phase' = IF Hops = 2 THEN "fetch" ELSE "load"
    /\ UNCHANGED <<node, meant, mapper, parsed, k, home>>

-----------------------------------------------------------------------------
(* The transfers of one tensor in the current step: pairs of addresses.    *)
Moves(hop, r) ==
    LET m == plan.moves[hop][r][k]
    IN  AnydimTransfer(node.path[hop], m.rect, m.outer)

Tiled(roles) == DOMAIN plan.moves[1] \cap Range(roles)

(* A buffer after bytes of another are moved to it, and a memory after     *)
(* this has happened to each of its buffers.                               *)
Loaded(buffer, from, at, moves) ==
    [b \in {m.loc : m \in moves} |-> from[at + (CHOOSE m \in moves : m.loc = b).ext]] @@ buffer

Stored(buffer, from, at, moves) ==
    [b \in {at + m.ext : m \in moves} |-> from[(CHOOSE m \in moves : at + m.ext = b).loc]] @@ buffer

Ingress(mem, from, hop, at) ==
    [r \in DOMAIN mem |->
        IF r \notin Tiled(parsed.in) THEN mem[r]
        ELSE Loaded(mem[r], from[IF hop = 1 THEN HomeOf(mapper, r) ELSE r], at[r], Moves(hop, r))]

Fetch ==
    /\ phase = "fetch"
    /\ middle' = Ingress(middle, home, 1, ext)
    /\ phase' = "load"
    /\ UNCHANGED <<node, meant, mapper, parsed, plan, k, ext, home, local>>

(* The transfers between the local memory and the level above it.          *)
Above == IF Hops = 1 THEN home ELSE middle
AboveAt == IF Hops = 1 THEN ext ELSE [r \in DOMAIN ext |-> 0]

Load ==
    /\ phase = "load"
    /\ local' = Ingress(local, Above, Hops, AboveAt)
    /\ phase' = "compute"
    /\ UNCHANGED <<node, meant, mapper, parsed, plan, k, ext, home, middle>>

(* The element of an input that lies at an address of a buffer. *)
Identity(mem, ref) ==
    LET cell(j) == mem[ref[1]][ref[2] * node.width + j]
        whole == /\ \A j \in 0..(node.width - 1) :
                        /\ (ref[2] * node.width + j) \in DOMAIN mem[ref[1]]
                        /\ cell(j) = Byte([of |-> cell(0).of, by |-> 1], j)
                 /\ Cardinality(cell(0).of) = 1
    IN  IF whole THEN LET term == CHOOSE t \in cell(0).of : TRUE
                      IN  IF Len(term) = 1 THEN term[1] ELSE At("computed", 0)
        ELSE At("junk", 0)

Read(mem, value) ==
    [value EXCEPT !.of = {[i \in DOMAIN term |-> Identity(mem, term[i])] : term \in @}]

(* What the kernel sees: the tiles, and the home of tensors without one.   *)
Visible ==
    IF InHome THEN [r \in Roles(parsed) |-> home[HomeOf(mapper, r)]]
    ELSE [r \in DOMAIN local |-> local[LocalOf(mapper, r)]]
         @@ [r \in Range(parsed.in) |-> home[HomeOf(mapper, r)]]

Rep ==
    (IF InHome THEN parsed.rep ELSE plan.rep[k] @@ parsed.rep) @@ [first |-> k = 1]

Writes == KernelOf(mapper, node, Rep)

(* A sum that meets a term it has already is wrong. *)
Added(old, new) ==
    IF old.of \cap new.of = {} THEN [new EXCEPT !.of = old.of \cup @] ELSE None

AfterKernel(mem, name(_), writes) ==
    LET byRole(r) == {w \in writes : name(w.to[1]) = r}
        seen == Visible
        result(w) == IF w.adds
                     THEN Added(seen[w.to[1]][w.to[2] * node.width], Read(seen, w.value))
                     ELSE Read(seen, w.value)
        after(r) == [b \in {w.to[2] * node.width + j : w \in byRole(r), j \in 0..(node.width - 1)} |->
                        LET w == CHOOSE v \in byRole(r) : v.to[2] = b \div node.width
                        IN  Byte([of |-> result(w).of, by |-> result(w).by], b % node.width)]
    IN  [r \in DOMAIN mem |-> IF byRole(r) = {} THEN mem[r] ELSE after(r) @@ mem[r]]

ComputeInHome(writes) ==
    /\ InHome
    /\ home' = AfterKernel(home, LAMBDA r : HomeOf(mapper, r), writes)
    /\ phase' = "done"
    /\ UNCHANGED local

ComputeTile(writes) ==
    /\ ~InHome
    /\ local' = AfterKernel(local, LAMBDA r : LocalOf(mapper, r), writes)
    /\ phase' = "store"
    /\ UNCHANGED home

Compute ==
    /\ phase = "compute"
    /\ \E writes \in {Writes} : ComputeInHome(writes) \/ ComputeTile(writes)
    /\ UNCHANGED <<node, meant, mapper, parsed, plan, k, ext, middle>>

Egress(mem, from, hop, at) ==
    [q \in DOMAIN mem |->
        IF ~\E r \in Tiled(parsed.out) : (IF hop = 1 THEN HomeOf(mapper, r) ELSE r) = q
        THEN mem[q]
        ELSE LET r == CHOOSE o \in Tiled(parsed.out) :
                          (IF hop = 1 THEN HomeOf(mapper, o) ELSE o) = q
             IN  Stored(mem[q], from[r], at[r], Moves(hop, r))]

(* _generateExternalReferenceUpdate: the pointers move on to the next tile. *)
Advance ==
    /\ ext' = [r \in DOMAIN ext |-> ext[r] + RelativeOffsets(plan.moves[1][r])[k]]
    /\ IF k = plan.steps THEN phase' = "done" /\ UNCHANGED k
       ELSE k' = k + 1 /\ phase' = IF Hops = 2 THEN "fetch" ELSE "load"

LocalResults == [r \in DOMAIN local |-> local[LocalOf(mapper, r)]]

Store ==
    /\ phase = "store"
    /\ \E stored \in {Egress(Above, LocalResults, Hops, AboveAt)} :
          IF Hops = 1
          THEN home' = stored /\ UNCHANGED middle /\ Advance
          ELSE middle' = stored /\ phase' = "write" /\ UNCHANGED <<home, ext, k>>
    /\ UNCHANGED <<node, meant, mapper, parsed, plan, local>>

WriteBack ==
    /\ phase = "write"
    /\ home' = Egress(home, middle, 1, ext)
    /\ Advance
    /\ UNCHANGED <<node, meant, mapper, parsed, plan, middle, local>>

Finished == phase \in {"done", "refused"} /\ UNCHANGED nodeVars

NodeNext ==
    \/ Parse \/ Tile \/ Fetch \/ Load \/ Compute \/ Store \/ WriteBack
    \/ Finished

-----------------------------------------------------------------------------
(* The bytes of the outputs that the kernel computes, and those that hold  *)
(* something else than they should.                                        *)
Promised(roles) ==
    UNION {{<<r, e, j>> : e \in DOMAIN meant[r], j \in 0..(node.width - 1)} :
              r \in roles \cap DOMAIN meant}

Unmet ==
    IF mapper = "none" THEN Promised(DOMAIN meant)
    ELSE {b \in Promised(Range(parsed.out)) :
            home[HomeOf(mapper, b[1])][b[2] * node.width + b[3]] # Byte(meant[b[1]][b[2]], b[3])}

(* When the node is done every byte of every output is the byte of the     *)
(* value that the operator promises for that element.                      *)
OutputsExact == phase = "done" => Unmet = {}

(* No transfer and no kernel leaves the tensors and the tiles that were    *)
(* allocated, and no two cores write different values to one element.      *)
MovesInside(hop, mem, at, roles) ==
    \A r \in Tiled(roles) : \A m \in Moves(hop, r) :
        /\ (at[r] + m.ext) \in DOMAIN mem[IF hop = 1 THEN HomeOf(mapper, r) ELSE r]
        /\ m.loc \in Bytes(plan.tile[r], node.width)

KernelInside(writes) ==
    LET inside(ref) == \A j \in 0..(node.width - 1) :
            (ref[2] * node.width + j) \in DOMAIN Visible[ref[1]]
    IN  /\ \A w \in writes : /\ inside(w.to)
                             /\ \A t \in w.value.of : \A i \in DOMAIN t : inside(t[i])
        /\ \A v, w \in writes : v.to = w.to => v = w

TilesFit ==
    /\ phase \in {"fetch", "write"} =>
           MovesInside(1, home, ext, IF phase = "fetch" THEN parsed.in ELSE parsed.out)
    /\ phase \in {"load", "store"} =>
           MovesInside(Hops, Above, AboveAt, IF phase = "load" THEN parsed.in ELSE parsed.out)
    /\ phase = "compute" => KernelInside(Writes)

(* From the refusal or the first byte to the last: bytes of the outputs    *)
(* become right, and none is spoilt by a later tile or a later kernel.     *)
Promise == INSTANCE OperatorPromise WITH
    wanted <- Unmet,
    state  <- CASE phase \in {"import", "optimize"} -> "exported"
                [] phase = "done" -> "finished"
                [] phase = "refused" -> "refused"
                [] phase \in {"parse", "tile"} -> "planned"
                [] OTHER -> "running"

KeepsPromise == Promise!Spec
=============================================================================
