-------------------------- MODULE ChannelOperators --------------------------
(***************************************************************************)
(* Operators whose channels are independent of each other, so that only    *)
(* channels are cut and the cores share them: pooling and the batch        *)
(* normalisation of training, with their tile constraints and kernels.     *)
(***************************************************************************)
EXTENDS ElementOperators

OnlyCuts(dim, t, shape) == \A d \in DOMAIN shape : d # dim => t[d] = shape[d]

(* MaxPoolCTileConstraint: channels last. *)
PoolTiles(roles, shape, t) ==
    AdmitIf(OnlyCuts(Len(t), t, shape.data_out),
            [r \in roles |-> Append(Front(shape[r]), Last(t))])

PoolSerialize(shape, cube) ==
    Step([data_in |-> Cube(cube.offset, Append(Front(shape.data_in), Last(cube.dims))), data_out |-> cube],
         [ch_im_in |-> Last(cube.dims)])

(* AveragePoolCTileConstraint, for the pool and its gradient *)
AveragePoolTiles(shape, t) == PoolTiles({"data_in", "data_out"}, shape, t)
AveragePoolSerialize(shape, cube) == PoolSerialize(shape, cube)

(* MaxPoolGradCTileConstraint *)
MaxPoolGradTiles(shape, t) == PoolTiles({"data_in", "x_in", "data_out"}, shape, t)

MaxPoolGradSerialize(shape, cube) ==
    LET pool == PoolSerialize(shape, cube)
    IN  Step(pool.cubes @@ [x_in |-> Cube(Append(Front(Zeros(shape.x_in)), Last(cube.offset)),
                                          Append(Front(shape.x_in), Last(cube.dims)))],
             pool.rep)

(* GlobalAveragePoolTileConstraint and its gradient: channels second.      *)
GlobalPoolTiles(cut, other, shape, t) ==
    AdmitIf(OnlyCuts(2, t, shape[cut]),
            [r \in {cut, other} |-> [shape[r] EXCEPT ![2] = t[2]]])

GlobalPoolSerialize(cut, other, shape, cube) ==
    Step((cut :> cube)
            @@ (other :> Cube(<<cube.offset[1], cube.offset[2], 0, 0>>,
                              <<cube.dims[1], cube.dims[2], shape[other][3], shape[other][4]>>)),
         [channels |-> cube.dims[2]])

(* BatchNormInternalTileConstraint: the running statistics that it would   *)
(* update are neither computed nor stored.                                 *)
BatchNormImages == {"data_in", "data_out"}
BatchNormVectors == {"scale", "bias", "running_mean", "running_var", "saved_mean", "saved_inv_std"}
BatchNormGradImages == {"dY", "X", "dX"}
BatchNormGradVectors == {"gamma", "saved_mean", "saved_inv_std", "dgamma", "dbeta"}

BatchNormTiles(images, vectors, shape, t) ==
    AdmitIf(OnlyCuts(2, t, shape[CHOOSE r \in images : TRUE]),
            SameTile(images, t) @@ SameTile(vectors, <<t[2]>>))

(* Here and in BatchNormalizationGradTileConstraint the vectors go with    *)
(* the channels of the cube.                                               *)
BatchNormSerialize(images, vectors, cube) ==
    Step([r \in images |-> cube] @@ [r \in vectors |-> Vector(cube.offset[2], cube.dims[2])],
         [C |-> cube.dims[2]])

-----------------------------------------------------------------------------
(* Templates and kernels *)

(* A kernel's view of an image: heights and widths as pairs. *)
View(size, kernel, stride, padding) ==
    [size |-> size, kernel |-> kernel, stride |-> stride, begin |-> <<padding.top, padding.left>>,
     end |-> <<padding.bottom, padding.right>>]

Swapped(pair) == <<pair[2], pair[1]>>

(* The places that a window covers, and those of them inside the image.    *)
WindowAt(v, o) ==
    LET from(d) == o[d] * v.stride[d] - v.begin[d]
    IN  {<<y, x>> : y \in from(1)..(from(1) + v.kernel[1] - 1), x \in from(2)..(from(2) + v.kernel[2] - 1)}
Image(size) == (0..(size[1] - 1)) \X (0..(size[2] - 1))
Window(v, o) == WindowAt(v, o) \cap Image(v.size)

Pooled(v) == [d \in 1..2 |-> (v.size[d] + v.begin[d] + v.end[d] - v.kernel[d]) \div v.stride[d] + 1]

(* The element of a channel at a place of an image with channels last.     *)
HWC(base, size, channels, at, c) == base + (at[1] * size[2] + at[2]) * channels + c

(* The templates' loops over the batch advance by ch_im_in and ch_im_out,  *)
(* of which only the former is replaced by the tile's.                     *)
InBase(rep, b) == b * rep.ch_im_in * Prod(rep.dim_im_in)
OutBase(rep, b) == b * rep.ch_im_out * Prod(rep.dim_im_out)

PoolHWC(rep, v, covered(_), by) ==
    {WriteBy("data_out", HWC(OutBase(rep, b), Pooled(v), rep.ch_im_in, o, c),
             {<<At("data_in", HWC(InBase(rep, b), v.size, rep.ch_im_in, i, c))>> : i \in covered(o)}, by) :
        b \in Alone(rep.batch), o \in Image(Pooled(v)), c \in InChunks(rep.ch_im_in)}

(* The template passes x, the rows, as the width. *)
FloatMaxPoolKernel(rep) ==
    LET v == View(Swapped(rep.dim_im_in), Swapped(rep.dim_kernel), Swapped(rep.stride), rep.padding)
    IN  PoolHWC(rep, v, LAMBDA o : Window(v, o), 1)

(* Not in this repository: pulp_nn_maxpool_i8 and _u8. *)
pulp_nn_maxpool(rep, v) == PoolHWC([rep EXCEPT !.batch = 1], v, LAMBDA o : Window(v, o), 1)

MaxPool2DKernel(rep) == pulp_nn_maxpool(rep, View(rep.dim_im_in, rep.dim_kernel, rep.stride, rep.padding))

MaxPool1DKernel(rep) ==
    LET wide == [rep EXCEPT !.dim_im_in = <<1>> \o @, !.dim_im_out = <<1>> \o @]
    IN  pulp_nn_maxpool(wide, [size |-> wide.dim_im_in, kernel |-> <<1>> \o rep.dim_kernel,
                               stride |-> <<1>> \o rep.stride, begin |-> <<0, rep.padding.left>>,
                               end |-> <<0, rep.padding.right>>])

(* Without a bounds check: padding would read outside of the image.        *)
AveragePoolKernel(rep) ==
    LET v == View(rep.dim_im_in, rep.dim_kernel, rep.stride, rep.padding)
    IN  PoolHWC(rep, v, LAMBDA o : WindowAt(v, o), Prod(rep.dim_kernel))

(* The gradients: data_in is that of the pool's output.  Each place gets   *)
(* the sum of what the windows around it contribute.                       *)
GradView(rep) == View(rep.dim_im_out, rep.dim_kernel, rep.stride, rep.padding)

AveragePoolGradKernel(rep) ==
    LET v == GradView(rep)
        outs(i) == {o \in Image(rep.dim_im_in) : i \in Window(v, o)}
        pool_size(i) == IF outs(i) = {} THEN 1 ELSE Cardinality(Window(v, CHOOSE o \in outs(i) : TRUE))
    IN  {WriteBy("data_out", HWC(OutBase(rep, b), v.size, rep.ch_im_in, i, c),
                 {<<At("data_in", HWC(InBase(rep, b), rep.dim_im_in, rep.ch_im_in, o, c))>> : o \in outs(i)},
                 pool_size(i)) :
            b \in Alone(rep.batch), i \in Image(v.size), c \in InChunks(rep.ch_im_in)}

(* Whether a place has the maximum depends on all of its window. *)
MaxPoolGradKernel(rep) ==
    LET v == GradView(rep)
        x(b, i, c) == HWC(OutBase(rep, b), v.size, rep.ch_im_in, i, c)
        terms(b, i, c, o) ==
            {<<At("data_in", HWC(InBase(rep, b), rep.dim_im_in, rep.ch_im_in, o, c)),
               At("x_in", x(b, i, c)), At("x_in", x(b, w, c))>> : w \in Window(v, o)}
    IN  {Write("data_out", x(b, i, c),
               UNION {terms(b, i, c, o) : o \in {p \in Image(rep.dim_im_in) : i \in Window(v, p)}}) :
            b \in Alone(rep.batch), i \in Image(v.size), c \in InChunks(rep.ch_im_in)}

(* Channels second: element i of channel c of image b. *)
CHW(rep, channels, b, c, i) == (b * channels + c) * Prod(rep.dim_im_in) + i
Pixels(rep) == Alone(Prod(rep.dim_im_in))

GlobalAveragePoolKernel(rep) ==
    {WriteBy("data_out", b * rep.channels + c,
             {<<At("data_in", CHW(rep, rep.channels, b, c, i))>> : i \in Pixels(rep)}, Prod(rep.dim_im_in)) :
        b \in Alone(rep.batch), c \in InChunks(rep.channels)}

GlobalAveragePoolGradKernel(rep) ==
    {WriteBy("dX", CHW(rep, rep.channels, b, c, i), {<<At("dY", b * rep.channels + c)>>},
             Prod(rep.dim_im_in)) :
        b \in Alone(rep.batch), c \in InChunks(rep.channels), i \in Pixels(rep)}

(* All elements of a channel. *)
Channel(rep, c) == {CHW(rep, rep.C, b, c, i) : b \in Alone(rep.N), i \in Pixels(rep)}

BatchNormInternalKernel(rep) ==
    LET statistics(c) == {<<At("data_in", j)>> : j \in Channel(rep, c)}
        result(c, e) == Write("data_out", e, {<<At("data_in", e), At("scale", c), At("bias", c)>> \o s :
                                                  s \in statistics(c)})
    IN  UNION {{Write("saved_mean", c, statistics(c)), Write("saved_inv_std", c, statistics(c))}
               \cup {result(c, e) : e \in Channel(rep, c)} : c \in InChunks(rep.C)}

BatchNormGradKernel(rep) ==
    LET saved(c) == <<At("saved_mean", c), At("saved_inv_std", c)>>
        pair(e) == <<At("dY", e), At("X", e)>>
    IN  UNION {{Write("dgamma", c, {pair(j) \o saved(c) : j \in Channel(rep, c)}),
                Write("dbeta", c, {<<At("dY", j)>> : j \in Channel(rep, c)})}
               \cup {Write("dX", e, {pair(e) \o <<At("gamma", c)>> \o saved(c) \o pair(j) :
                                         j \in Channel(rep, c)}) : e \in Channel(rep, c)} :
               c \in InChunks(rep.C)}
=============================================================================
