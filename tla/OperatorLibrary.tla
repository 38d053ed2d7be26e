-------------------------- MODULE OperatorLibrary --------------------------
(***************************************************************************)
(* Which mappers serve an operator, in their order, and what each brings:  *)
(* a parser, a tile constraint and a kernel template (Platform.py,         *)
(* Tiler.py and Bindings.py of Targets/PULPOpen).                          *)
(***************************************************************************)
EXTENDS NodeParsers, ElementOperators, MoveOperators, ChannelOperators,
        MatrixOperators, WindowOperators, ConvGradOperators

ElementOps == {"Add", "RequantizedAdd", "Mul", "Relu", "ReluGrad", "Gelu", "GeluGrad", "RequantizediGELU",
               "iHardswish", "RequantizediHardswish", "SGD", "InPlaceAccumulatorV2", "MSELoss",
               "MSELossGrad", "RequantShift", "Quant", "Dequant"}
RowOps == {"Softmax", "iSoftmax", "SoftmaxGrad", "iRMSNorm", "LayerNormalization",
           "LayerNormalizationGrad", "SoftmaxCrossEntropyLoss", "SoftmaxCrossEntropyLossGrad"}
MoveOps == {"Concat", "Transpose", "Slice", "ReduceMean", "IntegerMean", "ReduceSum", "Gather",
            "Flatten", "Reshape", "Squeeze", "Unsqueeze"}
PoolOps == {"MaxPool", "AveragePool", "AveragePoolGrad", "MaxPoolGrad", "GlobalAveragePool",
            "GlobalAveragePoolGrad"}
NormOps == {"BatchNormInternal", "BatchNormalizationGrad"}
MatrixOps == {"MatMul", "Gemm", "RequantizedGemm"}
WindowOps == {"Conv", "RequantizedConv"}
ConvGradOps == {"ConvGradX", "ConvGradW", "ConvGradB"}

(* PULPMapping: most operators have one mapper. *)
Mappers(op) ==
    CASE op = "RequantShift" -> <<"UniformRequantShift", "RequantShift">>
      [] op = "IntegerMean" -> <<"ReduceMean">>
      [] op = "Squeeze" -> <<"Unsqueeze">>
      [] op = "MaxPool" -> <<"MaxPool1D", "MaxPool2D">>
      [] op = "Gemm" -> <<"FloatGEMM">>
      [] op = "RequantizedGemm" -> <<"MatrixVec", "TallGEMM", "GEMM">>
      [] op = "Conv" -> <<"FPConv2D", "FPDWConv2D">>
      [] op = "RequantizedConv" -> <<"Conv2D", "DWConv2D", "Conv1D">>
      [] op = "ConvGradX" -> <<"PWConvGradX", "DWConvGradX", "ConvGradX">>
      [] op = "ConvGradW" -> <<"PWConvGradW", "DWConvGradW", "ConvGradW">>
      [] OTHER -> <<op>>

ParsedBy(mapper, n) ==
    CASE mapper = "Add" -> AddParser(n)
      [] mapper = "RequantizedAdd" -> RQAddParser(n)
      [] mapper = "Mul" -> MulParser(n)
      [] mapper = "Relu" -> ReluParser(n)
      [] mapper = "Quant" -> QuantParser(n)
      [] mapper = "Dequant" -> DequantParser(n)
      [] mapper = "ReluGrad" -> ReluGradParser(n)
      [] mapper = "Gelu" -> GELUParser(n)
      [] mapper = "GeluGrad" -> GELUGradParser(n)
      [] mapper = "RequantizediGELU" -> RQSiGELUParser(n)
      [] mapper = "iHardswish" -> iHardswishParser(n)
      [] mapper = "RequantizediHardswish" -> RQSiHardswishParser(n)
      [] mapper = "SGD" -> SGDParser(n)
      [] mapper = "InPlaceAccumulatorV2" -> InPlaceAccumulatorV2Parser(n)
      [] mapper = "MSELoss" -> MSELossParser(n)
      [] mapper = "MSELossGrad" -> MSELossGradParser(n)
      [] mapper = "UniformRequantShift" -> UniformRequantShiftParser(n)
      [] mapper = "RequantShift" -> RequantShiftParser(n)
      [] mapper = "Softmax" -> SoftmaxParser(n)
      [] mapper = "iSoftmax" -> iSoftmaxParser(n)
      [] mapper = "SoftmaxGrad" -> SoftmaxGradParser(n)
      [] mapper = "iRMSNorm" -> iRMSNormParser(n)
      [] mapper = "LayerNormalization" -> LayerNormParser(n)
      [] mapper = "LayerNormalizationGrad" -> LayerNormGradParser(n)
      [] mapper = "SoftmaxCrossEntropyLoss" -> SoftmaxCrossEntropyLossParser(n)
      [] mapper = "SoftmaxCrossEntropyLossGrad" -> SoftmaxCrossEntropyLossGradParser(n)
      [] mapper = "Concat" -> ConcatParser(n)
      [] mapper = "Transpose" -> TransposeParser(n)
      [] mapper = "Slice" -> SliceParser(n)
      [] mapper = "ReduceMean" -> PULPReduceMeanParser(n)
      [] mapper = "ReduceSum" -> ReduceSumParser(n)
      [] mapper = "Gather" -> GatherParser(n)
      [] mapper = "Flatten" -> FlattenParser(n)
      [] mapper = "Reshape" -> ReshapeParser(n)
      [] mapper = "Unsqueeze" -> UnsqueezeParser(n)
      [] mapper = "MaxPool1D" -> MaxPool1DParser(n)
      [] mapper = "MaxPool2D" -> MaxPool2DParser(n)
      [] mapper \in {"AveragePool", "AveragePoolGrad"} -> AveragePool2DParser(n)
      [] mapper = "MaxPoolGrad" -> MaxPoolGradParser(n)
      [] mapper = "GlobalAveragePool" -> GlobalAveragePoolParser(n)
      [] mapper = "GlobalAveragePoolGrad" -> GlobalAveragePoolGradParser(n)
      [] mapper = "BatchNormInternal" -> BatchNormInternalParser(n)
      [] mapper = "BatchNormalizationGrad" -> BatchNormalizationGradParser(n)
      [] mapper = "MatMul" -> MatMulParser(n)
      [] mapper = "FloatGEMM" -> GEMMParser(n)
      [] mapper = "GEMM" -> PULPGEMMParser(n)
      [] mapper = "MatrixVec" -> PULPMatrixVecParser(n)
      [] mapper = "TallGEMM" -> PULPTallGEMMParser(n)
      [] mapper = "FPConv2D" -> PULPFPConv2DParser(n)
      [] mapper = "FPDWConv2D" -> PULPFPDWConv2DParser(n)
      [] mapper = "Conv2D" -> PULPConv2DParser(n)
      [] mapper = "DWConv2D" -> PULPDWConv2DParser(n)
      [] mapper = "Conv1D" -> PULPConv1DParser(n)
      [] mapper = "PWConvGradX" -> PULPPWConvGradX2DParser(n)
      [] mapper = "DWConvGradX" -> PULPDWConvGradX2DParser(n)
      [] mapper = "ConvGradX" -> PULPConvGradX2DParser(n)
      [] mapper = "PWConvGradW" -> PULPPWConvGradW2DParser(n)
      [] mapper = "DWConvGradW" -> PULPDWConvGradW2DParser(n)
      [] mapper = "ConvGradW" -> PULPConvGradW2DParser(n)
      [] mapper = "ConvGradB" -> Conv2DGradBParser(n)

(* The output's pointer is set to the input; with these and with Gather    *)
(* the constraints schedule no transfer, and the code works on the home.   *)
Aliasing == {"Flatten", "Reshape", "Unsqueeze"}
WorksInHome == Aliasing \cup {"Gather"}

(* The tiles of all tensors beside the tile t of the output the cubes are  *)
(* cut from, and that output.                                              *)
TilesFor(mapper, n, rep, shape, t) ==
    CASE mapper \in {"Relu", "Gelu", "RequantizediGELU", "UniformRequantShift"} -> UnaryTiles(t)
      [] mapper \in {"iHardswish", "RequantizediHardswish"} -> iHardswishTiles(t)
      [] mapper \in {"Add", "RequantizedAdd"} -> BOPTiles({"data_in_1", "data_in_2", "data_out"}, t)
      [] mapper = "Mul" -> BOPTiles({"A", "B", "C"}, t)
      [] mapper = "ReluGrad" -> BOPTiles({"grad_out", "data_in", "grad_in"}, t)
      [] mapper = "GeluGrad" -> BOPTiles({"grad_in", "data_in", "grad_out"}, t)
      [] mapper = "SGD" -> SGDTiles(shape, t)
      [] mapper = "InPlaceAccumulatorV2" -> InPlaceAccumulatorV2Tiles(shape, t)
      [] mapper = "MSELoss" -> MSELossTiles(shape, t)
      [] mapper = "MSELossGrad" -> BOPTiles({"pred", "target", "grad"}, t)
      [] mapper = "RequantShift" -> RequantShiftTiles(n, t)
      [] mapper \in {"Softmax", "iSoftmax"} -> iSoftmaxTiles(shape, t)
      [] mapper = "SoftmaxGrad" -> SoftmaxGradTiles(shape, t)
      [] mapper = "iRMSNorm" -> iRMSNormTiles(shape, t)
      [] mapper = "LayerNormalization" -> LayernormTiles(shape, t)
      [] mapper = "LayerNormalizationGrad" -> LayernormGradTiles(shape, t)
      [] mapper = "SoftmaxCrossEntropyLoss" -> SoftmaxCrossEntropyTiles(shape, t)
      [] mapper = "SoftmaxCrossEntropyLossGrad" -> SoftmaxCrossEntropyGradTiles(shape, t)
      [] mapper = "Concat" -> ConcatTiles(rep, shape, t)
      [] mapper = "Transpose" -> TransposeTiles(rep, t)
      [] mapper = "Slice" -> SliceTiles(rep, t)
      [] mapper = "ReduceMean" -> ReduceMeanTiles(rep, t)
      [] mapper = "ReduceSum" -> ReduceSumTiles(shape, t)
      [] mapper \in {"MaxPool1D", "MaxPool2D"} -> PoolTiles({"data_in", "data_out"}, shape, t)
      [] mapper \in {"AveragePool", "AveragePoolGrad"} -> AveragePoolTiles(shape, t)
      [] mapper = "MaxPoolGrad" -> MaxPoolGradTiles(shape, t)
      [] mapper = "GlobalAveragePool" -> GlobalPoolTiles("data_out", "data_in", shape, t)
      [] mapper = "GlobalAveragePoolGrad" -> GlobalPoolTiles("dX", "dY", shape, t)
      [] mapper = "BatchNormInternal" ->
             BatchNormTiles(BatchNormImages,
                            BatchNormVectors \cup {"updated_running_mean", "updated_running_var"}, shape, t)
      [] mapper = "BatchNormalizationGrad" ->
             BatchNormTiles(BatchNormGradImages, BatchNormGradVectors, shape, t)
      [] mapper = "MatMul" -> MatMulTiles(rep, shape, t)
      [] mapper = "FloatGEMM" -> FloatGEMMTiles(rep, shape, t)
      [] mapper \in {"GEMM", "MatrixVec", "TallGEMM"} -> GEMMTiles(rep, shape, t)
      [] mapper = "FPConv2D" -> ConvTiles(rep, shape, t)
      [] mapper = "FPDWConv2D" -> DWConvTiles(rep, shape, t)
      [] mapper = "Conv2D" -> RQConvTiles(rep, shape, t)
      [] mapper = "DWConv2D" -> RQDWConvTiles(rep, shape, t)
      [] mapper = "Conv1D" -> RQConv1DTiles(rep, shape, t)
      [] mapper = "PWConvGradX" -> PWConvGradXTiles(n, rep, shape, t)
      [] mapper = "DWConvGradX" -> DWConvGradXTiles(shape, t)
      [] mapper = "ConvGradX" -> ConvGradXTiles(rep, shape, t)
      [] mapper = "PWConvGradW" -> PWConvGradWTiles(n, rep, shape, t)
      [] mapper = "DWConvGradW" -> DWConvGradWTiles(shape, t)
      [] mapper = "ConvGradW" -> ConvGradWTiles(n, rep, shape, t)
      [] mapper = "ConvGradB" -> ConvGradBTiles(shape, t)

(* One cube of the output, with its rectangle and its place in the tensor. *)
Serialized(mapper, n, rep, shape, at) ==
    LET cube == at.rectangle
    IN
    CASE mapper \in {"Relu", "Gelu", "RequantizediGELU", "UniformRequantShift"} -> UnarySerialize(cube)
      [] mapper \in {"iHardswish", "RequantizediHardswish"} -> iHardswishSerialize(cube)
      [] mapper \in {"Add", "RequantizedAdd"} -> BOPSerialize({"data_in_1", "data_in_2", "data_out"}, cube)
      [] mapper = "Mul" -> BOPSerialize({"A", "B", "C"}, cube)
      [] mapper = "ReluGrad" -> BOPSerialize({"grad_out", "data_in", "grad_in"}, cube)
      [] mapper = "GeluGrad" -> BOPSerialize({"grad_in", "data_in", "grad_out"}, cube)
      [] mapper = "SGD" -> BOPSerialize({"weight", "grad", "weight_updated"}, cube)
      [] mapper = "InPlaceAccumulatorV2" -> InPlaceAccumulatorV2Serialize(shape, cube)
      [] mapper = "MSELoss" -> MSELossSerialize(shape)
      [] mapper = "MSELossGrad" -> MSELossGradSerialize(cube)
      [] mapper = "RequantShift" -> RequantShiftSerialize(n, cube)
      [] mapper \in {"Softmax", "iSoftmax"} -> iSoftmaxSerialize(cube)
      [] mapper = "SoftmaxGrad" -> SoftmaxGradSerialize(cube)
      [] mapper = "iRMSNorm" -> iRMSNormSerialize(cube)
      [] mapper = "LayerNormalization" -> LayernormSerialize(shape, cube)
      [] mapper = "LayerNormalizationGrad" -> LayernormGradSerialize(shape, cube)
      [] mapper = "SoftmaxCrossEntropyLoss" -> SoftmaxCrossEntropySerialize(cube)
      [] mapper = "SoftmaxCrossEntropyLossGrad" -> SoftmaxCrossEntropyGradSerialize(cube)
      [] mapper = "Concat" -> ConcatSerialize(rep, shape, cube)
      [] mapper = "Transpose" -> TransposeSerialize(rep, cube)
      [] mapper = "Slice" -> SliceSerialize(rep, cube)
      [] mapper = "ReduceMean" -> ReduceMeanSerialize(rep, cube)
      [] mapper = "ReduceSum" -> ReduceSumSerialize(shape)
      [] mapper \in {"MaxPool1D", "MaxPool2D"} -> PoolSerialize(shape, cube)
      [] mapper \in {"AveragePool", "AveragePoolGrad"} -> AveragePoolSerialize(shape, cube)
      [] mapper = "MaxPoolGrad" -> MaxPoolGradSerialize(shape, cube)
      [] mapper = "GlobalAveragePool" -> GlobalPoolSerialize("data_out", "data_in", shape, cube)
      [] mapper = "GlobalAveragePoolGrad" -> GlobalPoolSerialize("dX", "dY", shape, cube)
      [] mapper = "BatchNormInternal" -> BatchNormSerialize(BatchNormImages, BatchNormVectors, cube)
      [] mapper = "BatchNormalizationGrad" ->
             BatchNormSerialize(BatchNormGradImages, BatchNormGradVectors, cube)
      [] mapper = "MatMul" -> MatMulSerialize(rep, shape, cube)
      [] mapper = "FloatGEMM" -> FloatGEMMSerialize(rep, shape, cube)
      [] mapper \in {"GEMM", "MatrixVec", "TallGEMM"} -> GEMMSerialize(rep, shape, cube)
      [] mapper \in {"FPConv2D", "FPDWConv2D"} -> ConvSerialize(rep, shape, at)
      [] mapper = "Conv2D" -> RQConvSerialize(rep, shape, cube)
      [] mapper = "DWConv2D" -> RQDWConvSerialize(rep, shape, cube)
      [] mapper = "Conv1D" -> RQConv1DSerialize(rep, shape, cube)
      [] mapper \in {"PWConvGradX", "ConvGradX"} -> ConvGradXSerialize(rep, shape, at)
      [] mapper = "DWConvGradX" -> DWConvGradXSerialize(rep, shape, at)
      [] mapper = "PWConvGradW" -> PWConvGradWSerialize(rep, shape, at)
      [] mapper = "DWConvGradW" -> DWConvGradWSerialize(rep, shape, at)
      [] mapper = "ConvGradW" -> ConvGradWSerialize(shape, at)
      [] mapper = "ConvGradB" -> ConvGradBSerialize(shape, cube)

KernelOf(mapper, n, rep) ==
    CASE mapper = "Add" -> IF n.kind = "float" THEN FloatAddKernel(rep) ELSE AddKernel(rep)
      [] mapper = "RequantizedAdd" -> AddKernel(rep)
      [] mapper = "Mul" -> IF n.kind = "float" THEN FloatMulKernel(rep) ELSE MulKernel(rep)
      [] mapper = "Relu" -> ReluKernel(rep)
      [] mapper \in {"Quant", "Dequant"} -> QuantKernel(rep)
      [] mapper = "ReluGrad" -> ReluGradKernel(rep)
      [] mapper = "Gelu" -> GELUKernel(rep)
      [] mapper = "GeluGrad" -> GELUGradKernel(rep)
      [] mapper = "RequantizediGELU" -> RQGELUKernel(rep)
      [] mapper = "iHardswish" -> iHardswishKernel(rep)
      [] mapper = "RequantizediHardswish" -> RQiHardswishKernel(rep)
      [] mapper = "SGD" -> SGDKernel(rep)
      [] mapper = "InPlaceAccumulatorV2" -> InPlaceAccumulatorV2Kernel(rep)
      [] mapper = "MSELoss" -> MSELossKernel(rep)
      [] mapper = "MSELossGrad" -> MSELossGradKernel(rep)
      [] mapper = "UniformRequantShift" -> UniformRequantShiftKernel(rep)
      [] mapper = "RequantShift" -> RequantShiftKernel(n, rep)
      [] mapper = "Softmax" -> SoftmaxKernel(rep)
      [] mapper = "iSoftmax" -> iSoftmaxKernel(rep)
      [] mapper = "SoftmaxGrad" -> SoftmaxGradKernel(rep)
      [] mapper = "iRMSNorm" -> iRMSNormKernel(rep)
      [] mapper = "LayerNormalization" -> LayernormKernel(rep)
      [] mapper = "LayerNormalizationGrad" -> LayernormGradKernel(rep)
      [] mapper = "SoftmaxCrossEntropyLoss" -> SoftmaxCrossEntropyLossKernel(rep)
      [] mapper = "SoftmaxCrossEntropyLossGrad" -> SoftmaxCrossEntropyLossGradKernel(rep)
      [] mapper = "Concat" -> ConcatKernel(rep)
      [] mapper = "Transpose" -> TransposeKernel(rep)
      [] mapper = "Slice" -> SliceKernel(rep)
      [] mapper = "ReduceMean" -> IF n.kind = "float" THEN FloatReduceMeanKernel(rep)
                                  ELSE ReduceMeanKernel(rep)
      [] mapper = "ReduceSum" -> FloatReduceSumKernel(rep)
      [] mapper = "Gather" -> GatherKernel(rep)
      [] mapper = "MaxPool1D" -> MaxPool1DKernel(rep)
      [] mapper = "MaxPool2D" -> IF n.kind = "float" THEN FloatMaxPoolKernel(rep) ELSE MaxPool2DKernel(rep)
      [] mapper = "AveragePool" -> AveragePoolKernel(rep)
      [] mapper = "AveragePoolGrad" -> AveragePoolGradKernel(rep)
      [] mapper = "MaxPoolGrad" -> MaxPoolGradKernel(rep)
      [] mapper = "GlobalAveragePool" -> GlobalAveragePoolKernel(rep)
      [] mapper = "GlobalAveragePoolGrad" -> GlobalAveragePoolGradKernel(rep)
      [] mapper = "BatchNormInternal" -> BatchNormInternalKernel(rep)
      [] mapper = "BatchNormalizationGrad" -> BatchNormGradKernel(rep)
      [] mapper \in Aliasing -> {}
      [] mapper = "MatMul" -> IF n.kind = "float" THEN FloatMatMulKernel(rep) ELSE MatMulKernel(rep)
      [] mapper = "FloatGEMM" -> FloatGEMMKernel(rep)
      [] mapper = "GEMM" -> GEMMKernel(rep)
      [] mapper = "MatrixVec" -> MatrixVecKernel(rep)
      [] mapper = "TallGEMM" -> TallGEMMKernel(rep)
      [] mapper = "FPConv2D" -> FloatConvKernel(rep)
      [] mapper = "FPDWConv2D" -> FloatDWConvKernel(rep)
      [] mapper = "Conv2D" -> RQConvKernel(rep)
      [] mapper = "DWConv2D" -> RQDWConvKernel(rep)
      [] mapper = "Conv1D" -> RQConv1DKernel(rep)
      [] mapper = "PWConvGradX" -> PWConvGradXKernel(rep)
      [] mapper = "DWConvGradX" -> DWConvGradXKernel(rep)
      [] mapper = "ConvGradX" -> ConvGradXKernel(rep)
      [] mapper = "PWConvGradW" -> PWConvGradWKernel(rep)
      [] mapper = "DWConvGradW" -> DWConvGradWKernel(rep)
      [] mapper = "ConvGradW" -> ConvGradWKernel(rep)
      [] mapper = "ConvGradB" -> ConvGradBKernel(rep)

(* The output that wrapTilingSolution cuts. *)
CutOutput(mapper, parsed) == IF mapper = "SoftmaxCrossEntropyLoss" THEN "log_prob" ELSE parsed.out[1]

(* Tensors that share another's memory: SGD updates the weight and the     *)
(* accumulator its buffer, the latter in the local memory too.             *)
HomeOf(mapper, role) ==
    CASE mapper = "SGD" /\ role = "weight_updated" -> "weight"
      [] mapper = "InPlaceAccumulatorV2" /\ role = "data_out" -> "accum_buffer"
      [] mapper \in Aliasing /\ role = "data_out" -> "data_in"
      [] OTHER -> role
LocalOf(mapper, role) ==
    IF mapper = "InPlaceAccumulatorV2" /\ role = "data_out" THEN "accum_buffer" ELSE role
=============================================================================
