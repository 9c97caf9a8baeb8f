SPECIFICATION Spec
CONSTANTS
  kGemmConfigs <- ThreeConfigs
  kTestShapes <- TwoShapes
  FuncShape <- OddRows
  CustomShapes <- AnyShape
  kWarmupIterations = 1
  kBenchmarkIterations = 1
  Latencies = {1}
  Flops = 2
  MaxFaults = 0
INVARIANT WithinTolerance
