SPECIFICATION Spec
CONSTANTS
  kGemmConfigs <- ThreeConfigs
  kTestShapes <- TwoShapes
  FuncShape <- OddRows
  CustomShapes <- AnyShape
  kWarmupIterations = 1
  kBenchmarkIterations = 2
  Latencies = {0, 1, 2}
  Flops = 2
  MaxFaults = 3
INVARIANTS TypeOK SuccessIsEarned FailureHasCause CountersAddUp
  BestLeadsRanking NothingLeft BestFile
PROPERTY Termination
