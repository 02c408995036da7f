SPECIFICATION FairSpec
CONSTANTS
    producer = producer
    consumer = consumer
    server = server
    deduceInputs = deduceInputs
    getThermo = getThermo
    getGeo = getGeo
    calcPerf = calcPerf
    raw_mutex = raw_mutex
    bench_mutex = bench_mutex
    Nobody = nobody
    stage <- MCStage
    Thread <- MCThread
    Mutex <- MCMutex
    InitPriority <- MCInitPriority
    PriorityByte = {0, 31}
    NumReadings = 1
    Sweeps = 1
INVARIANTS LoansReturned NoChain
PROPERTIES Samples Benchmarks BodyEnds
