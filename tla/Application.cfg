SPECIFICATION Spec
CONSTANTS
    producer = producer
    consumer = consumer
    server = server
    deduceInputs = deduceInputs
    getThermo = getThermo
    getGeo = getGeo
    calcPerf = calcPerf
    raw_mutex = raw_mutex
    bench_mutex = bench_mutex
    Nobody = nobody
    stage <- MCEnds
    Thread <- MCThread
    Mutex <- MCMutex
    InitPriority <- MCInitPriority
    PriorityByte = {0}
    NumReadings = 2
    Sweeps = 2
INVARIANTS SampleWhole PointComplete RecordWhole StagesClosed
