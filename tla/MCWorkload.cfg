\* Three VUs over two shards, so the first and the third share one. Buckets of the
\* code's layout with one sub-bucket bit: 4 linear ones, then two per power of two,
\* up to 40; latencies recorded by themselves are on both sides of bucket borders.
CONSTANTS
    SubBits = 1
    MaxTracked = 40
    NumVUs = 3
    NumShards = 2
    Statuses = {200, 399, 600}
    FamilyKind <- GraphQLFamilies
    Elapsed = 2
    HTTPOutcomes <- MCHTTPOutcomes
    GraphQLOutcomes <- MCGraphQLOutcomes
    CheckNames = {"ok", "fast"}
    Expressions <- MCExpressions
    MaxOps = 2
    MaxIterations = 2
    Latencies = {0, 3, 4, 5, 7, 12, 24, 31, 40, 50}
    Percentiles = {1, 500, 900, 999, 1000}
    MaxRecords = 4
    NumSessions = 2
    Traffic <- MCTraffic
    MaxPresize = 3
    MaxRounds = 2
    MaxExchanges = 3
SPECIFICATION Walks
CHECK_DEADLOCK FALSE
INVARIANTS
    PercentileAccurate
    SessionsHonest
    CountsExact
    LatenciesExact
    ThresholdsHonest
