SPECIFICATION EitherSpec
CONSTANTS
    Labels = {"ax25", "usp", "mobitex"}
    Extras = {"ax100", "ax25"}
    Kinds = {"fsk", "bpsk", "oqpsk", "cw"}
    Requested = 12
    Captures = {0, 8, 512}
    Symbols = {0, 6, 100}
    Offsets = {0, 300}
    DefaultOffset = 25
    Pieces = {0, 1, 2, 4}
    Catalogue = {"ax25", "ax25_g3ruh", "ax100_mode6", "ax100_asm_golay", "u482c", "cc11xx",
                 "grizu263a", "openlst", "sanosat", "snet", "geoscan", "tt64", "ao40_uncoded",
                 "ao40_fec", "fx25_nrzi", "ccsds_reed_solomon", "ccsds_uncoded",
                 "ccsds_concatenated", "smogp_signalling", "smogp_ra", "usp", "ngham",
                 "mobitex", "legacy"}
    Samples = 3
    Mtus = {1, 2}
    DefaultChunk = 2
    MaxStalls = 1
    Trials = 2
    Tools = {"gfsk", "direct", "probe", "native"}
    Ratios <- UpDown
    Taps = 1
    MaxLength = 9
    Attempts = 2
    Probes = {p1, p2, p3}
    Framings = {"native", "legacy"}
    Native = {"native"}
    MaxSamples = 5
    MaxFrame = 3
    MaxBad = 1
    MaxHits = 3
    QueueCap = 2
INVARIANTS
    NothingDangles
    ReportIsTrue
    SignalHeard
    FramesExactlyOnce
    NeverRaises
    CleanTransmit
    HonestVerdict
    ViewsAreTrue
    OneProbeAtATime
    DecodedWhole
