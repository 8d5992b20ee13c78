SPECIFICATION Spec
CONSTANTS
    Sockets = {w1, w2}
    MaxLive = 2
    MaxQueue = 4
    MaxEmitted = 1
    MaxTrouble = 1
    Engines = {e1, e2}
    Takes = {t1}
    Asks = {a1, a2}
    Allowance = 3
    NoTake = NoTake
    Requests = {r1, r2}
    Voices = {v1}
    Wavs = {t1, t2}
    Continuations = {c1, c2}
    MaxContinuations = 1
    MaxCaches = 1
    DeskLimit = 1
    None = None
    MaxDispatches = 4
    Terms = {x1, x2}
    Readings = {p1}
    Speakers = {s1}
    Unset = Unset
    Streams <- MCStreams
    FrameSizes = {2, 3}
    WindowSize = 2
    MinSpeech = 3
    Silence = 2
    MaxSpeech = 6
    PreRoll = 2
    MaxBuffered = 4
    MaxClock <- MCClock
    Never = Never
SYMMETRY MCSymmetry
INVARIANTS
    EndingsAreRecorded
    PaidIsDone
    PipelineIsKept
    ReferentsHold
    SpeechIsSegmented
