SPECIFICATION Spec
CONSTANTS
    j1 = j1
    j2 = j2
    Jobs = {j1}
    PageCount <- SomePages
    HttpThreads = {h1, h2}
    RenderThread = render
    MaxAttempts = 2
    None = None
INVARIANTS CompleteIsTrue CanceledIfAsked CancelStopsWork DeleteAbortedOnlyIfLate
PROPERTY KeepsPromise
