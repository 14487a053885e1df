SPECIFICATION FairSpec
CONSTANTS
    j1 = j1
    j2 = j2
    Jobs = {j1, j2}
    PageCount <- BlankToo
    HttpThreads = {h1}
    RenderThread = render
    MaxAttempts = 2
    None = None
PROPERTY StartedJobsFinish
