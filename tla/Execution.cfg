SPECIFICATION FairSpec
CONSTANTS
  Parts = {"dispatch", "depin", "sidecar", "sessions", "commands", "log_stream", "log_tail"}
  Deps = {d1}
  Kinds = {"cluster", "ephemeral", "persistent", "managed"}
  Deletes = {1}
  Slots = 1
  MaxRetries = 2
  MaxCrashes = 1
  Starts = 1
  MaxJobs = 2
  MaxServices = 2
  Polls = {1}
  MaxKeys = 1
  MaxTries = 1
  Conns = {c1, c2}
  Streams = {s1}
  Commands = {k1}
  NoConn = NoConn
  Subs = {u1, u2}
  NoSub = NoSub
  Providers = {"worker", "nosana", "skypilot"}
  MaxAsks = 3
 
 
INVARIANT ChannelSound
INVARIANT LogsSound
PROPERTY GivenUpForGood
 
\* Most components come to rest when everything asked of them is done.
CHECK_DEADLOCK FALSE
