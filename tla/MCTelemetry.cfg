CONSTANTS
  app1 = app1
  test1 = test1
  test2 = test2
  test3 = test3
  Threads <- MCThreads
  Role <- MCRole
  MaxPanics = 2
  EnvValues = {"unset", "dev", "prod", "invalid"}
SPECIFICATION Spec
PROPERTY SetupSpec
INVARIANT TestTracingReadyOnReturn
INVARIANT FileWriterFlushed
