SPECIFICATION Spec
CONSTANTS
  MaxWrites = 3
  Settings <- SomeSettings
INVARIANTS NeededFilesExist ReadsWhatIsThere
PROPERTIES SyncWritesStable ImplementsKVStore
