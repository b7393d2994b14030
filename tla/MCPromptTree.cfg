\* Every sequence of three insertions of prompts of up to three characters, and
\* an unlocked reader among them.
CONSTANTS
  here = here  there = there  reader1 = reader1
  Here = here  Nil = Nil
  Chars <- AB
  Prompts <- SomePrompts
  Owners = {here, there}
  Readers = {reader1}
  Ids <- TreeNodes
  MaxInserts = 3
SPECIFICATION Spec
INVARIANTS IsTree StoresRecorded MatchIsSound ReadIsSound
