CONSTANTS
  Commands = {1, 2}
  Hooks = {3}
  Reloads = {4}
  Delays = {1, 2}
  MaxEvents = 4
SPECIFICATION Spec
INVARIANTS EachReplyOnce RepliesInOrder
PROPERTIES RequestsServed
