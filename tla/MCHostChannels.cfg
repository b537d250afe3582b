SPECIFICATION Spec
CONSTANTS
  hub = hub
  dev = dev
  e1 = e1
  e2 = e2
  Devs = {hub, dev}
  Root = hub
  Eps = {e1, e2}
  HC_MAX = 3
  Subtree <- MCSubtree
  DynamicHc <- MCDynamicHc
VIEW MCView
INVARIANTS Exclusive Backed
PROPERTY ImplementsVirtual
