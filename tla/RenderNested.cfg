\* A page that may fetch the other page, or be asked for on its own; one slot for
\* both, which a nested page or a goroutine that outlives its render may pin;
\* handlers may block for ever.
SPECIFICATION UncooperativeSpec
CONSTANTS
  r1 = r1
  r2 = r2
  Renders = {r1, r2}
  MaxCalls = 1
  MaxTicks = 0
  Size = 1
  MaxHostCalls = 1
  MaxRenderDepth = 2
  NoRender = NoRender
  NoVM = NoVM
INVARIANTS
  SlotsAreLiveGoroutines
  PoolConserved
PROPERTIES
  RendersReturn
CHECK_DEADLOCK FALSE
