\* Two pages served one after the other by the same runtime.
SPECIFICATION Spec
CONSTANTS
  r1 = r1
  r2 = r2
  Renders = {r1, r2}
  MaxCalls = 2
  MaxTicks = 1
  Size = 1
  MaxHostCalls = 1
  MaxRenderDepth = 1
  NoRender = NoRender
  NoVM = NoVM
SYMMETRY RenderSymmetry
INVARIANTS
  IdleRuntimesAreClean
  OwnCallbacksOnly
  EveryPromiseHasAnAnswerer
CHECK_DEADLOCK FALSE
