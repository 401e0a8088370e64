CONSTANTS
  ByteSize = 29
  IntSize = 256
  StringHash <- MCStringHash
  StackSize = 64
  GlobalsSize = 2
  MaxFrames = 4
  Names = {"a", "va", "vb", "vc", "vd", "ve", "vf", "vg", "vh", "vi", "vj", "vk", "vl", "vm", "vn", "vo", "vp", "vq", "vr", "vs", "vt", "vu", "vv", "vw", "vx", "vy", "vz", "wa", "wb", "wc"}
  KeyText <- MCKeyText
  NUL = "@"
  Inputs <- LimitInputs
  MaxCalls = 4
SPECIFICATION Spec
INVARIANTS EnginesAgree
CHECK_DEADLOCK FALSE
