\* One bundle, any sequence of commands, crashes and failing writes, damaged
\* twice at most.
CONSTANT MaxDamage = 2
SPECIFICATION Spec
INVARIANTS
  SoundBundleVerifies
  DamageIsDetected
  SuccessMeansSound
