\* What the documents say of a bundle.
CONSTANT MaxDamage = 2
SPECIFICATION Spec
INVARIANT
  SignatureMatchesIntegrity
