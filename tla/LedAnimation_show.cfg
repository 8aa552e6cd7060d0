CONSTANT Settings <- MCSettings
SPECIFICATION Spec
INVARIANT NoResidue
PROPERTY Breathes
