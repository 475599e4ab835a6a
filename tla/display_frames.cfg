SPECIFICATION Spec
CONSTANT Slot = {a, b, c, d}
SYMMETRY Symmetry
INVARIANTS ValidIsHeld
PROPERTIES EachRenderedOnce
