CONSTANT IntWidth = 6
SPECIFICATION Spec
INVARIANT BumpChangesAnnotation
