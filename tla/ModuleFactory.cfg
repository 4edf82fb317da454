CONSTANT ModTypes = {x264, lavc, pcm, ogg}
CONSTANT MaxHandlers = 3
CONSTANT MaxModules = 4
CONSTANT MaxCount = 5
SYMMETRY Plugins
SPECIFICATION Spec
INVARIANT ClassStaysLoaded
INVARIANT CountsExact
INVARIANT UnloadedWhenUnused
