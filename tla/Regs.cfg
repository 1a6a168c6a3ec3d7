SPECIFICATION AsmSpec
CONSTANT
    Overwritten = { {}, {"rbx"}, {"rax", "rcx", "rdx", "rsi", "rdi", "r8"} }
INVARIANTS LostBySave FrameIsFound ArgumentsArrive RegistersComeBack
CHECK_DEADLOCK FALSE
