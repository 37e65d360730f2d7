\* ringbuffer.c as a bounded queue, over counters that wrap.
CONSTANTS
    Word = 8
    Capacity = 4
    MaxLen = 5
    Byte = {a, b}
    Garbage = garbage
SPECIFICATION Spec
INVARIANTS TypeOK Bounded ContigInside
PROPERTY ImplementsQueue
