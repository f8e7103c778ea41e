SPECIFICATION Spec
CONSTANTS
    Outer = Outer
    Inner = Inner
    Other = Other
    A = A
    B = B
    ab = ab
    ba = ba
    done = done
    leave = leave
    enter = enter
    Nodes = {Outer, Inner, Other, A, B}
    Transitions = {ab, ba, done, leave, enter}
    Outermost = Outer
    nodes <- MCnodes
    start <- MCstart
    transitions <- MCtransitions
    srcs <- MCsrcs
    dsts <- MCdsts
    hears <- MChears
    Eager = {done}
    MaxTodo = 20
INVARIANTS OneStateActive TransitionsWait
