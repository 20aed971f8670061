-------------------------- MODULE MCDeterministicEngine --------------------------
\* Requests that compete for three blocks of two tokens.
EXTENDS DeterministicEngine

CONSTANTS x, y, z

Shape(hash, prompt, output, arrival) ==
    [hash |-> hash, prompt |-> prompt, output |-> output, seed |-> 0, arrival |-> arrival]

\* One that needs the whole pool, two that can share a batch (with the capacity 1
\* of the result cache, equal ones are also run again), one without a prompt that
\* arrives later, and one that never fits.
MCShapes == {Shape(x, 3, 3, 0), Shape(y, 2, 1, 0), Shape(z, 1, 1, 0),
             Shape(x, 0, 1, 1), Shape(x, 6, 1, 1)}
=============================================================================
