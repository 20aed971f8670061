--------------------------- MODULE MCContinuousEngine ---------------------------
\* Three requests that compete for four blocks of two tokens.
EXTENDS ContinuousEngine

CONSTANTS x, y, k1, k2, k3

Shape(prompt, output, hashes, priority, key) ==
    [prompt |-> prompt, output |-> output, hashes |-> hashes, priority |-> priority, key |-> key]

\* A long answer, a shared prefix with a higher priority, a short prompt whose
\* block has the hash of another's second block, a prompt without hashes that
\* needs most of the pool, and a request that never fits.
MCShapes == {Shape(2, 5, <<x>>, 0, k1), Shape(4, 2, <<x, y>>, 1, k2), Shape(1, 1, <<y, x>>, 1, k3),
             Shape(5, 0, <<>>, 0, k2), Shape(4, 5, <<>>, 1, k3)}
=============================================================================
