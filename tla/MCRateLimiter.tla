--------------------------- MODULE MCRateLimiter ---------------------------
(* RateLimiter for TLC: the handlers are interchangeable.                    *)
EXTENDS RateLimiter, TLC

Symmetry == Permutations(Handlers)
=============================================================================
