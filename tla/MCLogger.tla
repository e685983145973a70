------------------------------ MODULE MCLogger ------------------------------
(* Model checking of Logger.                                                *)
EXTENDS Logger, TLC

\* A logger: its threshold, the transforms and options it has, and whether it
\* is a child with a bound context.
Lgr(level, opts, bound) == [level |-> level, mask |-> "mask" \in opts, sample |-> "sample" \in opts,
                            caller |-> "caller" \in opts, bound |-> bound]
Setup(a, returns, f, g) == [adapters |-> a, returns |-> returns,
                            log |-> [l \in Loggers |-> IF l = "root" THEN f ELSE g]]

\* A root logger and its child, on every route of setupFunctionPointers.
Family(a, level, opts) == Setup(a, FALSE, Lgr(level, opts, FALSE), Lgr(level, opts, TRUE))
Families ==
    {Family("console", 2, o) : o \in {{}, {"caller"}, {"mask"}, {"sample", "caller"}}}
    \union {Family("other", 2, o) : o \in {{}, {"mask", "sample"}}}
    \union {Family("discard", 2, {})}
    \union {Family("console", 6, {}), Family("other", 6, {"caller"})}
\* Unrelated loggers on the same adapters, one of which records call sites or
\* masks and the other does not; the exit function returns.
Strangers ==
    {Setup("console", TRUE, Lgr(2, {"caller"}, FALSE), Lgr(2, {"mask"}, FALSE)),
     Setup("other", TRUE, Lgr(2, {"caller", "mask"}, FALSE), Lgr(2, {"sample"}, FALSE))}

MCSetups == Families \union Strangers
Symmetry == Permutations(Threads) \union Permutations(States)
=============================================================================
