------------------------------ MODULE MCDelivery ------------------------------
(* Model checking of the components that deliver entries in the background or  *)
(* again: the worker pools, the asynchronous middleware, the HTTP adapter and  *)
(* the retry middleware.  They do not interact; each behaviour is one of them. *)
EXTENDS WorkerPool, AsyncAdapter, HTTPAdapter, Retry

VARIABLE part   \* the component this behaviour is of

deliveryVars == <<part, wpVars, asyncVars, httpVars, retryVars>>

MCCommonCounts == <<1>>

Init ==
    /\ part \in {"pool", "async", "http", "retry"}
    /\ WPInit /\ AsyncInit /\ HTTPInit /\ RetryInit
    /\ part # "http" => batchSize = CHOOSE b \in BatchSizes : TRUE
    /\ part # "retry" => /\ rcfg.maxRetries = 0
                         /\ rcfg.baseDelay = DefaultBase /\ rcfg.maxDelay = DefaultMax

Next ==
    /\ UNCHANGED part
    /\ \/ part = "pool" /\ WPNext /\ UNCHANGED <<asyncVars, httpVars, retryVars>>
       \/ part = "async" /\ AsyncNext /\ UNCHANGED <<wpVars, httpVars, retryVars>>
       \/ part = "http" /\ HTTPNext /\ UNCHANGED <<wpVars, asyncVars, retryVars>>
       \/ part = "retry" /\ RetryNext /\ UNCHANGED <<wpVars, asyncVars, httpVars>>

\* A component that is not the behaviour's stays in its initial state, where none
\* of its fair actions is enabled.
Spec == Init /\ [][Next]_deliveryVars /\ WPFairness /\ AsyncFairness /\ HTTPFairness

\* Every variable has its type, queues and buffers included.
DeliveryTypeOK == WPTypeOK /\ AsyncTypeOK /\ HTTPTypeOK

\* What was given to a component gets on, and no call waits for ever: a buffered
\* entry is sent, and Get, Submit and Close of the worker pools, Flush and Close of
\* the asynchronous middleware and Close of the HTTP adapter return.
DeliveryProgress == BufferedIsSent /\ PoolCallsReturn /\ AsyncCallsReturn /\ HTTPCloseReturns
===============================================================================
