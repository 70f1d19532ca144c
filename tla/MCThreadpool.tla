---------------------------- MODULE MCThreadpool ----------------------------
(* Instances of Threadpool for TLC: the job trees.                           *)
EXTENDS Threadpool, TLC

CONSTANTS a, a1, a2, b, b1

\* Two jobs that each add a child.
ForkJobs == {a, a1, b, b1}
ForkParent == a :> NoJob @@ a1 :> a @@ b :> NoJob @@ b1 :> b

\* A job with a child and a grandchild beside a job with a child.
ChainJobs == {a, a1, a2, b, b1}
ChainParent == a :> NoJob @@ a1 :> a @@ a2 :> a1 @@ b :> NoJob @@ b1 :> b

\* One nested job.
PairJobs == {a, a1}
PairParent == a :> NoJob @@ a1 :> a

Static == {0}         \* a pool in static storage: zero before it is built
Garbage == {-1, 0, 1} \* a pool on the stack or the heap: anything
=============================================================================
