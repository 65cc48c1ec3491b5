-------------------------- MODULE WorkerController --------------------------
(***************************************************************************)
(* How many of a scan's workers may probe at once: validatorWorkerController  *)
(* of scanner.go.  A controller is the record of its counters; each operator  *)
(* is one of its critical sections.  On Windows the limit adapts: a result    *)
(* that shows socket pressure takes a quarter away, and a long enough series  *)
(* of results without gives a sixteenth of the ceiling back.                  *)
(***************************************************************************)
EXTENDS Integers

CONSTANTS
    Ceiling,          \* the most workers that may probe at once
    SuccessFloor,     \* 100: the least number of successes before a raise
    SuccessesPerWorker \* 4: ... and how many of them for each effective worker

ASSUME ControllerAssumption ==
    /\ Ceiling \in Nat \ {0}
    /\ SuccessFloor \in Nat \ {0}
    /\ SuccessesPerWorker \in Nat

MinInt(left, right) == IF left < right THEN left ELSE right
MaxInt(left, right) == IF left > right THEN left ELSE right

Controllers ==
    [adaptive: BOOLEAN, effective: 1..Ceiling, active: 0..Ceiling, successes: Nat]

\* newValidatorWorkerPlanForOS: only Windows starts below the ceiling.
NewController(adaptive, defaultWorkers) ==
    [adaptive |-> adaptive,
     effective |-> IF adaptive THEN MaxInt(1, MinInt(Ceiling, defaultWorkers)) ELSE Ceiling,
     active |-> 0,
     successes |-> 0]

MayAcquire(c) == c.active < c.effective
Acquired(c) == [c EXCEPT !.active = @ + 1]

Threshold(c) == MaxInt(SuccessFloor, c.effective * SuccessesPerWorker)

\* release(true): a quarter fewer, but never none.
UnderPressure(c) ==
    [c EXCEPT !.successes = 0,
              !.effective = MinInt(@, MaxInt(1, (@ * 3) \div 4))]

\* release(false): counted, and raised once there are enough.
WithoutPressure(c) ==
    IF c.successes + 1 < Threshold(c)
    THEN [c EXCEPT !.successes = @ + 1]
    ELSE [c EXCEPT !.successes = 0,
                   !.effective = MinInt(Ceiling, @ + MaxInt(1, Ceiling \div 16))]

Released(c, pressure) ==
    LET returned == [c EXCEPT !.active = IF @ > 0 THEN @ - 1 ELSE @]
    IN  CASE c.adaptive /\ pressure -> UnderPressure(returned)
          [] c.adaptive /\ ~pressure /\ c.effective < Ceiling -> WithoutPressure(returned)
          [] OTHER -> returned
=============================================================================
