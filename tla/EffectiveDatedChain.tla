-------------------------- MODULE EffectiveDatedChain --------------------------
(***************************************************************************)
(* What an employment history promises: a chain of values, each in force   *)
(* from its date until the next one's.  It only grows at its end, only its *)
(* last value may be amended, and every link is announced once with the    *)
(* value it replaced.                                                      *)
(***************************************************************************)
EXTENDS Naturals

CONSTANTS Dates, Values, NoValue

VARIABLES
  inForce,     \* inForce[d]: the value in force from date d, NoValue if none starts then
  announced    \* announced[d]: what the timeline says happened on d

Starts == {d \in Dates : inForce[d] # NoValue}
IsLast(d) == d \in Starts /\ \A s \in Starts : s <= d

\* The value in force just before d.
Before(d) ==
  IF \E s \in Starts : s < d
    THEN inForce[CHOOSE s \in Starts : s < d /\ \A t \in Starts : t < d => t <= s]
    ELSE NoValue

ChainInit ==
  /\ inForce = [d \in Dates |-> NoValue]
  /\ announced = [d \in Dates |-> <<NoValue, NoValue>>]

\* A value takes over after everything there is.
Append(d, v) ==
  /\ \A s \in Starts : s < d
  /\ inForce' = [inForce EXCEPT ![d] = v]
  /\ announced' = [announced EXCEPT ![d] = <<Before(d), v>>]

\* The last value is corrected on the day it took effect.
AmendLast(d, v) ==
  /\ IsLast(d)
  /\ inForce' = [inForce EXCEPT ![d] = v]
  /\ announced' = [announced EXCEPT ![d] = <<Before(d), v>>]

ChainNext == \E d \in Dates, v \in Values : Append(d, v) \/ AmendLast(d, v)

ChainSpec == ChainInit /\ [][ChainNext]_<<inForce, announced>>
=============================================================================
