------------------------------- MODULE MCCron -------------------------------
(***************************************************************************)
(* An instance of Cron: a schedule for every second time and one for every *)
(* third.                                                                  *)
(***************************************************************************)
EXTENDS Cron

Multiples(n) == [t \in 0..MaxTime |-> IF (t \div n + 1) * n > MaxTime THEN MaxTime + 1
                                      ELSE (t \div n + 1) * n]
EverySecondOrThird == [e \in {"second", "third"} |->
                          Multiples(IF e = "second" THEN 2 ELSE 3)]
=============================================================================
