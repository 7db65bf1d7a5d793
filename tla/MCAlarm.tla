---- MODULE MCAlarm ----
(* A minute of 180 ticks of which a delay takes 166, a counter that wraps  *)
(* within the run (TickMod stands for 2^32), and two modes of three and six *)
(* beeps, which with the five of an end overfill the queue.                *)
EXTENDS Alarm

MCMinutes == {1}
MCTickMod == 351
MCStartTicks == {349}
MCTickMs == 3
MCMaxLag == 1
MCRequests == {2, 5}
====
