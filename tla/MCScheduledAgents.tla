------------------------- MODULE MCScheduledAgents -------------------------
EXTENDS ScheduledAgents

CONSTANTS a, b

\* Two replicas on a one-shot occurrence with a required output and on a cron
\* occurrence without one; one replica on each with the other policy.
MCScenarios ==
    [runs : {1}, schedule : {"once"}, lastRun : {Never},
     required : {TRUE}, up : {{a, b}}]
    \cup [runs : {1}, schedule : {"cron"}, lastRun : {0},
          required : {FALSE}, up : {{a, b}}]
    \cup [runs : {1}, schedule : {"once"}, lastRun : {Never},
          required : {FALSE}, up : {{a}}]
    \cup [runs : {1}, schedule : {"cron"}, lastRun : {0},
          required : {TRUE}, up : {{a}}]

\* Two occurrences of a cron agent on one replica.
MCTwoOccurrences ==
    [runs : {2}, schedule : {"cron"}, lastRun : {0}, required : {FALSE},
     up : {{a}}]
=============================================================================
