------------------------------ MODULE MCRestApi ------------------------------
EXTENDS RestApi

CONSTANTS r, w1, w2, e1

\* Two clients start one experiment, one of them also creates and stops it; a
\* third one looks.
Roles ==
  [ c \in Clients |->
      CASE c = r  -> { "get", "list", "status", "report" }
        [] c = w1 -> { "create", "start", "stop" }
        [] c = w2 -> { "start" } ]

\* No guard reads the answer that the last step sent: it is part of the steps
\* that the properties look at and not of the states that are told apart.
View == << tables, activeRuns, now, faults, handler, history >>
=============================================================================
