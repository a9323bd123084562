---------------------------- MODULE MCApplication ----------------------------
(* The parts of the application (app/mainwindow.cpp): one acquisition, the    *)
(* window with its lists and buttons, and the axes of the plot.  All of them  *)
(* run in one thread and share no state but the endpoints, so that each can   *)
(* be checked on its own: a behaviour runs the part it began with, and the    *)
(* other two stay as they are.                                                *)
EXTENDS HostTransfer, MCHostWindow, HostPlot

VARIABLE part

applicationVars == <<hostVars, windowVars, plotVars, part>>

\* Ranges of levels: the highest graph reaches its high level or not, and the lowest
\* its low level or not.
MCYData == {[lower |-> l, upper |-> u] : l \in {0, 80}, u \in {1120, 1200}}

ApplicationInit ==
  /\ HostInit /\ WindowInit /\ PlotInit
  /\ part \in {"transfer", "window", "plot"}
  /\ part # "window" => plugged = <<>>

Transfer == part = "transfer" /\ HostNext /\ UNCHANGED <<windowVars, plotVars, part>>
Reading == part = "transfer" /\ Call /\ UNCHANGED <<windowVars, plotVars, part>>
Answer   == part = "transfer" /\ Device /\ UNCHANGED <<windowVars, plotVars, part>>
Window   == part = "window" /\ WindowNext /\ UNCHANGED <<hostVars, plotVars, part>>
Plot     == part = "plot" /\ PlotNext /\ UNCHANGED <<hostVars, windowVars, part>>
Axes     == part = "plot" /\ SetRange /\ UNCHANGED <<hostVars, windowVars, part>>

ApplicationNext == Transfer \/ Window \/ Plot

ApplicationSpec ==
  /\ ApplicationInit /\ [][ApplicationNext]_applicationVars
  /\ WF_applicationVars(Reading) /\ WF_applicationVars(Answer) /\ WF_applicationVars(Axes)
=============================================================================
