------------------------------ MODULE HostPlot ------------------------------
(***************************************************************************)
(* The axes of the plot (app/mainwindow.cpp, with the calls of             *)
(* app/qcustomplot.cpp that they go through).  Every change of a range     *)
(* signals the slot that limits it, which may change the range again       *)
(* before the call returns: the calls under way are a stack.  Coordinates  *)
(* are integers; those of y count 1/160 of the distance of two graphs, so  *)
(* that a twentieth of every range is whole.                               *)
(***************************************************************************)
EXTENDS Integers, Sequences

CONSTANTS
  Sizes,      \* samples of the captures that are drawn
  YData,      \* ranges that the levels of a capture cover
  Reach       \* bound: the user drags and zooms within -Reach..Reach

ASSUME PlotAssumption ==
  /\ Sizes \subseteq Nat \ (0..1) /\ Reach \in Nat \ (0..4)
  /\ YData \subseteq [lower : Int, upper : Int]

VARIABLES
  range,   \* of the axes x and y
  limit,   \* the properties xmin and xmax, ymin and ymax of the plot
  calls,   \* changes of a range under way, the innermost first
  asked    \* history: the size of the x range that was asked for last

plotVars == <<range, limit, calls, asked>>

Interval(l, u) == [lower |-> l, upper |-> u]
Size(r) == r.upper - r.lower
Inside(r, l) == l.lower <= r.lower /\ r.upper <= l.upper

Set(a, r) == [axis |-> a, op |-> "set", to |-> r]
Scale(a) == [axis |-> a, op |-> "scale", to |-> Interval(0, 0)]

-----------------------------------------------------------------------------

\* Mutant: the other end is not held.
Limited_OneEnd(r, l) ==
  IF r.lower < l.lower THEN Interval(l.lower, l.lower + Size(r))
  ELSE IF r.upper > l.upper THEN Interval(l.upper - Size(r), l.upper) ELSE r

\* Mutant: the size is not kept.
Limited_Cut(r, l) ==
  Interval(IF r.lower < l.lower THEN l.lower ELSE r.lower,
        IF r.upper > l.upper THEN l.upper ELSE r.upper)

\* limitAxisRange: moved back within the limits, and cut if it is too long.
Limited(r, l) ==
  LET lower == Interval(l.lower, l.lower + Size(r))
      upper == Interval(l.upper - Size(r), l.upper)
  IN IF r.lower < l.lower
     THEN IF lower.upper > l.upper THEN l ELSE lower
     ELSE IF r.upper > l.upper
     THEN IF upper.lower < l.lower THEN l ELSE upper
     ELSE r

\* The slots xAxisChanged and yAxisChanged: a range beyond the limits is set again.
Changed(a, r) == IF Inside(r, limit[a]) THEN <<>> ELSE <<Set(a, Limited(r, limit[a]))>>

\* scaleRange(1.1, center)
Scaled(r) == Interval(r.lower - Size(r) \div 20, r.upper + Size(r) \div 20)

\* setRange refuses an empty range and the range it has; scaleRange always signals.
SetRange ==
  /\ calls # <<>>
  /\ LET c == Head(calls)
         r == IF c.op = "scale" THEN Scaled(range[c.axis]) ELSE c.to
     IN IF c.op = "set" /\ (r = range[c.axis] \/ r.lower = r.upper)
        THEN calls' = Tail(calls) /\ UNCHANGED range
        ELSE /\ range' = [range EXCEPT ![c.axis] = r]
             /\ calls' = Changed(c.axis, r) \o Tail(calls)
  /\ UNCHANGED <<limit, asked>>

\* The mouse drags or zooms along x.
DragOrZoom ==
  /\ calls = <<>>
  /\ \E l, u \in -Reach..Reach :
       /\ l < u
       /\ calls' = <<Set("x", Interval(l, u))>>
       /\ asked' = u - l
  /\ UNCHANGED <<range, limit>>

NewLimits(n) == limit' = [limit EXCEPT !["x"] = Interval(0, n)]

\* The capture is drawn: both axes fit the data, then y is zoomed out a bit.
update_plot ==
  /\ calls = <<>>
  /\ \E n \in Sizes, y \in YData :
       /\ NewLimits(n)
       /\ calls' = <<Set("x", Interval(0, n - 1)), Set("y", y), Scale("y")>>
       /\ asked' = n - 1
  /\ UNCHANGED range

\* ymin and ymax are never set: both are 0.
NoLimits == Interval(0, 0)

\* After init_plot.
PlotInit ==
  /\ range = [x |-> Interval(0, 5), y |-> Interval(-56, 1176)]
  /\ limit = [x |-> Interval(0, 5), y |-> NoLimits]
  /\ calls = <<>> /\ asked = 5

PlotNext == SetRange \/ DragOrZoom \/ update_plot

PlotSpec == PlotInit /\ [][PlotNext]_plotVars /\ WF_plotVars(SetRange)

-----------------------------------------------------------------------------
(* Properties. *)

\* When no call is under way the x range lies within the limits and is as long as was
\* asked for, or as the limits (limitAxisRange, lines 181-203).
WithinLimits ==
  calls = <<>> =>
    /\ Inside(range["x"], limit["x"])
    /\ Size(range["x"]) = IF asked <= Size(limit["x"]) THEN asked ELSE Size(limit["x"])

\* The slots and the calls they make in turn come to an end.
CallsEnd == calls # <<>> ~> calls = <<>>
=============================================================================
