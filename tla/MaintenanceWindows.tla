------------------------- MODULE MaintenanceWindows -------------------------
(***************************************************************************)
(* When a change may be made: the tenant's weekly maintenance windows and   *)
(* its dated change freezes (internal/application/governance/maintenance.go).*)
(* Time is counted in instants, DayLength of them to a day and Week days to *)
(* a week; a window opens at an instant of the day, on some days of the     *)
(* week, for a number of instants.  A window or a freeze the code cannot    *)
(* parse is skipped there and absent here.                                  *)
(***************************************************************************)
EXTENDS Integers

CONSTANTS
  DayLength,    \* instants in a day
  Week,         \* days in a week
  Environments  \* environments a window may be limited to

ASSUME CalendarAssumption == DayLength \in Nat \ {0} /\ Week \in Nat \ {0}

Window == [ start  : 0 .. DayLength - 1,
            length : Nat,
            days   : SUBSET (0 .. Week - 1),
            envs   : SUBSET Environments ]

Freeze == [from : Nat, to : Nat]  \* the first and the last day

DayOf(t)       == t \div DayLength
Opens(w, day)  == day * DayLength + w.start

\* windowAppliesToEnvironment, windowAppliesToDay: an empty list is every one.
AppliesTo(w, env)  == w.envs = {} \/ env \in w.envs
AppliesOn(w, day)  == w.days = {} \/ day % Week \in w.days

\* (mutant) only a window that opened today is looked at.
InWindowToday(w, t) ==
  /\ AppliesOn(w, DayOf(t))
  /\ Opens(w, DayOf(t)) <= t /\ t < Opens(w, DayOf(t)) + w.length

\* The instant's own day and the day before it are tried as the day of opening.
InWindow(w, t) ==
  \E day \in { DayOf(t), DayOf(t) - 1 } :
    /\ AppliesOn(w, day)
    /\ Opens(w, day) <= t /\ t < Opens(w, day) + w.length

InMaintenanceWindow(windows, env, t) ==
  \E w \in windows : AppliesTo(w, env) /\ InWindow(w, t)

\* The last day of a freeze counts to its end.
InChangeFreeze(freezes, t) ==
  \E f \in freezes : f.from * DayLength <= t /\ t < (f.to + 1) * DayLength

-------------------------------------------------------------------------------
\* What a declared window means, with no calendar days to try: it opened at one of
\* the last w.length instants.
Covers(w, t) ==
  \E s \in (t - w.length + 1) .. t :
    s % DayLength = w.start /\ AppliesOn(w, DayOf(s))

===============================================================================
