---------------------------- MODULE MCGovernance ----------------------------
(* Two actions, one of them destructive, a production and a development     *)
(* environment, days of three instants and weeks of three days.             *)
EXTENDS Governance

Any == [ actions |-> {}, categories |-> {}, envs |-> {}, narrow |-> FALSE,
         confidence |-> 0, criticals |-> 0, window |-> FALSE,
         effect |-> "require_approval", needs |-> 0 ]

Auto == [Any EXCEPT !.effect = "auto_execute", !.actions = {"resize"}]

TwoPeople  == [Any EXCEPT !.needs = 2]
Off        == [Any EXCEPT !.effect = "prohibit", !.envs = {"production"}, !.narrow = TRUE]
WindowAuto == [Auto EXCEPT !.window = TRUE, !.confidence = 2, !.criticals = 1]
DevAuto    == [Auto EXCEPT !.envs = {"development"}]
WasteAuto  == [Auto EXCEPT !.actions = {}, !.categories = {"waste"}, !.confidence = 2]
AnyAuto    == [Auto EXCEPT !.confidence = 1]

\* One rule, or a rule and a second one; the last two are refused by Policy.Validate.
MCDrafts ==
  { [rules |-> << r >>, default |-> "require_approval"] : r \in { DevAuto, WasteAuto } }
  \cup { [rules |-> << r, s >>, default |-> "advisory_only"] :
            r \in { WindowAuto }, s \in { TwoPeople, Off, DevAuto } }
  \cup { [rules |-> << TwoPeople, Off >>, default |-> "prohibit"],
         [rules |-> << AnyAuto >>, default |-> "require_approval"],
         [rules |-> << Off >>, default |-> "auto_execute"] }

MCRecommendations ==
  { r \in [ action : {"resize", "delete"}, category : {"waste", "rightsizing"},
            env : {"production", "development"}, listed : BOOLEAN, confidence : 1 .. 2,
            criticals : {0, 2}, raises : BOOLEAN, excluded : BOOLEAN ] :
      /\ r.excluded => ~r.raises /\ r.confidence = 2 /\ r.criticals = 0
      /\ r.criticals = 2 => r.action = "resize" /\ ~r.raises
      /\ r.action = "delete" <=> r.category = "waste"
      /\ r.listed => ~r.raises }

\* Across midnight and across the week's end, limited to production, and longer than a
\* day.
MCWindows ==
  { [start |-> 2, length |-> 2, days |-> {2}, envs |-> {}],
    [start |-> 0, length |-> 1, days |-> {1}, envs |-> {"production"}],
    [start |-> 1, length |-> 4, days |-> {0}, envs |-> {"development"}] }

MCFreezes == { [from |-> 1, to |-> 1] }
===============================================================================
