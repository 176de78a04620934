----------------------------- MODULE MCDelivery -----------------------------
(***************************************************************************)
(* A model-checking instance of Delivery: a critical event every channel   *)
(* admits and another that one admits, two workers, two consumers and, on  *)
(* the queue, a message with the first event and one that cannot be read.  *)
(***************************************************************************)
EXTENDS Delivery, TLC

CONSTANTS e1, e2, c1, c2, p1, p2, m1, m2

MCWants    == << { e1, e2 }, { e2 } >>
MCEventOf  == (m1 :> e1) @@ (m2 :> e2)
MCSubject  == (e1 :> "s1") @@ (e2 :> "s2")
MCChannels == << c1, c2 >>
MCBacklog  == << [event |-> e1, channel |-> c1], [event |-> e1, channel |-> c2],
                [event |-> e2, channel |-> c1] >>
MCAdmits   == (c1 :> { e1, e2 }) @@ (c2 :> { e1 })
==============================================================================
