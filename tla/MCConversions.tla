--------------------------- MODULE MCConversions ---------------------------
(* Two values of a kind where kinds differ; strings that read like values of *)
(* every other type.                                                         *)
EXTENDS Conversions

BytesText == [b |-> "Yg==", c |-> "true", u |-> "AAAA"]
MCValues ==
    [boolean |-> {"true", "false"},
     integer |-> {"1"},
     double  |-> {"1", "1.5", "NaN", "Infinity", "-Infinity"},
     binary  |-> {"b", "c"},
     string  |-> {"s", "1", "NaN", "true", "Yg==", "u"},
     uuid    |-> {"u"}]

\* Doubles in the order of OrderedFloat, which has one zero.
MCRank ==
    [x \in MCValues.double \cup {"-0", "0"} |->
        CASE x = "-Infinity" -> 0 [] x \in {"-0", "0"} -> 1 [] x = "1" -> 2
          [] x = "1.5" -> 3 [] x = "Infinity" -> 4 [] x = "NaN" -> 5]
=============================================================================
