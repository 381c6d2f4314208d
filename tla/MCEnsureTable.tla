--------------------------- MODULE MCEnsureTable ---------------------------
(* EnsureTable on services of two major and two minor versions. *)
EXTENDS EnsureTable, TLC

Versions == "a" :> <<1, 0>> @@ "a2" :> <<1, 0>> @@ "b" :> <<1, 1>>
            @@ "c" :> <<2, 0>>
Mixed == {"a", "b", "c"}
Same  == {"a", "a2"}
MixedMajor == [s \in Mixed |-> Versions[s][1]]
MixedMinor == [s \in Mixed |-> Versions[s][2]]
SameMajor == [s \in Same |-> Versions[s][1]]
SameMinor == [s \in Same |-> Versions[s][2]]
=============================================================================
