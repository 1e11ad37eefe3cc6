---------------------------- MODULE MCLivePipeline ----------------------------
(* Instances of LivePipeline: two or three small sources, one pack.        *)
EXTENDS LivePipeline, TLC

CONSTANTS status, kev, weather, e1, e2, e3, e4, pack1

\* A strong source and a weak one of another group, one event each.
TwoFeeds == e1 :> status @@ e2 :> kev
TwoGroups == status :> "vendor" @@ kev :> "government"
StrongAndWeak == status :> "strong" @@ kev :> "weak"
BothMatch == pack1 :> {e1, e2}

\* Three weak sources, two of them of one group; one lists a second event that
\* matches nothing of the pack.
ThreeFeeds == TwoFeeds @@ e3 :> weather
SharedGroup == TwoGroups @@ weather :> "vendor"
AllWeak == [c \in {status, kev, weather} |-> "weak"]
AllMatch == pack1 :> {e1, e2, e3}

\* The coroutines of a run without liveness are interchangeable.
AnyPoll == Permutations(Polls)

\* One source that lists one event.
LoneFeed == e1 :> status
LoneMatch == pack1 :> {e1}
OneGroup == status :> "vendor"
OneStrong == status :> "strong"
=============================================================================
