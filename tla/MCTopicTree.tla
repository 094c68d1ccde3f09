---------------------------- MODULE MCTopicTree ----------------------------
(* An instance of TopicTree that TLC checks: 1 is a name with '$'.         *)
EXTENDS TopicTree

MCFilters == {<<2, 3>>, <<Plus, 2>>, <<2, Plus>>, <<Plus, 2, Plus>>,
              <<2, Hash>>, <<1, Hash>>, <<1, Hash, 2>>, <<3, Adjacent>>}
MCWills == {<<2, 3>>}
=============================================================================
