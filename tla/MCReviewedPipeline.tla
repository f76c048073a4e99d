------------------------- MODULE MCReviewedPipeline -------------------------
(* Two artifacts, two topics, two levels: a path may suit a learner, lie   *)
(* above the learner's level, or hang on prerequisites nobody knows.       *)
EXTENDS ReviewedPipeline

MCSuits == {<<"loops", "basic">>, <<"loops", "advanced">>, <<"files", "advanced">>,
            <<"gap", "basic">>, <<"gap", "advanced">>}
MCPacks == {{"loops", "gap"}, {"loops", "files"}}
MCDangling == {"gap"}
=============================================================================
