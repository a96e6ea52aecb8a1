----------------------------- MODULE MCOssBatch -----------------------------
(* Two batch waves that run an archive project, and a comparison of a git   *)
(* project and that one.                                                    *)
EXTENDS OssBatch

MCShards == <<{1}, {2}, {3}>>
MCTasks == <<<< <<"zlib", "asan">> >>, << <<"zlib", "asan">> >>,
             << <<"jq", "asanmm">>, <<"zlib", "asanmm">> >>>>
=============================================================================
