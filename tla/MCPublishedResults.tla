------------------------- MODULE MCPublishedResults -------------------------
(* A project with three sanitizers and an excluded one.                     *)
EXTENDS PublishedResults

Path(stem, suite, benchmark, sanitizer) ==
    [stem |-> stem, suite |-> suite, benchmark |-> benchmark, sanitizer |-> sanitizer]

MCPaths ==
    <<Path("pigz", "OpenSource", "pigz", "asan"),
      Path("zlib", "OpenSource", "zlib", "asan"),
      Path("zlib", "OpenSource", "zlib", "msan"),
      Path("zlib", "OpenSource", "zlib", "ubsan")>>

RanFor(t) == [time |-> t, status |-> "S"]

\* Faster, slower, faster under a sanitizer that saved time, without checks,
\* and a program that did not run.
MCOutcomes ==
    {[native |-> RanFor(1), before |-> RanFor(3), after |-> RanFor(2), original |-> 5],
     [native |-> RanFor(1), before |-> RanFor(2), after |-> RanFor(3), original |-> 5],
     [native |-> RanFor(3), before |-> RanFor(2), after |-> RanFor(1), original |-> 5],
     [native |-> RanFor(1), before |-> RanFor(3), after |-> RanFor(2), original |-> 0],
     [native |-> RanFor(1), before |-> RanFor(2), after |-> NotRun, original |-> 5]}

=============================================================================
