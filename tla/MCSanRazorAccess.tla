-------------------------- MODULE MCSanRazorAccess --------------------------
(* Two files of one benchmark and level, a third of another, and a          *)
(* benchmark that has no bitcode.                                           *)
EXTENDS SanRazorAccess

Block(fn, label, lines) == [fn |-> fn, label |-> label, lines |-> lines]
Branch(to) == [op |-> "br", to |-> to]
Call(callee, kind) == [op |-> "call", callee |-> callee, kind |-> kind]

\* Two checks of one function.
OneFunction ==
    <<Block(1, "entry", <<Branch("handler1")>>), Block(1, "handler1", <<Call("type_mismatch_v1", 0)>>),
      Block(1, "cont", <<Branch("handler2")>>), Block(1, "handler2", <<Call("type_mismatch_v1", 1)>>)>>

\* Two functions, whose blocks have the same names as they do in clang's IR.
SameNames ==
    <<Block(1, "entry", <<Branch("handler1")>>), Block(1, "handler1", <<Call("type_mismatch_v1", 0)>>),
      Block(2, "entry", << >>), Block(2, "handler1", <<Call("add_overflow", Missing)>>)>>

\* The first block of the second function has no name.
NoName ==
    <<Block(1, "entry", << >>), Block(2, Missing, <<Branch("5")>>), Block(2, "5", <<Call("add_overflow", Missing)>>)>>

MCBitcode ==
    {[level |-> "L0", benchmark |-> 401, name |-> "a", ir |-> OneFunction],
     [level |-> "L0", benchmark |-> 401, name |-> "b", ir |-> SameNames],
     [level |-> "L1", benchmark |-> 429, name |-> "c", ir |-> NoName]}

MCLevels == <<"L0", "L1">>

MCSummaries ==
    [L0 |-> {[x \in {401} |-> [original |-> 5, removed |-> 4]],
             [x \in {401, 429} |-> [original |-> 1, removed |-> 1]]},
     L1 |-> {[x \in {401, 429} |-> [original |-> 5, removed |-> 3]]}]

=============================================================================
