------------------------------ MODULE MCRouter ------------------------------
(***************************************************************************)
(* Instances of module Router for TLC.  A URI is a sequence of characters; *)
(* the slashes are left out.                                               *)
(***************************************************************************)
EXTENDS Router

CONSTANTS t1, t2

TwoThreads == {t1, t2}

Loc(b, u) == [block |-> b, uri |-> u]

(* Nested prefixes, one URI registered twice, a name that select_handler   *)
(* does not know, a block without a location, and no block at all.         *)
SomeConfigs ==
  {[blocks |-> <<"status", "static1", "proxy">>,
    locs   |-> <<Loc(1, <<"a">>), Loc(2, <<"a", "b">>), Loc(3, <<"a">>)>>],
   [blocks |-> <<"proxy", "other", "status">>,
    locs   |-> <<Loc(1, <<"a">>), Loc(1, <<"b">>), Loc(2, <<"a", "b">>)>>],
   [blocks |-> << >>, locs |-> << >>]}

SomeUris == {<<"a">>, <<"a", "b">>, <<"a", "c">>, <<"c">>}

(* One handler name in two blocks, with different locations.               *)
TwoBlocks ==
  {[blocks |-> <<"static1", "static1">>,
    locs   |-> <<Loc(1, <<"a">>), Loc(2, <<"b">>)>>]}

TwoUris == {<<"a">>, <<"b">>}

=============================================================================
