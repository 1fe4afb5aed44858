---------------------------- MODULE MCSelection ----------------------------
(* Selection among a few hosts, with the keys and values that matter.      *)
EXTENDS Selection

Usage(status, current, covered, console, users) ==
  [status |-> status, current |-> current, covered |-> covered, console |-> console,
   users |-> users]

MCHosts ==
  {[id |-> 1, icmp |-> "up", groups |-> {"core"}, metadata |-> {<<"room", "a">>},
    usage |-> {Usage("ok", TRUE, 2, 3, 3)}],
   [id |-> 2, icmp |-> "down", groups |-> {"core", "lab"}, metadata |-> {<<"rack", "a">>},
    usage |-> {Usage("ok", TRUE, 3, 3, 1)}],
   [id |-> 3, icmp |-> "up", groups |-> {"lab"}, metadata |-> {<<"room", "a">>, <<"rack", "a">>},
    usage |-> {Usage("ok", FALSE, 3, 3, 3)}],
   [id |-> 4, icmp |-> "unknown", groups |-> {}, metadata |-> {},
    usage |-> {Usage("error", TRUE, 3, 0, 0)}],
   [id |-> 5, icmp |-> "up", groups |-> {"core"}, metadata |-> {}, usage |-> {}]}

MCPairs ==
  {<<<<"group">>, "core">>, <<<<"group">>, "lab">>,
   <<<<"icmp", "status">>, "up">>, <<<<"icmp", "status">>, "slow">>,
   <<<<"metadata", "room">>, "a">>, <<<<"metadata", "rack">>, "a">>,
   <<<<"usage", "status">>, "ok">>,
   <<<<"usage", "inactive_console_for">>, 1>>, <<<<"usage", "inactive_console_for">>, 3>>,
   <<<<"usage", "inactive_console_for">>, 4>>, <<<<"usage", "no_users_for">>, 0>>,
   <<<<"usage", "no_users_for">>, 1>>, <<<<"usage", "no_users_for">>, 2>>,
   <<<<"icmp", "latency">>, "up">>, <<<<"disk", "status">>, "up">>, <<<<"status">>, "up">>,
   <<<<"metadata", "">>, "a">>, <<<<"metadata", "room", "a">>, "a">>}
=============================================================================
