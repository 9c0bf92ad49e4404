-------------------------------- MODULE MCSystem --------------------------------
(*****************************************************************************)
(* Values of the constants of System for TLC.                               *)
(*****************************************************************************)
EXTENDS System

\* Contents of a saved item: the second is a script to the eye, and not accepted by the next core.
SeenAs(y, s) == [yaml |-> y, js |-> s, main |-> s, exports |-> s, parses |-> ~s, runs |-> s]
LooksOf == ("a" :> SeenAs(TRUE, FALSE)) @@ ("b" :> SeenAs(TRUE, TRUE))
AcceptedBy == (0 :> {"default", "a", "b"}) @@ (1 :> {"default", "a"})

\* Items to edit: the type and the extension of one, whether it is in use, and how the core runs; its
\* content, that of the runtime configuration too.
ItemsBefore ==
  {<<"profile", "yaml", TRUE, "service", "a", "a">>, <<"script", "other", FALSE, "sidecar", "a", "a">>}

\* The profile in use and the nodes recorded of each; what the files of profiles set of the DNS.
RecordsBefore == {<<"p", ("p" :> ("g" :> "b")) @@ ("q" :> ("g" :> "a"))>>}
SourcesBefore == {("p" :> "s") @@ ("q" :> "-")}

\* Ports of the mixed and of the http listener that are asked for.
PortsAskedFor == {<<1, 2>>, <<2, 1>>, <<1, 1>>, <<2, 3>>}

\* Groups of the core; a node and a group whose names contain the separator of ids.
Group(nodes) == [all |-> nodes, hidden |-> FALSE]
GroupsOfTray == (<<"A">> :> Group({<<"hk">>, <<"us", "2">>})) @@ (<<"GLOBAL">> :> Group({<<"A">>}))
                @@ (<<"my", "group">> :> Group({<<"hk">>}))

\* What is patched: single settings, pairs whose effects have an order, and two that share one.
PatchedSettings ==
  {{"tun"}, {"proxy", "ports"}, {"language", "hotkeys"}, {"icons", "click", "light"}, {"builtin", "display"},
   {"file_size", "file_count", "level"}, {"launch", "proxy_details"}, {"language", "proxy"}}

\* Versions of the application: installed ones, and the releases in their order.
Version(n, t) == [nums |-> n, tag |-> t]
InstalledVersions == {Version(<<1, 0>>, ""), Version(<<1, 0>>, "build"), Version(<<1, 1>>, "pre")}
ReleasedVersions == <<Version(<<1, 0>>, ""), Version(<<1, 1>>, ""), Version(<<1, 1, 1>>, "")>>
==============================================================================
