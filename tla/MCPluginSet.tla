----------------------------- MODULE MCPluginSet -----------------------------
(* Two plugins of the repository, each loaded twice, beside two of third   *)
(* parties: rival uses two names of dummy, in the opposite order, and a    *)
(* name that is not well-formed; old has a class of another version.  The  *)
(* plugins that are not loaded use no name of another.                     *)
EXTENDS PluginSet

MCPlugins == {"dummy", "empty", "websocket", "cms", "gstreamer", "rival", "old"}
MCLoads == {"dummy", "dummyAgain", "websocket", "websocketAgain", "rival", "old"}
MCPluginOf ==
  [l \in MCLoads |->
     CASE l = "dummyAgain" -> "dummy" [] l = "websocketAgain" -> "websocket" [] OTHER -> l]

Rival == <<Class("dummyOutput"), Class("dummyDiscoverer"), Class("not a name")>>
Old == <<[name |-> "oldOutput", major |-> 2]>>
MCClasses ==
  [dummy |-> dummy, empty |-> empty, websocket |-> websocket, cms |-> cms,
   gstreamer |-> gstreamer, rival |-> Rival, old |-> Old]

MCNames == UNION {{MCClasses[p][i].name : i \in 1 .. Len(MCClasses[p])} : p \in MCPlugins}
MCWellFormedNames == MCNames \ {"not a name"}
=============================================================================
