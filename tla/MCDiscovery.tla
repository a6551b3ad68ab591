----------------------------- MODULE MCDiscovery -----------------------------
(* A server and its child, one that an IDE started, an IDE whose own server  *)
(* is in the project's directory, another one on the first one's port.       *)
EXTENDS Discovery

Shop == <<"home", "ann", "dev", "shop">>

Listener(pid, ppid, p, public, dir, ignored) ==
    [pid |-> pid, ppid |-> ppid, port |-> p, public |-> public, dir |-> dir,
     words |-> {}, ignored |-> ignored]

MCListeners == {
    Listener(1, 7, 3000, TRUE, Shop, FALSE),
    Listener(1, 7, 80, TRUE, Shop, FALSE),
    Listener(4, 1, 3002, FALSE, Shop, FALSE),
    Listener(7, 0, 4000, FALSE, Shop, TRUE),
    Listener(9, 0, 3000, FALSE, <<"home", "ann", "old", "shop">>, FALSE)}

Container(name, project) ==
    [name |-> name, project |-> project, service |-> "web", dir |-> Shop,
     ports |-> {80}, published |-> {}]

MCContainers == {Container(<<"shop">>, "shop"), Container(<<"tudy">>, "tudy")}
MCHostnames  == {<<"shop">>}
=============================================================================
