-------------------------- MODULE MCServiceMatching -------------------------
(* Two projects called shop, an agent in the home directory, a server with   *)
(* several ports, one of its children, an IDE, and a port number used twice. *)
EXTENDS ServiceMatching

Home == <<"home", "ann">>
Shop == Home \o <<"dev", "shop">>
Old  == Home \o <<"old", "shop">>

Listener(pid, ppid, p, public, dir, words) ==
    [pid |-> pid, ppid |-> ppid, port |-> p, public |-> public, dir |-> dir,
     words |-> words, ignored |-> FALSE]

Server == Listener(1, 0, 3000, TRUE, Shop, {"web"})
Ide    == [Listener(7, 0, 1000, FALSE, Shop, {"api"}) EXCEPT !.ignored = TRUE]

MCListeners == {
    Server,
    [Server EXCEPT !.port = 2999, !.public = FALSE],
    [Server EXCEPT !.port = 3001],
    Listener(2, 7, 4000, FALSE, Shop, {"api"}),
    Listener(3, 0, 5000, FALSE, Shop \o <<"api">>, {"node"}),
    Listener(4, 1, 3002, FALSE, Shop \o <<"web">>, {"vite"}),
    Listener(5, 0, 2000, TRUE, Home, {"agent"}),
    Listener(6, 0, 6000, FALSE, Old \o <<"api">>, {"node"}),
    Listener(8, 0, 2500, FALSE, Home \o <<"dev">>, {"make"}),
    Listener(9, 0, 3000, FALSE, Old, {"node"}),
    Ide}

Container(name, project, service_, dir, ports, published) ==
    [name |-> name, project |-> project, service |-> service_, dir |-> dir,
     ports |-> ports, published |-> published]

MCContainers == {
    Container(<<"shop">>, "shop", "web", Shop, {80}, {}),
    Container(<<"api", "shop">>, "shop", "api", Shop, {80, 443}, {80}),
    Container(<<"old-db">>, "old", "api", Old, {5432, 5433}, {})}

MCHostnames == {<<"shop">>, <<"api", "shop">>, <<"ann">>}
MCServices  == {"api", "web"}
=============================================================================
