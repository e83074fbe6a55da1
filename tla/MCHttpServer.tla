--------------------------- MODULE MCHttpServer ---------------------------
EXTENDS HttpServer
(* Two files, one of them of more than four sectors, and one of no length. *)
MCDirectory == <<[name |-> "index.html", len |-> 5], [name |-> "empty", len |-> 0],
                 [name |-> "index.html", len |-> 1]>>
============================================================================
